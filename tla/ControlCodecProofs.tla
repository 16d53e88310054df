------------------------- MODULE ControlCodecProofs -------------------------
(* Proofs about ControlCodec for any number of devices, controls, pieces,   *)
(* links that break and time that passes: acknowledgements are true, and    *)
(* controls take effect once while either memory can know.                  *)
EXTENDS ControlCodec, FiniteSetTheorems, SequenceTheorems, TLAPS

-----------------------------------------------------------------------------
(* Whatever travels is true already: a piece belongs to a control that its  *)
(* sender has sent to the device it goes to, and an acknowledgement comes   *)
(* from the device the control was for, whose core has been handed it.      *)
Forms ==
  [kind : {"data", "ack"}, from : Peer, id : Id, index : Nat, total : Nat, till : Int]

Meant(q, k) ==
  \E c \in sent :
    /\ c.id = k.id
    /\ \/ /\ k.kind = "data" /\ c.from = k.from /\ c.to = q
          /\ k.total = Packets[k.id] /\ k.index \in 1..Packets[k.id]
       \/ /\ k.kind = "ack" /\ c.from = q /\ c.to = k.from
          /\ k.total = 1 /\ k.index = 1
          /\ k.id \in ToSet(received[k.from])

PacketsTo(q) == {k \in Forms : Meant(q, k)}
Inbound(q) == PacketsTo(q) \cup {End}
Letters == {l \in [to : Peer, packet : Forms] : Meant(l.to, l.packet)}

Wires == [Link -> [Peer -> Seq(Forms \cup {End})]]

Sendings ==
  /\ sent \subseteq [id : Id, from : Peer, to : Peer]
  /\ \A c \in sent : c.from # c.to
  /\ \A c, d \in sent : c.id = d.id => c = d

Travels ==
  /\ outbox \in [Peer -> Seq(Letters)]
  /\ wire \in Wires
  /\ \A l \in Link, q \in Peer : wire[l][q] \in Seq(Inbound(q))

Assembles ==
  /\ assemblies \in [Peer -> SUBSET [from : Peer, id : Id, since : Int, pieces : SUBSET Nat]]
  /\ \A p \in Peer : \A a \in assemblies[p] :
       /\ a.pieces \subseteq 1..Packets[a.id]
       /\ \E c \in sent : c.id = a.id /\ c.from = a.from /\ c.to = p
  /\ \A p \in Peer : \A a, b \in assemblies[p] : a.from = b.from /\ a.id = b.id => a = b

Basics ==
  /\ now \in 0..MaxFaults /\ skew \in [Peer -> Nat]
  /\ past \in [breaks : Nat, disturbed : SUBSET Id]
  /\ up \subseteq Link /\ ready \in [Peer -> SUBSET Link]
  /\ \A p \in Peer : ready[p] \subseteq LinksOf(p)
  /\ pending \in [Peer -> SUBSET Id] /\ confirmed \in [Peer -> SUBSET Id]
  /\ \A p \in Peer : pending[p] \cup confirmed[p] \subseteq {c.id : c \in sent}

(* What a codec remembers are the last controls it handed over: all of      *)
(* them, or as many as are left when it forgets some.                       *)
Window(order, history) ==
  /\ IsInjective(order)
  /\ Len(order) <= Capacity /\ Len(order) <= Len(history)
  /\ Len(order) = Len(history) \/ Len(order) >= Capacity + 1 - Batch
  /\ \A i \in 1..Len(order) : order[i] = history[Len(history) - Len(order) + i]

Apart(history) ==
  \A i, j \in DOMAIN history :
    i < j /\ history[i] = history[j] => j - i > Capacity + 1 - Batch

(* What a core remembers is all it has acted on, until that is too much.    *)
Knows(ids, history) ==
  /\ ids \subseteq ToSet(history) /\ IsFiniteSet(ToSet(history))
  /\ Cardinality(ids) <= Memory
  /\ Cardinality(ToSet(history)) <= Memory => ids = ToSet(history) /\ IsInjective(history)

Memories ==
  /\ seen \in [Peer -> Seq(Id)] /\ received \in [Peer -> Seq(Id)]
  /\ processed \in [Peer -> SUBSET Id] /\ acted \in [Peer -> Seq(Id)]
  /\ \A p \in Peer : /\ Window(seen[p], received[p]) /\ Apart(received[p])
                      /\ Knows(processed[p], acted[p])

Inv == Sendings /\ Travels /\ Assembles /\ Basics /\ Memories /\ ConfirmedWasReceived

(* What stays true as more is sent and received.                            *)
Grows ==
  /\ sent \subseteq sent'
  /\ \A p \in Peer : ToSet(received[p]) \subseteq ToSet(received'[p])

-----------------------------------------------------------------------------
(* Sequences and sets of numbers.                                           *)
LEMMA AppendToSet ==
  ASSUME NEW S, NEW s \in Seq(S), NEW e \in S
  PROVE  /\ ToSet(Append(s, e)) = ToSet(s) \cup {e}
         /\ IsInjective(Append(s, e)) <=> IsInjective(s) /\ ~Contains(s, e)
<1>1. /\ DOMAIN s = 1..Len(s) /\ DOMAIN Append(s, e) = 1..(Len(s) + 1) /\ Len(s) \in Nat
      /\ \A i \in 1..Len(s) : Append(s, e)[i] = s[i]
      /\ Append(s, e)[Len(s) + 1] = e
  BY AppendProperties, LenProperties
<1>2. ToSet(Append(s, e)) = ToSet(s) \cup {e}
  BY <1>1 DEF ToSet
<1>3. IsInjective(Append(s, e)) <=> IsInjective(s) /\ ~Contains(s, e)
  BY <1>1 DEF IsInjective, Contains
<1>4. QED
  BY <1>2, <1>3

LEMMA ContainsToSet ==
  ASSUME NEW S, NEW s \in Seq(S), NEW e
  PROVE  Contains(s, e) <=> e \in ToSet(s)
BY LenProperties DEF Contains, ToSet

LEMMA SmallestInSet ==
  ASSUME NEW S \in SUBSET Nat, S # {}
  PROVE  Min(S) \in S
<1>1. PICK m \in S : \A n \in S : ~(<<n, m>> \in OpToRel(<, Nat))
  BY NatLessThanWellFounded, WFMin, Zenon
<1>2. \A n \in S : m <= n
  <2>1. TAKE n \in S
  <2>2. <<n, m>> \in Nat \X Nat
    OBVIOUS
  <2>3. ~(n < m)
    BY <1>1, <2>2 DEF OpToRel
  <2>4. QED
    BY <2>3
<1>3. QED
  BY <1>2 DEF Min

(* Letters for one device.                                                  *)
LEMMA Addressing ==
  ASSUME NEW L, NEW q, NEW n \in Nat, NEW packets, DOMAIN packets = 1..n,
         \A i \in 1..n : [to |-> q, packet |-> packets[i]] \in L
  PROVE  To(q, packets) \in Seq(L)
<1>1. To(q, packets) \in [1..n -> L]
  BY DEF To
<1>2. QED
  BY <1>1, SeqDef

(* The codec's memory: a control is handed over when it is not among those  *)
(* remembered, which are the last ones.                                     *)
LEMMA Remembering ==
  ASSUME NEW order \in Seq(Id), NEW history \in Seq(Id), NEW id \in Id,
         Window(order, history), Apart(history), ~Contains(order, id)
  PROVE  /\ Remembered(order, id) \in Seq(Id)
         /\ Window(Remembered(order, id), Append(history, id))
         /\ Apart(Append(history, id))
<1> DEFINE m == Len(order)
           n == Len(history)
           longer == Append(order, id)
           after == Append(history, id)
<1>1. /\ m \in Nat /\ n \in Nat /\ m <= n /\ m <= Capacity
      /\ m = n \/ m >= Capacity + 1 - Batch
      /\ Capacity \in Nat /\ Batch \in Nat /\ 1 <= Batch /\ Batch <= Capacity
  BY ConstantsAssumption, LenProperties DEF Window
<1>2. /\ longer \in Seq(Id) /\ Len(longer) = m + 1 /\ longer[m + 1] = id
      /\ \A i \in 1..m : longer[i] = order[i]
      /\ after \in Seq(Id) /\ Len(after) = n + 1 /\ after[n + 1] = id
      /\ \A i \in 1..n : after[i] = history[i]
  BY AppendProperties
<1>3. \A i \in 1..m : order[i] = history[n - m + i]
  BY DEF Window
<1>4. IsInjective(longer)
  BY AppendToSet DEF Window
<1>10. DOMAIN history = 1..n /\ DOMAIN after = 1..(n + 1)
  BY <1>2, LenProperties
<1> HIDE DEF longer, after, m, n
<1>5. \A i \in 1..(m + 1) : longer[i] = after[(n + 1) - (m + 1) + i]
  <2>1. TAKE i \in 1..(m + 1)
  <2>2. CASE i = m + 1
    <3>1. (n + 1) - (m + 1) + i = n + 1
      BY <1>1, <2>2
    <3>2. QED
      BY <1>2, <2>2, <3>1
  <2>3. CASE i \in 1..m
    <3>1. (n + 1) - (m + 1) + i = n - m + i /\ n - m + i \in 1..n
      BY <1>1, <2>3
    <3>2. QED
      BY <1>2, <1>3, <2>3, <3>1
  <2>4. QED
    BY <1>1, <2>2, <2>3
<1>6. Apart(after)
  <2>1. SUFFICES ASSUME NEW i \in 1..(n + 1), NEW j \in 1..(n + 1), i < j, after[i] = after[j]
                 PROVE  j - i > Capacity + 1 - Batch
    BY <1>10 DEF Apart
  <2>2. CASE j <= n
    <3>1. i \in 1..n /\ j \in 1..n
      BY <1>1, <2>1, <2>2
    <3>2. i \in DOMAIN history /\ j \in DOMAIN history /\ history[i] = history[j]
      BY <1>2, <1>10, <2>1, <3>1
    <3>3. QED
      BY <2>1, <3>2 DEF Apart
  <2>3. CASE j = n + 1
    <3>1. i \in 1..n /\ history[i] = id
      BY <1>1, <1>2, <2>1, <2>3
    <3>2. i <= n - m
      <4>1. SUFFICES ASSUME i > n - m
                     PROVE  FALSE
        BY <1>1, <3>1
      <4>2. i - (n - m) \in 1..m /\ n - m + (i - (n - m)) = i
        BY <1>1, <3>1, <4>1
      <4>3. order[i - (n - m)] = id
        BY <1>3, <3>1, <4>2
      <4>4. QED
        BY <4>2, <4>3 DEF Contains, m
    <3>3. QED
      BY <1>1, <2>3, <3>1, <3>2
  <2>4. QED
    BY <1>1, <2>2, <2>3
<1>7. CASE m + 1 <= Capacity
  <2>1. Remembered(order, id) = longer
    BY <1>7 DEF Remembered, longer, m
  <2>2. Window(longer, after)
    BY <1>1, <1>2, <1>4, <1>5, <1>7 DEF Window
  <2>3. QED
    BY <1>2, <1>6, <2>1, <2>2 DEF after
<1>8. CASE ~(m + 1 <= Capacity)
  <2> DEFINE rest == SubSeq(longer, Batch + 1, m + 1)
  <2>1. Remembered(order, id) = rest
    BY <1>8 DEF Remembered, longer, m
  <2>2. m = Capacity
    BY <1>1, <1>8
  <2>3. /\ rest \in Seq(Id) /\ Len(rest) = m + 1 - Batch
        /\ \A i \in 1..(m + 1 - Batch) : rest[i] = longer[Batch + i]
    <3>1. \A i \in (Batch + 1)..(m + 1) : longer[i] \in Id
      BY <1>1, <1>2, ElementOfSeq
    <3>2. Batch + 1 \in Int /\ m + 1 \in Int /\ Batch + 1 <= m + 1
      BY <1>1, <2>2
    <3>3. /\ rest \in Seq(Id) /\ Len(rest) = (m + 1) - (Batch + 1) + 1
          /\ \A i \in 1..((m + 1) - (Batch + 1) + 1) : rest[i] = longer[(Batch + 1) + i - 1]
      BY <3>1, <3>2, SubSeqProperties
    <3>4. (m + 1) - (Batch + 1) + 1 = m + 1 - Batch
      BY <1>1
    <3>5. \A i \in 1..(m + 1 - Batch) : (Batch + 1) + i - 1 = Batch + i
      BY <1>1
    <3> HIDE DEF rest
    <3>6. QED
      BY <3>3, <3>4, <3>5
  <2> HIDE DEF rest
  <2>4. \A i \in 1..Len(rest) : rest[i] = after[Len(after) - Len(rest) + i]
    <3>1. SUFFICES ASSUME NEW i \in 1..(m + 1 - Batch)
                   PROVE  rest[i] = after[(n + 1) - (m + 1 - Batch) + i]
      BY <1>2, <2>3
    <3>2. Batch + i \in 1..(m + 1) /\ (n + 1) - (m + 1) + (Batch + i) = (n + 1) - (m + 1 - Batch) + i
      BY <1>1
    <3>3. QED
      BY <1>5, <2>3, <3>2
  <2>5. IsInjective(rest)
    <3>1. DOMAIN rest = 1..(m + 1 - Batch) /\ DOMAIN longer = 1..(m + 1)
      BY <1>2, <2>3, LenProperties
    <3>2. SUFFICES ASSUME NEW i \in 1..(m + 1 - Batch), NEW j \in 1..(m + 1 - Batch), rest[i] = rest[j]
                   PROVE  i = j
      BY <3>1 DEF IsInjective
    <3>3. Batch + i \in 1..(m + 1) /\ Batch + j \in 1..(m + 1)
      BY <1>1
    <3>4. Batch + i = Batch + j
      BY <1>4, <2>3, <3>1, <3>2, <3>3 DEF IsInjective
    <3>5. QED
      BY <1>1, <3>4
  <2>6. Window(rest, after)
    BY <1>1, <1>2, <2>2, <2>3, <2>4, <2>5 DEF Window
  <2>7. QED
    BY <1>6, <2>1, <2>3, <2>6 DEF after
<1>9. QED
  BY <1>7, <1>8

(* The core's memory: it forgets only when it has acted on more controls    *)
(* than it remembers.                                                       *)
LEMMA Acting ==
  ASSUME NEW ids \in SUBSET Id, NEW history \in Seq(Id), NEW id \in Id,
         Knows(ids, history), id \notin ids
  PROVE  /\ Processed(ids, id) \in SUBSET Id
         /\ Knows(Processed(ids, id), Append(history, id))
<1> DEFINE all == ids \cup {id}
           done == ToSet(history)
           after == Append(history, id)
<1>1. /\ ids \subseteq done /\ IsFiniteSet(done) /\ IsFiniteSet(ids) /\ Cardinality(ids) <= Memory
      /\ Memory \in Nat /\ Cardinality(ids) \in Nat
  BY ConstantsAssumption, FS_Subset, FS_CardinalityType DEF Knows
<1>2. IsFiniteSet(all) /\ Cardinality(all) = Cardinality(ids) + 1
  BY <1>1, FS_AddElement
<1>3. ToSet(after) = done \cup {id} /\ IsFiniteSet(done \cup {id})
  BY <1>1, AppendToSet, FS_AddElement
<1>4. all \subseteq ToSet(after) /\ all \in SUBSET Id
  BY <1>1, <1>3
<1>5. CASE Cardinality(all) <= Memory
  <2>1. Processed(ids, id) = all
    BY <1>1, <1>2, <1>5 DEF Processed
  <2>2. ASSUME Cardinality(ToSet(after)) <= Memory
        PROVE  all = ToSet(after) /\ IsInjective(after)
    <3>1. Cardinality(done) <= Cardinality(ToSet(after))
      BY <1>3, FS_Subset
    <3>2. Cardinality(done) <= Memory
      BY <1>1, <1>3, <2>2, <3>1, FS_CardinalityType
    <3>3. ids = done /\ IsInjective(history)
      BY <3>2 DEF Knows
    <3>4. ~Contains(history, id)
      BY <3>3, ContainsToSet
    <3>5. QED
      BY <1>3, <3>3, <3>4, AppendToSet
  <2> HIDE DEF all, after, done
  <2>3. QED
    BY <1>3, <1>4, <1>5, <2>1, <2>2 DEF Knows, after
<1>6. CASE ~(Cardinality(all) <= Memory)
  <2>1. Cardinality(all) > Memory
    BY <1>1, <1>2, <1>6
  <2>2. Processed(ids, id) = all \ {Min(all)}
    BY <2>1 DEF Processed
  <2>3. Min(all) \in all
    BY <1>4, ConstantsAssumption, SmallestInSet
  <2>4. Cardinality(all \ {Min(all)}) = Cardinality(all) - 1
    BY <1>2, <2>3, FS_RemoveElement
  <2>5. Cardinality(all \ {Min(all)}) <= Memory
    BY <1>1, <1>2, <2>4
  <2>6. ~(Cardinality(ToSet(after)) <= Memory)
    <3>1. Cardinality(all) <= Cardinality(ToSet(after)) /\ Cardinality(ToSet(after)) \in Nat
      BY <1>3, <1>4, FS_Subset, FS_CardinalityType
    <3>2. QED
      BY <1>1, <1>2, <2>1, <3>1
  <2> HIDE DEF all, after, done
  <2>7. QED
    BY <1>3, <1>4, <2>2, <2>5, <2>6 DEF Knows, after
<1>7. QED
  BY <1>5, <1>6

-----------------------------------------------------------------------------
(* What has been said of a packet stays true.                               *)
LEMMA Growing ==
  ASSUME Grows
  PROVE  /\ Letters \subseteq Letters'
         /\ \A q : PacketsTo(q) \subseteq PacketsTo(q)' /\ Inbound(q) \subseteq Inbound(q)'
<1>1. ASSUME NEW q, NEW k \in Forms, Meant(q, k)
      PROVE  Meant(q, k)'
  <2>1. k.from \in Peer
    BY DEF Forms
  <2>2. QED
    BY <1>1, <2>1 DEF Meant, Grows
<1>2. \A q : PacketsTo(q) \subseteq PacketsTo(q)'
  BY <1>1 DEF PacketsTo
<1>3. \A q : Inbound(q) \subseteq Inbound(q)'
  BY <1>2 DEF Inbound
<1>4. Letters \subseteq Letters'
  BY <1>1 DEF Letters
<1>5. QED
  BY <1>2, <1>3, <1>4

LEMMA Same ==
  ASSUME UNCHANGED <<sent, received>>
  PROVE  Grows
BY DEF Grows

(* What leaves a queue of packets or is added to it.                        *)
LEMMA TravelsOn ==
  ASSUME Grows,
         outbox' \in [Peer -> Seq(Letters')],
         wire' \in Wires,
         \A l \in Link, q \in Peer : wire'[l][q] \in Seq(Inbound(q)) \cup Seq(Inbound(q)')
  PROVE  Travels'
<1>1. \A q : Seq(Inbound(q)) \subseteq Seq(Inbound(q)')
  BY Growing
<1>2. QED
  BY <1>1 DEF Travels

LEMMA OutboxKept ==
  ASSUME Travels, Grows, UNCHANGED outbox
  PROVE  outbox' \in [Peer -> Seq(Letters')]
BY Growing DEF Travels

LEMMA OutboxLonger ==
  ASSUME Travels, Grows, NEW p \in Peer, NEW letters \in Seq(Letters'),
         outbox' = [outbox EXCEPT ![p] = @ \o letters]
  PROVE  outbox' \in [Peer -> Seq(Letters')]
<1>1. outbox \in [Peer -> Seq(Letters')]
  BY Growing DEF Travels
<1>2. outbox[p] \o letters \in Seq(Letters')
  BY <1>1, ConcatProperties
<1>3. QED
  BY <1>1, <1>2

LEMMA WiresKept ==
  ASSUME Travels, UNCHANGED wire
  PROVE  /\ wire' \in Wires
         /\ \A l \in Link, q \in Peer : wire'[l][q] \in Seq(Inbound(q))
BY DEF Travels

LEMMA WireChanged ==
  ASSUME Travels, NEW l \in Link, NEW q \in Peer, NEW s \in Seq(Inbound(q)),
         wire' = [wire EXCEPT ![l][q] = s]
  PROVE  /\ wire' \in Wires
         /\ \A k \in Link, m \in Peer : wire'[k][m] \in Seq(Inbound(m))
<1>1. s \in Seq(Forms \cup {End})
  BY DEF Inbound, PacketsTo
<1>2. /\ wire' \in Wires
      /\ \A k \in Link, m \in Peer :
           wire'[k][m] = IF k = l /\ m = q THEN s ELSE wire[k][m]
  BY <1>1 DEF Travels, Wires
<1>3. QED
  BY <1>2 DEF Travels

(* A packet that arrives was meant for the device.                          *)
LEMMA Arriving ==
  ASSUME Travels, NEW p \in Peer, NEW l \in Link, Arrives(p, l)
  PROVE  /\ Head(wire[l][p]) \in PacketsTo(p)
         /\ wire' \in Wires
         /\ \A k \in Link, m \in Peer : wire'[k][m] \in Seq(Inbound(m))
<1>1. wire[l][p] \in Seq(Inbound(p)) /\ wire[l][p] # <<>>
  BY DEF Travels, Arrives
<1>2. Head(wire[l][p]) \in Inbound(p) /\ Tail(wire[l][p]) \in Seq(Inbound(p))
  BY <1>1, HeadTailProperties
<1>3. Head(wire[l][p]) \in PacketsTo(p)
  BY <1>2 DEF Inbound, Arrives
<1>4. wire' = [wire EXCEPT ![l][p] = Tail(wire[l][p])]
  BY DEF Arrives
<1>5. QED
  BY <1>2, <1>3, <1>4, WireChanged

LEMMA Clocks ==
  ASSUME Basics, NEW p \in Peer
  PROVE  Clock(p) \in Int /\ now \in Nat
BY ConstantsAssumption DEF Basics, Clock

(* The bookkeeping of disturbances.                                         *)
LEMMA Disturbing ==
  ASSUME Basics, Sendings, NEW ids, ids \subseteq Id \/ ids = Underway
  PROVE  /\ Disturbed(ids) \in [breaks : Nat, disturbed : SUBSET Id]
         /\ [Disturbed(ids) EXCEPT !.breaks = @ + 1] \in [breaks : Nat, disturbed : SUBSET Id]
<1>1. Underway \subseteq Id
  BY DEF Underway, Sendings
<1>2. ids \in SUBSET Id
  BY <1>1
<1>3. /\ past = [breaks |-> past.breaks, disturbed |-> past.disturbed]
      /\ past.breaks \in Nat /\ past.disturbed \in SUBSET Id
  BY DEF Basics
<1>4. Disturbed(ids) = [breaks |-> past.breaks, disturbed |-> past.disturbed \cup ids]
  BY <1>3 DEF Disturbed
<1>5. QED
  BY <1>2, <1>3, <1>4

(* Assemblies, when only some of them are left.                             *)
LEMMA AssembledStay ==
  ASSUME Assembles, Grows, assemblies' \in [Peer -> SUBSET [from : Peer, id : Id, since : Int, pieces : SUBSET Nat]],
         \A p \in Peer : assemblies'[p] \subseteq assemblies[p]
  PROVE  Assembles'
BY DEF Assembles, Grows

LEMMA RestStays ==
  ASSUME Assembles, Grows, NEW p \in Peer, NEW packet,
         assemblies' = [assemblies EXCEPT ![p] = Rest(p, packet)]
  PROVE  Assembles'
<1>1. Rest(p, packet) \subseteq assemblies[p]
  BY DEF Rest, Purged
<1>2. QED
  BY <1>1, AssembledStay DEF Assembles

(* What only the clock, the links and the backends do.                      *)
LEMMA KeptInv ==
  ASSUME Inv, UNCHANGED <<sent, pending, confirmed, core>>, seen' = seen
  PROVE  Grows /\ Sendings' /\ Memories' /\ ConfirmedWasReceived'
BY DEF Inv, Grows, Sendings, Memories, ConfirmedWasReceived, core

LEMMA LetterForms ==
  ASSUME NEW q \in Peer, NEW k \in Forms, NEW c \in sent', c.id = k.id,
         \/ /\ k.kind = "data" /\ c.from = k.from /\ c.to = q
            /\ k.total = Packets[k.id] /\ k.index \in 1..Packets[k.id]
         \/ /\ k.kind = "ack" /\ c.from = q /\ c.to = k.from
            /\ k.total = 1 /\ k.index = 1
            /\ k.id \in ToSet(received'[k.from])
  PROVE  [to |-> q, packet |-> k] \in Letters'
BY DEF Letters, Meant

LEMMA SendInv ==
  ASSUME Inv, NEW p \in Peer, NEW q \in Peer, NEW id \in Id, Send(p, q, id)
  PROVE  Inv'
<1> DEFINE c == [id |-> id, from |-> p, to |-> q]
           till == Clock(p) + Ttl
           pieces == Fragments(p, id, till)
<1>1. /\ p # q /\ id \notin {d.id : d \in sent} /\ sent' = sent \cup {c}
      /\ pending' = [pending EXCEPT ![p] = @ \cup {id}]
      /\ outbox' = [outbox EXCEPT ![p] = @ \o To(q, pieces)]
      /\ UNCHANGED <<now, skew, radio, wire, assemblies, seen, confirmed, core, past>>
  BY DEF Send
<1>2. Grows
  BY <1>1 DEF Grows, core
<1>3. Sendings'
  BY <1>1 DEF Inv, Sendings
<1>4. till \in Int
  BY Clocks, ConstantsAssumption DEF Inv
<1>5. Packets[id] \in Nat /\ DOMAIN pieces = 1..Packets[id]
  BY ConstantsAssumption DEF Fragments
<1>6. \A i \in 1..Packets[id] : [to |-> q, packet |-> pieces[i]] \in Letters'
  <2>1. TAKE i \in 1..Packets[id]
  <2>2. pieces[i] = Packet(p, "data", id, i, Packets[id], till)
    BY DEF Fragments
  <2>3. pieces[i] \in Forms
    BY <1>4, <1>5, <2>2 DEF Packet, Forms
  <2>4. c \in sent' /\ c.id = id /\ c.from = p /\ c.to = q
    BY <1>1
  <2>5. /\ pieces[i].kind = "data" /\ pieces[i].from = p /\ pieces[i].id = id
        /\ pieces[i].total = Packets[id] /\ pieces[i].index = i
    BY <2>2 DEF Packet
  <2> HIDE DEF c, pieces
  <2>6. QED
    BY <2>3, <2>4, <2>5, LetterForms
<1> HIDE DEF pieces, till, c
<1>7. To(q, pieces) \in Seq(Letters')
  BY <1>5, <1>6, Addressing
<1>8. Travels'
  BY <1>1, <1>2, <1>7, OutboxLonger, WiresKept, TravelsOn DEF Inv
<1>9. Assembles'
  BY <1>1, <1>2, AssembledStay DEF Inv, Assembles
<1>10. Basics'
  <2>1. c \in sent' /\ c.id = id /\ sent \subseteq sent'
    BY <1>1 DEF c
  <2>2. QED
    BY <1>1, <2>1 DEF Inv, Basics, radio
<1>11. Memories'
  BY <1>1 DEF Inv, Memories, core
<1>12. ConfirmedWasReceived'
  <2>1. \A m \in Peer : id \notin confirmed[m]
    BY <1>1 DEF Inv, Basics
  <2>2. QED
    BY <1>1, <2>1 DEF Inv, ConfirmedWasReceived, core, c
<1>13. QED
  BY <1>3, <1>8, <1>9, <1>10, <1>11, <1>12 DEF Inv

LEMMA TransmitInv ==
  ASSUME Inv, NEW p \in Peer, Transmit(p)
  PROVE  Inv'
<1>1. /\ outbox[p] # <<>> /\ outbox' = [outbox EXCEPT ![p] = Tail(@)]
      /\ UNCHANGED <<now, skew, sent, radio, codec, core>>
  BY DEF Transmit
<1>2. Grows /\ Sendings' /\ Memories' /\ ConfirmedWasReceived'
  BY <1>1, KeptInv DEF codec
<1>3. /\ outbox \in [Peer -> Seq(Letters)] /\ Head(outbox[p]) \in Letters
      /\ Tail(outbox[p]) \in Seq(Letters)
  BY <1>1, HeadTailProperties DEF Inv, Travels
<1>4. outbox' \in [Peer -> Seq(Letters')]
  BY <1>1, <1>2, <1>3, Growing
<1> DEFINE next == Head(outbox[p])
<1>5. next.to \in Peer /\ next.packet \in Inbound(next.to) /\ next.packet.id \in Id
  BY <1>3 DEF Letters, Inbound, PacketsTo, Forms
<1>6. PICK paths \in SUBSET ready[p] :
        /\ wire' = [l \in Link |->
             IF l \in paths \cap up THEN [wire[l] EXCEPT ![next.to] = Append(@, next.packet)]
             ELSE wire[l]]
        /\ past' = IF paths \cap up = {} THEN Disturbed({next.packet.id}) ELSE past
  BY DEF Transmit
<1> HIDE DEF next
<1>7. /\ wire' \in Wires
      /\ \A l \in Link, q \in Peer : wire'[l][q] \in Seq(Inbound(q))
  <2>1. wire \in Wires /\ \A l \in Link, q \in Peer : wire[l][q] \in Seq(Inbound(q))
    BY DEF Inv, Travels
  <2>2. \A l \in Link, q \in Peer :
          wire'[l][q] = wire[l][q] \/ (q = next.to /\ wire'[l][q] = Append(wire[l][q], next.packet))
    BY <1>5, <1>6, <2>1 DEF Wires
  <2>3. ASSUME NEW l \in Link
        PROVE  /\ Append(wire[l][next.to], next.packet) \in Seq(Inbound(next.to))
               /\ Append(wire[l][next.to], next.packet) \in Seq(Forms \cup {End})
    <3>1. wire[l][next.to] \in Seq(Inbound(next.to))
      BY <1>5, <2>1
    <3>2. Append(wire[l][next.to], next.packet) \in Seq(Inbound(next.to))
      BY <1>5, <3>1, AppendProperties
    <3>3. QED
      BY <3>2 DEF Inbound, PacketsTo
  <2>4. wire' \in Wires
    BY <1>5, <1>6, <2>1, <2>3 DEF Wires
  <2>5. \A l \in Link, q \in Peer : wire'[l][q] \in Seq(Inbound(q))
    <3>1. TAKE l \in Link, q \in Peer
    <3>2. CASE wire'[l][q] = wire[l][q]
      BY <2>1, <3>2
    <3>3. CASE q = next.to /\ wire'[l][q] = Append(wire[l][q], next.packet)
      BY <2>3, <3>3
    <3>4. QED
      BY <2>2, <3>2, <3>3
  <2>6. QED
    BY <2>4, <2>5
<1>8. Travels'
  BY <1>2, <1>4, <1>7, TravelsOn
<1>9. Assembles'
  BY <1>1, <1>2, AssembledStay DEF Inv, Assembles, codec
<1>10. past' \in [breaks : Nat, disturbed : SUBSET Id]
  BY <1>5, <1>6, Disturbing, ZenonT(40) DEF Inv, Basics
<1>11. Basics'
  BY <1>1, <1>10 DEF Inv, Basics, codec, radio
<1>12. QED
  BY <1>2, <1>8, <1>9, <1>11 DEF Inv

LEMMA AdvanceInv ==
  ASSUME Inv, Advance
  PROVE  Inv'
<1>1. /\ now + past.breaks < MaxFaults /\ now' = now + 1 /\ past' = Disturbed(Underway)
      /\ UNCHANGED <<skew, sent, outbox, radio, wire, codec, core>>
  BY DEF Advance
<1>2. Grows /\ Sendings' /\ Memories' /\ ConfirmedWasReceived'
  BY <1>1, KeptInv DEF codec
<1>3. Travels'
  BY <1>1, <1>2, OutboxKept, WiresKept, TravelsOn DEF Inv
<1>4. Assembles'
  BY <1>1, <1>2, AssembledStay DEF Inv, Assembles, codec
<1>5. past' \in [breaks : Nat, disturbed : SUBSET Id]
  BY <1>1, Disturbing DEF Inv
<1>6. now' \in 0..MaxFaults
  BY <1>1, ConstantsAssumption DEF Inv, Basics
<1>7. Basics'
  BY <1>1, <1>5, <1>6 DEF Inv, Basics, codec, radio
<1>8. QED
  BY <1>2, <1>3, <1>4, <1>7 DEF Inv

(* What is left of a wire, and the end of it.                               *)
LEMMA Breaking ==
  ASSUME NEW q, NEW s \in Seq(Inbound(q)), NEW i \in 0..Len(s)
  PROVE  SubSeq(s, 1, i) \o <<End>> \in Seq(Inbound(q))
<1>1. \A n \in 1..i : s[n] \in Inbound(q)
  BY ElementOfSeq, LenProperties
<1>2. SubSeq(s, 1, i) \in Seq(Inbound(q))
  BY <1>1, SubSeqProperties
<1>3. End \in Inbound(q)
  BY DEF Inbound
<1>4. <<End>> \in Seq(Inbound(q))
  BY <1>3
<1>5. QED
  BY <1>2, <1>4, ConcatProperties

LEMMA BreakInv ==
  ASSUME Inv, NEW l \in Link, Break(l)
  PROVE  Inv'
<1> DEFINE a == l[1]  b == l[2]
<1>1. /\ up' = up \ {l} /\ past' = [Disturbed(Underway) EXCEPT !.breaks = @ + 1]
      /\ UNCHANGED <<now, skew, sent, outbox, ready, codec, core>>
  BY DEF Break
<1>2. PICK i \in 0..Len(wire[l][a]), j \in 0..Len(wire[l][b]) :
        wire' = [wire EXCEPT ![l][a] = SubSeq(@, 1, i) \o <<End>>,
                             ![l][b] = SubSeq(@, 1, j) \o <<End>>]
  BY DEF Break
<1>3. a \in Peer /\ b \in Peer /\ a # b
  BY DEF Link
<1> HIDE DEF a, b
<1>4. Grows /\ Sendings' /\ Memories' /\ ConfirmedWasReceived'
  BY <1>1, KeptInv DEF codec
<1> DEFINE s == SubSeq(wire[l][a], 1, i) \o <<End>>
           t == SubSeq(wire[l][b], 1, j) \o <<End>>
<1>5. s \in Seq(Inbound(a)) /\ t \in Seq(Inbound(b))
  BY <1>3, Breaking DEF Inv, Travels
<1>6. /\ s \in Seq(Forms \cup {End}) /\ t \in Seq(Forms \cup {End})
      /\ wire \in Wires /\ \A k \in Link, m \in Peer : wire[k][m] \in Seq(Inbound(m))
  <2>1. \A q : Seq(Inbound(q)) \subseteq Seq(Forms \cup {End})
    BY DEF Inbound, PacketsTo
  <2> HIDE DEF s, t
  <2>2. QED
    BY <1>5, <2>1 DEF Inv, Travels
<1>7. wire' = [wire EXCEPT ![l][a] = s, ![l][b] = t]
  BY <1>2, <1>3, <1>6 DEF Wires
<1> HIDE DEF s, t
<1>8. /\ wire' \in Wires
      /\ \A k \in Link, m \in Peer :
           wire'[k][m] = IF k = l /\ m = a THEN s ELSE IF k = l /\ m = b THEN t ELSE wire[k][m]
  BY <1>3, <1>6, <1>7 DEF Wires
<1>9. \A k \in Link, m \in Peer : wire'[k][m] \in Seq(Inbound(m))
  BY <1>5, <1>6, <1>8
<1>11. Travels'
  BY <1>1, <1>4, <1>8, <1>9, OutboxKept, TravelsOn DEF Inv
<1>12. Assembles'
  BY <1>1, <1>4, AssembledStay DEF Inv, Assembles, codec
<1>13. past' \in [breaks : Nat, disturbed : SUBSET Id]
  BY <1>1, Disturbing DEF Inv
<1>14. Basics'
  BY <1>1, <1>13 DEF Inv, Basics, codec
<1>15. QED
  BY <1>4, <1>11, <1>12, <1>14 DEF Inv

LEMMA DisconnectedInv ==
  ASSUME Inv, NEW p \in Peer, NEW l \in Link, Disconnected(p, l)
  PROVE  Inv'
<1>1. /\ wire[l][p] # <<>> /\ wire' = [wire EXCEPT ![l][p] = Tail(wire[l][p])]
      /\ ready' = [ready EXCEPT ![p] = @ \ {l}]
      /\ assemblies' = [assemblies EXCEPT ![p] = {a \in @ : a.from # Other(p, l)}]
      /\ past' = Disturbed(Underway)
      /\ UNCHANGED <<now, skew, sent, outbox, up, seen, pending, confirmed, core>>
  BY DEF Disconnected
<1>2. Grows /\ Sendings' /\ Memories' /\ ConfirmedWasReceived'
  BY <1>1, KeptInv
<1>3. Tail(wire[l][p]) \in Seq(Inbound(p))
  BY <1>1, HeadTailProperties DEF Inv, Travels
<1>4. Travels'
  BY <1>1, <1>2, <1>3, WireChanged, OutboxKept, TravelsOn DEF Inv
<1>5. Assembles'
  BY <1>1, <1>2, AssembledStay DEF Inv, Assembles
<1>6. past' \in [breaks : Nat, disturbed : SUBSET Id]
  BY <1>1, Disturbing DEF Inv
<1>7. Basics'
  BY <1>1, <1>6 DEF Inv, Basics
<1>8. QED
  BY <1>2, <1>4, <1>5, <1>7 DEF Inv

LEMMA ConnectInv ==
  ASSUME Inv, NEW l \in Link, Connect(l)
  PROVE  Inv'
<1>1. /\ up' = up \cup {l}
      /\ ready' = [p \in Peer |-> IF p \in {l[1], l[2]} THEN ready[p] \cup {l} ELSE ready[p]]
      /\ UNCHANGED <<now, skew, sent, outbox, wire, codec, core, past>>
  BY DEF Connect
<1>2. Grows /\ Sendings' /\ Memories' /\ ConfirmedWasReceived'
  BY <1>1, KeptInv DEF codec
<1>3. Travels'
  BY <1>1, <1>2, OutboxKept, WiresKept, TravelsOn DEF Inv
<1>4. Assembles'
  BY <1>1, <1>2, AssembledStay DEF Inv, Assembles, codec
<1>5. \A p \in Peer : p \in {l[1], l[2]} => l \in LinksOf(p)
  BY DEF LinksOf
<1>6. Basics'
  BY <1>1, <1>5 DEF Inv, Basics, codec
<1>7. QED
  BY <1>2, <1>3, <1>4, <1>6 DEF Inv

-----------------------------------------------------------------------------
(* Packets that arrive.                                                     *)
LEMMA PacketForms ==
  ASSUME Sendings, NEW p \in Peer, NEW k \in PacketsTo(p)
  PROVE  /\ k \in Forms /\ k.from \in Peer /\ k.id \in Id /\ k.kind \in {"data", "ack"}
         /\ \E c \in sent :
              /\ c.id = k.id /\ c.from # c.to /\ c.from \in Peer /\ c.to \in Peer
              /\ k.kind = "data" => /\ c.from = k.from /\ c.to = p /\ k.total = Packets[k.id]
                                    /\ k.index \in 1..Packets[k.id]
              /\ k.kind = "ack" => /\ c.from = p /\ c.to = k.from /\ k.total = 1 /\ k.index = 1
                                   /\ k.id \in ToSet(received[k.from])
<1>1. k \in Forms /\ Meant(p, k)
  BY DEF PacketsTo
<1>2. k.from \in Peer /\ k.id \in Id /\ k.kind \in {"data", "ack"}
  BY <1>1 DEF Forms
<1>3. QED
  BY <1>1, <1>2 DEF Meant, Sendings

(* An acknowledgement is one packet, and no piece of anything is mistaken   *)
(* for one of its own.                                                      *)
LEMMA AckCompletes ==
  ASSUME Sendings, Assembles, NEW p \in Peer, NEW k \in PacketsTo(p), k.kind = "ack"
  PROVE  Completes(p, k)
<1>1. PICK c \in sent : c.id = k.id /\ c.from # c.to /\ c.from = p /\ c.to = k.from
  BY PacketForms
<1>2. k.total = 1 /\ k.index = 1
  BY PacketForms
<1>3. Before(p, k) = {}
  <2>1. SUFFICES ASSUME NEW a \in Before(p, k)
                 PROVE  FALSE
    OBVIOUS
  <2>2. a \in assemblies[p] /\ a.from = k.from /\ a.id = k.id
    BY DEF Before, Purged
  <2>3. PICK d \in sent : d.id = a.id /\ d.from = a.from /\ d.to = p
    BY <2>2 DEF Assembles
  <2>4. c = d
    BY <1>1, <2>2, <2>3 DEF Sendings
  <2>5. QED
    BY <1>1, <2>2, <2>3, <2>4
<1>4. With(p, k) = [from |-> k.from, id |-> k.id, since |-> Clock(p), pieces |-> {1}]
  BY <1>2, <1>3 DEF With
<1>5. Cardinality({1}) = 1
  BY FS_Singleton
<1>6. QED
  BY <1>2, <1>4, <1>5 DEF Completes

LEMMA PartialInv ==
  ASSUME Inv, NEW p \in Peer, NEW l \in Link, Partial(p, l)
  PROVE  Inv'
<1> DEFINE k == Head(wire[l][p])
<1>1. /\ Arrives(p, l) /\ ~Completes(p, k)
      /\ assemblies' = [assemblies EXCEPT ![p] = Rest(p, k) \cup {With(p, k)}]
      /\ UNCHANGED <<now, skew, sent, radio, past, outbox, seen, pending, confirmed, core>>
  BY DEF Partial, Arrives
<1>2. k \in PacketsTo(p)
  BY <1>1, Arriving DEF Inv
<1> HIDE DEF k
<1>3. Grows /\ Sendings' /\ Memories' /\ ConfirmedWasReceived'
  BY <1>1, KeptInv
<1>4. Travels'
  BY <1>1, <1>3, Arriving, OutboxKept, TravelsOn DEF Inv
<1>5. k.kind = "data"
  BY <1>1, <1>2, AckCompletes, PacketForms DEF Inv
<1>6. PICK c \in sent : c.id = k.id /\ c.from = k.from /\ c.to = p
  BY <1>2, <1>5, PacketForms DEF Inv
<1>7. k.index \in 1..Packets[k.id] /\ k.from \in Peer /\ k.id \in Id /\ Clock(p) \in Int
  BY <1>2, <1>5, PacketForms, Clocks DEF Inv
<1> DEFINE Kinds == [from : Peer, id : Id, since : Int, pieces : SUBSET Nat]
<1>8. /\ With(p, k) \in Kinds /\ With(p, k).from = k.from /\ With(p, k).id = k.id
      /\ With(p, k).pieces \subseteq 1..Packets[k.id]
  <2>1. 1..Packets[k.id] \subseteq Nat
    BY <1>7, ConstantsAssumption
  <2>2. CASE Before(p, k) = {}
    <3>1. With(p, k) = [from |-> k.from, id |-> k.id, since |-> Clock(p), pieces |-> {k.index}]
      BY <2>2 DEF With
    <3>2. QED
      BY <1>7, <2>1, <3>1
  <2>3. CASE Before(p, k) # {}
    <3> DEFINE a == CHOOSE a \in Before(p, k) : TRUE
    <3>1. a \in Before(p, k)
      BY <2>3
    <3>2. a \in assemblies[p] /\ a.from = k.from /\ a.id = k.id
      BY <3>1 DEF Before, Purged
    <3>3. a \in Kinds /\ a.pieces \subseteq 1..Packets[k.id]
      BY <3>2 DEF Inv, Assembles
    <3>4. With(p, k) = [a EXCEPT !.pieces = @ \cup {k.index}]
      BY <2>3 DEF With
    <3> HIDE DEF a
    <3>5. QED
      BY <1>7, <2>1, <3>2, <3>3, <3>4
  <2>4. QED
    BY <2>2, <2>3
<1>9. Rest(p, k) \subseteq assemblies[p] /\ \A a \in Rest(p, k) : ~(a.from = k.from /\ a.id = k.id)
  BY DEF Rest, Before, Purged
<1>10. Assembles'
  <2>1. assemblies' \in [Peer -> SUBSET Kinds]
    BY <1>1, <1>8, <1>9 DEF Inv, Assembles
  <2>2. \A m \in Peer : \A a \in assemblies'[m] :
          \/ a \in assemblies[m] /\ (m = p => ~(a.from = k.from /\ a.id = k.id))
          \/ m = p /\ a = With(p, k)
    BY <1>1, <1>9 DEF Inv, Assembles
  <2>3. \A m \in Peer : \A a \in assemblies'[m] :
          /\ a.pieces \subseteq 1..Packets[a.id]
          /\ \E d \in sent' : d.id = a.id /\ d.from = a.from /\ d.to = m
    BY <1>1, <1>6, <1>8, <2>2 DEF Inv, Assembles
  <2>4. \A m \in Peer : \A a, b \in assemblies'[m] : a.from = b.from /\ a.id = b.id => a = b
    BY <1>8, <2>2 DEF Inv, Assembles
  <2>5. QED
    BY <2>1, <2>3, <2>4 DEF Assembles
<1>11. Basics'
  BY <1>1 DEF Inv, Basics, radio
<1>12. QED
  BY <1>3, <1>4, <1>10, <1>11 DEF Inv

LEMMA CompletedPacket ==
  ASSUME Inv, NEW p \in Peer, NEW l \in Link, NEW k, Completed(p, l, k)
  PROVE  /\ k \in PacketsTo(p)
         /\ assemblies' = [assemblies EXCEPT ![p] = Rest(p, k)]
         /\ wire' \in Wires /\ \A m \in Link, q \in Peer : wire'[m][q] \in Seq(Inbound(q))
         /\ UNCHANGED <<now, skew, sent, radio, past>>
BY Arriving DEF Completed, Arrives, Inv

LEMMA ExpireInv ==
  ASSUME Inv, NEW p \in Peer, NEW l \in Link, Expire(p, l)
  PROVE  Inv'
<1>1. PICK k : Completed(p, l, k) /\ UNCHANGED <<outbox, seen, pending, confirmed, core>>
  BY DEF Expire
<1>2. Grows /\ Sendings' /\ Memories' /\ ConfirmedWasReceived'
  BY <1>1, CompletedPacket, KeptInv
<1>3. Travels'
  BY <1>1, <1>2, CompletedPacket, OutboxKept, TravelsOn DEF Inv
<1>4. Assembles'
  BY <1>1, <1>2, CompletedPacket, RestStays DEF Inv
<1>5. Basics'
  BY <1>1, CompletedPacket DEF Inv, Basics, radio
<1>6. QED
  BY <1>2, <1>3, <1>4, <1>5 DEF Inv

LEMMA TakeAckInv ==
  ASSUME Inv, NEW p \in Peer, NEW l \in Link, TakeAck(p, l)
  PROVE  Inv'
<1>1. PICK k : /\ Completed(p, l, k) /\ k.kind = "ack"
               /\ confirmed' = [confirmed EXCEPT ![p] = @ \cup ({k.id} \cap pending[p])]
               /\ pending' = [pending EXCEPT ![p] = @ \ {k.id}]
               /\ UNCHANGED <<outbox, seen, core>>
  BY DEF TakeAck
<1>2. UNCHANGED <<now, skew, sent, radio, past, received>>
  BY <1>1, CompletedPacket DEF core
<1>3. Grows /\ Sendings' /\ Memories'
  BY <1>1, <1>2 DEF Grows, Inv, Sendings, Memories, core
<1>4. Travels'
  BY <1>1, <1>3, CompletedPacket, OutboxKept, TravelsOn DEF Inv
<1>5. Assembles'
  BY <1>1, <1>3, CompletedPacket, RestStays DEF Inv
<1>6. k.id \in Id
  BY <1>1, CompletedPacket, PacketForms DEF Inv
<1>7. Basics'
  BY <1>1, <1>2, <1>6 DEF Inv, Basics, radio
<1>8. ConfirmedWasReceived'
  <2>1. SUFFICES ASSUME NEW d \in sent, d.id \in confirmed'[d.from]
                 PROVE  d.id \in ToSet(received[d.to])
    BY <1>2 DEF ConfirmedWasReceived
  <2>2. PICK c \in sent : c.id = k.id /\ c.from = p /\ k.id \in ToSet(received[c.to])
    BY <1>1, CompletedPacket, PacketForms DEF Inv
  <2>3. d.from \in Peer
    BY DEF Inv, Sendings
  <2>4. d.id \in confirmed[d.from] \/ d.id = k.id
    BY <1>1, <2>1, <2>3 DEF Inv, Basics
  <2>5. CASE d.id = k.id
    BY <2>2, <2>5 DEF Inv, Sendings
  <2>6. QED
    BY <2>4, <2>5 DEF Inv, ConfirmedWasReceived
<1>9. QED
  BY <1>3, <1>4, <1>5, <1>7, <1>8 DEF Inv

LEMMA Shifted ==
  ASSUME NEW m \in Nat, NEW n \in Nat, n <= m, NEW i \in 1..n
  PROVE  m - n + i \in 1..m
OBVIOUS

(* A control is handed to the core unless the codec remembers it; either    *)
(* way it has been handed over when the acknowledgement is made.            *)
LEMMA Handing ==
  ASSUME Inv, NEW p \in Peer, NEW id \in Id,
         seen' = [seen EXCEPT ![p] = Remembered(@, id)],
         IF Contains(seen[p], id) THEN UNCHANGED core ELSE OnControl(p, id)
  PROVE  /\ Memories' /\ id \in ToSet(received'[p])
         /\ \A q \in Peer : ToSet(received[q]) \subseteq ToSet(received'[q])
<1>1. /\ seen \in [Peer -> Seq(Id)] /\ received \in [Peer -> Seq(Id)]
      /\ processed \in [Peer -> SUBSET Id] /\ acted \in [Peer -> Seq(Id)]
      /\ \A q \in Peer : /\ Window(seen[q], received[q]) /\ Apart(received[q])
                         /\ Knows(processed[q], acted[q])
  BY DEF Inv, Memories
<1>2. CASE Contains(seen[p], id)
  <2>1. seen' = seen /\ UNCHANGED <<received, processed, acted>>
    BY <1>1, <1>2 DEF Remembered, core
  <2>2. PICK i \in 1..Len(seen[p]) : seen[p][i] = id
    BY <1>2 DEF Contains
  <2>3. id = received[p][Len(received[p]) - Len(seen[p]) + i] /\ Len(seen[p]) <= Len(received[p])
    BY <1>1, <2>2 DEF Window
  <2>4. Len(seen[p]) \in Nat /\ Len(received[p]) \in Nat /\ DOMAIN received[p] = 1..Len(received[p])
    BY <1>1, LenProperties
  <2>5. Len(received[p]) - Len(seen[p]) + i \in 1..Len(received[p])
    BY <2>2, <2>3, <2>4, Shifted
  <2>6. id \in ToSet(received[p])
    BY <2>3, <2>4, <2>5 DEF ToSet
  <2>7. QED
    BY <1>1, <2>1, <2>6 DEF Memories
<1>3. CASE ~Contains(seen[p], id)
  <2>1. /\ received' = [received EXCEPT ![p] = Append(@, id)]
        /\ IF id \in processed[p]
           THEN UNCHANGED <<processed, acted>>
           ELSE /\ processed' = [processed EXCEPT ![p] = Processed(@, id)]
                /\ acted' = [acted EXCEPT ![p] = Append(@, id)]
    BY <1>3 DEF OnControl
  <2>2. /\ seen[p] \in Seq(Id) /\ received[p] \in Seq(Id)
        /\ Window(seen[p], received[p]) /\ Apart(received[p])
    BY <1>1
  <2>3. /\ Remembered(seen[p], id) \in Seq(Id)
        /\ Window(Remembered(seen[p], id), Append(received[p], id))
        /\ Apart(Append(received[p], id))
    BY <1>3, <2>2, Remembering
  <2>4. ToSet(Append(received[p], id)) = ToSet(received[p]) \cup {id} /\ Append(received[p], id) \in Seq(Id)
    BY <2>2, AppendToSet, AppendProperties
  <2>5. /\ processed' \in [Peer -> SUBSET Id] /\ acted' \in [Peer -> Seq(Id)]
        /\ \A q \in Peer : Knows(processed'[q], acted'[q])
    <3>1. CASE id \in processed[p]
      BY <1>1, <2>1, <3>1
    <3>2. CASE id \notin processed[p]
      <4>1. processed[p] \in SUBSET Id /\ acted[p] \in Seq(Id) /\ Knows(processed[p], acted[p])
        BY <1>1
      <4>2. /\ Processed(processed[p], id) \in SUBSET Id
            /\ Knows(Processed(processed[p], id), Append(acted[p], id))
            /\ Append(acted[p], id) \in Seq(Id)
        BY <3>2, <4>1, Acting, AppendProperties
      <4>3. QED
        BY <1>1, <2>1, <3>2, <4>2
    <3>3. QED
      BY <3>1, <3>2
  <2>6. /\ seen' \in [Peer -> Seq(Id)] /\ received' \in [Peer -> Seq(Id)]
        /\ \A q \in Peer : /\ seen'[q] = IF q = p THEN Remembered(seen[p], id) ELSE seen[q]
                           /\ received'[q] = IF q = p THEN Append(received[p], id) ELSE received[q]
    BY <1>1, <2>1, <2>3, <2>4
  <2>7. \A q \in Peer : Window(seen'[q], received'[q]) /\ Apart(received'[q])
    BY <1>1, <2>3, <2>6
  <2>8. QED
    BY <2>4, <2>5, <2>6, <2>7 DEF Memories
<1>4. QED
  BY <1>2, <1>3

LEMMA TakeDataInv ==
  ASSUME Inv, NEW p \in Peer, NEW l \in Link, TakeData(p, l)
  PROVE  Inv'
<1>1. PICK k : /\ Completed(p, l, k) /\ k.kind = "data"
               /\ seen' = [seen EXCEPT ![p] = Remembered(@, k.id)]
               /\ IF Contains(seen[p], k.id) THEN UNCHANGED core ELSE OnControl(p, k.id)
               /\ outbox' = [outbox EXCEPT ![p] = @ \o To(k.from, <<Ack(p, k.id)>>)]
               /\ UNCHANGED <<pending, confirmed>>
  BY DEF TakeData
<1>2. k \in PacketsTo(p) /\ UNCHANGED <<now, skew, sent, radio, past>>
  BY <1>1, CompletedPacket
<1>3. k.id \in Id /\ k.from \in Peer
  BY <1>2, PacketForms DEF Inv
<1>4. PICK c \in sent : c.id = k.id /\ c.from = k.from /\ c.to = p
  BY <1>1, <1>2, PacketForms DEF Inv
<1>5. /\ Memories' /\ k.id \in ToSet(received'[p])
      /\ \A q \in Peer : ToSet(received[q]) \subseteq ToSet(received'[q])
  BY <1>1, <1>3, Handing
<1>6. Grows
  BY <1>2, <1>5 DEF Grows
<1> DEFINE ack == Ack(p, k.id)
<1>7. ack \in Forms /\ ack.kind = "ack" /\ ack.from = p /\ ack.id = k.id /\ ack.total = 1 /\ ack.index = 1
  <2>1. Clock(p) + AckTtl \in Int
    BY Clocks, ConstantsAssumption DEF Inv
  <2>2. QED
    BY <1>3, <2>1 DEF Ack, Packet, Forms
<1> HIDE DEF ack
<1>8. [to |-> k.from, packet |-> ack] \in Letters'
  BY <1>2, <1>3, <1>4, <1>5, <1>7, LetterForms
<1>9. To(k.from, <<ack>>) \in Seq(Letters')
  <2>1. DOMAIN <<ack>> = 1..1 /\ <<ack>>[1] = ack
    OBVIOUS
  <2>2. \A i \in 1..1 : [to |-> k.from, packet |-> <<ack>>[i]] \in Letters'
    BY <1>8, <2>1
  <2>3. QED
    BY <2>1, <2>2, Addressing
<1>10. Travels'
  <2>1. outbox' = [outbox EXCEPT ![p] = @ \o To(k.from, <<ack>>)]
    BY <1>1 DEF ack
  <2>2. outbox' \in [Peer -> Seq(Letters')]
    BY <1>6, <1>9, <2>1, OutboxLonger DEF Inv
  <2>3. QED
    BY <1>1, <1>6, <2>2, CompletedPacket, TravelsOn
<1>11. Assembles'
  BY <1>1, <1>6, CompletedPacket, RestStays DEF Inv
<1>12. Basics' /\ Sendings'
  BY <1>1, <1>2 DEF Inv, Basics, Sendings, radio
<1>13. ConfirmedWasReceived'
  <2>1. \A d \in sent : d.to \in Peer
    BY DEF Inv, Sendings
  <2>2. QED
    BY <1>1, <1>2, <1>5, <2>1 DEF Inv, ConfirmedWasReceived
<1>14. QED
  BY <1>5, <1>10, <1>11, <1>12, <1>13 DEF Inv

LEMMA InitInv ==
  ASSUME Init
  PROVE  Inv
<1>1. Sendings /\ Travels /\ Assembles
  BY DEF Init, Sendings, Travels, Wires, Assembles
<1>2. Basics
  <2>1. skew \in [Peer -> Nat]
    BY ConstantsAssumption DEF Init
  <2>2. \A p \in Peer : LinksOf(p) \subseteq Link
    BY DEF LinksOf
  <2>3. QED
    BY <2>1, <2>2, ConstantsAssumption DEF Init, Basics
<1>3. Memories
  <2>1. Window(<<>>, <<>>) /\ Apart(<<>>)
    BY ConstantsAssumption DEF Window, Apart, IsInjective
  <2>2. Knows({}, <<>>)
    <3>1. ToSet(<<>>) = {}
      BY DEF ToSet
    <3>2. IsFiniteSet({}) /\ Cardinality({}) = 0
      BY FS_EmptySet
    <3>3. IsInjective(<<>>)
      BY DEF IsInjective
    <3>4. Cardinality({}) <= Memory
      BY <3>2, ConstantsAssumption
    <3>5. QED
      BY <3>1, <3>2, <3>3, <3>4, Zenon DEF Knows
  <2>3. QED
    BY <2>1, <2>2 DEF Init, Memories
<1>4. ConfirmedWasReceived
  BY DEF Init, ConfirmedWasReceived
<1>5. QED
  BY <1>1, <1>2, <1>3, <1>4 DEF Inv

(* The inductive invariant of the codec.                                    *)
THEOREM Invariant == Spec => []Inv
<1>1. Init => Inv
  BY InitInv
<1>2. ASSUME Inv, Next
      PROVE  Inv'
  BY <1>2, TransmitInv, PartialInv, ExpireInv, TakeAckInv, TakeDataInv, DisconnectedInv,
     AdvanceInv, BreakInv, ConnectInv, SendInv DEF Next, Progress, Receive
<1>3. ASSUME Inv, UNCHANGED vars
      PROVE  Inv'
  <2>1. Sendings' /\ Assembles' /\ Basics'
    BY <1>3 DEF vars, Inv, Sendings, Assembles, Basics
  <2>2. Memories' /\ ConfirmedWasReceived'
    BY <1>3 DEF vars, Inv, Memories, ConfirmedWasReceived
  <2>3. Letters' = Letters /\ \A q \in Peer : Inbound(q)' = Inbound(q)
    BY <1>3 DEF vars, Letters, Inbound, PacketsTo, Meant
  <2>4. Travels'
    BY <1>3, <2>3 DEF vars, Inv, Travels
  <2>5. QED
    BY <2>1, <2>2, <2>4 DEF Inv
<1>4. QED
  BY <1>1, <1>2, <1>3, PTL DEF Spec

(* Senders are told the truth (ControlAcknowledged, ingest_packet): a       *)
(* control that was acknowledged has been handed to the core it was for,    *)
(* for any number of pieces, copies, breaks and clocks.                     *)
THEOREM AcknowledgementsAreTrue == Spec => []AcknowledgementsTrue
<1>1. Inv => TypeOK
  BY DEF Inv, Basics, Memories, Window, Knows, Assembles, TypeOK
<1>2. Inv => AcknowledgementsTrue
  BY <1>1 DEF Inv, AcknowledgementsTrue
<1>3. QED
  BY <1>2, Invariant, PTL

(* Duplicates have no effect (TASK.md): the codec hands a control over      *)
(* again only when it has forgotten it, and the core acts on it again only  *)
(* when it has had more controls than it remembers.                         *)
THEOREM ControlsActOnce == Spec => []AtMostOnce
<1>1. Inv => HandedOnce
  BY DEF Inv, Memories, Apart, HandedOnce
<1>2. ASSUME Inv
      PROVE  ActedOnce
  <2>1. SUFFICES ASSUME NEW p \in Peer
                 PROVE  IsInjective(acted[p]) \/ Cardinality(ToSet(acted[p])) > Memory
    BY DEF ActedOnce
  <2>2. Knows(processed[p], acted[p])
    BY <1>2 DEF Inv, Memories
  <2>3. Cardinality(ToSet(acted[p])) \in Nat /\ Memory \in Nat
    BY <2>2, FS_CardinalityType, ConstantsAssumption DEF Knows
  <2>4. QED
    BY <2>2, <2>3 DEF Knows
<1>3. Inv => AtMostOnce
  BY <1>1, <1>2 DEF AtMostOnce
<1>4. QED
  BY <1>3, Invariant, PTL
=============================================================================
