--------------------------- MODULE TripSyncProofs ---------------------------
(***************************************************************************)
(* Proofs about TripSync for any set of peers, any topology, any wall       *)
(* clocks and any number of events, crashes and lost connections: its type  *)
(* correctness, the agreement of all logs on every slot, the soundness of   *)
(* acknowledgements and replica rows, the exactness of digests between any  *)
(* two devices, that the durable state implements GroupLog, that what is    *)
(* shown of deliveries and views is true, and that replay is causal.  The   *)
(* last part shows that AntiEntropy implements GroupLog as well.            *)
(***************************************************************************)
EXTENDS TripSync, SequenceTheorems, FiniteSetTheorems, WellFoundedInduction,
        TLAPS

----------------------------------------------------------------------------
(* Digests, for logs of any size: a summary contains exactly the sequences  *)
(* it was made from, so what a log answers to another log's digest is       *)
(* exactly what the other lacks.                                            *)

(* Every nonempty set of numbers has a least one, so Min is what it should  *)
(* be; this is where the gap search of summarize gets its answer from.      *)
LEMMA LeastNatural ==
  ASSUME NEW S \in SUBSET Nat, S # {}
  PROVE  Min(S) \in S /\ \A n \in S : Min(S) <= n
<1>1. PICK m \in S : \A n \in S : ~(<<n, m>> \in OpToRel(<, Nat))
  BY NatLessThanWellFounded, WFMin, Zenon
<1>2. \A n \in S : m <= n
  <2>1. TAKE n \in S
  <2>2. <<n, m>> \in Nat \X Nat
    OBVIOUS
  <2>3. ~(n < m)
    BY <1>1, <2>2 DEF OpToRel
  <2>4. QED
    BY <2>3
<1>3. QED
  BY <1>2 DEF Min

(* A set of numbers below some number has a largest one: max_seen exists.   *)
LEMMA LargestNatural ==
  ASSUME NEW S \in SUBSET Nat, S # {},
         NEW bound \in Nat, \A n \in S : n <= bound
  PROVE  Max(S) \in S /\ \A n \in S : n <= Max(S)
<1> DEFINE Bounds == {b \in Nat : \A n \in S : n <= b}
           m == Min(Bounds)
<1>1. Bounds \in SUBSET Nat /\ Bounds # {}
  OBVIOUS
<1>2. m \in Bounds /\ \A b \in Bounds : m <= b
  <2> HIDE DEF Bounds
  <2> QED BY <1>1, LeastNatural
<1>3. m \in S
  <2>1. SUFFICES ASSUME m \notin S PROVE FALSE
    OBVIOUS
  <2>2. \A n \in S : n < m
    BY <1>2, <2>1
  <2>3. PICK n0 \in S : TRUE
    OBVIOUS
  <2>4. m \in Nat /\ \A b \in Bounds : m <= b
    BY <1>2
  <2> HIDE DEF m
  <2>5. m - 1 \in Nat
    BY <2>2, <2>3, <2>4
  <2>6. \A n \in S : n <= m - 1
    BY <2>2, <2>4
  <2>7. m - 1 \in Bounds
    BY <2>5, <2>6
  <2>8. QED
    BY <2>4, <2>5, <2>7
<1>4. \A n \in S : n <= m
  BY <1>2
<1>5. \E x \in S : \A y \in S : x >= y
  <2> HIDE DEF m
  <2> QED BY <1>3, <1>4, <1>2
<1>6. QED
  BY <1>5 DEF Max

(* The max_seen of a summary bounds the sequences it was made from.         *)
LEMMA MaxSeen ==
  ASSUME NEW present \in SUBSET (Nat \ {0}),
         NEW bound \in Nat, \A n \in present : n <= bound
  PROVE  /\ Max(present \cup {0}) \in Nat
         /\ \A n \in present : n <= Max(present \cup {0})
<1> DEFINE S == present \cup {0}
<1>1. S \in SUBSET Nat /\ S # {} /\ \A n \in S : n <= bound
  OBVIOUS
<1>2. Max(S) \in S /\ \A n \in S : n <= Max(S)
  <2> HIDE DEF S
  <2> QED BY <1>1, LargestNatural
<1>3. QED
  BY <1>1, <1>2

(* What Summarize returns, for the sequences of any bounded log.            *)
LEMMA SummaryType ==
  ASSUME NEW present \in SUBSET (Nat \ {0}),
         NEW bound \in Nat, \A n \in present : n <= bound
  PROVE  /\ Summarize(present).max_seen \in Nat
         /\ Summarize(present).contiguous_frontier \in Nat
         /\ Summarize(present).gaps \in SUBSET Nat
         /\ Summarize(present) \in [max_seen : Nat, contiguous_frontier : Nat,
                                    gaps : SUBSET Nat]
<1> DEFINE max_seen == Max(present \cup {0})
           absent == (1 .. max_seen) \ present
           frontier == IF absent = {} THEN max_seen ELSE Min(absent) - 1
<1>1. max_seen \in Nat
  BY MaxSeen
<1>2. frontier \in Nat
  <2> HIDE DEF max_seen
  <2>1. CASE absent = {}
    BY <1>1, <2>1
  <2>2. CASE absent # {}
    <3>1. absent \in SUBSET Nat
      BY <1>1
    <3>2. Min(absent) \in absent
      BY <2>2, <3>1, LeastNatural
    <3>3. Min(absent) \in 1 .. max_seen
      BY <3>2
    <3>4. QED
      BY <1>1, <2>2, <3>3
  <2>3. QED
    BY <2>1, <2>2
<1>3. ((frontier + 1) .. max_seen) \ present \in SUBSET Nat
  <2> HIDE DEF max_seen, frontier
  <2> QED BY <1>1, <1>2
<1>4. Summarize(present) = [max_seen |-> max_seen,
                            contiguous_frontier |-> frontier,
                            gaps |-> ((frontier + 1) .. max_seen) \ present]
  BY DEF Summarize
<1>5. QED
  <2> HIDE DEF max_seen, frontier
  <2> QED BY <1>1, <1>2, <1>3, <1>4

(* SequenceSummary::contains on a summary answers membership exactly, for   *)
(* every pattern of gaps.                                                   *)
THEOREM SummaryExact ==
  ASSUME NEW present \in SUBSET (Nat \ {0}),
         NEW bound \in Nat, \A n \in present : n <= bound,
         NEW seq \in Nat \ {0}
  PROVE  Contains(Summarize(present), seq) <=> seq \in present
<1> DEFINE max_seen == Max(present \cup {0})
           absent == (1 .. max_seen) \ present
           frontier == IF absent = {} THEN max_seen ELSE Min(absent) - 1
<1>1. max_seen \in Nat /\ \A n \in present : n <= max_seen
  BY MaxSeen
<1>2. \A n \in 1 .. frontier : n \in present
  <2> HIDE DEF max_seen
  <2>1. CASE absent = {}
    BY <1>1, <2>1
  <2>2. CASE absent # {}
    <3>1. absent \in SUBSET Nat
      BY <1>1
    <3>2. Min(absent) \in absent /\ \A n \in absent : Min(absent) <= n
      BY <2>2, <3>1, LeastNatural
    <3>3. Min(absent) \in Nat /\ Min(absent) <= max_seen
      BY <1>1, <3>2
    <3> DEFINE least == Min(absent)
    <3>4. least \in Nat /\ least <= max_seen /\ \A n \in absent : least <= n
      BY <3>2, <3>3
    <3>5. frontier = least - 1
      BY <2>2
    <3> HIDE DEF least, frontier
    <3>6. QED
      BY <1>1, <3>4, <3>5
  <2>3. QED
    BY <2>1, <2>2
<1>3. frontier \in Int
  <2>1. frontier = Summarize(present).contiguous_frontier
    BY DEF Summarize
  <2>2. QED
    BY <2>1, SummaryType
<1>4. Contains(Summarize(present), seq)
        <=> seq <= max_seen /\ seq \notin ((frontier + 1) .. max_seen) \ present
  BY DEF Summarize, Contains
<1>5. QED
  <2> HIDE DEF max_seen, frontier
  <2> QED BY <1>1, <1>2, <1>3, <1>4

(* events_missing_from answers a digest with exactly the events the other   *)
(* log lacks, for any two bounded logs that agree on their slots.           *)
THEOREM MissingExact ==
  ASSUME NEW mine \in SUBSET Event, NEW other \in SUBSET Event,
         NEW bound \in [Peer -> Nat],
         \A e \in other : e.seq <= bound[e.sender],
         \A e \in mine, f \in other : Id(e) = Id(f) => e = f
  PROVE  MissingFrom(mine, Digest(other)) = mine \ other
<1>1. ASSUME NEW e \in mine
      PROVE  Contains(Digest(other)[e.sender], e.seq) <=> e \in other
  <2>1. e.sender \in Peer /\ e.seq \in Nat \ {0}
    BY DEF Event
  <2> DEFINE present == SeqsOf(other, e.sender)
  <2>2. present \in SUBSET (Nat \ {0})
    BY DEF SeqsOf, Event
  <2>3. \A n \in present : n <= bound[e.sender]
    BY DEF SeqsOf
  <2>4. Digest(other)[e.sender] = Summarize(present)
    BY <2>1 DEF Digest
  <2>5. bound[e.sender] \in Nat
    BY <2>1
  <2>6. Contains(Summarize(present), e.seq) <=> e.seq \in present
    <3> HIDE DEF present
    <3> QED BY <2>1, <2>2, <2>3, <2>5, SummaryExact
  <2>7. e.seq \in present <=> e \in other
    BY DEF SeqsOf, Id
  <2>8. QED
    BY <2>4, <2>6, <2>7
<1>2. QED
  BY <1>1 DEF MissingFrom

(* A digest has the type that the wire carries.                            *)
LEMMA DigestType ==
  ASSUME NEW events \in SUBSET Event, NEW bound \in [Peer -> Nat],
         \A e \in events : e.seq <= bound[e.sender]
  PROVE  Digest(events) \in
           [Peer -> [max_seen : Nat, contiguous_frontier : Nat,
                     gaps : SUBSET Nat]]
<1>1. ASSUME NEW sender \in Peer
      PROVE  Summarize(SeqsOf(events, sender)) \in
               [max_seen : Nat, contiguous_frontier : Nat, gaps : SUBSET Nat]
  <2> DEFINE present == SeqsOf(events, sender)
  <2>1. present \in SUBSET (Nat \ {0}) /\ \A n \in present : n <= bound[sender]
    BY DEF SeqsOf, Event
  <2>2. bound[sender] \in Nat
    BY <1>1
  <2> HIDE DEF present
  <2>3. Summarize(present) \in
          [max_seen : Nat, contiguous_frontier : Nat, gaps : SUBSET Nat]
    BY <2>1, <2>2, SummaryType
  <2>4. QED
    BY <2>3 DEF present
<1>2. QED
  BY <1>1 DEF Digest

----------------------------------------------------------------------------
(* The type invariant and what travels *)

Digests ==
  [Peer -> [max_seen : Nat, contiguous_frontier : Nat, gaps : SUBSET Nat]]

Wires == [Pairs -> Seq(Frames)]

(* The clock stays a stamp, at the limit of its counter too.               *)
LEMMA ClockTypes ==
  ASSUME NEW last \in Stamp, NEW wall \in Nat, NEW remote \in Stamp
  PROVE  Tick(last, wall) \in Stamp /\ Observe(last, remote, wall) \in Stamp
<1>1. \A l \in Logical : Saturated(l) \in Logical
  BY MaxLogicalAssumption DEF Logical, Saturated
<1>2. 0 \in Logical
  BY MaxLogicalAssumption DEF Logical
<1>3. /\ last[1] \in Nat /\ last[2] \in Logical
      /\ remote[1] \in Nat /\ remote[2] \in Logical
      /\ last = <<last[1], last[2]>>
  BY DEF Stamp
<1>4. Tick(last, wall) \in Stamp
  BY <1>1, <1>2, <1>3 DEF Tick, Stamp
<1>5. Later(last[2], remote[2]) \in Logical
  BY <1>3 DEF Later
<1>6. Later(wall, Later(last[1], remote[1])) \in Nat
  BY <1>3 DEF Later
<1>7. Observe(last, remote, wall) \in Stamp
  BY <1>1, <1>2, <1>3, <1>5, <1>6 DEF Observe, Stamp
<1>8. QED
  BY <1>4, <1>7

(* Frames and handlers by their tag.                                       *)
LEMMA FrameForms ==
  ASSUME NEW frame \in Frames
  PROVE  /\ frame.kind = "syncDigest" => frame.digest \in Digests
         /\ frame.kind = "eventBatch" => frame.events \in SUBSET Event
         /\ frame.kind = "persistedAck" => frame.ids \in SUBSET Slot
BY DEF Frames, Digests

LEMMA FrameTypes ==
  /\ \A digest \in Digests : DigestFrame(digest) \in Frames
  /\ \A events \in SUBSET Event : BatchFrame(events) \in Frames
  /\ \A ids \in SUBSET Slot : AckFrame(ids) \in Frames
BY DEF Frames, Digests, DigestFrame, BatchFrame, AckFrame

LEMMA HandlerForms ==
  ASSUME NEW w \in Handlers
  PROVE  /\ w.stage = "ingesting" => /\ w.from \in Peer
                                     /\ w.todo \in SUBSET Event
                                     /\ w.done \in SUBSET Slot
         /\ w.stage = "publishing" => w.event \in Event
         /\ w = Idle => w.stage = "idle"
BY DEF Handlers, Idle

LEMMA HandlerTypes ==
  /\ Idle \in Handlers
  /\ \A from \in Peer, todo \in SUBSET Event, done \in SUBSET Slot :
       Ingesting(from, todo, done) \in Handlers
  /\ \A event \in Event : Publishing(event) \in Handlers
BY DEF Handlers, Idle, Ingesting, Publishing

LEMMA IdType ==
  /\ \A event \in Event : Id(event) \in Slot
  /\ \A events \in SUBSET Event : Ids(events) \in SUBSET Slot
BY DEF Id, Ids, Event, Slot

(* Sending one frame, and taking the first one, keep the wire a wire.       *)
LEMMA SendType ==
  ASSUME NEW w \in Wires, NEW pair \in Pairs, NEW frame \in Frames
  PROVE  [w EXCEPT ![pair] = Append(@, frame)] \in Wires
BY AppendProperties DEF Wires

LEMMA TakeType ==
  ASSUME wire \in Wires, NEW p \in Peer, NEW q \in Peer,
         wire[<<q, p>>] # <<>>
  PROVE  /\ Head(wire[<<q, p>>]) \in Frames
         /\ Take(q, p) \in Wires
<1>1. <<q, p>> \in Pairs
  BY DEF Pairs
<1>2. wire[<<q, p>>] \in Seq(Frames)
  BY <1>1 DEF Wires
<1>3. Head(wire[<<q, p>>]) \in Frames /\ Tail(wire[<<q, p>>]) \in Seq(Frames)
  BY <1>2, HeadTailProperties
<1>4. QED
  BY <1>1, <1>3 DEF Take, Wires

LEMMA TransmitType ==
  ASSUME wire \in Wires, NEW p \in Peer, NEW event \in Event
  PROVE  Transmit(p, [q \in Reachable(p) |-> BatchFrame({event})]) \in Wires
<1> DEFINE frames == [q \in Reachable(p) |-> BatchFrame({event})]
<1>1. BatchFrame({event}) \in Frames
  BY FrameTypes
<1>2. ASSUME NEW pair \in Pairs
      PROVE  (IF pair[1] = p /\ pair[2] \in DOMAIN frames
                THEN Append(wire[pair], frames[pair[2]]) ELSE wire[pair])
               \in Seq(Frames)
  <2>1. wire[pair] \in Seq(Frames)
    BY <1>2 DEF Wires
  <2>2. Append(wire[pair], BatchFrame({event})) \in Seq(Frames)
    BY <1>1, <2>1, AppendProperties
  <2>3. QED
    BY <2>1, <2>2
<1>3. QED
  BY <1>2 DEF Transmit, Wires

----------------------------------------------------------------------------
(* The inductive invariant.  Its parts take the logs as a parameter, so     *)
(* that the lemmas about them can be cited for the logs before and after a  *)
(* step.                                                                    *)

All(logs) == UNION {logs[p] : p \in Peer}

(* Logs only grow from before to after.                                     *)
Extends(before, after) == \A p \in Peer : before[p] \subseteq after[p]

(* Every event is in its sender's log, under a sequence already given out,  *)
(* and every sequence given out is in the sender's log.                     *)
OwnLog(logs, next) ==
  /\ \A e \in All(logs) : e \in logs[e.sender] /\ e.seq < next[e.sender]
  /\ \A p \in Peer : \A n \in Nat \ {0} :
       n < next[p] => \E e \in logs[p] : e.sender = p /\ e.seq = n

Agreement(logs) == \A e, f \in All(logs) : Id(e) = Id(f) => e = f

(* Frames and handlers carry only events that are in some log, and          *)
(* acknowledge only what the device that sends the frame has.               *)
FrameSound(logs, frame, sender) ==
  /\ frame.kind = "eventBatch" => frame.events \subseteq All(logs)
  /\ frame.kind = "persistedAck" => frame.ids \subseteq Ids(logs[sender])

WireSound(logs, frames) ==
  \A pair \in Pairs : \A i \in 1 .. Len(frames[pair]) :
    FrameSound(logs, frames[pair][i], pair[1])

WorkSound(logs, handlers) ==
  \A p \in Peer :
    /\ handlers[p].stage = "ingesting"
         => /\ handlers[p].todo \subseteq All(logs)
            /\ handlers[p].done \subseteq Ids(logs[p])
    /\ handlers[p].stage = "publishing" => handlers[p].event \in logs[p]

AcksSound(logs, rows) ==
  \A p \in Peer : \A pair \in rows[p] :
    \E e \in logs[pair[2]] : Id(e) = pair[1] /\ pair[2] \in e.targets

ReplicasSound(logs, rows) ==
  \A p \in Peer : \A pair \in rows[p] : pair[1] \in Ids(logs[pair[2]])

Inv ==
  /\ TypeOK
  /\ OwnLog(log, nextSeq)
  /\ Agreement(log)
  /\ WireSound(log, wire)
  /\ WorkSound(log, work)
  /\ AcksSound(log, acks)
  /\ ReplicasSound(log, replicas)

Logs == [Peer -> SUBSET Event]

(* What is sound for some logs is sound for larger ones.                    *)
LEMMA SoundGrows ==
  ASSUME NEW before \in Logs, NEW after \in Logs, Extends(before, after)
  PROVE  /\ All(before) \subseteq All(after)
         /\ \A p \in Peer : Ids(before[p]) \subseteq Ids(after[p])
         /\ \A w \in Wires : WireSound(before, w) => WireSound(after, w)
         /\ \A h \in [Peer -> Handlers] :
              WorkSound(before, h) => WorkSound(after, h)
         /\ \A rows \in [Peer -> SUBSET (Slot \X Peer)] :
              /\ AcksSound(before, rows) => AcksSound(after, rows)
              /\ ReplicasSound(before, rows) => ReplicasSound(after, rows)
<1>1. All(before) \subseteq All(after)
  BY DEF All, Extends
<1>2. \A p \in Peer : Ids(before[p]) \subseteq Ids(after[p])
  BY DEF Ids, Extends
<1>3. \A frame : \A p \in Peer : FrameSound(before, frame, p)
                                  => FrameSound(after, frame, p)
  BY <1>1, <1>2 DEF FrameSound
<1>4. \A w \in Wires : WireSound(before, w) => WireSound(after, w)
  BY <1>3 DEF WireSound, Pairs
<1>5. \A h \in [Peer -> Handlers] : WorkSound(before, h) => WorkSound(after, h)
  BY <1>1, <1>2 DEF WorkSound, Extends
<1>6. ASSUME NEW rows \in [Peer -> SUBSET (Slot \X Peer)]
      PROVE  /\ AcksSound(before, rows) => AcksSound(after, rows)
             /\ ReplicasSound(before, rows) => ReplicasSound(after, rows)
  <2>1. \A p \in Peer : \A pair \in rows[p] : pair[2] \in Peer
    OBVIOUS
  <2>2. AcksSound(before, rows) => AcksSound(after, rows)
    BY <2>1 DEF AcksSound, Extends
  <2>3. ReplicasSound(before, rows) => ReplicasSound(after, rows)
    BY <2>1, <1>2 DEF ReplicasSound
  <2>4. QED
    BY <2>2, <2>3
<1>7. QED
  BY <1>1, <1>2, <1>4, <1>5, <1>6

(* A sound frame can be appended to a sound wire.                           *)
LEMMA SendSound ==
  ASSUME NEW logs, NEW w \in Wires, WireSound(logs, w),
         NEW pair \in Pairs, NEW frame \in Frames,
         FrameSound(logs, frame, pair[1])
  PROVE  WireSound(logs, [w EXCEPT ![pair] = Append(@, frame)])
<1> DEFINE new == [w EXCEPT ![pair] = Append(@, frame)]
<1>1. w[pair] \in Seq(Frames)
  BY DEF Wires
<1>2. ASSUME NEW other \in Pairs, NEW i \in 1 .. Len(new[other])
      PROVE  FrameSound(logs, new[other][i], other[1])
  <2>1. CASE other = pair
    <3>1. new[other] = Append(w[pair], frame)
      BY <2>1 DEF Wires
    <3>2. CASE i \in 1 .. Len(w[pair])
      <4>1. new[other][i] = w[pair][i]
        BY <1>1, <3>1, <3>2, AppendProperties
      <4>2. QED
        BY <2>1, <3>2, <4>1 DEF WireSound
    <3>3. CASE i = Len(w[pair]) + 1
      <4>1. new[other][i] = frame
        BY <1>1, <3>1, <3>3, AppendProperties
      <4>2. QED
        BY <2>1, <4>1
    <3>4. QED
      BY <1>1, <1>2, <3>1, <3>2, <3>3, AppendProperties
  <2>2. CASE other # pair
    <3>1. new[other] = w[other]
      BY <2>2 DEF Wires
    <3>2. QED
      BY <1>2, <3>1 DEF WireSound
  <2>3. QED
    BY <2>1, <2>2
<1>3. QED
  BY <1>2 DEF WireSound

(* The first frame of a sound wire is sound, and so is what it leaves.      *)
LEMMA TakeSound ==
  ASSUME NEW logs, wire \in Wires, WireSound(logs, wire),
         NEW p \in Peer, NEW q \in Peer, wire[<<q, p>>] # <<>>
  PROVE  /\ FrameSound(logs, Head(wire[<<q, p>>]), q)
         /\ WireSound(logs, Take(q, p))
<1>1. <<q, p>> \in Pairs /\ wire[<<q, p>>] \in Seq(Frames)
  BY DEF Pairs, Wires
<1>2. FrameSound(logs, Head(wire[<<q, p>>]), q)
  <2>1. 1 \in 1 .. Len(wire[<<q, p>>])
    BY <1>1, EmptySeq, LenProperties
  <2>2. Head(wire[<<q, p>>]) = wire[<<q, p>>][1]
    BY <1>1, HeadTailProperties
  <2>3. QED
    BY <1>1, <2>1, <2>2 DEF WireSound
<1>3. ASSUME NEW pair \in Pairs, NEW i \in 1 .. Len(Take(q, p)[pair])
      PROVE  FrameSound(logs, Take(q, p)[pair][i], pair[1])
  <2>1. CASE pair = <<q, p>>
    <3>1. Take(q, p)[pair] = Tail(wire[<<q, p>>])
      BY <1>1, <2>1 DEF Take, Wires
    <3>2. /\ Len(Tail(wire[<<q, p>>])) = Len(wire[<<q, p>>]) - 1
          /\ i \in 1 .. Len(wire[<<q, p>>]) - 1
          /\ Len(wire[<<q, p>>]) \in Nat
      BY <1>1, <1>3, <3>1, HeadTailProperties, LenProperties
    <3>3. Tail(wire[<<q, p>>])[i] = wire[<<q, p>>][i + 1]
      BY <1>1, <3>2, HeadTailProperties
    <3>4. i + 1 \in 1 .. Len(wire[<<q, p>>])
      BY <3>2
    <3>5. QED
      BY <1>1, <2>1, <3>1, <3>3, <3>4 DEF WireSound
  <2>2. CASE pair # <<q, p>>
    <3>1. Take(q, p)[pair] = wire[pair]
      BY <2>2 DEF Take, Wires
    <3>2. QED
      BY <1>3, <3>1 DEF WireSound
  <2>3. QED
    BY <2>1, <2>2
<1>4. QED
  BY <1>2, <1>3 DEF WireSound

LEMMA TransmitSound ==
  ASSUME NEW logs, wire \in Wires, WireSound(logs, wire),
         NEW p \in Peer, NEW event \in All(logs)
  PROVE  WireSound(logs,
                   Transmit(p, [q \in Reachable(p) |-> BatchFrame({event})]))
<1> DEFINE new == Transmit(p, [q \in Reachable(p) |-> BatchFrame({event})])
           frame == BatchFrame({event})
<1>1. ASSUME NEW pair \in Pairs, NEW i \in 1 .. Len(new[pair])
      PROVE  FrameSound(logs, new[pair][i], pair[1])
  <2>1. wire[pair] \in Seq(Frames)
    BY DEF Wires
  <2>2. new[pair] = wire[pair] \/ new[pair] = Append(wire[pair], frame)
    BY DEF Transmit
  <2>3. FrameSound(logs, frame, pair[1])
    BY DEF FrameSound, BatchFrame
  <2>4. CASE new[pair] = wire[pair]
    BY <1>1, <2>4 DEF WireSound
  <2>5. CASE new[pair] = Append(wire[pair], frame)
    <3>1. i \in 1 .. Len(wire[pair]) + 1
      BY <1>1, <2>5 DEF Wires
    <3>2. Append(wire[pair], frame)[i]
            = IF i = Len(wire[pair]) + 1 THEN frame ELSE wire[pair][i]
      BY <2>1, <3>1
    <3>3. CASE i = Len(wire[pair]) + 1
      BY <2>3, <2>5, <3>2, <3>3
    <3>4. CASE i # Len(wire[pair]) + 1
      <4>1. i \in 1 .. Len(wire[pair])
        BY <2>1, <3>1, <3>4, LenProperties
      <4>2. QED
        BY <2>5, <3>2, <3>4, <4>1 DEF WireSound
    <3>5. QED
      BY <3>3, <3>4
  <2>6. QED
    BY <2>2, <2>4, <2>5
<1>2. QED
  BY <1>1 DEF WireSound

(* Losing the frames of some connections.                                   *)
LEMMA LoseSound ==
  ASSUME NEW logs, wire \in Wires, WireSound(logs, wire),
         NEW w, w = [pair \in Pairs |-> w[pair]],
         \A pair \in Pairs : w[pair] \in {<<>>, wire[pair]}
  PROVE  w \in Wires /\ WireSound(logs, w)
<1>1. w \in Wires
  <2>1. \A pair \in Pairs : wire[pair] \in Seq(Frames) /\ <<>> \in Seq(Frames)
    BY DEF Wires
  <2>2. \A pair \in Pairs : w[pair] \in Seq(Frames)
    BY <2>1
  <2>3. [pair \in Pairs |-> w[pair]] \in Wires
    BY <2>2 DEF Wires
  <2>4. QED
    BY <2>3
<1>2. ASSUME NEW pair \in Pairs, NEW i \in 1 .. Len(w[pair])
      PROVE  FrameSound(logs, w[pair][i], pair[1])
  <2>1. Len(<<>>) = 0
    OBVIOUS
  <2>2. CASE w[pair] = <<>>
    BY <1>2, <2>1, <2>2
  <2>3. CASE w[pair] = wire[pair]
    BY <1>2, <2>3 DEF WireSound
  <2>4. QED
    BY <2>2, <2>3
<1>3. QED
  BY <1>1, <1>2 DEF WireSound

----------------------------------------------------------------------------
(* What the two steps that change a log do to the logs.                     *)

(* Logs grow by copies of events that are already in some log.              *)
LEMMA CopySound ==
  ASSUME NEW logs \in Logs, NEW next, OwnLog(logs, next), Agreement(logs),
         NEW after \in Logs, Extends(logs, after), All(after) \subseteq All(logs)
  PROVE  /\ All(after) = All(logs)
         /\ OwnLog(after, next)
         /\ Agreement(after)
<1>1. All(after) = All(logs)
  BY DEF All, Extends
<1>2. \A e \in All(logs) : e.sender \in Peer
  BY DEF All, Logs, Event
<1>3. OwnLog(after, next)
  BY <1>1, <1>2 DEF OwnLog, Extends
<1>4. Agreement(after)
  BY <1>1 DEF Agreement
<1>5. QED
  BY <1>1, <1>3, <1>4

(* A sender adds the event of its next sequence.                            *)
LEMMA PublishSound ==
  ASSUME NEW logs \in Logs, NEW next \in [Peer -> Nat \ {0}],
         OwnLog(logs, next), Agreement(logs),
         NEW p \in Peer, NEW event \in Event,
         event.sender = p, event.seq = next[p],
         NEW after \in [Peer -> SUBSET Event],
         after[p] = logs[p] \cup {event},
         \A q \in Peer \ {p} : after[q] = logs[q],
         NEW later \in [Peer -> Nat \ {0}],
         later[p] = next[p] + 1,
         \A q \in Peer \ {p} : later[q] = next[q]
  PROVE  /\ after \in Logs
         /\ Extends(logs, after)
         /\ All(after) = All(logs) \cup {event}
         /\ OwnLog(after, later)
         /\ Agreement(after)
         /\ Id(event) \notin Ids(All(logs))
<1>1. /\ \A q \in Peer \ {p} : after[q] = logs[q]
      /\ after[p] = logs[p] \cup {event}
      /\ after \in Logs
  BY DEF Logs
<1>2. /\ \A q \in Peer \ {p} : later[q] = next[q]
      /\ later[p] = next[p] + 1
  OBVIOUS
<1>3. Extends(logs, after)
  BY <1>1 DEF Extends
<1>4. All(after) = All(logs) \cup {event}
  <2>1. All(after) \subseteq All(logs) \cup {event}
    BY <1>1 DEF All
  <2>2. All(logs) \subseteq All(after)
    BY <1>3 DEF All, Extends
  <2>3. event \in All(after)
    BY <1>1 DEF All
  <2>4. QED
    BY <2>1, <2>2, <2>3
<1>5. \A e \in All(logs) : /\ e \in Event /\ e.sender \in Peer /\ e.seq \in Nat
                           /\ e \in logs[e.sender] /\ e.seq < next[e.sender]
  BY DEF All, Logs, Event, OwnLog
<1>6. \A e \in All(logs) : Id(e) # Id(event)
  BY <1>5 DEF Id
<1>7. OwnLog(after, later)
  <2>1. ASSUME NEW e \in All(logs)
        PROVE  e \in after[e.sender] /\ e.seq < later[e.sender]
    <3>1. e \in after[e.sender]
      BY <1>3, <1>5 DEF Extends
    <3>2. /\ e.sender \in Peer /\ e.seq \in Nat /\ e.seq < next[e.sender]
          /\ next[p] \in Nat
      BY <1>5
    <3>3. e.sender = p => e.seq < later[e.sender]
      BY <1>2, <3>2
    <3>4. e.sender # p => e.seq < later[e.sender]
      BY <1>2, <3>2
    <3>5. QED
      BY <3>1, <3>3, <3>4
  <2>2. event \in after[event.sender] /\ event.seq < later[event.sender]
    BY <1>1, <1>2
  <2>3. ASSUME NEW q \in Peer, NEW n \in Nat \ {0}, n < later[q]
        PROVE  \E e \in after[q] : e.sender = q /\ e.seq = n
    <3>1. CASE n < next[q]
      BY <1>3, <3>1 DEF OwnLog, Extends
    <3>2. CASE ~(n < next[q])
      <4>1. q = p /\ n = next[p]
        BY <1>2, <2>3, <3>2
      <4>2. QED
        BY <1>1, <4>1
    <3>3. QED
      BY <3>1, <3>2
  <2>4. QED
    BY <1>4, <2>1, <2>2, <2>3 DEF OwnLog
<1>8. Agreement(after)
  BY <1>4, <1>6 DEF Agreement
<1>9. Id(event) \notin Ids(All(logs))
  BY <1>6 DEF Ids
<1>10. QED
  BY <1>1, <1>3, <1>4, <1>7, <1>8, <1>9

----------------------------------------------------------------------------
(* The invariant holds initially, and every action preserves it.            *)

LEMMA InitInv == Init => Inv
<1> SUFFICES ASSUME Init PROVE Inv
  OBVIOUS
<1> USE DEF Init
<1>1. TypeOK
  <2>1. ZeroStamp \in Stamp
    BY MaxLogicalAssumption DEF ZeroStamp, Stamp, Logical
  <2>2. wire \in [Pairs -> Seq(Frames)]
    OBVIOUS
  <2>3. work \in [Peer -> Handlers]
    BY HandlerTypes
  <2>4. QED
    BY <2>1, <2>2, <2>3 DEF TypeOK, End
<1>2. All(log) = {}
  BY DEF All
<1>3. OwnLog(log, nextSeq) /\ Agreement(log)
  <2>1. \A n \in Nat \ {0} : ~(n < 1)
    OBVIOUS
  <2>2. QED
    BY <1>2, <2>1 DEF OwnLog, Agreement
<1>4. WireSound(log, wire)
  BY DEF WireSound
<1>5. WorkSound(log, work)
  BY DEF WorkSound, Idle
<1>6. AcksSound(log, acks) /\ ReplicasSound(log, replicas)
  BY DEF AcksSound, ReplicasSound
<1>7. QED
  BY <1>1, <1>3, <1>4, <1>5, <1>6 DEF Inv

(* A digest may be sent in any state of the invariant.                      *)
LEMMA DigestSent ==
  ASSUME Inv, NEW p \in Peer, NEW q \in Peer
  PROVE  LET frame == DigestFrame(Digest(log[p]))
         IN  /\ frame \in Frames
             /\ FrameSound(log, frame, p)
             /\ [wire EXCEPT ![<<p, q>>] = Append(@, frame)] \in Wires
             /\ WireSound(log, [wire EXCEPT ![<<p, q>>] = Append(@, frame)])
<1> DEFINE frame == DigestFrame(Digest(log[p]))
<1>1. /\ log[p] \in SUBSET Event
      /\ nextSeq \in [Peer -> Nat]
      /\ log[p] \subseteq All(log)
  BY DEF Inv, TypeOK, All
<1>2. \A e \in log[p] : e.seq <= nextSeq[e.sender]
  BY <1>1 DEF Inv, OwnLog, Event
<1>3. Digest(log[p]) \in Digests
  BY <1>1, <1>2, DigestType DEF Digests
<1>4. frame \in Frames
  BY <1>3, FrameTypes
<1>5. FrameSound(log, frame, p)
  BY DEF FrameSound, DigestFrame
<1>6. wire \in Wires /\ WireSound(log, wire) /\ <<p, q>> \in Pairs
      /\ <<p, q>>[1] = p
  BY DEF Inv, TypeOK, Wires, Pairs
<1> HIDE DEF frame
<1>7. [wire EXCEPT ![<<p, q>>] = Append(@, frame)] \in Wires
  BY <1>4, <1>6, SendType
<1>8. WireSound(log, [wire EXCEPT ![<<p, q>>] = Append(@, frame)])
  BY <1>4, <1>5, <1>6, SendSound
<1>9. QED
  BY <1>4, <1>5, <1>7, <1>8 DEF frame

LEMMA PublishInv ==
  ASSUME Inv, NEW p \in Peer, NEW audience \in Audiences,
         NEW parent \in Parents(p), NEW policy \in Policies,
         NEW wall \in WallClock, Publish(p, audience, parent, policy, wall)
  PROVE  /\ Inv'
         /\ \E event \in Event : /\ event.sender = p
                               /\ Id(event) \notin Ids(All(log))
                               /\ log' = [log EXCEPT ![p] = @ \cup {event}]
                               /\ event \in log'[p] \ log[p]
<1> DEFINE event == [sender |-> p, seq |-> nextSeq[p],
                     clock |-> Tick(clock[p], wall), created |-> wall,
                     targets |-> Targets(p, audience, Peer),
                     parent |-> parent, policy |-> policy]
<1>1. TypeOK /\ wall \in Nat /\ policy \in Policy
  BY ChoiceAssumption DEF Inv
<1>2. event \in Event
  <2>1. Tick(clock[p], wall) \in Stamp
    BY <1>1, ClockTypes DEF TypeOK
  <2>2. Targets(p, audience, Peer) \in SUBSET Peer
    BY DEF Targets
  <2>3. parent \in Slot \cup {NoParent}
    BY <1>1 DEF Parents, TypeOK
  <2>4. nextSeq[p] \in Nat \ {0}
    BY <1>1 DEF TypeOK
  <2>5. QED
    BY <1>1, <2>1, <2>2, <2>3, <2>4 DEF Event
<1>3. /\ log' = [log EXCEPT ![p] = @ \cup {event}]
      /\ nextSeq' = [nextSeq EXCEPT ![p] = @ + 1]
      /\ clock' = [clock EXCEPT ![p] = event.clock]
      /\ view' = [view EXCEPT ![p] = @ \cup {Id(event)}]
      /\ work' = [work EXCEPT ![p] = Publishing(event)]
      /\ UNCHANGED <<acks, replicas, saved, link, wire, hints, expired,
                     crashes, drops>>
  BY DEF Publish, Committed, TypeOK, Inv, air, bounds
<1>4. event.sender = p /\ event.seq = nextSeq[p] /\ event.clock \in Stamp
  BY <1>2 DEF Event
<1> HIDE DEF event
<1>5. log \in Logs /\ nextSeq \in [Peer -> Nat \ {0}]
  BY <1>1 DEF TypeOK, Logs
<1>6. /\ log' \in Logs
      /\ Extends(log, log')
      /\ All(log') = All(log) \cup {event}
      /\ OwnLog(log', nextSeq')
      /\ Agreement(log')
      /\ Id(event) \notin Ids(All(log))
  <2>1. OwnLog(log, nextSeq) /\ Agreement(log)
    BY DEF Inv
  <2>2. /\ log' \in [Peer -> SUBSET Event]
        /\ log'[p] = log[p] \cup {event}
        /\ \A q \in Peer \ {p} : log'[q] = log[q]
    BY <1>2, <1>3, <1>5 DEF Logs
  <2>3. /\ nextSeq' \in [Peer -> Nat \ {0}]
        /\ nextSeq'[p] = nextSeq[p] + 1
        /\ \A q \in Peer \ {p} : nextSeq'[q] = nextSeq[q]
    BY <1>3, <1>5
  <2>4. QED
    BY <1>2, <1>4, <1>5, <2>1, <2>2, <2>3, PublishSound
<1>7. TypeOK'
  <2>1. nextSeq' \in [Peer -> Nat \ {0}]
    BY <1>3, <1>5
  <2>2. work' \in [Peer -> Handlers]
    BY <1>1, <1>2, <1>3, HandlerTypes DEF TypeOK
  <2>3. view' \in [Peer -> SUBSET Slot] /\ clock' \in [Peer -> Stamp]
    BY <1>1, <1>2, <1>3, <1>4, IdType DEF TypeOK
  <2>4. QED
    BY <1>1, <1>3, <1>6, <2>1, <2>2, <2>3 DEF TypeOK, Logs
<1>8. /\ WireSound(log', wire') /\ AcksSound(log', acks')
      /\ ReplicasSound(log', replicas')
  <2>1. wire \in Wires /\ acks \in [Peer -> SUBSET (Slot \X Peer)]
        /\ replicas \in [Peer -> SUBSET (Slot \X Peer)]
    BY <1>1 DEF TypeOK, Wires
  <2>2. QED
    BY <1>3, <1>5, <1>6, <2>1, SoundGrows DEF Inv
<1>9. WorkSound(log', work')
  <2>1. work \in [Peer -> Handlers] /\ WorkSound(log, work)
    BY <1>1 DEF TypeOK, Inv
  <2>2. WorkSound(log', work)
    BY <1>5, <1>6, <2>1, SoundGrows
  <2>3. event \in log'[p]
    BY <1>3, <1>5 DEF Logs
  <2>4. /\ work'[p] = Publishing(event)
        /\ \A q \in Peer \ {p} : work'[q] = work[q]
    BY <1>3, <2>1
  <2>5. QED
    BY <2>2, <2>3, <2>4 DEF WorkSound, Publishing
<1>10. Inv'
  BY <1>6, <1>7, <1>8, <1>9 DEF Inv
<1>11. event \in log'[p] \ log[p]
  <2>1. log[p] \subseteq All(log)
    BY DEF All
  <2>2. QED
    BY <1>3, <1>5, <1>6, <2>1 DEF Ids, Logs
<1>12. QED
  BY <1>2, <1>3, <1>4, <1>6, <1>10, <1>11

LEMMA FinishPublishInv ==
  ASSUME Inv, NEW p \in Peer, FinishPublish(p)
  PROVE  Inv' /\ UNCHANGED <<log, acks>>
<1> DEFINE event == work[p].event
<1>1. TypeOK /\ WireSound(log, wire) /\ WorkSound(log, work) /\ wire \in Wires
  BY DEF Inv, TypeOK, Wires
<1>2. work[p] \in Handlers /\ work[p].stage = "publishing"
  BY <1>1 DEF TypeOK, FinishPublish
<1>3. event \in Event
  BY <1>2, HandlerForms
<1>4. event \in All(log)
  BY <1>1, <1>2 DEF WorkSound, All
<1>5. /\ wire' = Transmit(p, [q \in Reachable(p) |-> BatchFrame({event})])
      /\ \/ hints' = hints
         \/ hints' = hints \cup {pair \in BleRange : pair[1] = p}
      /\ saved' = [saved EXCEPT ![p] = view[p]]
      /\ work' = [work EXCEPT ![p] = Idle]
      /\ UNCHANGED <<log, nextSeq, acks, replicas, view, clock, link,
                     expired, crashes, drops>>
  BY DEF FinishPublish, bounds
<1> HIDE DEF event
<1>6. wire' \in Wires /\ WireSound(log, wire')
  BY <1>1, <1>3, <1>4, <1>5, TransmitType, TransmitSound
<1>7. TypeOK'
  <2>1. hints' \subseteq Pairs
    BY <1>1, <1>5, RangeAssumption DEF TypeOK, Pairs
  <2>2. saved' \in [Peer -> SUBSET Slot]
    BY <1>1, <1>5 DEF TypeOK
  <2>3. work' \in [Peer -> Handlers]
    BY <1>1, <1>5, HandlerTypes DEF TypeOK
  <2>4. QED
    BY <1>1, <1>5, <1>6, <2>1, <2>2, <2>3 DEF TypeOK, Wires
<1>8. WorkSound(log, work')
  <2>1. work'[p] = Idle /\ \A q \in Peer \ {p} : work'[q] = work[q]
    BY <1>1, <1>5 DEF TypeOK
  <2>2. QED
    BY <1>1, <2>1 DEF WorkSound, Idle
<1>9. QED
  BY <1>5, <1>6, <1>7, <1>8 DEF Inv

LEMMA ReceiveDigestInv ==
  ASSUME Inv, NEW p \in Peer, NEW q \in Peer, ReceiveDigest(p, q)
  PROVE  Inv' /\ UNCHANGED <<log, acks>>
<1> DEFINE missing == MissingFrom(log[p], Head(wire[<<q, p>>]).digest)
           taken == Take(q, p)
<1>1. TypeOK /\ WireSound(log, wire) /\ wire \in Wires /\ wire[<<q, p>>] # <<>>
  BY DEF Inv, TypeOK, Wires, ReceiveDigest, Arrives
<1>2. taken \in Wires /\ WireSound(log, taken)
  BY <1>1, TakeType, TakeSound
<1>3. BatchFrame(missing) \in Frames /\ FrameSound(log, BatchFrame(missing), p)
  <2>1. missing \in SUBSET Event /\ missing \subseteq All(log)
    BY <1>1 DEF MissingFrom, All, TypeOK
  <2>2. QED
    BY <2>1, FrameTypes DEF FrameSound, BatchFrame
<1>4. <<p, q>> \in Pairs /\ <<p, q>>[1] = p
  BY DEF Pairs
<1>5. /\ \/ wire' = taken
         \/ wire' = [taken EXCEPT ![<<p, q>>] = Append(@, BatchFrame(missing))]
      /\ saved' = [saved EXCEPT ![p] = view[p]]
      /\ UNCHANGED <<log, nextSeq, acks, replicas, view, clock, work, link,
                     hints, expired, crashes, drops>>
  BY DEF ReceiveDigest, memory, bounds
<1> HIDE DEF missing, taken
<1>6. wire' \in Wires /\ WireSound(log, wire')
  BY <1>2, <1>3, <1>4, <1>5, SendType, SendSound
<1>7. TypeOK'
  BY <1>1, <1>5, <1>6 DEF TypeOK, Wires
<1>8. QED
  BY <1>5, <1>6, <1>7 DEF Inv

LEMMA ReceiveBatchInv ==
  ASSUME Inv, NEW p \in Peer, NEW q \in Peer, ReceiveBatch(p, q)
  PROVE  Inv' /\ UNCHANGED <<log, acks>>
<1> DEFINE events == Head(wire[<<q, p>>]).events
<1>1. /\ TypeOK /\ WireSound(log, wire) /\ wire \in Wires
      /\ WorkSound(log, work)
      /\ wire[<<q, p>>] # <<>> /\ Head(wire[<<q, p>>]).kind = "eventBatch"
  BY DEF Inv, TypeOK, Wires, ReceiveBatch, Arrives
<1>2. /\ Take(q, p) \in Wires /\ WireSound(log, Take(q, p))
      /\ Head(wire[<<q, p>>]) \in Frames
      /\ FrameSound(log, Head(wire[<<q, p>>]), q)
  BY <1>1, TakeType, TakeSound
<1>3. events \in SUBSET Event /\ events \subseteq All(log)
  BY <1>1, <1>2, FrameForms DEF FrameSound
<1>4. /\ work' = [work EXCEPT ![p] = Ingesting(q, events, {})]
      /\ wire' = Take(q, p)
      /\ UNCHANGED <<log, nextSeq, acks, replicas, saved, view, clock, link,
                     hints, expired, crashes, drops>>
  BY DEF ReceiveBatch, disk, bounds
<1> HIDE DEF events
<1>5. work' \in [Peer -> Handlers]
  BY <1>1, <1>3, <1>4, HandlerTypes DEF TypeOK
<1>6. TypeOK'
  BY <1>1, <1>2, <1>4, <1>5 DEF TypeOK, Wires
<1>7. WorkSound(log, work')
  <2>1. /\ work'[p] = Ingesting(q, events, {})
        /\ \A r \in Peer \ {p} : work'[r] = work[r]
    BY <1>1, <1>4 DEF TypeOK
  <2>2. QED
    BY <1>1, <1>3, <2>1 DEF WorkSound, Ingesting
<1>8. QED
  BY <1>2, <1>4, <1>6, <1>7 DEF Inv

LEMMA FinishBatchInv ==
  ASSUME Inv, NEW p \in Peer, FinishBatch(p)
  PROVE  Inv' /\ UNCHANGED <<log, acks>>
<1> DEFINE from == work[p].from
           frame == AckFrame(work[p].done)
<1>1. TypeOK /\ WireSound(log, wire) /\ wire \in Wires /\ WorkSound(log, work)
  BY DEF Inv, TypeOK, Wires
<1>2. work[p] \in Handlers /\ work[p].stage = "ingesting"
  BY <1>1 DEF TypeOK, FinishBatch
<1>3. from \in Peer /\ <<p, from>> \in Pairs /\ <<p, from>>[1] = p
  BY <1>2, HandlerForms DEF Pairs
<1>4. frame \in Frames /\ FrameSound(log, frame, p)
  <2>1. work[p].done \in SUBSET Slot /\ work[p].done \subseteq Ids(log[p])
    BY <1>1, <1>2, HandlerForms DEF WorkSound
  <2>2. QED
    BY <2>1, FrameTypes DEF FrameSound, AckFrame
<1>5. /\ \/ wire' = wire
         \/ wire' = [wire EXCEPT ![<<p, from>>] = Append(@, frame)]
      /\ saved' = [saved EXCEPT ![p] = view[p]]
      /\ work' = [work EXCEPT ![p] = Idle]
      /\ UNCHANGED <<log, nextSeq, acks, replicas, view, clock, link, hints,
                     expired, crashes, drops>>
  BY DEF FinishBatch, bounds
<1> HIDE DEF from, frame
<1>6. wire' \in Wires /\ WireSound(log, wire')
  BY <1>1, <1>3, <1>4, <1>5, SendType, SendSound, SMTT(30)
<1>7. work' \in [Peer -> Handlers]
  BY <1>1, <1>5, HandlerTypes DEF TypeOK
<1>8. TypeOK'
  BY <1>1, <1>5, <1>6, <1>7 DEF TypeOK, Wires
<1>9. WorkSound(log, work')
  <2>1. work'[p] = Idle /\ \A q \in Peer \ {p} : work'[q] = work[q]
    BY <1>1, <1>5 DEF TypeOK
  <2>2. QED
    BY <1>1, <2>1 DEF WorkSound, Idle
<1>10. QED
  BY <1>5, <1>6, <1>8, <1>9 DEF Inv

(* Breaking connections keeps the types of their ends and of the wire, and  *)
(* only loses frames.                                                       *)
LEMMA BreakSound ==
  ASSUME Inv, NEW gone
  PROVE  /\ Broken(gone) \in [Pairs -> End]
         /\ Cleared(gone) \in Wires
         /\ WireSound(log, Cleared(gone))
<1>1. TypeOK /\ WireSound(log, wire) /\ wire \in Wires
  BY DEF Inv, TypeOK, Wires
<1>2. Broken(gone) \in [Pairs -> End]
  BY <1>1 DEF TypeOK, Broken, End
<1>3. /\ Cleared(gone) = [pair \in Pairs |-> Cleared(gone)[pair]]
      /\ \A pair \in Pairs : Cleared(gone)[pair] \in {<<>>, wire[pair]}
  BY DEF Cleared
<1>4. QED
  BY <1>1, <1>2, <1>3, LoseSound

LEMMA ReceiveHintInv ==
  ASSUME Inv, NEW p \in Peer, NEW q \in Peer, ReceiveHint(p, q)
  PROVE  Inv' /\ UNCHANGED <<log, acks>>
<1>1. TypeOK
  BY DEF Inv
<1>2. /\ wire' = Cleared(AllOf(p))
      /\ hints' = hints \ {<<q, p>>}
      /\ saved' = [saved EXCEPT ![p] = view[p]]
      /\ UNCHANGED <<log, nextSeq, acks, replicas, view, clock, work, expired,
                     crashes, drops>>
  BY DEF ReceiveHint, memory, bounds
<1>3. wire' \in Wires /\ WireSound(log, wire')
  BY <1>2, BreakSound
<1>4. link' \in [Pairs -> End]
  <2>1. PICK told \in {"lost", "stale"} :
          link' = [pair \in Pairs |->
            CASE pair[1] = p /\ link[pair] = "up"   -> "stale"
              [] pair[1] = p /\ link[pair] = "lost" -> told
              [] OTHER -> Broken(AllOf(p))[pair]]
    BY DEF ReceiveHint
  <2>2. Broken(AllOf(p)) \in [Pairs -> End]
    BY BreakSound
  <2>3. told \in End /\ "stale" \in End
    BY DEF End
  <2>4. \A pair \in Pairs :
          (CASE pair[1] = p /\ link[pair] = "up"   -> "stale"
             [] pair[1] = p /\ link[pair] = "lost" -> told
             [] OTHER -> Broken(AllOf(p))[pair]) \in End
    BY <2>2, <2>3
  <2>5. QED
    BY <2>1, <2>4
<1>5. TypeOK'
  BY <1>1, <1>2, <1>3, <1>4 DEF TypeOK, Wires
<1>6. QED
  BY <1>2, <1>3, <1>5 DEF Inv

LEMMA AuthenticateInv ==
  ASSUME Inv, NEW p \in Peer, NEW q \in Peer, Authenticate(p, q)
  PROVE  Inv' /\ UNCHANGED <<log, acks>>
<1>1. TypeOK /\ <<p, q>> \in Pairs
  BY DEF Inv, Pairs
<1>2. /\ wire' = [wire EXCEPT
                   ![<<p, q>>] = Append(@, DigestFrame(Digest(log[p])))]
      /\ link' = [link EXCEPT ![<<p, q>>] = "up"]
      /\ saved' = [saved EXCEPT ![p] = view[p]]
      /\ UNCHANGED <<log, nextSeq, acks, replicas, view, clock, work, hints,
                     expired, crashes, drops>>
  BY DEF Authenticate, Opens, memory, bounds
<1>3. wire' \in Wires /\ WireSound(log, wire')
  BY <1>2, DigestSent
<1>4. link' \in [Pairs -> End]
  BY <1>1, <1>2 DEF TypeOK, End
<1>5. TypeOK'
  BY <1>1, <1>2, <1>3, <1>4 DEF TypeOK, Wires
<1>6. QED
  BY <1>2, <1>3, <1>5 DEF Inv

LEMMA DropInv ==
  ASSUME Inv, NEW p \in Peer, NEW q \in Peer, Drop(p, q)
  PROVE  Inv' /\ UNCHANGED <<log, acks>>
<1>1. TypeOK
  BY DEF Inv
<1>2. /\ wire' = Cleared(Between(p, q))
      /\ link' = Broken(Between(p, q))
      /\ drops' = drops + 1
      /\ UNCHANGED <<log, nextSeq, acks, replicas, saved, view, clock, work,
                     hints, expired, crashes>>
  BY DEF Drop, disk, memory
<1>3. wire' \in Wires /\ WireSound(log, wire') /\ link' \in [Pairs -> End]
  BY <1>2, BreakSound
<1>4. TypeOK'
  BY <1>1, <1>2, <1>3 DEF TypeOK, Wires
<1>5. QED
  BY <1>2, <1>3, <1>4 DEF Inv

LEMMA DisconnectInv ==
  ASSUME Inv, NEW p \in Peer, NEW q \in Peer, Disconnect(p, q)
  PROVE  Inv' /\ UNCHANGED <<log, acks>>
<1>1. TypeOK
  BY DEF Inv
<1>2. /\ link' = [link EXCEPT ![<<p, q>>] = "none"]
      /\ saved' = [saved EXCEPT ![p] = view[p]]
      /\ UNCHANGED <<log, nextSeq, acks, replicas, view, clock, work, wire,
                     hints, expired, crashes, drops>>
  BY DEF Disconnect, memory, bounds
<1>3. link' \in [Pairs -> End]
  BY <1>1, <1>2 DEF TypeOK, End
<1>4. TypeOK'
  BY <1>1, <1>2, <1>3 DEF TypeOK
<1>5. QED
  BY <1>2, <1>4 DEF Inv

LEMMA ExpireInv ==
  ASSUME Inv, Expire
  PROVE  Inv' /\ UNCHANGED <<log, acks>>
<1>1. /\ UNCHANGED <<log, nextSeq, acks, replicas, saved, view, clock, work,
                     link, wire, hints, crashes, drops>>
      /\ expired' \subseteq expired \cup Ids(Everything)
  BY DEF Expire, disk, memory, air, bounds, Ids
<1>2. expired' \subseteq Slot
  <2>1. Everything \in SUBSET Event /\ expired \subseteq Slot
    BY DEF Inv, TypeOK, Everything
  <2>2. QED
    BY <1>1, <2>1, IdType
<1>3. QED
  BY <1>1, <1>2 DEF Inv, TypeOK

LEMMA ReceiveAckInv ==
  ASSUME Inv, NEW p \in Peer, NEW q \in Peer, ReceiveAck(p, q)
  PROVE  /\ Inv'
         /\ UNCHANGED log
         /\ \A r \in Peer : acks[r] \subseteq acks'[r]
<1> DEFINE ids == Head(wire[<<q, p>>]).ids
           delivered == {Id(e) : e \in {f \in log[p] :
                                          Id(f) \in ids /\ q \in f.targets}}
<1>1. /\ TypeOK /\ WireSound(log, wire) /\ wire \in Wires /\ log \in Logs
      /\ wire[<<q, p>>] # <<>> /\ Head(wire[<<q, p>>]).kind = "persistedAck"
      /\ AcksSound(log, acks) /\ ReplicasSound(log, replicas)
  BY DEF Inv, TypeOK, Wires, Logs, ReceiveAck, Arrives
<1>2. /\ Take(q, p) \in Wires /\ WireSound(log, Take(q, p))
      /\ Head(wire[<<q, p>>]) \in Frames
      /\ FrameSound(log, Head(wire[<<q, p>>]), q)
  BY <1>1, TakeType, TakeSound
<1>3. ids \in SUBSET Slot /\ ids \subseteq Ids(log[q])
  BY <1>1, <1>2, FrameForms DEF FrameSound
<1>4. delivered \in SUBSET Slot
  BY <1>1, IdType DEF Logs
<1>5. \A id \in delivered : \E e \in log[q] : Id(e) = id /\ q \in e.targets
  <2>1. TAKE id \in delivered
  <2>2. PICK e \in log[p] : Id(e) = id /\ id \in ids /\ q \in e.targets
    OBVIOUS
  <2>3. PICK f \in log[q] : Id(f) = id
    BY <1>3, <2>2 DEF Ids
  <2>4. e = f
    BY <2>2, <2>3 DEF Inv, Agreement, All
  <2>5. QED
    BY <2>2, <2>3, <2>4
<1>6. /\ replicas' = [replicas EXCEPT ![p] = @ \cup (ids \X {q})]
      /\ acks' = [acks EXCEPT ![p] = @ \cup (delivered \X {q})]
      /\ wire' = Take(q, p)
      /\ saved' = [saved EXCEPT ![p] = view[p]]
      /\ UNCHANGED <<log, nextSeq, view, clock, work, link, hints, expired,
                     crashes, drops>>
  BY DEF ReceiveAck, memory, bounds
<1> HIDE DEF ids, delivered
<1>7. /\ acks \in [Peer -> SUBSET (Slot \X Peer)]
      /\ replicas \in [Peer -> SUBSET (Slot \X Peer)]
      /\ delivered \X {q} \in SUBSET (Slot \X Peer)
      /\ ids \X {q} \in SUBSET (Slot \X Peer)
  BY <1>1, <1>3, <1>4 DEF TypeOK
<1>8. acks' \in [Peer -> SUBSET (Slot \X Peer)] /\ AcksSound(log, acks')
  <2>1. acks' \in [Peer -> SUBSET (Slot \X Peer)]
    BY <1>6, <1>7
  <2>2. \A r \in Peer : \A pair \in acks'[r] :
          pair \in acks[r] \/ pair \in delivered \X {q}
    BY <1>6, <1>7
  <2>3. \A pair \in delivered \X {q} : \E e \in log[pair[2]] :
          Id(e) = pair[1] /\ pair[2] \in e.targets
    BY <1>5
  <2>4. AcksSound(log, acks')
    BY <1>1, <2>2, <2>3 DEF AcksSound
  <2>5. QED
    BY <2>1, <2>4
<1>9. replicas' \in [Peer -> SUBSET (Slot \X Peer)]
      /\ ReplicasSound(log, replicas')
  <2>1. replicas' \in [Peer -> SUBSET (Slot \X Peer)]
    BY <1>6, <1>7
  <2>2. \A r \in Peer : \A pair \in replicas'[r] :
          pair \in replicas[r] \/ pair \in ids \X {q}
    BY <1>6, <1>7
  <2>3. \A pair \in ids \X {q} : pair[1] \in Ids(log[pair[2]])
    BY <1>3
  <2>4. ReplicasSound(log, replicas')
    BY <1>1, <2>2, <2>3 DEF ReplicasSound
  <2>5. QED
    BY <2>1, <2>4
<1>10. TypeOK'
  BY <1>1, <1>2, <1>6, <1>8, <1>9 DEF TypeOK, Wires
<1>11. \A r \in Peer : acks[r] \subseteq acks'[r]
  BY <1>6, <1>7
<1>12. QED
  BY <1>2, <1>6, <1>8, <1>9, <1>10, <1>11 DEF Inv

(* A handler that is past the check for an event has a copy of it to add.   *)
LEMMA InsertedCopies ==
  ASSUME Inv, NEW p \in Peer, work[p].stage = "ingesting",
         NEW event \in work[p].todo,
         log' = [log EXCEPT ![p] = Inserted(p, event)],
         nextSeq' = nextSeq
  PROVE  /\ event \in Event
         /\ event \in log'[p]
         /\ log' \in Logs
         /\ Extends(log, log')
         /\ All(log') = All(log)
         /\ OwnLog(log', nextSeq')
         /\ Agreement(log')
<1> DEFINE copies == IF IsNew(p, event) THEN {event} ELSE {}
<1>1. log \in Logs /\ OwnLog(log, nextSeq) /\ Agreement(log)
  BY DEF Inv, TypeOK, Logs
<1>2. work[p] \in Handlers /\ work[p].todo \subseteq All(log)
  BY DEF Inv, TypeOK, WorkSound
<1>3. event \in Event /\ event \in All(log)
  BY <1>2, HandlerForms
<1>4. copies \in SUBSET All(log) /\ copies \subseteq Event
  BY <1>3
<1>5. /\ log' \in [Peer -> SUBSET Event]
      /\ log'[p] = log[p] \cup copies
      /\ \A q \in Peer \ {p} : log'[q] = log[q]
  BY <1>1, <1>4 DEF Inserted, Logs
<1>6. event \in log'[p]
  <2>1. CASE IsNew(p, event)
    BY <1>5, <2>1
  <2>2. CASE ~IsNew(p, event)
    <3>1. PICK f \in log[p] : Id(f) = Id(event)
      BY <2>2 DEF IsNew, Ids
    <3>2. f = event
      BY <1>1, <1>3, <3>1 DEF Agreement, All
    <3>3. QED
      BY <1>5, <3>1, <3>2
  <2>3. QED
    BY <2>1, <2>2
<1> HIDE DEF copies
<1>7. log' \in Logs /\ Extends(log, log') /\ All(log') \subseteq All(log)
  <2>1. \A q \in Peer : log[q] \subseteq log'[q] /\ log'[q] \subseteq All(log)
    BY <1>4, <1>5 DEF All
  <2>2. QED
    BY <1>5, <2>1 DEF Logs, Extends, All
<1>8. QED
  BY <1>1, <1>3, <1>6, <1>7, CopySound

LEMMA IngestInv ==
  ASSUME Inv, NEW p \in Peer, work[p].stage = "ingesting",
         NEW event \in work[p].todo, Ingest(p, event)
  PROVE  /\ Inv'
         /\ Extends(log, log')
         /\ All(log') = All(log)
         /\ \A r \in Peer : acks[r] \subseteq acks'[r]
<1> DEFINE own == OwnAck(p, event)
           rest == Ingesting(work[p].from, work[p].todo \ {event},
                             work[p].done \cup {Id(event)})
<1>1. /\ TypeOK /\ wire \in Wires /\ log \in Logs
      /\ work \in [Peer -> Handlers] /\ WorkSound(log, work)
      /\ WireSound(log, wire)
      /\ acks \in [Peer -> SUBSET (Slot \X Peer)] /\ AcksSound(log, acks)
      /\ replicas \in [Peer -> SUBSET (Slot \X Peer)]
      /\ ReplicasSound(log, replicas)
  BY DEF Inv, TypeOK, Wires, Logs
<1>2. /\ work[p].from \in Peer
      /\ work[p].todo \in SUBSET Event /\ work[p].todo \subseteq All(log)
      /\ work[p].done \in SUBSET Slot /\ work[p].done \subseteq Ids(log[p])
  BY <1>1, HandlerForms DEF WorkSound
<1>3. /\ clock' = [clock EXCEPT ![p] = Observe(@, event.clock, event.created)]
      /\ log' = [log EXCEPT ![p] = Inserted(p, event)]
      /\ acks' = [acks EXCEPT ![p] = @ \cup own]
      /\ UNCHANGED <<nextSeq, replicas, saved, link, wire, hints, expired,
                     crashes, drops>>
      /\ work' = [work EXCEPT ![p] = Idle] \/ work' = [work EXCEPT ![p] = rest]
      /\ view' = view \/ view' = [view EXCEPT ![p] = @ \cup {Id(event)}]
  BY DEF Ingest, air, bounds
<1>4. /\ event \in Event /\ event \in log'[p] /\ log' \in Logs
      /\ Extends(log, log') /\ All(log') = All(log)
      /\ OwnLog(log', nextSeq') /\ Agreement(log')
  BY <1>3, InsertedCopies
<1>5. Id(event) \in Slot /\ Id(event) \in Ids(log'[p])
  BY <1>4, IdType DEF Ids
<1>6. own \in SUBSET (Slot \X Peer)
      /\ \A pair \in own : /\ pair[1] = Id(event) /\ pair[2] = p
                           /\ p \in event.targets
  BY <1>5 DEF OwnAck
<1>7. rest \in Handlers
  BY <1>2, <1>5, HandlerTypes
<1>8. rest.stage = "ingesting" /\ rest.todo \subseteq All(log')
      /\ rest.done \subseteq Ids(log'[p])
  <2>1. Ids(log[p]) \subseteq Ids(log'[p])
    BY <1>4 DEF Ids, Extends
  <2>2. QED
    BY <1>2, <1>4, <1>5, <2>1 DEF Ingesting
<1> HIDE DEF own, rest
<1>9. clock' \in [Peer -> Stamp]
  <2>1. clock[p] \in Stamp /\ event.clock \in Stamp /\ event.created \in Nat
    BY <1>1, <1>4 DEF TypeOK, Event
  <2>2. Observe(clock[p], event.clock, event.created) \in Stamp
    BY <2>1, ClockTypes
  <2>3. QED
    BY <1>1, <1>3, <2>2 DEF TypeOK
<1>10. acks' \in [Peer -> SUBSET (Slot \X Peer)]
       /\ \A r \in Peer : acks[r] \subseteq acks'[r]
  BY <1>1, <1>3, <1>6
<1>11. AcksSound(log', acks')
  <2>1. AcksSound(log', acks)
    BY <1>1, <1>4, SoundGrows
  <2>2. \A r \in Peer : \A pair \in acks'[r] : pair \in acks[r] \/ pair \in own
    BY <1>1, <1>3
  <2>3. \A pair \in own : \E e \in log'[pair[2]] :
          Id(e) = pair[1] /\ pair[2] \in e.targets
    BY <1>4, <1>6
  <2>4. QED
    BY <2>1, <2>2, <2>3 DEF AcksSound
<1>12. WireSound(log', wire') /\ ReplicasSound(log', replicas')
  BY <1>1, <1>3, <1>4, SoundGrows
<1>13. work' \in [Peer -> Handlers] /\ WorkSound(log', work')
  <2>1. work' \in [Peer -> Handlers]
    BY <1>1, <1>3, <1>7, HandlerTypes
  <2>2. WorkSound(log', work)
    BY <1>1, <1>4, SoundGrows
  <2>3. /\ work'[p] = Idle \/ work'[p] = rest
        /\ \A r \in Peer \ {p} : work'[r] = work[r]
    BY <1>1, <1>3
  <2>4. rest.stage # "publishing"
    BY <1>8
  <2>5. QED
    BY <1>8, <2>1, <2>2, <2>3, <2>4 DEF WorkSound, Idle
<1>14. TypeOK'
  <2>1. view \in [Peer -> SUBSET Slot] /\ {Id(event)} \in SUBSET Slot
    BY <1>1, <1>5 DEF TypeOK
  <2>2. view' \in [Peer -> SUBSET Slot]
    BY <1>3, <2>1
  <2>3. QED
    BY <1>1, <1>3, <1>4, <1>9, <1>10, <1>13, <2>2 DEF TypeOK, Logs
<1>15. QED
  BY <1>4, <1>10, <1>11, <1>12, <1>13, <1>14 DEF Inv

(* What a restart leaves is sound for the logs that are on disk.            *)
LEMMA RestartSound ==
  ASSUME Inv, NEW p \in Peer, Restart(p), UNCHANGED acks,
         log' \in Logs, Extends(log, log'),
         OwnLog(log', nextSeq'), Agreement(log')
  PROVE  Inv'
<1>1. /\ TypeOK /\ wire \in Wires /\ log \in Logs
      /\ work \in [Peer -> Handlers] /\ WorkSound(log, work)
      /\ WireSound(log, wire)
      /\ acks \in [Peer -> SUBSET (Slot \X Peer)] /\ AcksSound(log, acks)
      /\ replicas \in [Peer -> SUBSET (Slot \X Peer)]
      /\ ReplicasSound(log, replicas)
  BY DEF Inv, TypeOK, Wires, Logs
<1>2. /\ crashes' = crashes + 1
      /\ view' = [view EXCEPT ![p] = saved[p]]
      /\ clock' = [clock EXCEPT ![p] = ZeroStamp]
      /\ work' = [work EXCEPT ![p] = Idle]
      /\ link' = [pair \in Pairs |->
                   IF pair[1] = p THEN "none" ELSE Broken(AllOf(p))[pair]]
      /\ wire' = Cleared(AllOf(p))
      /\ hints' \subseteq hints
      /\ UNCHANGED <<nextSeq, replicas, saved, expired, drops>>
  BY DEF Restart
<1>3. link' \in [Pairs -> End]
  <2>1. Broken(AllOf(p)) \in [Pairs -> End] /\ "none" \in End
    BY BreakSound DEF End
  <2>2. QED
    BY <1>2, <2>1
<1>4. wire' \in Wires /\ WireSound(log, wire')
  BY <1>2, BreakSound
<1>5. WireSound(log', wire') /\ AcksSound(log', acks')
      /\ ReplicasSound(log', replicas') /\ WorkSound(log', work)
  BY <1>1, <1>2, <1>4, SoundGrows
<1>6. work' \in [Peer -> Handlers] /\ WorkSound(log', work')
  <2>1. work'[p] = Idle /\ \A r \in Peer \ {p} : work'[r] = work[r]
    BY <1>1, <1>2
  <2>2. work' \in [Peer -> Handlers]
    BY <1>1, <1>2, HandlerTypes
  <2>3. QED
    BY <1>5, <2>1, <2>2 DEF WorkSound, Idle
<1>7. TypeOK'
  <2>1. ZeroStamp \in Stamp
    BY MaxLogicalAssumption DEF ZeroStamp, Stamp, Logical
  <2>2. view' \in [Peer -> SUBSET Slot] /\ clock' \in [Peer -> Stamp]
        /\ crashes' \in Nat
    BY <1>1, <1>2, <2>1 DEF TypeOK
  <2>3. QED
    BY <1>1, <1>2, <1>3, <1>4, <1>6, <2>2 DEF TypeOK, Wires, Logs
<1>8. QED
  BY <1>5, <1>6, <1>7 DEF Inv

LEMMA CrashInv ==
  ASSUME Inv, NEW p \in Peer, Crash(p)
  PROVE  Inv' /\ UNCHANGED <<log, acks>>
<1>1. UNCHANGED <<log, acks, nextSeq>> /\ Restart(p)
  BY DEF Crash, Restart
<1>2. log \in Logs /\ OwnLog(log, nextSeq) /\ Agreement(log)
  BY DEF Inv, TypeOK, Logs
<1>3. Extends(log, log')
  BY <1>1 DEF Extends
<1>4. log' \in Logs /\ OwnLog(log', nextSeq') /\ Agreement(log')
  BY <1>1, <1>2
<1>5. QED
  BY <1>1, <1>3, <1>4, RestartSound

LEMMA CrashBeforeAckInv ==
  ASSUME Inv, NEW p \in Peer, CrashBeforeAck(p)
  PROVE  /\ Inv'
         /\ Extends(log, log')
         /\ All(log') = All(log)
         /\ UNCHANGED acks
<1>1. PICK event \in Firsts(work[p].todo) :
        log' = [log EXCEPT ![p] = Inserted(p, event)]
  BY DEF CrashBeforeAck
<1>2. /\ work[p].stage = "ingesting" /\ Restart(p)
      /\ UNCHANGED acks /\ nextSeq' = nextSeq
  BY DEF CrashBeforeAck, Restart
<1>3. event \in work[p].todo
  BY DEF Firsts
<1>4. /\ log' \in Logs /\ Extends(log, log') /\ All(log') = All(log)
      /\ OwnLog(log', nextSeq') /\ Agreement(log')
  BY <1>1, <1>2, <1>3, InsertedCopies
<1>5. QED
  BY <1>2, <1>4, RestartSound

----------------------------------------------------------------------------
(* Every step preserves the invariant.  What the step does to the logs and  *)
(* the acknowledgements is in the conclusion for the sake of the refinement.*)

(* The step of a sender that publishes, and what every other step does.     *)
Publishes(p) ==
  \E event \in Event : /\ event.sender = p
                       /\ Id(event) \notin Ids(All(log))
                       /\ log' = [log EXCEPT ![p] = @ \cup {event}]
                       /\ event \in log'[p] \ log[p]
                       /\ UNCHANGED acks

Spreads ==
  /\ Extends(log, log')
  /\ All(log') = All(log)
  /\ \A r \in Peer : acks[r] \subseteq acks'[r]

LEMMA UnchangedSpreads ==
  ASSUME UNCHANGED <<log, acks>>
  PROVE  Spreads
BY DEF Spreads, Extends

LEMMA StepInv ==
  ASSUME Inv, NEW p \in Peer, Step(p)
  PROVE  Inv' /\ Spreads
<1>1. CASE FinishPublish(p)
  BY <1>1, FinishPublishInv, UnchangedSpreads
<1>2. CASE IngestNext(p)
  <2>1. PICK event \in work[p].todo : Ingest(p, event)
    BY <1>2 DEF IngestNext, Firsts
  <2>2. work[p].stage = "ingesting"
    BY <1>2 DEF IngestNext
  <2>3. QED
    BY <2>1, <2>2, IngestInv DEF Spreads
<1>3. CASE FinishBatch(p)
  BY <1>3, FinishBatchInv, UnchangedSpreads
<1>4. ASSUME NEW q \in Peer, ReceiveDigest(p, q)
      PROVE  Inv' /\ Spreads
  BY <1>4, ReceiveDigestInv, UnchangedSpreads
<1>5. ASSUME NEW q \in Peer, ReceiveBatch(p, q)
      PROVE  Inv' /\ Spreads
  BY <1>5, ReceiveBatchInv, UnchangedSpreads
<1>6. ASSUME NEW q \in Peer, ReceiveAck(p, q)
      PROVE  Inv' /\ Spreads
  <2>1. Inv' /\ UNCHANGED log /\ \A r \in Peer : acks[r] \subseteq acks'[r]
    BY <1>6, ReceiveAckInv
  <2>2. QED
    BY <2>1 DEF Spreads, Extends
<1>7. ASSUME NEW q \in Peer, Disconnect(p, q)
      PROVE  Inv' /\ Spreads
  BY <1>7, DisconnectInv, UnchangedSpreads
<1>8. QED
  BY <1>1, <1>2, <1>3, <1>4, <1>5, <1>6, <1>7 DEF Step

LEMMA NextInv ==
  ASSUME Inv, [Next]_vars
  PROVE  Inv' /\ (Spreads \/ \E p \in Peer : Publishes(p))
<1>1. CASE UNCHANGED vars
  <2>1. UNCHANGED <<log, nextSeq, acks, replicas, saved, view, clock, work,
                    link, wire, hints, expired, crashes, drops>>
    BY <1>1 DEF vars, disk, memory, air, bounds
  <2>2. Inv'
    BY <2>1 DEF Inv, TypeOK
  <2>3. QED
    BY <2>1, <2>2, UnchangedSpreads
<1>2. CASE Expire
  BY <1>2, ExpireInv, UnchangedSpreads
<1>3. ASSUME NEW p \in Peer, PublishAny(p)
      PROVE  Inv' /\ Publishes(p)
  <2>1. PICK audience \in Audiences, parent \in Parents(p),
             policy \in Policies, wall \in WallClock :
          Publish(p, audience, parent, policy, wall)
    BY <1>3 DEF PublishAny
  <2>2. UNCHANGED acks
    BY <2>1 DEF Publish
  <2>3. QED
    BY <2>1, <2>2, PublishInv DEF Publishes
<1>4. ASSUME NEW p \in Peer, Step(p)
      PROVE  Inv' /\ Spreads
  BY <1>4, StepInv
<1>5. ASSUME NEW p \in Peer, Crash(p)
      PROVE  Inv' /\ Spreads
  BY <1>5, CrashInv, UnchangedSpreads
<1>6. ASSUME NEW p \in Peer, CrashBeforeAck(p)
      PROVE  Inv' /\ Spreads
  BY <1>6, CrashBeforeAckInv DEF Spreads
<1>7. ASSUME NEW p \in Peer, NEW q \in Peer, ReceiveHint(p, q)
      PROVE  Inv' /\ Spreads
  BY <1>7, ReceiveHintInv, UnchangedSpreads
<1>8. ASSUME NEW p \in Peer, NEW q \in Peer, Authenticate(p, q)
      PROVE  Inv' /\ Spreads
  BY <1>8, AuthenticateInv, UnchangedSpreads
<1>9. ASSUME NEW p \in Peer, NEW q \in Peer, Drop(p, q)
      PROVE  Inv' /\ Spreads
  BY <1>9, DropInv, UnchangedSpreads
<1>10. QED
  BY <1>1, <1>2, <1>3, <1>4, <1>5, <1>6, <1>7, <1>8, <1>9 DEF Next

(* The inductive invariant holds in every state, for any number of peers.  *)
THEOREM Invariant == Spec => []Inv
<1>1. Init => Inv
  BY InitInv
<1>2. Inv /\ [Next]_vars => Inv'
  BY NextInv
<1>3. QED
  BY <1>1, <1>2, PTL DEF Spec

(* Every variable keeps its type, without a bound on events or crashes.     *)
THEOREM TypeCorrect == Spec => []TypeOK
<1>1. Inv => TypeOK
  BY DEF Inv
<1>2. QED
  BY <1>1, Invariant, PTL

(* No two devices ever hold different events under one slot.               *)
THEOREM SlotsAgree == Spec => []SlotAgreement
<1>1. Inv => SlotAgreement
  BY DEF Inv, Agreement, SlotAgreement, All, Everything
<1>2. QED
  BY <1>1, Invariant, PTL

(* Senders hold all their own events, without a gap.                       *)
THEOREM SendersHoldOwn == Spec => []SenderHoldsOwn
<1>1. ASSUME Inv, NEW p \in Peer
      PROVE  SeqsOf(log[p], p) = 1 .. (nextSeq[p] - 1)
  <2>1. nextSeq[p] \in Nat \ {0} /\ log[p] \in SUBSET Event
        /\ log[p] \subseteq All(log)
    BY <1>1 DEF Inv, TypeOK, All
  <2>2. ASSUME NEW n \in SeqsOf(log[p], p)
        PROVE  n \in 1 .. (nextSeq[p] - 1)
    <3>1. PICK e \in log[p] : e.sender = p /\ e.seq = n
      BY <2>2 DEF SeqsOf
    <3>2. n \in Nat \ {0} /\ n < nextSeq[p]
      BY <1>1, <2>1, <3>1 DEF Inv, OwnLog, Event
    <3>3. QED
      BY <2>1, <3>2
  <2>3. ASSUME NEW n \in 1 .. (nextSeq[p] - 1)
        PROVE  n \in SeqsOf(log[p], p)
    <3>1. n \in Nat \ {0} /\ n < nextSeq[p]
      BY <2>1, <2>3
    <3>2. QED
      BY <1>1, <3>1 DEF Inv, OwnLog, SeqsOf
  <2>4. QED
    BY <2>2, <2>3
<1>2. Inv => SenderHoldsOwn
  BY <1>1 DEF SenderHoldsOwn, Inv, OwnLog, All, Everything
<1>3. QED
  BY <1>2, Invariant, PTL

(* A persisted acknowledgement means that its target has the event on disk. *)
THEOREM AcksAreSound == Spec => []AckSound
<1>1. Inv => AckSound
  BY DEF Inv, AcksSound, AckSound
<1>2. QED
  BY <1>1, Invariant, PTL

(* A replica row means that its holder has the event on disk.              *)
THEOREM ReplicasAreSound == Spec => []ReplicaSound
<1>1. Inv => ReplicaSound
  BY DEF Inv, ReplicasSound, ReplicaSound
<1>2. QED
  BY <1>1, Invariant, PTL

(* Digests are exact between any two devices of any group, in every state: *)
(* an answer carries all the other lacks and nothing it has.               *)
THEOREM DigestsAreExact == Spec => []DigestExact
<1>1. ASSUME Inv, NEW p \in Peer, NEW q \in Peer
      PROVE  MissingFrom(log[p], Digest(log[q])) = log[p] \ log[q]
  <2>1. log[p] \in SUBSET Event /\ log[q] \in SUBSET Event
        /\ nextSeq \in [Peer -> Nat \ {0}]
    BY <1>1 DEF Inv, TypeOK
  <2>2. nextSeq \in [Peer -> Nat]
    BY <2>1
  <2>3. log[p] \subseteq All(log) /\ log[q] \subseteq All(log)
    BY <1>1 DEF All
  <2>4. \A e \in log[q] : e.seq <= nextSeq[e.sender]
    <3>1. TAKE e \in log[q]
    <3>2. e.seq \in Nat /\ e.sender \in Peer
      BY <2>1 DEF Event
    <3>3. e.seq < nextSeq[e.sender]
      BY <1>1, <2>3 DEF Inv, OwnLog
    <3>4. QED
      BY <2>2, <3>2, <3>3
  <2>5. \A e \in log[p], f \in log[q] : Id(e) = Id(f) => e = f
    BY <1>1, <2>3 DEF Inv, Agreement
  <2>6. QED
    BY <2>1, <2>2, <2>4, <2>5, MissingExact
<1>2. Inv => DigestExact
  BY <1>1 DEF DigestExact
<1>3. QED
  BY <1>2, Invariant, PTL

(* The operators of the instance are those of this module.                 *)
LEMMA SameOperators ==
  /\ Abstract!Event = Event
  /\ \A event : Abstract!Id(event) = Id(event)
  /\ \A events : Abstract!Ids(events) = Ids(events)
  /\ Abstract!Everything = All(log)
<1>1. Abstract!Event = Event
  BY DEF Abstract!Event, Event, Abstract!Slot, Slot, Abstract!Stamp, Stamp,
         Abstract!Logical, Logical, Abstract!Policy, Policy,
         Abstract!NoParent, NoParent
<1>2. \A event : Abstract!Id(event) = Id(event)
  BY DEF Abstract!Id, Id
<1>3. \A events : Abstract!Ids(events) = Ids(events)
  BY <1>2 DEF Abstract!Ids, Ids
<1>4. QED
  BY <1>1, <1>2, <1>3 DEF Abstract!Everything, All

(* The durable state of the devices implements GroupLog: an event is born   *)
(* in its sender's log under a fresh slot, and from then on events and      *)
(* acknowledgements only spread, whatever is lost and whoever crashes.      *)
THEOREM Implements == Spec => ImplementsGroupLog
<1>1. Init => Abstract!Init
  BY DEF Init, Abstract!Init
<1>2. ASSUME Inv, NEW p \in Peer, Publishes(p)
      PROVE  Abstract!Publish(p)
  <2>1. PICK event \in Event :
          /\ event.sender = p
          /\ Id(event) \notin Ids(All(log))
          /\ log' = [log EXCEPT ![p] = @ \cup {event}]
          /\ event \in log'[p] \ log[p]
          /\ UNCHANGED acks
    BY <1>2 DEF Publishes
  <2>2. QED
    BY <2>1, SameOperators DEF Abstract!Publish
<1>3. ASSUME Inv, Inv', Spreads
      PROVE  Abstract!Spread
  <2>1. log' \in [Peer -> SUBSET All(log)]
    <3>1. \A p \in Peer : log'[p] \subseteq All(log')
      BY DEF All
    <3>2. QED
      BY <1>3, <3>1 DEF Spreads, Inv, TypeOK
  <2>2. acks' \in [Peer -> SUBSET (Slot \X Peer)] /\ AcksSound(log', acks')
    BY <1>3 DEF Inv, TypeOK
  <2>3. \A p \in Peer : \A pair \in acks'[p] :
          /\ pair = <<pair[1], pair[2]>>
          /\ pair[2] \in Peer
          /\ \E e \in log'[pair[2]] : Id(e) = pair[1] /\ pair[2] \in e.targets
    BY <2>2 DEF AcksSound
  <2>4. \A p \in Peer : acks'[p] \subseteq Ids(All(log)) \X Peer
    <3>1. TAKE p \in Peer
    <3>2. ASSUME NEW pair \in acks'[p]
          PROVE  pair \in Ids(All(log)) \X Peer
      <4>1. PICK e \in log'[pair[2]] : Id(e) = pair[1]
        BY <2>3, <3>2
      <4>2. e \in All(log)
        BY <2>1, <2>3, <3>2
      <4>3. pair[1] \in Ids(All(log))
        BY <4>1, <4>2 DEF Ids
      <4>4. QED
        BY <2>3, <3>2, <4>3
    <3>3. QED
      BY <3>2
  <2>5. acks' \in [Peer -> SUBSET (Ids(All(log)) \X Peer)]
    BY <2>2, <2>4
  <2>6. \A p \in Peer : log[p] \subseteq log'[p] /\ acks[p] \subseteq acks'[p]
    BY <1>3 DEF Spreads, Extends
  <2>7. QED
    BY <2>1, <2>3, <2>5, <2>6, SameOperators DEF Abstract!Spread
<1>4. Inv /\ [Next]_vars /\ Inv' => [Abstract!Next]_(Abstract!vars)
  BY <1>2, <1>3, NextInv DEF Abstract!Next
<1>5. QED
  BY <1>1, <1>4, Invariant, PTL DEF Spec, ImplementsGroupLog, Abstract!Spec

-----------------------------------------------------------------------------
(* What the users of TripSync are shown is true: the delivery state of an    *)
(* event, and the materialized state of a device.  Then that the order of    *)
(* replay is causal until a device restarts.                                 *)

(* Acknowledgements and replica rows only name devices that hold the event.  *)
LEMMA RowsNameHolders ==
  ASSUME Inv, NEW p \in Peer, NEW e \in log[p], NEW m \in Peer,
         <<Id(e), m>> \in acks[p] \cup replicas[p]
  PROVE  e \in log[m]
<1>1. PICK f \in log[m] : Id(f) = Id(e)
  <2>1. CASE <<Id(e), m>> \in acks[p]
    BY <2>1 DEF Inv, AcksSound
  <2>2. CASE <<Id(e), m>> \in replicas[p]
    BY <2>2 DEF Inv, ReplicasSound, Ids
  <2>3. QED
    BY <2>1, <2>2
<1>2. f = e
  BY <1>1 DEF Inv, Agreement, All
<1>3. QED
  BY <1>1, <1>2

(* The delivery state a device shows is true: "complete" when every target   *)
(* has the event on disk, "delivered" when one has, "replicated" when a      *)
(* third device has, whatever crashed since.                                 *)
THEOREM PhasesAreHonest == Spec => []PhaseHonest
<1>1. ASSUME Inv, NEW p \in Peer, NEW e \in log[p]
      PROVE  /\ PhaseOf(p, e) = "complete" => e.targets \subseteq Holders(e)
             /\ PhaseOf(p, e) = "delivered" => e.targets \cap Holders(e) # {}
             /\ PhaseOf(p, e) = "replicatedToRelay"
                  => Holders(e) \ (e.targets \cup {p}) # {}
  <2>1. e.targets \subseteq Peer
    BY <1>1 DEF Inv, TypeOK, Event
  <2>2. Acknowledged(e, acks[p]) \subseteq e.targets \cap Holders(e)
    BY <1>1, <2>1, RowsNameHolders DEF Acknowledged, Holders
  <2>3. Relays(e, replicas[p], p) \subseteq Holders(e) \ (e.targets \cup {p})
    BY <1>1, RowsNameHolders DEF Relays, Holders
  <2>4. PhaseOf(p, e) = "complete" => Acknowledged(e, acks[p]) = e.targets
    BY DEF PhaseOf, Phase
  <2>5. PhaseOf(p, e) = "delivered" => Acknowledged(e, acks[p]) # {}
    BY DEF PhaseOf, Phase
  <2>6. PhaseOf(p, e) = "replicatedToRelay" => Relays(e, replicas[p], p) # {}
    BY DEF PhaseOf, Phase
  <2>7. QED
    BY <2>2, <2>3, <2>4, <2>5, <2>6
<1>2. Inv => PhaseHonest
  BY <1>1 DEF PhaseHonest
<1>3. QED
  BY <1>2, Invariant, PTL

-----------------------------------------------------------------------------
(* One device: its log, what it shows, and what it has saved.                *)
Shows(events, shown, stored) ==
  /\ stored \subseteq shown
  /\ shown \subseteq Ids(events)
  /\ \A e \in events :
       /\ Id(e) \in shown => e.parent \in shown \cup {NoParent}
       /\ Id(e) \in stored => e.parent \in stored \cup {NoParent}

LEMMA ShownApiece ==
  ViewSound <=> \A p \in Peer : Shows(log[p], view[p], saved[p])
BY DEF ViewSound, Shows

(* Saving what is shown, and showing what was saved.                         *)
LEMMA ShowsSaved ==
  ASSUME NEW events, NEW shown, NEW stored, Shows(events, shown, stored)
  PROVE  Shows(events, shown, shown) /\ Shows(events, stored, stored)
BY DEF Shows

(* An event under a new slot is stored, and may be shown after its parent.   *)
LEMMA ShowsMore ==
  ASSUME NEW events, NEW shown, NEW stored, Shows(events, shown, stored),
         NEW event, Id(event) \notin Ids(events)
  PROVE  /\ Shows(events \cup {event}, shown, stored)
         /\ event.parent \in shown \cup {NoParent}
              => Shows(events \cup {event}, shown \cup {Id(event)}, stored)
<1>1. Ids(events \cup {event}) = Ids(events) \cup {Id(event)}
  BY DEF Ids
<1>2. Id(event) \notin shown /\ Id(event) \notin stored
  BY DEF Shows
<1>3. \A e \in events : Id(e) \in Ids(events)
  BY DEF Ids
<1>4. QED
  BY <1>1, <1>2, <1>3 DEF Shows

(* What a step may do to one device.                                         *)
Advances(p) ==
  \/ /\ log'[p] = log[p] /\ view'[p] = view[p]
     /\ saved'[p] \in {saved[p], view[p]}
  \/ /\ log'[p] = log[p] \/ \E e \in Event : /\ Id(e) \notin Ids(log[p])
                                            /\ log'[p] = log[p] \cup {e}
     /\ view'[p] \in {view[p], saved[p]}
     /\ saved'[p] = saved[p]
  \/ \E e \in Event : /\ Id(e) \notin Ids(log[p])
                      /\ log'[p] = log[p] \cup {e}
                      /\ view'[p] = view[p] \cup {Id(e)}
                      /\ e.parent \in view[p] \cup {NoParent}
                      /\ saved'[p] = saved[p]

LEMMA AdvancesShow ==
  ASSUME NEW p \in Peer, Shows(log[p], view[p], saved[p]), Advances(p)
  PROVE  Shows(log'[p], view'[p], saved'[p])
<1>1. /\ Shows(log[p], view[p], view[p])
      /\ Shows(log[p], saved[p], saved[p])
  BY ShowsSaved
<1>2. CASE /\ log'[p] = log[p] /\ view'[p] = view[p]
           /\ saved'[p] \in {saved[p], view[p]}
  BY <1>1, <1>2
<1>3. CASE /\ log'[p] = log[p] \/ \E e \in Event : /\ Id(e) \notin Ids(log[p])
                                                   /\ log'[p] = log[p] \cup {e}
           /\ view'[p] \in {view[p], saved[p]}
           /\ saved'[p] = saved[p]
  <2>1. /\ Shows(log'[p], view[p], saved[p])
        /\ Shows(log'[p], saved[p], saved[p])
    <3>1. CASE log'[p] = log[p]
      BY <1>1, <3>1
    <3>2. CASE \E e \in Event : /\ Id(e) \notin Ids(log[p])
                                /\ log'[p] = log[p] \cup {e}
      <4>1. PICK e \in Event : /\ Id(e) \notin Ids(log[p])
                               /\ log'[p] = log[p] \cup {e}
        BY <3>2
      <4>2. Shows(log'[p], view[p], saved[p])
        <5>1. Shows(log[p] \cup {e}, view[p], saved[p])
          BY <4>1, ShowsMore
        <5>2. QED
          BY <4>1, <5>1
      <4>3. QED
        BY <4>2 DEF Shows
    <3>3. QED
      BY <1>3, <3>1, <3>2
  <2>2. QED
    BY <1>3, <2>1
<1>4. CASE \E e \in Event : /\ Id(e) \notin Ids(log[p])
                            /\ log'[p] = log[p] \cup {e}
                            /\ view'[p] = view[p] \cup {Id(e)}
                            /\ e.parent \in view[p] \cup {NoParent}
                            /\ saved'[p] = saved[p]
  BY <1>4, ShowsMore
<1>5. QED
  BY <1>2, <1>3, <1>4 DEF Advances

-----------------------------------------------------------------------------
(* Every step is of that kind, for every device.                             *)
Stands(p) == log'[p] = log[p] /\ view'[p] = view[p] /\ saved'[p] = saved[p]

LEMMA StandsAdvances ==
  ASSUME NEW p, Stands(p)
  PROVE  Advances(p)
BY DEF Stands, Advances

(* Whatever else a step does: it only saves at one device.                   *)
LEMMA SavingAdvances ==
  ASSUME Inv, NEW p \in Peer, UNCHANGED <<log, view>>,
         saved' = [saved EXCEPT ![p] = view[p]] \/ saved' = saved
  PROVE  \A q \in Peer : Advances(q)
<1>1. saved \in [Peer -> SUBSET Slot]
  BY DEF Inv, TypeOK
<1>2. QED
  BY <1>1 DEF Advances

LEMMA PublishAdvances ==
  ASSUME Inv, NEW p \in Peer, PublishAny(p)
  PROVE  \A q \in Peer : Advances(q)
<1>1. PICK audience \in Audiences, parent \in Parents(p),
           policy \in Policies, wall \in WallClock :
        Publish(p, audience, parent, policy, wall)
  BY DEF PublishAny
<1> DEFINE event == [sender |-> p, seq |-> nextSeq[p],
                     clock |-> Tick(clock[p], wall), created |-> wall,
                     targets |-> Targets(p, audience, Peer),
                     parent |-> parent, policy |-> policy]
<1>2. /\ log' = [log EXCEPT ![p] = @ \cup {event}]
      /\ view' = [view EXCEPT ![p] = @ \cup {Id(event)}]
      /\ saved' = saved
  BY <1>1 DEF Publish, Committed
<1>3. event.parent \in view[p] \cup {NoParent}
  BY DEF Parents
<1>4. \E e \in Event : /\ Id(e) \notin Ids(All(log))
                       /\ log' = [log EXCEPT ![p] = @ \cup {e}]
                       /\ e \in log'[p] \ log[p]
  BY <1>1, PublishInv
<1>5. log \in [Peer -> SUBSET Event] /\ view \in [Peer -> SUBSET Slot]
  BY DEF Inv, TypeOK
<1> HIDE DEF event
<1>6. event \in Event /\ Id(event) \notin Ids(log[p])
  <2>1. PICK e \in Event : /\ Id(e) \notin Ids(All(log))
                           /\ log' = [log EXCEPT ![p] = @ \cup {e}]
                           /\ e \in log'[p] \ log[p]
    BY <1>4
  <2>2. log'[p] = log[p] \cup {event}
    BY <1>2, <1>5
  <2>3. e = event
    BY <2>1, <2>2
  <2>4. Ids(log[p]) \subseteq Ids(All(log))
    BY DEF Ids, All
  <2>5. QED
    BY <2>1, <2>3, <2>4
<1>7. Advances(p)
  BY <1>2, <1>3, <1>5, <1>6 DEF Advances
<1>8. \A q \in Peer \ {p} : Stands(q)
  BY <1>2, <1>5 DEF Stands
<1>9. QED
  BY <1>7, <1>8, StandsAdvances

LEMMA IngestAdvances ==
  ASSUME Inv, NEW p \in Peer, IngestNext(p)
  PROVE  \A q \in Peer : Advances(q)
<1>1. PICK event \in work[p].todo : Ingest(p, event)
  BY DEF IngestNext, Firsts
<1>2. work[p] \in Handlers /\ work[p].stage = "ingesting"
  BY DEF IngestNext, Inv, TypeOK
<1>3. event \in Event
  BY <1>2, HandlerForms
<1>4. log \in [Peer -> SUBSET Event] /\ view \in [Peer -> SUBSET Slot]
  BY DEF Inv, TypeOK
<1>5. /\ log' = [log EXCEPT ![p] = Inserted(p, event)]
      /\ saved' = saved
      /\ IF IsNew(p, event) /\ ~IsOrphan(p, event)
           THEN view' = [view EXCEPT ![p] = @ \cup {Id(event)}] ELSE view' = view
  BY <1>1 DEF Ingest
<1>6. Advances(p)
  <2>1. CASE ~IsNew(p, event)
    BY <1>4, <1>5, <2>1 DEF Inserted, Advances
  <2>2. CASE IsNew(p, event) /\ IsOrphan(p, event)
    BY <1>3, <1>4, <1>5, <2>2 DEF Inserted, IsNew, Advances
  <2>3. CASE IsNew(p, event) /\ ~IsOrphan(p, event)
    BY <1>3, <1>4, <1>5, <2>3 DEF Inserted, IsNew, IsOrphan, Advances
  <2>4. QED
    BY <2>1, <2>2, <2>3
<1>7. \A q \in Peer \ {p} : Stands(q)
  BY <1>4, <1>5 DEF Stands
<1>8. QED
  BY <1>6, <1>7, StandsAdvances

LEMMA CrashAdvances ==
  ASSUME Inv, NEW p \in Peer, Crash(p) \/ CrashBeforeAck(p)
  PROVE  \A q \in Peer : Advances(q)
<1>1. log \in [Peer -> SUBSET Event] /\ view \in [Peer -> SUBSET Slot]
      /\ work[p] \in Handlers
  BY DEF Inv, TypeOK
<1>2. view' = [view EXCEPT ![p] = saved[p]] /\ saved' = saved
  BY DEF Crash, CrashBeforeAck, Restart
<1>3. \/ log' = log
      \/ \E event \in Event : log' = [log EXCEPT ![p] = Inserted(p, event)]
  <2>1. CASE Crash(p)
    BY <2>1 DEF Crash
  <2>2. CASE CrashBeforeAck(p)
    BY <1>1, <2>2, HandlerForms DEF CrashBeforeAck, Firsts
  <2>3. QED
    BY <2>1, <2>2
<1>4. Advances(p)
  BY <1>1, <1>2, <1>3 DEF Inserted, IsNew, Advances
<1>5. \A q \in Peer \ {p} : Stands(q)
  BY <1>1, <1>2, <1>3 DEF Stands
<1>6. QED
  BY <1>4, <1>5, StandsAdvances

LEMMA NextAdvances ==
  ASSUME Inv, [Next]_vars
  PROVE  \A q \in Peer : Advances(q)
<1>1. CASE UNCHANGED vars \/ Expire
  <2>1. UNCHANGED <<log, view, saved>>
    BY <1>1 DEF vars, disk, memory, Expire
  <2>2. QED
    BY <2>1, StandsAdvances DEF Stands
<1>2. ASSUME NEW p \in Peer, PublishAny(p)
      PROVE  \A q \in Peer : Advances(q)
  BY <1>2, PublishAdvances
<1>3. ASSUME NEW p \in Peer, Step(p)
      PROVE  \A q \in Peer : Advances(q)
  <2>1. CASE FinishPublish(p) \/ FinishBatch(p)
    <3>1. UNCHANGED <<log, view>> /\ saved' = [saved EXCEPT ![p] = view[p]]
      BY <2>1 DEF FinishPublish, FinishBatch
    <3>2. QED
      BY <3>1, SavingAdvances
  <2>2. CASE IngestNext(p)
    BY <2>2, IngestAdvances
  <2>3. ASSUME NEW q \in Peer, ReceiveDigest(p, q) \/ ReceiveAck(p, q) \/ Disconnect(p, q)
        PROVE  \A r \in Peer : Advances(r)
    <3>1. UNCHANGED <<log, view>> /\ saved' = [saved EXCEPT ![p] = view[p]]
      BY <2>3 DEF ReceiveDigest, ReceiveAck, Disconnect, memory
    <3>2. QED
      BY <3>1, SavingAdvances
  <2>4. ASSUME NEW q \in Peer, ReceiveBatch(p, q)
        PROVE  \A r \in Peer : Advances(r)
    <3>1. UNCHANGED <<log, view, saved>>
      BY <2>4 DEF ReceiveBatch, disk
    <3>2. QED
      BY <3>1, StandsAdvances DEF Stands
  <2>5. QED
    BY <1>3, <2>1, <2>2, <2>3, <2>4 DEF Step
<1>4. ASSUME NEW p \in Peer, Crash(p) \/ CrashBeforeAck(p)
      PROVE  \A q \in Peer : Advances(q)
  BY <1>4, CrashAdvances
<1>5. ASSUME NEW p \in Peer, NEW q \in Peer,
             ReceiveHint(p, q) \/ Authenticate(p, q) \/ Drop(p, q)
      PROVE  \A r \in Peer : Advances(r)
  <2>1. /\ UNCHANGED <<log, view>>
        /\ saved' = [saved EXCEPT ![p] = view[p]] \/ saved' = saved
    BY <1>5 DEF ReceiveHint, Authenticate, Opens, Drop, memory, disk
  <2>2. QED
    BY <2>1, SavingAdvances
<1>6. QED
  BY <1>1, <1>2, <1>3, <1>4, <1>5 DEF Next

(* What is shown and saved is made of stored events, and no revision without *)
(* the one it extends: after any crash, TravelCore::new accepts what it      *)
(* finds on disk.                                                            *)
THEOREM ViewsAreSound == Spec => []ViewSound
<1>1. Init => ViewSound
  BY DEF Init, ViewSound
<1>2. Inv /\ ViewSound /\ [Next]_vars => ViewSound'
  <2>1. SUFFICES ASSUME Inv, ViewSound, [Next]_vars PROVE ViewSound'
    OBVIOUS
  <2>2. \A p \in Peer : Shows(log[p], view[p], saved[p]) /\ Advances(p)
    BY <2>1, ShownApiece, NextAdvances
  <2>3. \A p \in Peer : Shows(log'[p], view'[p], saved'[p])
    BY <2>2, AdvancesShow
  <2>4. QED
    BY <2>3 DEF ViewSound, Shows
<1>3. QED
  BY <1>1, <1>2, Invariant, PTL DEF Spec

-----------------------------------------------------------------------------
(* The clock never goes back but by a restart, and it never stands behind an *)
(* event in the device's log.                                                *)
NotAfter(a, b) == a[1] < b[1] \/ (a[1] = b[1] /\ a[2] <= b[2])

LEMMA NotAfterOrder ==
  /\ \A a \in Stamp : NotAfter(a, a)
  /\ \A a, b, c \in Stamp : NotAfter(a, b) /\ NotAfter(b, c) => NotAfter(a, c)
BY DEF NotAfter, Stamp, Logical

LEMMA SaturatedGrows ==
  ASSUME NEW l \in Logical
  PROVE  /\ Saturated(l) \in Nat
         /\ l <= Saturated(l)
         /\ l < MaxLogical => l < Saturated(l)
BY MaxLogicalAssumption DEF Saturated, Logical

(* A tick leaves the clock past what it was, and past every earlier stamp    *)
(* whose counter is not at its limit.                                        *)
LEMMA TickAfter ==
  ASSUME NEW last \in Stamp, NEW wall \in Nat, NEW a \in Stamp,
         NotAfter(a, last)
  PROVE  /\ NotAfter(a, Tick(last, wall))
         /\ a[2] < MaxLogical => StampBefore(a, Tick(last, wall))
<1>1. /\ last[1] \in Nat /\ last[2] \in Logical
      /\ a[1] \in Nat /\ a[2] \in Logical
  BY DEF Stamp
<1>2. a[2] \in Nat /\ last[2] \in Nat /\ MaxLogical \in Nat
  BY <1>1, MaxLogicalAssumption DEF Logical
<1>3. CASE wall > last[1]
  BY <1>1, <1>3 DEF Tick, NotAfter, StampBefore
<1>4. CASE ~(wall > last[1])
  <2>1. /\ Tick(last, wall)[1] = last[1]
        /\ Tick(last, wall)[2] = Saturated(last[2])
    BY <1>4 DEF Tick
  <2>2. /\ Saturated(last[2]) \in Nat
        /\ last[2] <= Saturated(last[2])
        /\ last[2] < MaxLogical => last[2] < Saturated(last[2])
    BY <1>1, SaturatedGrows
  <2>3. last[2] = MaxLogical \/ last[2] < MaxLogical
    BY <1>1, MaxLogicalAssumption DEF Logical
  <2>4. a[2] < MaxLogical /\ a[2] <= last[2] => a[2] < Saturated(last[2])
    BY <1>2, <2>2, <2>3
  <2>5. a[2] <= last[2] => a[2] <= Saturated(last[2])
    BY <1>2, <2>2
  <2>6. NotAfter(a, Tick(last, wall))
    BY <2>1, <2>5 DEF NotAfter
  <2>7. a[2] < MaxLogical => StampBefore(a, Tick(last, wall))
    BY <2>1, <2>4 DEF NotAfter, StampBefore
  <2>8. QED
    BY <2>6, <2>7
<1>5. QED
  BY <1>3, <1>4

(* An observation leaves the clock past what it was and what it observed.    *)
LEMMA ObserveAfter ==
  ASSUME NEW last \in Stamp, NEW remote \in Stamp, NEW wall \in Nat
  PROVE  /\ NotAfter(last, Observe(last, remote, wall))
         /\ NotAfter(remote, Observe(last, remote, wall))
<1> DEFINE physical == Later(wall, Later(last[1], remote[1]))
           counter == Later(last[2], remote[2])
<1>1. /\ last[1] \in Nat /\ last[2] \in Logical
      /\ remote[1] \in Nat /\ remote[2] \in Logical
  BY DEF Stamp
<1>2. physical \in Nat /\ last[1] <= physical /\ remote[1] <= physical
  BY <1>1 DEF Later
<1>3. /\ counter \in Logical /\ last[2] <= counter /\ remote[2] <= counter
  BY <1>1 DEF Later, Logical
<1>4. /\ Saturated(counter) \in Nat /\ counter <= Saturated(counter)
      /\ Saturated(last[2]) \in Nat /\ last[2] <= Saturated(last[2])
      /\ Saturated(remote[2]) \in Nat /\ remote[2] <= Saturated(remote[2])
  BY <1>1, <1>3, SaturatedGrows
<1>5. /\ Observe(last, remote, wall)[1] = physical
      /\ Observe(last, remote, wall)[2] =
           IF physical = last[1] /\ physical = remote[1]
             THEN Saturated(counter)
           ELSE IF physical = last[1] THEN Saturated(last[2])
           ELSE IF physical = remote[1] THEN Saturated(remote[2])
           ELSE 0
  BY DEF Observe
<1>6. /\ last[2] \in Nat /\ remote[2] \in Nat /\ counter \in Nat
  BY <1>1, <1>3 DEF Logical
<1> HIDE DEF physical, counter
<1>7. NotAfter(last, Observe(last, remote, wall))
  <2>1. CASE physical = last[1]
    <3>1. last[2] <= Observe(last, remote, wall)[2]
      BY <1>3, <1>4, <1>5, <1>6, <2>1
    <3>2. QED
      BY <1>5, <2>1, <3>1 DEF NotAfter
  <2>2. CASE physical # last[1]
    BY <1>1, <1>2, <1>5, <2>2 DEF NotAfter
  <2>3. QED
    BY <2>1, <2>2
<1>8. NotAfter(remote, Observe(last, remote, wall))
  <2>1. CASE physical = remote[1]
    <3>1. remote[2] <= Observe(last, remote, wall)[2]
      BY <1>3, <1>4, <1>5, <1>6, <2>1
    <3>2. QED
      BY <1>5, <2>1, <3>1 DEF NotAfter
  <2>2. CASE physical # remote[1]
    BY <1>1, <1>2, <1>5, <2>2 DEF NotAfter
  <2>3. QED
    BY <2>1, <2>2
<1>9. QED
  BY <1>7, <1>8

(* The strengthening: the clocks are past the logs, and every revision       *)
(* extends one that some device holds.                                       *)
Heard ==
  \A p \in Peer : \A e \in log[p] : NotAfter(e.clock, clock[p])

ParentsKnown ==
  \A f \in All(log) : f.parent \in Ids(All(log)) \cup {NoParent}

CausalInv ==
  /\ ParentsKnown
  /\ crashes = 0 => Heard
  /\ CausalOrder

(* A step that copies events it has observed, or none.                       *)
LEMMA SpreadCausal ==
  ASSUME CausalInv, All(log') = All(log), crashes' = 0 => crashes = 0 /\ Heard'
  PROVE  CausalInv'
<1>1. ParentsKnown'
  BY DEF CausalInv, ParentsKnown
<1>2. Everything' = All(log') /\ Everything = All(log)
  BY DEF Everything, All
<1>3. CausalOrder'
  BY <1>2 DEF CausalInv, CausalOrder
<1>4. QED
  BY <1>1, <1>3 DEF CausalInv

LEMMA StillCausal ==
  ASSUME CausalInv, UNCHANGED <<log, clock, crashes>>
  PROVE  CausalInv'
<1>1. All(log') = All(log)
  OBVIOUS
<1>2. crashes' = 0 => crashes = 0 /\ Heard'
  BY DEF CausalInv, Heard
<1>3. QED
  BY <1>1, <1>2, SpreadCausal

LEMMA IngestCausal ==
  ASSUME Inv, CausalInv, NEW p \in Peer, IngestNext(p)
  PROVE  CausalInv'
<1>1. PICK event \in work[p].todo : Ingest(p, event)
  BY DEF IngestNext, Firsts
<1>2. work[p].stage = "ingesting" /\ work[p] \in Handlers
  BY DEF IngestNext, Inv, TypeOK
<1>3. event \in Event
  BY <1>2, HandlerForms
<1>4. /\ log' = [log EXCEPT ![p] = Inserted(p, event)]
      /\ clock' = [clock EXCEPT ![p] = Observe(@, event.clock, event.created)]
      /\ crashes' = crashes
  BY <1>1 DEF Ingest, bounds
<1>5. All(log') = All(log)
  BY <1>1, <1>2, IngestInv
<1>6. log \in [Peer -> SUBSET Event] /\ clock \in [Peer -> Stamp]
  BY DEF Inv, TypeOK
<1>7. ASSUME Heard PROVE Heard'
  <2>1. /\ clock[p] \in Stamp /\ event.clock \in Stamp /\ event.created \in Nat
    BY <1>3, <1>6 DEF Event
  <2>2. /\ clock'[p] \in Stamp
        /\ NotAfter(clock[p], clock'[p]) /\ NotAfter(event.clock, clock'[p])
    BY <1>4, <1>6, <2>1, ClockTypes, ObserveAfter
  <2>3. ASSUME NEW e \in log'[p]
        PROVE  NotAfter(e.clock, clock'[p])
    <3>1. e = event \/ e \in log[p]
      BY <1>4, <1>6, <2>3 DEF Inserted
    <3>2. CASE e = event
      BY <2>2, <3>2
    <3>3. CASE e \in log[p]
      <4>1. NotAfter(e.clock, clock[p]) /\ e.clock \in Stamp
        BY <1>6, <1>7, <3>3 DEF Heard, Event
      <4>2. QED
        BY <2>1, <2>2, <4>1, NotAfterOrder
    <3>4. QED
      BY <3>1, <3>2, <3>3
  <2>4. ASSUME NEW q \in Peer \ {p}
        PROVE  log'[q] = log[q] /\ clock'[q] = clock[q]
    BY <1>4, <1>6, <2>4
  <2>5. QED
    BY <1>7, <2>3, <2>4 DEF Heard
<1>8. QED
  BY <1>4, <1>5, <1>7, SpreadCausal DEF CausalInv

(* A new event is past everything its author has observed, and nothing is    *)
(* past the new event.                                                       *)
LEMMA PublishCausal ==
  ASSUME Inv, ViewSound, CausalInv, NEW p \in Peer, PublishAny(p)
  PROVE  CausalInv'
<1>1. PICK audience \in Audiences, parent \in Parents(p),
           policy \in Policies, wall \in WallClock :
        Publish(p, audience, parent, policy, wall)
  BY DEF PublishAny
<1> DEFINE stamp == Tick(clock[p], wall)
           event == [sender |-> p, seq |-> nextSeq[p],
                     clock |-> stamp, created |-> wall,
                     targets |-> Targets(p, audience, Peer),
                     parent |-> parent, policy |-> policy]
<1>2. /\ event.sender = p /\ event.seq = nextSeq[p] /\ event.clock = stamp
      /\ event.parent = parent
  OBVIOUS
<1>3. /\ log' = [log EXCEPT ![p] = @ \cup {event}]
      /\ clock' = [clock EXCEPT ![p] = stamp]
      /\ crashes' = crashes
  BY <1>1 DEF Publish, Committed, bounds
<1>4. /\ log \in [Peer -> SUBSET Event] /\ clock \in [Peer -> Stamp]
      /\ wall \in Nat /\ OwnLog(log, nextSeq) /\ Agreement(log)
      /\ nextSeq \in [Peer -> Nat \ {0}]
  BY ChoiceAssumption DEF Inv, TypeOK
<1>5. stamp \in Stamp
  BY <1>4, ClockTypes
<1> HIDE DEF stamp, event
<1>6. PICK fresh \in Event : /\ Id(fresh) \notin Ids(All(log))
                            /\ log' = [log EXCEPT ![p] = @ \cup {fresh}]
                            /\ fresh \in log'[p] \ log[p]
  BY <1>1, PublishInv
<1>7. /\ Id(event) \notin Ids(All(log)) /\ event \in Event
      /\ log'[p] = log[p] \cup {event}
      /\ \A q \in Peer \ {p} : log'[q] = log[q]
  BY <1>3, <1>4, <1>6
<1>8. All(log') = All(log) \cup {event}
  BY <1>7 DEF All
<1>9. parent \in Ids(log[p]) \cup {NoParent}
  BY DEF Parents, ViewSound
<1>10. ParentsKnown'
  <2>1. Ids(log[p]) \subseteq Ids(All(log)) /\ Ids(All(log)) \subseteq Ids(All(log'))
    BY <1>8 DEF Ids, All
  <2>2. QED
    BY <1>2, <1>8, <1>9, <2>1 DEF CausalInv, ParentsKnown
<1>11. ASSUME crashes = 0, NEW e \in log[p]
       PROVE  /\ e.clock \in Stamp
              /\ NotAfter(e.clock, stamp)
              /\ e.clock[2] < MaxLogical => StampBefore(e.clock, stamp)
  <2>1. e.clock \in Stamp /\ clock[p] \in Stamp /\ NotAfter(e.clock, clock[p])
    BY <1>4, <1>11 DEF CausalInv, Heard, Event
  <2>2. QED
    BY <1>4, <2>1, TickAfter DEF stamp
<1>12. crashes = 0 => Heard'
  <2>1. SUFFICES ASSUME crashes = 0, NEW q \in Peer, NEW e \in log'[q]
                 PROVE  NotAfter(e.clock, clock'[q])
    BY DEF Heard
  <2>2. CASE q # p
    BY <1>3, <1>4, <1>7, <2>1, <2>2 DEF CausalInv, Heard
  <2>3. CASE q = p /\ e \in log[p]
    BY <1>3, <1>4, <1>11, <2>1, <2>3
  <2>4. CASE q = p /\ e = event
    BY <1>2, <1>3, <1>4, <1>5, <2>4, NotAfterOrder
  <2>5. QED
    BY <1>7, <2>1, <2>2, <2>3, <2>4
<1>13. NoParent # Id(event)
  BY DEF NoParent, Id
<1>14. ASSUME crashes = 0, NEW e \in All(log'), NEW f \in All(log'),
              \/ e.sender = f.sender /\ e.seq < f.seq
              \/ f.parent = Id(e) /\ e.clock[2] < MaxLogical
       PROVE  Before(e, f)
  <2>1. CASE e \in All(log) /\ f \in All(log)
    BY <1>14, <2>1 DEF CausalInv, CausalOrder, Everything, All
  <2>2. CASE e \in All(log) /\ f = event
    <3>1. CASE e.sender = f.sender /\ e.seq < f.seq
      <4>1. e \in log[p]
        BY <1>2, <1>4, <2>2, <3>1 DEF OwnLog
      <4>2. NotAfter(e.clock, stamp) /\ e.clock \in Stamp
        BY <1>11, <1>14, <4>1
      <4>3. StampBefore(e.clock, stamp) \/ e.clock = stamp
        BY <1>5, <4>2 DEF NotAfter, StampBefore, Stamp, Logical
      <4>4. QED
        BY <1>2, <2>2, <3>1, <4>3 DEF Before
    <3>2. CASE f.parent = Id(e) /\ e.clock[2] < MaxLogical
      <4>1. Id(e) \in Ids(log[p])
        <5>1. Id(e) # NoParent
          BY DEF Id, NoParent
        <5>2. QED
          BY <1>2, <1>9, <2>2, <3>2, <5>1
      <4>2. e \in log[p]
        BY <1>4, <2>2, <4>1 DEF Ids, Agreement, All
      <4>3. StampBefore(e.clock, stamp)
        BY <1>11, <1>14, <3>2, <4>2
      <4>4. QED
        BY <1>2, <2>2, <4>3 DEF Before
    <3>3. QED
      BY <1>14, <3>1, <3>2
  <2>3. CASE e = event /\ f \in All(log)
    <3>1. ~(e.sender = f.sender /\ e.seq < f.seq)
      <4>1. f.seq < nextSeq[f.sender] /\ f.seq \in Nat /\ nextSeq[p] \in Nat
        BY <1>4, <2>3 DEF OwnLog, All, Event
      <4>2. QED
        BY <1>2, <2>3, <4>1
    <3>2. f.parent # Id(e)
      BY <1>7, <1>13, <2>3 DEF CausalInv, ParentsKnown
    <3>3. QED
      BY <1>14, <3>1, <3>2
  <2>4. CASE e = event /\ f = event
    <3>1. f.parent # Id(e)
      <4>1. Ids(log[p]) \subseteq Ids(All(log))
        BY DEF Ids, All
      <4>2. QED
        BY <1>2, <1>7, <1>9, <1>13, <2>4, <4>1
    <3>2. ~(e.seq < f.seq)
      BY <1>2, <1>4, <2>4
    <3>3. QED
      BY <1>14, <3>1, <3>2
  <2>5. QED
    BY <1>8, <1>14, <2>1, <2>2, <2>3, <2>4
<1>15. CausalOrder'
  BY <1>3, <1>14 DEF CausalOrder, Everything, All
<1>16. QED
  BY <1>3, <1>10, <1>12, <1>15 DEF CausalInv

LEMMA NextCausal ==
  ASSUME Inv, ViewSound, CausalInv, [Next]_vars
  PROVE  CausalInv'
<1>1. CASE UNCHANGED vars \/ Expire
  <2>1. UNCHANGED <<log, clock, crashes>>
    BY <1>1 DEF vars, disk, memory, bounds, Expire
  <2>2. QED
    BY <2>1, StillCausal
<1>2. ASSUME NEW p \in Peer, PublishAny(p)
      PROVE  CausalInv'
  BY <1>2, PublishCausal
<1>3. ASSUME NEW p \in Peer, Step(p)
      PROVE  CausalInv'
  <2>1. CASE IngestNext(p)
    BY <2>1, IngestCausal
  <2>2. CASE ~IngestNext(p)
    <3>1. UNCHANGED <<log, clock, crashes>>
      BY <1>3, <2>2 DEF Step, FinishPublish, FinishBatch, ReceiveDigest,
         ReceiveBatch, ReceiveAck, Disconnect, memory, disk, bounds
    <3>2. QED
      BY <3>1, StillCausal
  <2>3. QED
    BY <2>1, <2>2
<1>4. ASSUME NEW p \in Peer, Crash(p) \/ CrashBeforeAck(p)
      PROVE  CausalInv'
  <2>1. All(log') = All(log)
    BY <1>4, CrashInv, CrashBeforeAckInv
  <2>2. crashes \in Nat /\ crashes' = crashes + 1
    BY <1>4 DEF Crash, CrashBeforeAck, Restart, Inv, TypeOK
  <2>3. crashes' # 0
    BY <2>2
  <2>4. QED
    BY <2>1, <2>3, SpreadCausal
<1>5. ASSUME NEW p \in Peer, NEW q \in Peer,
             ReceiveHint(p, q) \/ Authenticate(p, q) \/ Drop(p, q)
      PROVE  CausalInv'
  <2>1. UNCHANGED <<log, clock, crashes>>
    BY <1>5 DEF ReceiveHint, Authenticate, Opens, Drop, memory, disk, bounds
  <2>2. QED
    BY <2>1, StillCausal
<1>6. QED
  BY <1>1, <1>2, <1>3, <1>4, <1>5 DEF Next

(* Until a device restarts, the order of replay is causal: nothing its       *)
(* sender had published, and no revision it extends, is replayed after an    *)
(* event, however the wall clocks of the devices jump.                       *)
THEOREM ReplayIsCausal == Spec => []CausalOrder
<1>1. Init => CausalInv
  BY DEF Init, CausalInv, ParentsKnown, Heard, CausalOrder, Everything, All
<1>2. Inv /\ ViewSound /\ CausalInv /\ [Next]_vars => CausalInv'
  BY NextCausal
<1>3. CausalInv => CausalOrder
  BY DEF CausalInv
<1>4. QED
  BY <1>1, <1>2, <1>3, Invariant, ViewsAreSound, PTL DEF Spec

-----------------------------------------------------------------------------
(* AntiEntropy over the same peers and the same stores implements GroupLog    *)
(* too, whichever pairs of engines meet.  Nothing of TripSync is assumed: the *)
(* state variables are shared in name only.                                   *)

CONSTANT Meetings

Engines == INSTANCE AntiEntropy

LEMMA EnginesOperators ==
  /\ Engines!Event = Event
  /\ Engines!Stamp = Stamp
  /\ \A event : Engines!Id(event) = Id(event)
  /\ \A events : Engines!Ids(events) = Ids(events)
  /\ \A events, sender : Engines!SeqsOf(events, sender) = SeqsOf(events, sender)
  /\ \A last, wall : Engines!Tick(last, wall) = Tick(last, wall)
  /\ \A S : Engines!Cardinality(S) = Cardinality(S)
<1>1. Engines!Event = Event
  BY DEF Engines!Event, Event, Engines!Slot, Slot, Engines!Stamp, Stamp,
         Engines!Logical, Logical, Engines!Policy, Policy,
         Engines!NoParent, NoParent
<1>2. Engines!Stamp = Stamp
  BY DEF Engines!Stamp, Stamp, Engines!Logical, Logical
<1>3. \A event : Engines!Id(event) = Id(event)
  BY DEF Engines!Id, Id
<1>4. \A events : Engines!Ids(events) = Ids(events)
  BY <1>3 DEF Engines!Ids, Ids
<1>5. \A events, sender : Engines!SeqsOf(events, sender) = SeqsOf(events, sender)
  BY DEF Engines!SeqsOf, SeqsOf
<1>6. \A last, wall : Engines!Tick(last, wall) = Tick(last, wall)
  BY DEF Engines!Tick, Tick, Engines!Saturated, Saturated
<1>7. \A S : Engines!Cardinality(S) = Cardinality(S)
  BY DEF Engines!Cardinality, Cardinality
<1>8. QED
  BY <1>1, <1>2, <1>3, <1>4, <1>5, <1>6, <1>7

LEMMA GroupLogOperators ==
  /\ Engines!Abstract!Event = Event
  /\ \A event : Engines!Abstract!Id(event) = Id(event)
  /\ \A events : Engines!Abstract!Ids(events) = Ids(events)
  /\ Engines!Abstract!Everything = All(log)
<1>1. Engines!Abstract!Event = Event
  BY DEF Engines!Abstract!Event, Event, Engines!Abstract!Slot, Slot,
         Engines!Abstract!Stamp, Stamp, Engines!Abstract!Logical, Logical,
         Engines!Abstract!Policy, Policy, Engines!Abstract!NoParent, NoParent
<1>2. \A event : Engines!Abstract!Id(event) = Id(event)
  BY DEF Engines!Abstract!Id, Id
<1>3. \A events : Engines!Abstract!Ids(events) = Ids(events)
  BY <1>2 DEF Engines!Abstract!Ids, Ids
<1>4. QED
  BY <1>1, <1>2, <1>3 DEF Engines!Abstract!Everything, All

(* The order of replay is total on events that agree on slots, so every       *)
(* finite set of them has a latest event, the one that is applied last.       *)
LEMMA BeforeOrders ==
  ASSUME NEW e \in Event, NEW f \in Event, NEW g \in Event
  PROVE  /\ Id(e) # Id(f) => Before(e, f) \/ Before(f, e)
         /\ Before(e, f) /\ Before(f, g) => Before(e, g)
<1>1. \A x \in Event :
        /\ x.sender \in Nat /\ x.seq \in Nat
        /\ x.clock[1] \in Nat /\ x.clock[2] \in Nat
        /\ x.clock = <<x.clock[1], x.clock[2]>>
  <2>1. TAKE x \in Event
  <2>2. x.clock \in Nat \X Logical /\ x.sender \in Peer /\ x.seq \in Nat
    BY DEF Event, Stamp
  <2>3. x.clock[1] \in Nat /\ x.clock[2] \in Logical
    BY <2>2
  <2>4. Logical \subseteq Nat
    BY DEF Logical
  <2>5. x.clock = <<x.clock[1], x.clock[2]>>
    BY <2>2
  <2>6. QED
    BY <2>2, <2>3, <2>4, <2>5, PeerAssumption
<1>2. Id(e) # Id(f) => Before(e, f) \/ Before(f, e)
  BY <1>1 DEF Before, StampBefore, Id
<1>3. Before(e, f) /\ Before(f, g) => Before(e, g)
  BY <1>1 DEF Before, StampBefore
<1>4. QED
  BY <1>2, <1>3

LEMMA LatestExists ==
  ASSUME NEW events \in SUBSET Event, IsFiniteSet(events), events # {},
         \A e, f \in events : Id(e) = Id(f) => e = f
  PROVE  \E e \in events : \A f \in events \ {e} : Before(f, e)
<1> DEFINE HasLatest(es) == \E e \in es : \A f \in es \ {e} : Before(f, e)
           Sizes == {Cardinality(es) :
                       es \in {s \in SUBSET events : s # {} /\ ~HasLatest(s)}}
<1>1. SUFFICES ASSUME ~HasLatest(events) PROVE FALSE
  OBVIOUS
<1>2. \A es \in SUBSET events : IsFiniteSet(es) /\ Cardinality(es) \in Nat
  BY FS_Subset, FS_CardinalityType
<1>3. Sizes \in SUBSET Nat /\ Sizes # {}
  BY <1>1, <1>2
<1>4. Min(Sizes) \in Sizes /\ \A n \in Sizes : Min(Sizes) <= n
  <2> HIDE DEF Sizes
  <2> QED BY <1>3, LeastNatural
<1>5. PICK es \in SUBSET events :
        es # {} /\ ~HasLatest(es) /\ Cardinality(es) = Min(Sizes)
  BY <1>4
<1>6. PICK e \in es : TRUE
  BY <1>5
<1> DEFINE rest == es \ {e}
<1>7. Cardinality(rest) < Min(Sizes)
  <2>1. Cardinality(rest) = Cardinality(es) - 1
    BY <1>2, <1>6, FS_RemoveElement
  <2>2. Cardinality(es) \in Nat
    BY <1>2
  <2> HIDE DEF rest, Sizes
  <2>3. QED
    BY <1>5, <2>1, <2>2
<1>8. rest = {} \/ HasLatest(rest)
  <2>1. SUFFICES ASSUME rest # {}, ~HasLatest(rest) PROVE FALSE
    OBVIOUS
  <2>2. rest \in SUBSET events
    OBVIOUS
  <2>3. Cardinality(rest) \in Sizes
    <3> HIDE DEF rest, HasLatest
    <3> QED BY <2>1, <2>2
  <2>4. Cardinality(rest) \in Nat /\ Min(Sizes) \in Nat
    BY <1>2, <1>5, <2>2
  <2> HIDE DEF rest, Sizes
  <2>5. QED
    BY <1>4, <1>7, <2>3, <2>4
<1>9. CASE rest = {}
  BY <1>5, <1>6, <1>9
<1>10. CASE HasLatest(rest)
  <2>1. PICK l \in rest : \A f \in rest \ {l} : Before(f, l)
    BY <1>10
  <2>2. e \in Event /\ l \in Event /\ Id(e) # Id(l)
    BY <1>6, <2>1
  <2>3. CASE Before(e, l)
    <3>1. \A f \in es \ {l} : Before(f, l)
      BY <2>1, <2>3
    <3>2. QED
      BY <1>5, <2>1, <3>1
  <2>4. CASE Before(l, e)
    <3>1. ASSUME NEW f \in es \ {e}
          PROVE  Before(f, e)
      <4>1. f \in Event
        OBVIOUS
      <4>2. QED
        BY <2>1, <2>2, <2>4, <3>1, <4>1, BeforeOrders
    <3>2. QED
      BY <1>5, <1>6, <3>1
  <2>5. QED
    BY <2>2, <2>3, <2>4, BeforeOrders
<1>11. QED
  BY <1>8, <1>9, <1>10

(* What applying a batch makes of the clock is a stamp.  The fold over the    *)
(* batch is a recursive function on its subsets; that there is such a         *)
(* function, and that its values are stamps, follow from the least size at    *)
(* which they would fail.                                                     *)
LEMMA ObservedType ==
  ASSUME NEW last \in Stamp,
         NEW events \in SUBSET Event, IsFiniteSet(events),
         \A e, f \in events : Id(e) = Id(f) => e = f
  PROVE  Engines!Observed(last, events) \in Stamp
<1> DEFINE Latest(es) == CHOOSE e \in es : \A f \in es \ {e} : Before(f, e)
           Apply(event, stamp) == Observe(stamp, event.clock, event.created)
           Body(es, f) == IF es = {} THEN last
                          ELSE Apply(Latest(es), f[es \ {Latest(es)}])
           Small(n) == {es \in SUBSET events : Cardinality(es) <= n}
           Folds(f, S) == f = [es \in S |-> Body(es, f)]
           after == CHOOSE f : Folds(f, SUBSET events)
<1>1. Engines!Observed(last, events) = after[events]
  BY DEF Engines!Observed, Engines!Observe, Observe, Engines!Before, Before,
         Engines!StampBefore, StampBefore, Engines!Saturated, Saturated,
         Engines!Later, Later
<1>2. \A es \in SUBSET events : IsFiniteSet(es) /\ Cardinality(es) \in Nat
  BY FS_Subset, FS_CardinalityType
<1>3. ASSUME NEW es \in SUBSET events, es # {}
      PROVE  Latest(es) \in es
  <2>1. \E e \in es : \A f \in es \ {e} : Before(f, e)
    BY <1>2, <1>3, LatestExists
  <2>2. QED
    BY <2>1
<1>4. ASSUME NEW es \in SUBSET events, es # {}, NEW n \in Nat, es \in Small(n)
      PROVE  /\ n # 0
             /\ es \ {Latest(es)} \in Small(n - 1)
  <2> HIDE DEF Latest
  <2>1. IsFiniteSet(es) /\ Cardinality(es) \in Nat
    BY <1>2
  <2>2. Cardinality(es) # 0
    BY <1>4, <2>1, FS_EmptySet
  <2>3. Cardinality(es \ {Latest(es)}) = Cardinality(es) - 1
    BY <1>3, <1>4, <2>1, FS_RemoveElement
  <2>4. QED
    BY <1>4, <2>1, <2>2, <2>3
<1>5. \A n \in Nat : \E f : Folds(f, Small(n))
  <2> DEFINE Bad == {n \in Nat : ~ \E f : Folds(f, Small(n))}
  <2>1. SUFFICES ASSUME Bad # {} PROVE FALSE
    OBVIOUS
  <2>2. Min(Bad) \in Bad /\ \A n \in Bad : Min(Bad) <= n
    <3>1. Bad \in SUBSET Nat
      OBVIOUS
    <3> HIDE DEF Bad
    <3>2. QED
      BY <2>1, <3>1, LeastNatural
  <2>3. PICK m \in Nat : m \in Bad /\ \A n \in Bad : m <= n
    <3>1. Bad \in SUBSET Nat
      OBVIOUS
    <3> HIDE DEF Bad
    <3>2. QED
      BY <2>2, <3>1
  <2>4. \E f : m # 0 => Folds(f, Small(m - 1))
    <3>1. CASE m = 0
      BY <3>1
    <3>2. CASE m # 0
      <4>1. m - 1 \in Nat /\ ~(m <= m - 1)
        BY <3>2
      <4>2. m - 1 \notin Bad
        <5> HIDE DEF Bad
        <5> QED BY <2>3, <4>1
      <4>3. \E f : Folds(f, Small(m - 1))
        <5> HIDE DEF Folds, Small
        <5> QED BY <4>1, <4>2
      <4>4. QED
        BY <4>3
    <3>3. QED
      BY <3>1, <3>2
  <2>5. PICK f : m # 0 => Folds(f, Small(m - 1))
    BY <2>4
  <2> DEFINE g == [es \in Small(m) |-> Body(es, f)]
  <2>6. ASSUME NEW es \in Small(m)
        PROVE  Body(es, g) = Body(es, f)
    <3>1. CASE es = {}
      BY <3>1
    <3>2. CASE es # {}
      <4> DEFINE rest == es \ {Latest(es)}
      <4>1. m # 0 /\ rest \in Small(m - 1)
        <5>1. es \in SUBSET events
          OBVIOUS
        <5> HIDE DEF Small, Latest
        <5>2. QED
          BY <1>4, <2>6, <3>2, <5>1
      <4>2. f[rest] = Body(rest, f)
        <5>1. Folds(f, Small(m - 1))
          BY <2>5, <4>1
        <5> HIDE DEF Small, rest, Body
        <5>2. QED
          BY <4>1, <5>1
      <4>3. rest \in Small(m)
        <5>1. rest \in SUBSET events /\ Cardinality(rest) <= m - 1
          BY <4>1
        <5>2. Cardinality(rest) \in Nat
          BY <1>2, <5>1
        <5> HIDE DEF rest
        <5>3. QED
          BY <5>1, <5>2
      <4>4. g[rest] = Body(rest, f)
        <5> HIDE DEF Small, rest, Body
        <5> QED BY <4>3
      <4>5. Body(es, f) = Apply(Latest(es), f[rest])
            /\ Body(es, g) = Apply(Latest(es), g[rest])
        <5> HIDE DEF g, Apply, Latest
        <5> QED BY <3>2
      <4>6. QED
        <5> HIDE DEF g, rest, Apply, Latest, Body
        <5> QED BY <4>2, <4>4, <4>5
    <3>3. QED
      BY <3>1, <3>2
  <2>7. Folds(g, Small(m))
    <3>1. [es \in Small(m) |-> Body(es, g)] = [es \in Small(m) |-> Body(es, f)]
      <4> HIDE DEF g, Body, Small
      <4> QED BY <2>6
    <3>2. QED
      <4> HIDE DEF Body, Small
      <4> QED BY <3>1
  <2>8. QED
    <3> HIDE DEF Folds, Small, g
    <3> QED BY <2>3, <2>7
<1>6. Folds(after, SUBSET events)
  <2>1. Small(Cardinality(events)) = SUBSET events
    BY FS_Subset
  <2>2. Cardinality(events) \in Nat
    BY <1>2
  <2>3. \E f : Folds(f, SUBSET events)
    <3> HIDE DEF Folds, Small
    <3>1. PICK f : Folds(f, Small(Cardinality(events)))
      BY <1>5, <2>2
    <3>2. QED
      BY <2>1, <3>1
  <2>4. QED
    <3> HIDE DEF Folds
    <3> QED BY <2>3
<1>7. ASSUME NEW es \in SUBSET events
      PROVE  after[es] = Body(es, after)
  <2> HIDE DEF after, Body
  <2> QED BY <1>6, <1>7
<1>8. \A es \in SUBSET events : after[es] \in Stamp
  <2> HIDE DEF after
  <2> DEFINE Sizes == {Cardinality(es) :
                         es \in {s \in SUBSET events : after[s] \notin Stamp}}
  <2>1. SUFFICES ASSUME NEW es0 \in SUBSET events, after[es0] \notin Stamp
                 PROVE  FALSE
    OBVIOUS
  <2>2. Sizes \in SUBSET Nat /\ Sizes # {}
    BY <1>2, <2>1
  <2>3. Min(Sizes) \in Sizes /\ \A n \in Sizes : Min(Sizes) <= n
    <3> HIDE DEF Sizes
    <3> QED BY <2>2, LeastNatural
  <2>4. PICK es \in SUBSET events :
          after[es] \notin Stamp /\ Cardinality(es) = Min(Sizes)
    BY <2>3
  <2>5. es # {}
    BY <1>7, <2>4
  <2> DEFINE latest == Latest(es)
             rest == es \ {latest}
  <2>6. after[es] = Observe(after[rest], latest.clock, latest.created)
    <3> HIDE DEF Latest
    <3> QED BY <1>7, <2>5
  <2>7. latest \in Event
    BY <1>3, <2>5
  <2>8. Cardinality(rest) < Min(Sizes)
    <3> HIDE DEF latest, Sizes
    <3>1. latest \in es
      BY <1>3, <2>5 DEF latest
    <3>2. Cardinality(rest) = Cardinality(es) - 1
      BY <1>2, <3>1, FS_RemoveElement
    <3>3. Cardinality(es) \in Nat
      BY <1>2
    <3>4. QED
      <4> HIDE DEF rest
      <4> QED BY <2>4, <3>2, <3>3
  <2>9. after[rest] \in Stamp
    <3>1. SUFFICES ASSUME after[rest] \notin Stamp PROVE FALSE
      OBVIOUS
    <3>2. rest \in SUBSET events
      OBVIOUS
    <3>3. Cardinality(rest) \in Sizes
      <4> HIDE DEF rest
      <4> QED BY <3>1, <3>2
    <3>4. Cardinality(rest) \in Nat /\ Min(Sizes) \in Nat
      BY <1>2, <2>4, <3>2
    <3>5. QED
      <4> HIDE DEF rest, Sizes
      <4> QED BY <2>3, <2>8, <3>3, <3>4
  <2>10. latest.clock \in Stamp /\ latest.created \in Nat
    <3> HIDE DEF latest
    <3> QED BY <2>7 DEF Event
  <2>11. QED
    <3> HIDE DEF latest, rest
    <3> QED BY <2>4, <2>6, <2>9, <2>10, ClockTypes
<1>9. QED
  <2> HIDE DEF after
  <2> QED BY <1>1, <1>8

(* The invariant: a sender has numbered its events without a gap and holds    *)
(* all of them, and what an acknowledgement says is so.                       *)
SendersHold(logs) ==
  \A p \in Peer : /\ \A e \in All(logs) : e.sender = p => e \in logs[p]
                  /\ \E n \in Nat : SeqsOf(logs[p], p) = 1 .. n

EnginesInv ==
  /\ log \in Logs
  /\ acks \in [Peer -> SUBSET (Slot \X Peer)]
  /\ clock \in [Peer -> Stamp]
  /\ \A p \in Peer : IsFiniteSet(log[p])
  /\ SendersHold(log)
  /\ Agreement(log)
  /\ AcksSound(log, acks)

LEMMA EnginesInit == Engines!Init => EnginesInv
<1>1. SUFFICES ASSUME Engines!Init PROVE EnginesInv
  OBVIOUS
<1>2. /\ log = [p \in Peer |-> {}]
      /\ acks = [p \in Peer |-> {}]
      /\ clock = [p \in Peer |-> <<0, 0>>]
  BY <1>1 DEF Engines!Init, Engines!ZeroStamp
<1>3. <<0, 0>> \in Stamp
  BY MaxLogicalAssumption DEF Stamp, Logical
<1>4. All(log) = {}
  BY <1>2 DEF All
<1>5. \A p \in Peer : SeqsOf(log[p], p) = 1 .. 0
  BY <1>2 DEF SeqsOf
<1>6. SendersHold(log)
  BY <1>4, <1>5 DEF SendersHold
<1>7. \A p \in Peer : IsFiniteSet(log[p])
  BY <1>2, FS_EmptySet
<1>8. QED
  BY <1>2, <1>3, <1>4, <1>6, <1>7
     DEF EnginesInv, Logs, Agreement, AcksSound

LEMMA EnginesPublish ==
  ASSUME Engines!MeetingAssumption, EnginesInv,
         NEW p \in Peer, NEW audience \in Audiences, NEW wall \in WallClock,
         Engines!Publish(p, audience, wall)
  PROVE  EnginesInv' /\ Publishes(p)
<1> DEFINE seq == Cardinality(SeqsOf(log[p], p)) + 1
           event == [sender |-> p, seq |-> seq, clock |-> Tick(clock[p], wall),
                     created |-> wall,
                     targets |-> Engines!Targets(p, audience, Peer),
                     parent |-> Engines!NoParent, policy |-> "durable"]
<1>1. /\ log' = [log EXCEPT ![p] = @ \cup {event}]
      /\ clock' = [clock EXCEPT ![p] = event.clock]
      /\ acks' = acks
  BY EnginesOperators DEF Engines!Publish
<1>2. PICK n \in Nat : SeqsOf(log[p], p) = 1 .. n
  BY DEF EnginesInv, SendersHold
<1>3. seq = n + 1
  <2>1. Cardinality(1 .. n) = IF 1 > n THEN 0 ELSE n - 1 + 1
    BY FS_Interval
  <2>2. QED
    BY <1>2, <2>1
<1>4. wall \in Nat /\ Tick(clock[p], wall) \in Stamp
  <2>1. wall \in Nat /\ clock[p] \in Stamp
    BY DEF Engines!MeetingAssumption, EnginesInv
  <2>2. QED
    BY <2>1, ClockTypes
<1>5. event \in Event
  <2>1. seq \in Nat \ {0}
    BY <1>3
  <2>2. Engines!Targets(p, audience, Peer) \in SUBSET Peer
    BY DEF Engines!Targets
  <2>3. Engines!NoParent = NoParent
    BY DEF Engines!NoParent, NoParent
  <2> HIDE DEF seq
  <2>4. QED
    BY <1>4, <2>1, <2>2, <2>3 DEF Event, Policy
<1>6. event.sender = p /\ event.seq = n + 1 /\ event.clock \in Stamp
      /\ Id(event) = <<p, n + 1>>
  <2> HIDE DEF seq
  <2> QED BY <1>3, <1>4 DEF Id
<1> HIDE DEF event
<1>7. log \in [Peer -> SUBSET Event]
  BY DEF EnginesInv, Logs
<1>8. Id(event) \notin Ids(All(log))
  <2>1. SUFFICES ASSUME NEW e \in All(log), Id(e) = <<p, n + 1>> PROVE FALSE
    BY <1>6 DEF Ids
  <2>2. e.sender = p /\ e.seq = n + 1
    BY <2>1 DEF Id
  <2>3. e \in log[p]
    BY <2>2 DEF EnginesInv, SendersHold
  <2>4. n + 1 \in SeqsOf(log[p], p)
    BY <2>2, <2>3 DEF SeqsOf
  <2>5. QED
    BY <1>2, <2>4
<1>9. event \notin All(log)
  BY <1>8 DEF Ids
<1>10. /\ log'[p] = log[p] \cup {event}
       /\ \A q \in Peer \ {p} : log'[q] = log[q]
       /\ log' \in Logs
  BY <1>1, <1>5, <1>7 DEF Logs
<1>11. All(log') = All(log) \cup {event}
  BY <1>10 DEF All
<1>12. Publishes(p)
  <2>1. event \in log'[p] \ log[p]
    BY <1>9, <1>10 DEF All
  <2>2. QED
    BY <1>1, <1>5, <1>6, <1>8, <2>1 DEF Publishes
<1>13. Agreement(log')
  BY <1>8, <1>11 DEF EnginesInv, Agreement, Ids
<1>14. SendersHold(log')
  <2>1. ASSUME NEW q \in Peer
        PROVE  \A e \in All(log') : e.sender = q => e \in log'[q]
    BY <1>6, <1>10, <1>11 DEF EnginesInv, SendersHold
  <2>2. SeqsOf(log'[p], p) = SeqsOf(log[p], p) \cup {n + 1}
    BY <1>6, <1>10 DEF SeqsOf
  <2>3. SeqsOf(log'[p], p) = 1 .. (n + 1)
    BY <1>2, <2>2
  <2>4. ASSUME NEW q \in Peer
        PROVE  \E k \in Nat : SeqsOf(log'[q], q) = 1 .. k
    <3>1. CASE q = p
      BY <2>3, <3>1
    <3>2. CASE q # p
      BY <1>10, <3>2 DEF EnginesInv, SendersHold
    <3>3. QED
      BY <3>1, <3>2
  <2>5. QED
    BY <2>1, <2>4 DEF SendersHold
<1>15. AcksSound(log', acks')
  <2>1. log \in Logs /\ Extends(log, log')
    BY <1>7, <1>10 DEF Logs, Extends
  <2>2. QED
    BY <1>1, <1>10, <2>1, SoundGrows DEF EnginesInv
<1>16. \A q \in Peer : IsFiniteSet(log'[q])
  <2>1. IsFiniteSet(log[p] \cup {event})
    BY FS_AddElement DEF EnginesInv
  <2>2. QED
    BY <1>10, <2>1 DEF EnginesInv
<1>17. clock' \in [Peer -> Stamp]
  BY <1>1, <1>6 DEF EnginesInv
<1>18. EnginesInv'
  BY <1>1, <1>10, <1>13, <1>14, <1>15, <1>16, <1>17 DEF EnginesInv
<1>19. QED
  BY <1>12, <1>18

LEMMA EnginesExchange ==
  ASSUME Engines!MeetingAssumption, EnginesInv,
         NEW pair \in Meetings, Engines!Exchange(pair[1], pair[2])
  PROVE  EnginesInv' /\ Spreads
<1> DEFINE left == pair[1]
           right == pair[2]
           toRight == Engines!MissingFrom(log[left], Engines!Digest(log[right]))
           toLeft == Engines!MissingFrom(log[right], Engines!Digest(log[left]))
           known == acks[left] \cup acks[right]
                      \cup Engines!OwnAcks(left, toLeft)
                      \cup Engines!OwnAcks(right, toRight)
<1>1. left \in Peer /\ right \in Peer /\ left # right
  BY DEF Engines!MeetingAssumption
<1>2. toRight \subseteq log[left] /\ toLeft \subseteq log[right]
  BY DEF Engines!MissingFrom
<1>3. /\ log' = [log EXCEPT ![left] = @ \cup toLeft, ![right] = @ \cup toRight]
      /\ clock' = [clock EXCEPT ![left] = Engines!Observed(@, toLeft),
                                ![right] = Engines!Observed(@, toRight)]
      /\ acks' = [acks EXCEPT
                   ![left] = Engines!KnownAfter(left, right, toLeft, toRight),
                   ![right] = Engines!KnownAfter(right, left, toRight, toLeft)]
  BY DEF Engines!Exchange
<1>4. /\ Engines!KnownAfter(left, right, toLeft, toRight) = known
      /\ Engines!KnownAfter(right, left, toRight, toLeft) = known
  <2> HIDE DEF toLeft, toRight, left, right
  <2> QED BY DEF Engines!KnownAfter
<1> HIDE DEF left, right, toLeft, toRight
<1>5. /\ log \in [Peer -> SUBSET Event]
      /\ acks \in [Peer -> SUBSET (Slot \X Peer)]
      /\ clock \in [Peer -> Stamp]
  BY DEF EnginesInv, Logs
<1>6. /\ log'[left] = log[left] \cup toLeft
      /\ log'[right] = log[right] \cup toRight
      /\ \A p \in Peer \ {left, right} : log'[p] = log[p]
      /\ log' \in Logs
  BY <1>1, <1>2, <1>3, <1>5 DEF Logs
<1>7. All(log') = All(log) /\ Extends(log, log')
  BY <1>1, <1>2, <1>6 DEF All, Extends
<1>8. /\ acks'[left] = known
      /\ acks'[right] = known
      /\ \A p \in Peer \ {left, right} : acks'[p] = acks[p]
      /\ DOMAIN acks' = Peer
      /\ acks' = [p \in Peer |-> acks'[p]]
  <2> HIDE DEF known
  <2> QED BY <1>1, <1>3, <1>4, <1>5
<1>9. ASSUME NEW p \in {left, right}, NEW events,
             events \subseteq log'[p] \cap All(log),
             NEW row \in Engines!OwnAcks(p, events)
      PROVE  /\ row \in Slot \X Peer
             /\ \E e \in log'[row[2]] : Id(e) = row[1] /\ row[2] \in e.targets
  <2>1. PICK e \in events : row = <<Engines!Id(e), p>> /\ p \in e.targets
    BY <1>9 DEF Engines!OwnAcks
  <2>2. e \in Event /\ p \in Peer /\ e \in log'[p]
    BY <1>1, <1>6, <1>9, <2>1 DEF Logs
  <2>3. Id(e) \in Slot
    BY <2>2 DEF Event, Id, Slot
  <2>4. QED
    BY <2>1, <2>2, <2>3, EnginesOperators
<1>10. ASSUME NEW row \in known
       PROVE  /\ row \in Slot \X Peer
              /\ \E e \in log'[row[2]] : Id(e) = row[1] /\ row[2] \in e.targets
  <2>1. CASE row \in acks[left] \cup acks[right]
    <3>1. row \in Slot \X Peer
      BY <1>1, <1>5, <2>1
    <3>2. \E e \in log[row[2]] : Id(e) = row[1] /\ row[2] \in e.targets
      BY <1>1, <2>1 DEF EnginesInv, AcksSound
    <3>3. row[2] \in Peer
      BY <3>1
    <3>4. QED
      BY <1>7, <3>1, <3>2, <3>3 DEF Extends
  <2>2. CASE row \in Engines!OwnAcks(left, toLeft)
    <3>1. toLeft \subseteq log'[left] \cap All(log)
      BY <1>1, <1>2, <1>6 DEF All
    <3>2. QED
      BY <1>9, <2>2, <3>1
  <2>3. CASE row \in Engines!OwnAcks(right, toRight)
    <3>1. toRight \subseteq log'[right] \cap All(log)
      BY <1>1, <1>2, <1>6 DEF All
    <3>2. QED
      BY <1>9, <2>3, <3>1
  <2>4. QED
    BY <2>1, <2>2, <2>3
<1>11. acks[left] \cup acks[right] \subseteq known
  OBVIOUS
<1> HIDE DEF known
<1>12. acks' \in [Peer -> SUBSET (Slot \X Peer)]
  <2>1. \A p \in Peer : acks'[p] \in SUBSET (Slot \X Peer)
    BY <1>5, <1>8, <1>10
  <2>2. QED
    BY <1>8, <2>1
<1>13. AcksSound(log', acks')
  <2>1. ASSUME NEW p \in Peer, NEW row \in acks'[p]
        PROVE  \E e \in log'[row[2]] : Id(e) = row[1] /\ row[2] \in e.targets
    <3>1. CASE p \in {left, right}
      BY <1>8, <1>10, <2>1, <3>1
    <3>2. CASE p \notin {left, right}
      <4>1. row \in acks[p] /\ row \in Slot \X Peer
        BY <1>5, <1>8, <2>1, <3>2
      <4>2. \E e \in log[row[2]] : Id(e) = row[1] /\ row[2] \in e.targets
        BY <4>1 DEF EnginesInv, AcksSound
      <4>3. row[2] \in Peer
        BY <4>1
      <4>4. QED
        BY <1>7, <4>2, <4>3 DEF Extends
    <3>3. QED
      BY <3>1, <3>2
  <2>2. QED
    BY <2>1 DEF AcksSound
<1>14. \A p \in Peer : acks[p] \subseteq acks'[p]
  BY <1>8, <1>11
<1>15. Agreement(log')
  BY <1>7 DEF EnginesInv, Agreement
<1>16. SendersHold(log')
  <2>1. ASSUME NEW p \in Peer
        PROVE  \A e \in All(log') : e.sender = p => e \in log'[p]
    BY <1>7 DEF EnginesInv, SendersHold, Extends
  <2>2. ASSUME NEW p \in Peer
        PROVE  SeqsOf(log'[p], p) = SeqsOf(log[p], p)
    <3>1. log'[p] \subseteq All(log)
      BY <1>7 DEF All
    <3>2. \A e : e \in log'[p] /\ e.sender = p <=> e \in log[p] /\ e.sender = p
      BY <1>7, <3>1 DEF EnginesInv, SendersHold, Extends
    <3>3. {e \in log'[p] : e.sender = p} = {e \in log[p] : e.sender = p}
      BY <3>2
    <3>4. QED
      BY <3>3 DEF SeqsOf
  <2>3. QED
    BY <2>1, <2>2 DEF EnginesInv, SendersHold
<1>17. /\ IsFiniteSet(log[left]) /\ IsFiniteSet(log[right])
       /\ IsFiniteSet(toLeft) /\ IsFiniteSet(toRight)
  BY <1>1, <1>2, FS_Subset DEF EnginesInv
<1>18. \A p \in Peer : IsFiniteSet(log'[p])
  <2>1. IsFiniteSet(log[left] \cup toLeft) /\ IsFiniteSet(log[right] \cup toRight)
    BY <1>17, FS_Union
  <2>2. QED
    BY <1>6, <2>1 DEF EnginesInv
<1>19. ASSUME NEW p \in Peer, NEW events, NEW q \in Peer,
              events \subseteq log[q], IsFiniteSet(events)
       PROVE  Engines!Observed(clock[p], events) \in Stamp
  <2>1. events \in SUBSET Event /\ events \subseteq All(log)
    BY <1>5, <1>19 DEF All
  <2>2. \A e, f \in events : Id(e) = Id(f) => e = f
    BY <2>1 DEF EnginesInv, Agreement
  <2>3. clock[p] \in Stamp
    BY <1>5, <1>19
  <2>4. QED
    BY <1>19, <2>1, <2>2, <2>3, ObservedType
<1>20. clock' \in [Peer -> Stamp]
  <2>1. /\ Engines!Observed(clock[left], toLeft) \in Stamp
        /\ Engines!Observed(clock[right], toRight) \in Stamp
    BY <1>1, <1>2, <1>17, <1>19
  <2>2. QED
    BY <1>1, <1>3, <1>5, <2>1
<1>21. EnginesInv'
  BY <1>6, <1>12, <1>13, <1>15, <1>16, <1>18, <1>20 DEF EnginesInv
<1>22. QED
  BY <1>7, <1>14, <1>21 DEF Spreads

(* Engines that meet implement GroupLog: whatever they exchange, an event is  *)
(* born in its sender's log under a fresh slot, and from then on events and   *)
(* acknowledgements only spread.                                              *)
THEOREM EnginesImplement ==
  ASSUME Engines!MeetingAssumption
  PROVE  Engines!Spec => Engines!ImplementsGroupLog
<1>1. Engines!Init => EnginesInv
  BY EnginesInit
<1>2. Engines!Init => Engines!Abstract!Init
  BY DEF Engines!Init, Engines!Abstract!Init
<1>3. ASSUME EnginesInv, [Engines!Next]_(Engines!vars)
      PROVE  EnginesInv' /\ (Spreads \/ \E p \in Peer : Publishes(p))
  <2>1. CASE UNCHANGED Engines!vars
    <3>1. UNCHANGED <<log, acks, clock>>
      BY <2>1 DEF Engines!vars
    <3>2. EnginesInv'
      <4>1. Agreement(log') /\ SendersHold(log') /\ AcksSound(log', acks')
        BY <1>3, <3>1
           DEF EnginesInv, SendersHold, Agreement, AcksSound, All
      <4>2. QED
        BY <1>3, <3>1, <4>1 DEF EnginesInv, Logs
    <3>3. QED
      BY <3>1, <3>2, UnchangedSpreads
  <2>2. ASSUME NEW p \in Peer, NEW audience \in Audiences, NEW wall \in WallClock,
               Engines!Publish(p, audience, wall)
        PROVE  EnginesInv' /\ Publishes(p)
    BY <1>3, <2>2, EnginesPublish
  <2>3. ASSUME NEW pair \in Meetings, Engines!Exchange(pair[1], pair[2])
        PROVE  EnginesInv' /\ Spreads
    BY <1>3, <2>3, EnginesExchange
  <2>4. QED
    BY <1>3, <2>1, <2>2, <2>3 DEF Engines!Next
<1>4. ASSUME NEW p \in Peer, Publishes(p)
      PROVE  Engines!Abstract!Publish(p)
  <2>1. PICK event \in Event :
          /\ event.sender = p
          /\ Id(event) \notin Ids(All(log))
          /\ log' = [log EXCEPT ![p] = @ \cup {event}]
          /\ event \in log'[p] \ log[p]
          /\ UNCHANGED acks
    BY <1>4 DEF Publishes
  <2>2. QED
    BY <2>1, GroupLogOperators DEF Engines!Abstract!Publish
<1>5. ASSUME EnginesInv, EnginesInv', Spreads
      PROVE  Engines!Abstract!Spread
  <2>1. log' \in [Peer -> SUBSET All(log)]
    <3>1. \A p \in Peer : log'[p] \subseteq All(log')
      BY DEF All
    <3>2. log' \in [Peer -> SUBSET Event]
      BY <1>5 DEF EnginesInv, Logs
    <3>3. QED
      BY <1>5, <3>1, <3>2 DEF Spreads
  <2>2. acks' \in [Peer -> SUBSET (Slot \X Peer)] /\ AcksSound(log', acks')
    BY <1>5 DEF EnginesInv
  <2>3. \A p \in Peer : \A pair \in acks'[p] :
          /\ pair = <<pair[1], pair[2]>>
          /\ pair[2] \in Peer
          /\ \E e \in log'[pair[2]] : Id(e) = pair[1] /\ pair[2] \in e.targets
    BY <2>2 DEF AcksSound
  <2>4. \A p \in Peer : acks'[p] \subseteq Ids(All(log)) \X Peer
    <3>1. TAKE p \in Peer
    <3>2. ASSUME NEW pair \in acks'[p]
          PROVE  pair \in Ids(All(log)) \X Peer
      <4>1. PICK e \in log'[pair[2]] : Id(e) = pair[1]
        BY <2>3, <3>2
      <4>2. e \in All(log)
        BY <2>1, <2>3, <3>2
      <4>3. pair[1] \in Ids(All(log))
        BY <4>1, <4>2 DEF Ids
      <4>4. QED
        BY <2>3, <3>2, <4>3
    <3>3. QED
      BY <3>2
  <2>5. acks' \in [Peer -> SUBSET (Ids(All(log)) \X Peer)]
    BY <2>2, <2>4
  <2>6. \A p \in Peer : log[p] \subseteq log'[p] /\ acks[p] \subseteq acks'[p]
    BY <1>5 DEF Spreads, Extends
  <2>7. QED
    BY <2>1, <2>3, <2>5, <2>6, GroupLogOperators DEF Engines!Abstract!Spread
<1>6. EnginesInv /\ [Engines!Next]_(Engines!vars)
        => EnginesInv' /\ [Engines!Abstract!Next]_(Engines!Abstract!vars)
  BY <1>3, <1>4, <1>5 DEF Engines!Abstract!Next
<1>7. QED
  BY <1>1, <1>2, <1>6, PTL
     DEF Engines!Spec, Engines!ImplementsGroupLog, Engines!Abstract!Spec

=============================================================================
