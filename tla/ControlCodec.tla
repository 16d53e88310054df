---------------------------- MODULE ControlCodec -----------------------------
(* Controls between devices over Bluetooth (protocol, bluetooth, and the     *)
(* core's handler of group controls): fragments, acknowledgements, expiry,   *)
(* and two memories that suppress duplicates.                                *)
(* Two devices have up to two links, one for each of them as the central;    *)
(* the backend sends every packet over all of them, so whatever arrives may  *)
(* arrive twice.                                                             *)
EXTENDS Integers, FiniteSets, SequencesExt, FiniteSetsExt

CONSTANTS
  Peer,
  Id,            \* numbers: request ids, random and ordered
  Packets,       \* how many each control takes
  Skews,         \* by how much clocks may be ahead
  Ttl, AckTtl, AssemblyTtl,
  Capacity, Batch,   \* of the codec's memory: its size, how many are forgotten at once
  Memory,        \* size of the core's memory
  MaxFaults      \* bound: links that break and time that passes

ASSUME ConstantsAssumption ==
  /\ Id \subseteq Nat /\ Packets \in [Id -> Nat \ {0}] /\ Skews \subseteq Nat
  /\ Ttl \in Nat \ {0} /\ AckTtl \in Nat /\ AssemblyTtl \in Nat
  /\ Capacity \in Nat \ {0} /\ Batch \in 1..Capacity /\ Memory \in Nat \ {0}
  /\ MaxFaults \in Nat

VARIABLES
  now, skew,   \* the time, and by how much each clock is ahead
  sent,        \* the controls sent
  outbox,      \* packets handed to each backend
  up,          \* links that are up
  ready,       \* links each backend takes for up
  wire,        \* what each link has for each of its ends
  assemblies,  \* pieces of what each device is receiving
  seen,        \* what each codec remembers, oldest first
  pending,     \* controls each device waits to have acknowledged
  confirmed,   \* controls each device was told are acknowledged
  received,    \* controls handed to each core, in order
  processed,   \* what each core remembers
  acted,       \* controls each core has acted on, in order
  past         \* links that broke, and controls under way when something went wrong

vars == <<now, skew, sent, outbox, up, ready, wire, assemblies, seen, pending, confirmed,
          received, processed, acted, past>>

-----------------------------------------------------------------------------
Link == {l \in Peer \X Peer : l[1] # l[2]}
LinksOf(p) == {l \in Link : p \in {l[1], l[2]}}
Other(p, l) == IF l[1] = p THEN l[2] ELSE l[1]

Clock(p) == now + skew[p]

Packet(p, kind, id, index, total, till) ==
  [kind |-> kind, from |-> p, id |-> id, index |-> index, total |-> total, till |-> till]
End == [kind |-> "end"]

Fragments(p, id, till) ==
  [i \in 1..Packets[id] |-> Packet(p, "data", id, i, Packets[id], till)]
Ack(p, id) == Packet(p, "ack", id, 1, 1, Clock(p) + AckTtl)

To(q, packets) == [i \in DOMAIN packets |-> [to |-> q, packet |-> packets[i]]]

Init ==
  /\ now = 0
  /\ skew \in [Peer -> Skews] /\ \E p \in Peer : skew[p] = 0
  /\ sent = {}
  /\ outbox = [p \in Peer |-> <<>>]
  /\ up = Link
  /\ ready = [p \in Peer |-> LinksOf(p)]
  /\ wire = [l \in Link |-> [p \in Peer |-> <<>>]]
  /\ assemblies = [p \in Peer |-> {}]
  /\ seen = [p \in Peer |-> <<>>]
  /\ pending = [p \in Peer |-> {}]
  /\ confirmed = [p \in Peer |-> {}]
  /\ received = [p \in Peer |-> <<>>]
  /\ processed = [p \in Peer |-> {}]
  /\ acted = [p \in Peer |-> <<>>]
  /\ past = [breaks |-> 0, disturbed |-> {}]

codec == <<assemblies, seen, pending, confirmed>>
core == <<received, processed, acted>>
radio == <<up, ready>>

(* Controls that were not yet acknowledged when something went wrong.        *)
Underway == {c.id : c \in sent} \ UNION {confirmed[p] : p \in Peer}
Disturbed(ids) == [past EXCEPT !.disturbed = @ \cup ids]

-----------------------------------------------------------------------------
Send(p, q, id) ==
  /\ p # q /\ id \notin {c.id : c \in sent}
  /\ sent' = sent \cup {[id |-> id, from |-> p, to |-> q]}
  /\ pending' = [pending EXCEPT ![p] = @ \cup {id}]
  /\ outbox' = [outbox EXCEPT ![p] = @ \o To(q, Fragments(p, id, Clock(p) + Ttl))]
  /\ UNCHANGED <<now, skew, radio, wire, assemblies, seen, confirmed, core, past>>

(* A packet goes over every link the backend takes for up, and fails when    *)
(* there is none. Nobody sends it again.                                     *)
Transmit(p) ==
  /\ outbox[p] # <<>>
  /\ outbox' = [outbox EXCEPT ![p] = Tail(@)]
  /\ \E next \in {Head(outbox[p])} :
     \E paths \in {{l \in ready[p] : Other(p, l) = next.to}} :
       /\ wire' = [l \in Link |->
            IF l \in paths \cap up THEN [wire[l] EXCEPT ![next.to] = Append(@, next.packet)]
            ELSE wire[l]]
       /\ past' = IF paths \cap up = {} THEN Disturbed({next.packet.id}) ELSE past
  /\ UNCHANGED <<now, skew, sent, radio, codec, core>>

Advance ==
  /\ now + past.breaks < MaxFaults
  /\ now' = now + 1
  /\ past' = Disturbed(Underway)
  /\ UNCHANGED <<skew, sent, outbox, radio, wire, codec, core>>

(* What a broken link had not yet delivered may be lost at either end.       *)
Break(l) ==
  /\ l \in up /\ now + past.breaks < MaxFaults
  /\ up' = up \ {l}
  /\ \E i \in 0..Len(wire[l][l[1]]), j \in 0..Len(wire[l][l[2]]) :
       wire' = [wire EXCEPT ![l][l[1]] = SubSeq(@, 1, i) \o <<End>>,
                            ![l][l[2]] = SubSeq(@, 1, j) \o <<End>>]
  /\ past' = [Disturbed(Underway) EXCEPT !.breaks = @ + 1]
  /\ UNCHANGED <<now, skew, sent, outbox, ready, codec, core>>

(* The end of one link takes away what has arrived over both.                *)
Disconnected(p, l) ==
  /\ wire[l][p] # <<>> /\ Head(wire[l][p]) = End
  /\ wire' = [wire EXCEPT ![l][p] = Tail(@)]
  /\ ready' = [ready EXCEPT ![p] = @ \ {l}]
  /\ assemblies' = [assemblies EXCEPT ![p] = {a \in @ : a.from # Other(p, l)}]
  /\ past' = Disturbed(Underway)
  /\ UNCHANGED <<now, skew, sent, outbox, up, seen, pending, confirmed, core>>

Connect(l) ==
  /\ l \notin up /\ \A p \in {l[1], l[2]} : l \notin ready[p]
  /\ up' = up \cup {l}
  /\ ready' = [p \in Peer |-> IF p \in {l[1], l[2]} THEN ready[p] \cup {l} ELSE ready[p]]
  /\ UNCHANGED <<now, skew, sent, outbox, wire, codec, core, past>>

-----------------------------------------------------------------------------
(* ingest_packet, for a packet that arrives on link l.                       *)
Arrives(p, l) ==
  /\ wire[l][p] # <<>> /\ Head(wire[l][p]) # End
  /\ wire' = [wire EXCEPT ![l][p] = Tail(@)]
  /\ UNCHANGED <<now, skew, sent, radio, past>>

(* Variant: a piece is forgotten at the very end of its time.                *)
PurgedEarly(p) == {a \in assemblies[p] : a.since > Clock(p) - AssemblyTtl}

Purged(p) == {a \in assemblies[p] : a.since >= Clock(p) - AssemblyTtl}

Before(p, packet) ==
  {a \in Purged(p) : a.from = packet.from /\ a.id = packet.id}

With(p, packet) ==
  IF Before(p, packet) = {}
  THEN [from |-> packet.from, id |-> packet.id, since |-> Clock(p), pieces |-> {packet.index}]
  ELSE [(CHOOSE a \in Before(p, packet) : TRUE) EXCEPT !.pieces = @ \cup {packet.index}]

Rest(p, packet) == Purged(p) \ Before(p, packet)
Completes(p, packet) == Cardinality(With(p, packet).pieces) = packet.total
Expired(p, packet) == Clock(p) > packet.till

Partial(p, l) ==
  /\ Arrives(p, l)
  /\ \E packet \in {Head(wire[l][p])} :
       /\ ~Completes(p, packet)
       /\ assemblies' = [assemblies EXCEPT ![p] = Rest(p, packet) \cup {With(p, packet)}]
  /\ UNCHANGED <<outbox, seen, pending, confirmed, core>>

Completed(p, l, packet) ==
  /\ Arrives(p, l)
  /\ packet = Head(wire[l][p])
  /\ Completes(p, packet)
  /\ assemblies' = [assemblies EXCEPT ![p] = Rest(p, packet)]

(* Variant: what has expired is acknowledged all the same.                   *)
ExpireAcknowledged(p, l) ==
  \E packet \in ToSet(wire[l][p]) \ {End} :
    /\ Completed(p, l, packet) /\ Expired(p, packet)
    /\ outbox' = IF packet.kind = "ack" THEN outbox
                 ELSE [outbox EXCEPT ![p] = @ \o To(packet.from, <<Ack(p, packet.id)>>)]
    /\ UNCHANGED <<seen, pending, confirmed, core>>

Expire(p, l) ==
  \E packet \in ToSet(wire[l][p]) \ {End} :
    /\ Completed(p, l, packet) /\ Expired(p, packet)
    /\ UNCHANGED <<outbox, seen, pending, confirmed, core>>

TakeAck(p, l) ==
  \E packet \in ToSet(wire[l][p]) \ {End} :
    /\ Completed(p, l, packet) /\ ~Expired(p, packet) /\ packet.kind = "ack"
    /\ confirmed' = [confirmed EXCEPT ![p] = @ \cup ({packet.id} \cap pending[p])]
    /\ pending' = [pending EXCEPT ![p] = @ \ {packet.id}]
    /\ UNCHANGED <<outbox, seen, core>>

(* Variant: the codec forgets as soon as its memory is full.                 *)
RememberedFull(order, id) ==
  IF Contains(order, id) THEN order
  ELSE IF Len(order) + 1 < Capacity THEN Append(order, id)
  ELSE SubSeq(Append(order, id), Batch + 1, Len(order) + 1)

(* The codec forgets the oldest, several at a time.                          *)
Remembered(order, id) ==
  IF Contains(order, id) THEN order
  ELSE IF Len(order) + 1 <= Capacity THEN Append(order, id)
  ELSE SubSeq(Append(order, id), Batch + 1, Len(order) + 1)

(* The core remembers the ids it has acted on, and forgets the smallest,     *)
(* which may be the one just learnt.                                         *)
Processed(ids, id) ==
  LET all == ids \cup {id} IN IF Cardinality(all) > Memory THEN all \ {Min(all)} ELSE all

OnControl(p, id) ==
  /\ received' = [received EXCEPT ![p] = Append(@, id)]
  /\ IF id \in processed[p]
     THEN UNCHANGED <<processed, acted>>
     ELSE /\ processed' = [processed EXCEPT ![p] = Processed(@, id)]
          /\ acted' = [acted EXCEPT ![p] = Append(@, id)]

(* Duplicates are acknowledged again.                                        *)
TakeData(p, l) ==
  \E packet \in ToSet(wire[l][p]) \ {End} :
    /\ Completed(p, l, packet) /\ ~Expired(p, packet) /\ packet.kind = "data"
    /\ seen' = [seen EXCEPT ![p] = Remembered(@, packet.id)]
    /\ IF Contains(seen[p], packet.id) THEN UNCHANGED core ELSE OnControl(p, packet.id)
    /\ outbox' = [outbox EXCEPT ![p] = @ \o To(packet.from, <<Ack(p, packet.id)>>)]
    /\ UNCHANGED <<pending, confirmed>>

Receive(p, l) == Partial(p, l) \/ Expire(p, l) \/ TakeAck(p, l) \/ TakeData(p, l)

Progress == \E p \in Peer : Transmit(p) \/ \E l \in Link : Receive(p, l) \/ Disconnected(p, l)

Next ==
  \/ Progress \/ Advance
  \/ \E l \in Link : Break(l) \/ Connect(l)
  \/ \E p, q \in Peer : \E id \in Id : Send(p, q, id)

Spec == Init /\ [][Next]_vars

FairSpec == Spec /\ WF_vars(Progress)

-----------------------------------------------------------------------------
TypeOK ==
  /\ now \in 0..MaxFaults /\ up \subseteq Link
  /\ \A p \in Peer :
       /\ ready[p] \subseteq LinksOf(p)
       /\ pending[p] \cup confirmed[p] \subseteq {c.id : c \in sent}
       /\ Len(seen[p]) <= Capacity /\ IsInjective(seen[p])
       /\ Cardinality(processed[p]) <= Memory
       /\ \A a \in assemblies[p] : a.pieces \subseteq 1..Packets[a.id]
       /\ \A a, b \in assemblies[p] : a.from = b.from /\ a.id = b.id => a = b

(* A device is told that a control was acknowledged only when the core it    *)
(* was for has been handed it, in time, and not for copies of pieces.        *)
ConfirmedWasReceived ==
  \A c \in sent : c.id \in confirmed[c.from] => c.id \in ToSet(received[c.to])

AcknowledgementsTrue == TypeOK /\ ConfirmedWasReceived

(* Duplicated requests have no effect twice (TASK.md): the codec hands a     *)
(* control over again only after so many others that it may have forgotten   *)
(* it, and then the core still knows it, unless it has had more controls     *)
(* than it remembers.                                                        *)
HandedOnce ==
  \A p \in Peer : \A i, j \in DOMAIN received[p] :
    i < j /\ received[p][i] = received[p][j] => j - i > Capacity + 1 - Batch

ActedOnce ==
  \A p \in Peer : IsInjective(acted[p]) \/ Cardinality(ToSet(acted[p])) > Memory

AtMostOnce == HandedOnce /\ ActedOnce

(* A control that was not under way when a link broke or time passed is      *)
(* handed over and acknowledged, over one link or two, whichever copies come *)
(* first, if the clocks allow for it.                                        *)
InTime(c) ==
  /\ skew[c.to] - skew[c.from] <= Ttl
  /\ skew[c.from] - skew[c.to] <= AckTtl

ControlsArrive ==
  <>[](\A c \in sent :
         InTime(c) /\ c.id \notin past.disturbed =>
           c.id \in ToSet(received[c.to]) \cap confirmed[c.from])
=============================================================================
