----------------------------- MODULE EventStore -----------------------------
(***************************************************************************)
(* What crates/store and crates/replication compute from one device's       *)
(* event log: who an event is for, the digest that summarises a log, the    *)
(* events a digest lacks, and the delivery state shown for an event.  The   *)
(* module has no variables; TripSync and AntiEntropy keep the logs.         *)
(*                                                                          *)
(* An event stands for an EventEnvelope of one group and epoch.  It is      *)
(* known by its slot <<sender, seq>>; parent is the slot of the document    *)
(* revision it extends (NoParent for every other kind of event), and        *)
(* policy its DeliveryPolicy.  Peers are numbers so that they have the      *)
(* order that PeerId has.                                                   *)
(***************************************************************************)
EXTENDS HybridClock, FiniteSets

CONSTANT Peer

ASSUME PeerAssumption == Peer \subseteq Nat

NoParent == <<>>

Policy == {"durable", "latestValue", "transient"}

Slot == Peer \X (Nat \ {0})

Event == [sender : Peer, seq : Nat \ {0}, clock : Stamp, created : Nat,
          targets : SUBSET Peer, parent : Slot \cup {NoParent},
          policy : Policy]

Id(event) == <<event.sender, event.seq>>

Ids(events) == {Id(event) : event \in events}

(* The order of all_signed_events, in which batches are sent and applied.  *)
Before(e, f) ==
  \/ StampBefore(e.clock, f.clock)
  \/ /\ e.clock = f.clock
     /\ \/ e.sender < f.sender
        \/ e.sender = f.sender /\ e.seq < f.seq

Firsts(events) == {e \in events : \A f \in events \ {e} : Before(e, f)}

(* resolve_targets: the audience among the members, without the publisher. *)
Targets(publisher, audience, members) ==
  (audience \cap members) \ {publisher}

----------------------------------------------------------------------------
(* Digests *)

SeqsOf(events, sender) ==
  {event.seq : event \in {e \in events : e.sender = sender}}

(* Variant: what is missing below the largest sequence is not listed.       *)
SummarizeNoGaps(present) ==
  LET max_seen == Max(present \cup {0})
  IN  [max_seen |-> max_seen, contiguous_frontier |-> max_seen, gaps |-> {}]

(* summarize: the largest sequence, the end of the gap-free prefix, and    *)
(* every sequence missing between the two.                                 *)
Summarize(present) ==
  LET max_seen == Max(present \cup {0})
      absent   == (1 .. max_seen) \ present
      frontier == IF absent = {} THEN max_seen ELSE Min(absent) - 1
  IN  [max_seen |-> max_seen,
       contiguous_frontier |-> frontier,
       gaps |-> ((frontier + 1) .. max_seen) \ present]

(* SequenceSummary::contains *)
Contains(summary, seq) == seq <= summary.max_seen /\ seq \notin summary.gaps

(* EventStore::digest; a sender it does not list has an empty summary.     *)
Digest(events) == [sender \in Peer |-> Summarize(SeqsOf(events, sender))]

(* EventStore::events_missing_from *)
MissingFrom(events, digest) ==
  {e \in events : ~Contains(digest[e.sender], e.seq)}

----------------------------------------------------------------------------
(* Delivery state.  acks and replicas are the rows of persisted_acks and    *)
(* replica_holders: pairs <<slot, member>>.                                 *)

Acknowledged(event, acks) == {m \in event.targets : <<Id(event), m>> \in acks}

Relays(event, replicas, local) ==
  {m \in Peer : <<Id(event), m>> \in replicas} \ (event.targets \cup {local})

(* delivery_state, its tests in the order of the code.                     *)
Phase(event, acks, replicas, local, expired) ==
  LET delivered == Acknowledged(event, acks)
  IN  IF delivered = event.targets THEN "complete"
      ELSE IF expired THEN "expired"
      ELSE IF delivered # {} THEN "delivered"
      ELSE IF Relays(event, replicas, local) # {} THEN "replicatedToRelay"
      ELSE "persistedLocally"

============================================================================
