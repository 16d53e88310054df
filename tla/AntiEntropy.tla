---------------------------- MODULE AntiEntropy ----------------------------
(***************************************************************************)
(* Replication as crates/replication promises it by itself: engines that    *)
(* meet run anti_entropy_pair, which exchanges the events each lacks and    *)
(* then every persisted acknowledgement either of them knows.  Nothing      *)
(* carries acknowledgements in TripSync, where the same engines are driven  *)
(* by travel-core; the two modules implement the same GroupLog.             *)
(*                                                                          *)
(* An exchange is one step: the engines are passed by unique reference, and *)
(* with one group, one epoch and all keys registered none of its calls      *)
(* fails.                                                                   *)
(***************************************************************************)
EXTENDS EventStore

CONSTANTS
  Audiences,   \* the audiences publishers choose: sets of peers
  Meetings,    \* the pairs <<left, right>> of engines that meet
  WallClock,   \* the readings of the wall clocks
  MaxEvents    \* bound on the events published

ASSUME MeetingAssumption ==
  /\ Audiences \subseteq SUBSET Peer
  /\ Meetings \subseteq Peer \X Peer
  /\ \A pair \in Meetings : pair[1] # pair[2]
  /\ WallClock \subseteq Nat
  /\ MaxEvents \in Nat

VARIABLES
  log,        \* log[p]: the events in p's store
  acks,       \* acks[p]: p's persisted_acks, pairs <<slot, member>>
  replicas,   \* replicas[p]: p's replica_holders, pairs <<slot, member>>
  clock       \* clock[p]: the hybrid clock of p's engine

vars == <<log, acks, replicas, clock>>

Everything == UNION {log[p] : p \in Peer}

Init ==
  /\ log = [p \in Peer |-> {}]
  /\ acks = [p \in Peer |-> {}]
  /\ replicas = [p \in Peer |-> {}]
  /\ clock = [p \in Peer |-> ZeroStamp]

(* ReplicationEngine::publish of a durable event.                          *)
Publish(p, audience, wall) ==
  LET event == [sender  |-> p,
                seq     |-> Cardinality(SeqsOf(log[p], p)) + 1,
                clock   |-> Tick(clock[p], wall),
                created |-> wall,
                targets |-> Targets(p, audience, Peer),
                parent  |-> NoParent,
                policy  |-> "durable"]
  IN  /\ Cardinality(Everything) < MaxEvents
      /\ log' = [log EXCEPT ![p] = @ \cup {event}]
      /\ clock' = [clock EXCEPT ![p] = event.clock]
      /\ UNCHANGED <<acks, replicas>>

(* The clock after ingesting events in their order.                        *)
Observed(last, events) ==
  LET Step(event, stamp) == Observe(stamp, event.clock, event.created)
      Latest(es) == CHOOSE e \in es : \A f \in es \ {e} : Before(f, e)
      after[es \in SUBSET events] ==
        IF es = {} THEN last
        ELSE Step(Latest(es), after[es \ {Latest(es)}])
  IN  after[events]

(* Variant: whoever stores an event acknowledges it, target or relay.       *)
EveryAck(p, events) == Ids(events) \X {p}

(* The acknowledgements p records for itself as it ingests events.          *)
OwnAcks(p, events) ==
  {Id(e) : e \in {f \in events : p \in f.targets}} \X {p}

(* Variant: the receiver's copies are reported, its acknowledgements kept   *)
(* to itself, and nothing of what either side knew before is passed on.     *)
KnownAfterReceiptsOnly(p, q, toP, toQ) ==
  acks[p] \cup OwnAcks(p, toP) \cup OwnAcks(q, toQ)

(* Receipts tell each side what the other took; then both apply all_acks of *)
(* either.  Everything ends up on both sides.                               *)
KnownAfter(p, q, toP, toQ) ==
  acks[p] \cup acks[q] \cup OwnAcks(p, toP) \cup OwnAcks(q, toQ)

(* anti_entropy_pair                                                        *)
Exchange(left, right) ==
  LET toRight == MissingFrom(log[left], Digest(log[right]))
      toLeft  == MissingFrom(log[right], Digest(log[left]))
  IN  /\ log' = [log EXCEPT ![left] = @ \cup toLeft, ![right] = @ \cup toRight]
      /\ clock' = [clock EXCEPT ![left] = Observed(@, toLeft),
                                ![right] = Observed(@, toRight)]
      /\ acks' = [acks EXCEPT
                   ![left] = KnownAfter(left, right, toLeft, toRight),
                   ![right] = KnownAfter(right, left, toRight, toLeft)]
      /\ replicas' = [replicas EXCEPT
                       ![left] = @ \cup (Ids(toRight) \X {right}),
                       ![right] = @ \cup (Ids(toLeft) \X {left})]

Next ==
  \/ \E p \in Peer, audience \in Audiences, wall \in WallClock :
       Publish(p, audience, wall)
  \/ \E pair \in Meetings : Exchange(pair[1], pair[2])

Spec == Init /\ [][Next]_vars

(* The store-and-forward path of the guarantee: the pairs keep meeting.     *)
FairSpec ==
  Spec /\ \A pair \in Meetings : WF_vars(Exchange(pair[1], pair[2]))

----------------------------------------------------------------------------
(* Properties *)

(* Every event reaches every engine over whatever chain of meetings there   *)
(* is, and its sender learns that all its targets have it: a relay's copy   *)
(* alone never completes it, the forwarded acknowledgement does.            *)
DeliveredAndKnown ==
  <>[](\A e \in Everything :
         /\ \A p \in Peer : e \in log[p]
         /\ Phase(e, acks[e.sender], replicas[e.sender], e.sender, FALSE)
              = "complete")

(* Anti-entropy implements the specification of the group log.              *)
Abstract == INSTANCE GroupLog WITH held <- log, confirmed <- acks

ImplementsGroupLog == Abstract!Spec

============================================================================
