------------------------------ MODULE TripSync ------------------------------
(***************************************************************************)
(* The replication of trip events between the devices of one group, as      *)
(* crates/travel-core runs it over peer transport connections.              *)
(*                                                                          *)
(* Each device keeps a SQLite store (event log, next own sequence, the      *)
(* acknowledgements and replica rows, and one app_state row holding the     *)
(* materialized state) and, in memory, the clock of its replication engine  *)
(* and the materialized state itself.  The core handles one command or one  *)
(* module event at a time under a lock; a handler writes the store in       *)
(* separate transactions as it goes, and saves the materialized state and   *)
(* hands over its outgoing frames only when it has succeeded.  A handler    *)
(* is therefore several actions here, during which the device does nothing  *)
(* else but may crash.                                                      *)
(*                                                                          *)
(* The members and their keys are fixed: admission and leaving are not part *)
(* of this module.                                                          *)
(***************************************************************************)
EXTENDS EventStore, Sequences

CONSTANTS
  DataRange,    \* pairs of peers whose transports can connect
  BleRange,     \* pairs <<p, q>> such that p's control messages can reach q
  Audiences,    \* the audiences publishers choose: sets of peers
  Policies,     \* the delivery policies publishers choose
  Revisions,    \* whether what is published are document revisions, which may
                \* extend one another, or events that stand alone
  WallClock,    \* the readings of the devices' wall clocks
  MaxEvents,    \* bound on the events published, all devices together
  MaxCrashes,   \* bound on crashes, all devices together
  MaxDrops      \* bound on lost connections, all pairs together

ASSUME RangeAssumption ==
  /\ DataRange \subseteq Peer \X Peer
  /\ \A pair \in DataRange : <<pair[2], pair[1]>> \in DataRange
  /\ BleRange \subseteq Peer \X Peer

ASSUME ChoiceAssumption ==
  /\ Audiences \subseteq SUBSET Peer
  /\ Policies \subseteq Policy
  /\ Revisions \in BOOLEAN
  /\ WallClock \subseteq Nat

ASSUME BoundAssumption == {MaxEvents, MaxCrashes, MaxDrops} \subseteq Nat

VARIABLES
  log,        \* log[p]: the rows of p's events table
  nextSeq,    \* nextSeq[p]: p's row of sender_sequences
  acks,       \* acks[p]: p's persisted_acks, pairs <<slot, member>>
  replicas,   \* replicas[p]: p's replica_holders, pairs <<slot, member>>
  saved,      \* saved[p]: the slots in the materialized state p has saved
  view,       \* view[p]: the slots in the materialized state in memory
  clock,      \* clock[p]: the hybrid clock of p's replication engine
  work,       \* work[p]: the handler p is in the middle of
  link,       \* link[<<p, q>>]: p's end of the connection between p and q
  wire,       \* wire[<<p, q>>]: frames from p to q, in order
  hints,      \* pairs <<p, q>>: a dataAvailable control from p on its way to q
  expired,    \* slots of the events whose expires_at has passed
  crashes,    \* crashes so far
  drops       \* connections lost so far

disk   == <<log, nextSeq, acks, replicas, saved>>
memory == <<view, clock, work>>
air    == <<link, wire, hints>>
bounds == <<crashes, drops>>
vars   == <<disk, memory, air, expired, bounds>>

Pairs == Peer \X Peer

DigestFrame(digest) == [kind |-> "syncDigest", digest |-> digest]
BatchFrame(events) == [kind |-> "eventBatch", events |-> events]
AckFrame(ids) == [kind |-> "persistedAck", ids |-> ids]

(* The handlers that take several steps: applying a batch, of which todo    *)
(* is still to be ingested and done has been, and publishing an event.     *)
Idle == [stage |-> "idle"]
Ingesting(from, todo, done) ==
  [stage |-> "ingesting", from |-> from, todo |-> todo, done |-> done]
Publishing(event) == [stage |-> "publishing", event |-> event]

IsIdle(p) == work[p] = Idle

Everything == UNION {log[p] : p \in Peer}

(* An end of a connection: unknown to the core, working, broken with a      *)
(* Disconnected event on its way to the core, or broken without one: the    *)
(* runtime has forgotten its sessions, and ignores that event.              *)
End == {"none", "up", "lost", "stale"}

(* The peers that get what p sends; frames for a broken connection, which   *)
(* the core takes for a working one, are lost.                              *)
Reachable(p) == {q \in Peer : link[<<p, q>>] = "up"}

Between(p, q) == {<<p, q>>, <<q, p>>}

AllOf(p) == {pair \in Pairs : p \in {pair[1], pair[2]}}

(* Connections break: what is in them is lost, and their ends hear of it.   *)
Cleared(gone) == [pair \in Pairs |-> IF pair \in gone THEN <<>> ELSE wire[pair]]

Broken(gone) ==
  [pair \in Pairs |->
    IF pair \in gone /\ link[pair] = "up" THEN "lost" ELSE link[pair]]

(* Every frame in frames, a function of some of p's connections, is queued. *)
Transmit(p, frames) ==
  [pair \in Pairs |->
    IF pair[1] = p /\ pair[2] \in DOMAIN frames
      THEN Append(wire[pair], frames[pair[2]])
      ELSE wire[pair]]

Init ==
  /\ log = [p \in Peer |-> {}]
  /\ nextSeq = [p \in Peer |-> 1]
  /\ acks = [p \in Peer |-> {}]
  /\ replicas = [p \in Peer |-> {}]
  /\ saved = [p \in Peer |-> {}]
  /\ view = [p \in Peer |-> {}]
  /\ clock = [p \in Peer |-> ZeroStamp]
  /\ work = [p \in Peer |-> Idle]
  /\ link = [pair \in Pairs |-> "none"]
  /\ wire = [pair \in Pairs |-> <<>>]
  /\ hints = {}
  /\ expired = {}
  /\ crashes = 0
  /\ drops = 0

----------------------------------------------------------------------------
(* Publishing *)

(* A revision extends one that its author's document contains.              *)
Parents(p) == IF Revisions THEN view[p] \cup {NoParent} ELSE {NoParent}

(* Variant: the event is handed out before its transaction commits.         *)
CommittedLate(p, event) == log[p]

(* publish_local: the events table once the transaction has committed.      *)
Committed(p, event) == log[p] \cup {event}

(* ReplicationEngine::publish: sequence and event are committed together.   *)
Publish(p, audience, parent, policy, wall) ==
  LET event == [sender  |-> p,
                seq     |-> nextSeq[p],
                clock   |-> Tick(clock[p], wall),
                created |-> wall,
                targets |-> Targets(p, audience, Peer),
                parent  |-> parent,
                policy  |-> policy]
  IN  /\ IsIdle(p)
      /\ Cardinality(Everything) < MaxEvents
      /\ parent \in Parents(p)
      /\ log' = [log EXCEPT ![p] = Committed(p, event)]
      /\ nextSeq' = [nextSeq EXCEPT ![p] = @ + 1]
      /\ clock' = [clock EXCEPT ![p] = event.clock]
      /\ view' = [view EXCEPT ![p] = @ \cup {Id(event)}]
      /\ work' = [work EXCEPT ![p] = Publishing(event)]
      /\ UNCHANGED <<acks, replicas, saved, air, expired, bounds>>

(* The rest of the handler: the event goes to every connection, and a hint  *)
(* to every other member unless the event is transient; persist() saves.    *)
FinishPublish(p) ==
  /\ work[p].stage = "publishing"
  /\ LET event == work[p].event
     IN  /\ wire' = Transmit(p, [q \in Reachable(p) |-> BatchFrame({event})])
         /\ hints' = IF event.policy = "transient" THEN hints
                     ELSE hints \cup {pair \in BleRange : pair[1] = p}
  /\ saved' = [saved EXCEPT ![p] = view[p]]
  /\ work' = [work EXCEPT ![p] = Idle]
  /\ UNCHANGED <<log, nextSeq, acks, replicas, view, clock, link, expired,
                 bounds>>

----------------------------------------------------------------------------
(* Receiving: handle_wire_message *)

Arrives(q, p, kind) ==
  /\ IsIdle(p)
  /\ q \in Reachable(p)
  /\ wire[<<q, p>>] # <<>>
  /\ Head(wire[<<q, p>>]).kind = kind

Take(q, p) == [wire EXCEPT ![<<q, p>>] = Tail(@)]

(* A digest is answered with the events it lacks, expired or not.          *)
ReceiveDigest(p, q) ==
  /\ Arrives(q, p, "syncDigest")
  /\ LET missing == MissingFrom(log[p], Head(wire[<<q, p>>]).digest)
     IN  wire' = IF missing = {} THEN Take(q, p)
                 ELSE [Take(q, p) EXCEPT
                        ![<<p, q>>] = Append(@, BatchFrame(missing))]
  /\ saved' = [saved EXCEPT ![p] = view[p]]
  /\ UNCHANGED <<log, nextSeq, acks, replicas, memory, link, hints, expired,
                 bounds>>

(* Variant: the batch is acknowledged when it arrives.                      *)
ReceiveBatchAndAck(p, q) ==
  /\ Arrives(q, p, "eventBatch")
  /\ LET events == Head(wire[<<q, p>>]).events
     IN  /\ work' = [work EXCEPT ![p] = Ingesting(q, events, {})]
         /\ wire' = [Take(q, p) EXCEPT
                      ![<<p, q>>] = Append(@, AckFrame(Ids(events)))]
  /\ UNCHANGED <<disk, view, clock, link, hints, expired, bounds>>

ReceiveBatch(p, q) ==
  /\ Arrives(q, p, "eventBatch")
  /\ work' = [work EXCEPT
               ![p] = Ingesting(q, Head(wire[<<q, p>>]).events, {})]
  /\ wire' = Take(q, p)
  /\ UNCHANGED <<disk, view, clock, link, hints, expired, bounds>>

IsNew(p, event) == Id(event) \notin Ids(log[p])

(* Variant: the stored copy carries the clock of the device that stores it. *)
InsertedRestamped(p, event) ==
  log[p] \cup (IF IsNew(p, event)
                 THEN {[event EXCEPT !.clock = clock[p]]} ELSE {})

(* insert_event_transaction: a slot already in the log is left alone.       *)
Inserted(p, event) ==
  log[p] \cup (IF IsNew(p, event) THEN {event} ELSE {})

OwnAck(p, event) == IF p \in event.targets THEN {<<Id(event), p>>} ELSE {}

(* Variant: a revision is accepted whatever it extends.                     *)
NeverOrphan(p, event) == FALSE

(* insert_revision: the parent has to be in the document.                   *)
IsOrphan(p, event) == event.parent \notin view[p] \cup {NoParent}

(* ReplicationEngine::ingest of the next event of the batch, then           *)
(* materialize_event if it was new.  A revision whose parent is unknown is  *)
(* an error, which ends the handler: no acknowledgement, no save.           *)
Ingest(p, event) ==
  /\ clock' = [clock EXCEPT ![p] = Observe(@, event.clock, event.created)]
  /\ log' = [log EXCEPT ![p] = Inserted(p, event)]
  /\ acks' = [acks EXCEPT ![p] = @ \cup OwnAck(p, event)]
  /\ IF IsNew(p, event) /\ IsOrphan(p, event)
       THEN /\ work' = [work EXCEPT ![p] = Idle]
            /\ UNCHANGED view
       ELSE /\ work' = [work EXCEPT
                  ![p] = Ingesting(@.from, @.todo \ {event},
                                   @.done \cup {Id(event)})]
            /\ view' = IF IsNew(p, event)
                         THEN [view EXCEPT ![p] = @ \cup {Id(event)}] ELSE view
  /\ UNCHANGED <<nextSeq, replicas, saved, air, expired, bounds>>

IngestNext(p) ==
  /\ work[p].stage = "ingesting"
  /\ \E event \in Firsts(work[p].todo) : Ingest(p, event)

(* The batch is acknowledged on the connection it came on, and saved.       *)
FinishBatch(p) ==
  /\ work[p].stage = "ingesting"
  /\ work[p].todo = {}
  /\ LET from == work[p].from
     IN  wire' = IF from \in Reachable(p)
                   THEN [wire EXCEPT
                          ![<<p, from>>] = Append(@, AckFrame(work[p].done))]
                   ELSE wire
  /\ saved' = [saved EXCEPT ![p] = view[p]]
  /\ work' = [work EXCEPT ![p] = Idle]
  /\ UNCHANGED <<log, nextSeq, acks, replicas, view, clock, link, hints,
                 expired, bounds>>

(* apply_receipt: the sender of the frame holds a copy of each event, and   *)
(* is recorded as delivered where the local copy names it as a target.      *)
ReceiveAck(p, q) ==
  /\ Arrives(q, p, "persistedAck")
  /\ LET ids == Head(wire[<<q, p>>]).ids
         delivered == {Id(e) : e \in {f \in log[p] :
                                        Id(f) \in ids /\ q \in f.targets}}
     IN  /\ replicas' = [replicas EXCEPT ![p] = @ \cup (ids \X {q})]
         /\ acks' = [acks EXCEPT ![p] = @ \cup (delivered \X {q})]
  /\ wire' = Take(q, p)
  /\ saved' = [saved EXCEPT ![p] = view[p]]
  /\ UNCHANGED <<log, nextSeq, memory, link, hints, expired, bounds>>

(* A dataAvailable control: the core starts discovery once more, and then   *)
(* offers a digest on the connection to the sender of the control.  The     *)
(* runtime forgets its sessions, the transport gives up its connections:    *)
(* the digest is lost, and this core is not told, except of what another    *)
(* thread is telling it already.                                            *)
ReceiveHint(p, q) ==
  /\ IsIdle(p)
  /\ <<q, p>> \in hints
  /\ hints' = hints \ {<<q, p>>}
  /\ \E told \in {"lost", "stale"} :
       link' = [pair \in Pairs |->
         CASE pair[1] = p /\ link[pair] = "up"   -> "stale"
           [] pair[1] = p /\ link[pair] = "lost" -> told
           [] OTHER -> Broken(AllOf(p))[pair]]
  /\ wire' = Cleared(AllOf(p))
  /\ saved' = [saved EXCEPT ![p] = view[p]]
  /\ UNCHANGED <<log, nextSeq, acks, replicas, memory, expired, bounds>>

----------------------------------------------------------------------------
(* Connections, crashes and time *)

(* A new connection to q reports to p's core.                               *)
Opens(p, q) ==
  /\ IsIdle(p)
  /\ <<p, q>> \in DataRange
  /\ link[<<p, q>>] \in {"none", "stale"}
  /\ link' = [link EXCEPT ![<<p, q>>] = "up"]
  /\ saved' = [saved EXCEPT ![p] = view[p]]
  /\ UNCHANGED <<log, nextSeq, acks, replicas, memory, hints, expired, bounds>>

(* Variant: the connection is recorded and nothing is offered on it.        *)
AuthenticateQuietly(p, q) == Opens(p, q) /\ UNCHANGED wire

(* TransportEvent::Authenticated: record the connection, offer a digest.    *)
Authenticate(p, q) ==
  /\ Opens(p, q)
  /\ wire' = [wire EXCEPT
               ![<<p, q>>] = Append(@, DigestFrame(Digest(log[p])))]

(* A connection is lost with the frames in it.                              *)
Drop(p, q) ==
  /\ drops < MaxDrops
  /\ \E pair \in Between(p, q) : link[pair] = "up"
  /\ link' = Broken(Between(p, q))
  /\ wire' = Cleared(Between(p, q))
  /\ drops' = drops + 1
  /\ UNCHANGED <<disk, memory, hints, expired, crashes>>

(* TransportEvent::Disconnected: the core forgets the connection.           *)
Disconnect(p, q) ==
  /\ IsIdle(p)
  /\ link[<<p, q>>] = "lost"
  /\ link' = [link EXCEPT ![<<p, q>>] = "none"]
  /\ saved' = [saved EXCEPT ![p] = view[p]]
  /\ UNCHANGED <<log, nextSeq, acks, replicas, memory, wire, hints, expired,
                 bounds>>

(* The app process dies and starts again: TravelCore::new reads the saved   *)
(* state, and the rebuilt engine starts its clock from zero.  Hints in the  *)
(* air may still arrive.                                                    *)
Restart(p) ==
  /\ crashes < MaxCrashes
  /\ crashes' = crashes + 1
  /\ view' = [view EXCEPT ![p] = saved[p]]
  /\ clock' = [clock EXCEPT ![p] = ZeroStamp]
  /\ work' = [work EXCEPT ![p] = Idle]
  /\ link' = [pair \in Pairs |->
               IF pair[1] = p THEN "none" ELSE Broken(AllOf(p))[pair]]
  /\ wire' = Cleared(AllOf(p))
  /\ UNCHANGED <<nextSeq, replicas, saved, hints, expired, drops>>

(* Variant: the events of a batch are committed together at its end.        *)
CrashUndoingBatch(p) ==
  /\ Restart(p)
  /\ log' = [log EXCEPT ![p] = {e \in @ : work[p].stage = "ingesting"
                                            => Id(e) \notin work[p].done}]
  /\ UNCHANGED acks

Crash(p) ==
  /\ Restart(p)
  /\ UNCHANGED <<log, acks>>

(* Variant: the acknowledgement is committed first.                         *)
CrashAfterAck(p) ==
  /\ work[p].stage = "ingesting"
  /\ \E event \in Firsts(work[p].todo) :
       acks' = [acks EXCEPT ![p] = @ \cup OwnAck(p, event)]
  /\ Restart(p)
  /\ UNCHANGED log

(* ingest commits the event and its own acknowledgement separately: the     *)
(* process can die between the two.                                         *)
CrashBeforeAck(p) ==
  /\ work[p].stage = "ingesting"
  /\ \E event \in Firsts(work[p].todo) :
       log' = [log EXCEPT ![p] = Inserted(p, event)]
  /\ Restart(p)
  /\ UNCHANGED acks

(* The expires_at of an event passes; a durable event has none.            *)
Expire ==
  \E event \in {e \in Everything : e.policy # "durable"} :
    /\ Id(event) \notin expired
    /\ expired' = expired \cup {Id(event)}
    /\ UNCHANGED <<disk, memory, air, bounds>>

----------------------------------------------------------------------------

PublishAny(p) ==
  \E audience \in Audiences, parent \in Parents(p),
     policy \in Policies, wall \in WallClock :
    Publish(p, audience, parent, policy, wall)

(* What a device does by itself as frames arrive.                          *)
Step(p) ==
  \/ FinishPublish(p)
  \/ IngestNext(p)
  \/ FinishBatch(p)
  \/ \E q \in Peer :
       \/ ReceiveDigest(p, q)
       \/ ReceiveBatch(p, q)
       \/ ReceiveAck(p, q)
       \/ Disconnect(p, q)

Next ==
  \/ Expire
  \/ \E p \in Peer :
       \/ PublishAny(p)
       \/ Step(p)
       \/ Crash(p)
       \/ CrashBeforeAck(p)
       \/ \E q \in Peer :
            ReceiveHint(p, q) \/ Authenticate(p, q) \/ Drop(p, q)

Spec == Init /\ [][Next]_vars

(* Frames of a live connection are delivered, handlers run to their end,    *)
(* and devices in range connect.  Nothing makes a user publish, a control   *)
(* message arrive, a connection fail or a process die.                      *)
Fairness ==
  \A p \in Peer :
    /\ WF_vars(Step(p))
    /\ \A q \in Peer : WF_vars(Authenticate(p, q))

FairSpec == Spec /\ Fairness

----------------------------------------------------------------------------
(* Properties *)

Frames ==
  [kind : {"syncDigest"},
   digest : [Peer -> [max_seen : Nat, contiguous_frontier : Nat,
                      gaps : SUBSET Nat]]]
    \cup [kind : {"eventBatch"}, events : SUBSET Event]
    \cup [kind : {"persistedAck"}, ids : SUBSET Slot]

Handlers ==
  {Idle}
    \cup [stage : {"ingesting"}, from : Peer, todo : SUBSET Event,
          done : SUBSET Slot]
    \cup [stage : {"publishing"}, event : Event]

(* The type of every variable of a device and of the network.              *)
TypeOK ==
  /\ log \in [Peer -> SUBSET Event]
  /\ nextSeq \in [Peer -> Nat \ {0}]
  /\ acks \in [Peer -> SUBSET (Slot \X Peer)]
  /\ replicas \in [Peer -> SUBSET (Slot \X Peer)]
  /\ saved \in [Peer -> SUBSET Slot]
  /\ view \in [Peer -> SUBSET Slot]
  /\ clock \in [Peer -> Stamp]
  /\ work \in [Peer -> Handlers]
  /\ link \in [Pairs -> End]
  /\ wire \in [Pairs -> Seq(Frames)]
  /\ hints \subseteq Pairs
  /\ expired \subseteq Slot
  /\ crashes \in Nat
  /\ drops \in Nat

(* Two devices never hold different events under one sender and sequence,   *)
(* whatever crashes and in whatever order copies arrive: the UNIQUE         *)
(* constraint of the events table is never what keeps a copy out.           *)
SlotAgreement ==
  \A e, f \in Everything : Id(e) = Id(f) => e = f

(* A sender holds every event of its own that any device holds, without a   *)
(* gap: a digest with gaps always describes another device's events.        *)
SenderHoldsOwn ==
  \A p \in Peer :
    /\ \A e \in Everything : e.sender = p => e \in log[p]
    /\ SeqsOf(log[p], p) = 1 .. (nextSeq[p] - 1)

(* What a device answers to another's digest is exactly what the other      *)
(* lacks: summarize, contains and events_missing_from lose and repeat       *)
(* nothing, sparse gaps included.                                           *)
DigestExact ==
  \A p, q \in Peer :
    MissingFrom(log[p], Digest(log[q])) = log[p] \ log[q]

(* A persisted acknowledgement anywhere means that a target of the event    *)
(* has the event on its own disk, also after any crash of that target.      *)
AckSound ==
  \A p \in Peer : \A pair \in acks[p] :
    \E e \in log[pair[2]] : Id(e) = pair[1] /\ pair[2] \in e.targets

(* A replica row means that the holder has the event on its own disk.       *)
ReplicaSound ==
  \A p \in Peer : \A pair \in replicas[p] : pair[1] \in Ids(log[pair[2]])

PhaseOf(p, event) ==
  Phase(event, acks[p], replicas[p], p, Id(event) \in expired)

Holders(event) == {p \in Peer : event \in log[p]}

(* The delivery state a device shows is true: complete only when every      *)
(* target has the event on disk, delivered only when one has, and           *)
(* replicated to a relay only when someone besides sender and targets has.  *)
PhaseHonest ==
  \A p \in Peer : \A e \in log[p] :
    /\ PhaseOf(p, e) = "complete" => e.targets \subseteq Holders(e)
    /\ PhaseOf(p, e) = "delivered" => e.targets \cap Holders(e) # {}
    /\ PhaseOf(p, e) = "replicatedToRelay"
         => Holders(e) \ (e.targets \cup {p}) # {}

(* The materialized state, saved or in memory, is made of events of the     *)
(* log, and shows no document revision without the revision it extends: a   *)
(* saved revision without its parent would make TravelCore::new fail.       *)
ViewSound ==
  \A p \in Peer :
    /\ saved[p] \subseteq view[p]
    /\ view[p] \subseteq Ids(log[p])
    /\ \A e \in log[p] :
         /\ Id(e) \in view[p] => e.parent \in view[p] \cup {NoParent}
         /\ Id(e) \in saved[p] => e.parent \in saved[p] \cup {NoParent}

(* Replay order is causal while no device has restarted: an event comes     *)
(* after everything its sender had published, and after the revision it     *)
(* extends, whatever the wall clocks read.  A restart sets the clock back.  *)
(* A revision whose counter is at its limit is excepted: one that extends   *)
(* it may get the same stamp, and then the smaller sender comes first.      *)
CausalOrder ==
  crashes = 0 =>
    \A e, f \in Everything :
      \/ e.sender = f.sender /\ e.seq < f.seq
      \/ f.parent = Id(e) /\ e.clock[2] < MaxLogical
      => Before(e, f)

(* Every event reaches every device in range of its sender, whatever was    *)
(* lost with earlier connections and crashes.                               *)
NeighboursReached ==
  <>[](\A pair \in DataRange : \A e \in log[pair[1]] :
         e.sender = pair[1] => e \in log[pair[2]])

(* The durable state implements the specification of the group log.         *)
Abstract == INSTANCE GroupLog WITH held <- log, confirmed <- acks

ImplementsGroupLog == Abstract!Spec

============================================================================
