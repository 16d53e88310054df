# Travel Companion in TLA+

Specifications of the Rust core of Travel Companion: an iOS app with which the
members of a small group share events, locations, documents, media and calls
without the internet, over Bluetooth and peer-to-peer connections that come
and go as people meet. The modules are written from the code under `src/`,
checked with TLC on small instances, and the invariants that matter most are
proved with TLAPS for any number of devices, events and failures.

    tlc -workers 4 -config TripSyncPair.cfg MCTripSync     # any run of PROJECT.json
    tlapm TripSyncProofs.tla                               # any module of proofs

`PROJECT.json` lists the components, the runs, which lines every definition
models (`map`), the hazards of the code, and the theorems.

## 1. The system

A device is one process: SwiftUI over a Rust core behind one mutex
(`bindings/app-ffi`), and seven capability modules (Bluetooth, peer transport,
location, ranging, notifications, system calls, secure storage), each a Rust
runtime over an Apple framework. The core handles one app command or one module
event at a time; what it wants of a module it appends to an outbox that is
drained after the handler has succeeded.

| component | state | operations | talks to | correct when |
| --- | --- | --- | --- | --- |
| hybrid clock (`crates/model`) | last stamp | tick, observe | replication | replay order is causal |
| event store (`crates/store`) | SQLite: events, next sequences, acknowledgements, replica rows, one row of app state | publish_local, insert_remote, digest, events_missing_from, record_ack, record_replica, save_state | replication, core | one event per (sender, sequence); digests are exact; nothing is half written |
| replication (`crates/replication`) | store, keys, clock | publish, ingest, apply_receipt, delivery_state, anti_entropy_pair | store, core | acknowledgements are true, everything arrives |
| event synchronisation (`travel-core`) | connections, materialized state in memory and saved | publish, digests, batches, acknowledgements, hints, materialize | replication, peer transport, Bluetooth | what is stored is shown, everything arrives, delivery state is true |
| call machine (`crates/call`) | state of one call | start, offer, answer, terminate, connect, lose, tick | core | both sides are in the same call, or in none |
| call signalling (`travel-core`) | call machine, connections | call commands, signals, system events | call machine, Bluetooth, peer transport, system calls | ends are noticed, time limits act, the radio is released |
| peer transport (`modules/peer-transport`) | tasks, handles, endpoint keys; sessions, connection per peer, traffic class | discovery, dial, retry, reset, hello, replacement, frames, SetRealtime | core, peers | one authenticated connection per peer, both sides agree which |
| resources (`crates/resources`, `travel-core`) | manifest, verified chunks, objects on disk | begin, accept chunk, finalize, recover, cancel, retry | core, peers | an object is complete or absent, transfers end |
| admission (`crates/group-auth`, `travel-core`) | invitation, handshake, members, keys | invite, hello, response, confirmation, leave | Bluetooth, replication, secure storage | who believes to be a member is one; no half admission |
| document (`crates/document`) | revisions, leases | lease, save, insert revision | core | same events, same head; editors take turns; no content lost |
| places, conversations (`travel-core`, `crates/im`) | lists in the materialized state | create, update, delete, send; materialize | replication | same events, same lists |
| precise ranging (`travel-core`, `modules/ranging`) | pending requests, cooldown, distances shown; sessions and tokens of the backend | request, respond, exchange tokens, measure, cancel, expire | Bluetooth, ranging backend | both sides consent, both run one session, no distance without one |
| control codec (`crates/protocol`, `modules/bluetooth`) | fragments, seen ids, unacknowledged messages | send, ingest, expire | Bluetooth, core | at most once while remembered, memory bounded |
| secure storage, notifications, location, crypto | keys, permissions, samples | I/O | core | left out, see section 8 |
| iOS app, prototypes, build tools | views | | core | left out, see section 8 |

What is hard here: two to eight devices take steps in any order; a handler
writes SQLite in several transactions and can die between two of them; frames
die with their connection, control messages get lost or come late; a connection
is reset whenever the traffic class changes or discovery starts again; clocks are wall clocks; and most
time limits act only when something else happens. Section `hazards` of
`PROJECT.json` lists each at its line with the properties that cover it.

## 2. Modules

    HybridClock -- EventStore --+-- TripSync ----- MCTripSync
                                |       |  \------ TripSyncProofs
                                |       |
                                +-- GroupLog  (abstract; INSTANCEd by both)
                                |
                                +-- AntiEntropy -- MCAntiEntropy
                                         \-------- TripSyncProofs (INSTANCE)

    CallMachine -- CallSignaling --+-- MCCallSignaling
                                   +-- CallSignalingProofs

    PeerTransport   --+-- MCPeerTransport
                      +-- PeerTransportProofs

    ResourceTransfer --+-- MCResourceTransfer
                       +-- ResourceTransferProofs

    GroupAdmission  --+-- MCGroupAdmission
                      +-- GroupAdmissionProofs

    TripViews       --+-- MCTripViews
                      +-- TripViewsProofs

    ControlCodec    --+-- MCControlCodec
                      +-- ControlCodecProofs

    PrecisionLocate --+-- MCPrecisionLocate
                      +-- PrecisionLocateProofs

TripSync, CallSignaling and ResourceTransfer take from the peer transport only
what it does to their connections; PeerTransport is where that behaviour is
modelled itself. In the same way GroupAdmission and PrecisionLocate send controls
that may be lost, ControlCodec says what happens to a control on its way;
TripViews starts where TripSync ends, with an event that is in the log.

**HybridClock** has the stamps of `crates/model`, `tick` and `observe`, with a
logical counter that saturates at `MaxLogical` (2^32 - 1 in the code).

**EventStore** has what the store and the engine compute from a log, without
variables: `Before` is the ORDER BY of `all_signed_events`, `Summarize`,
`Contains`, `Digest` and `MissingFrom` are anti-entropy, `Phase` is
`delivery_state` with its tests in the order of the code.

**TripSync** is replication as `travel-core` runs it. Per device: `log`,
`nextSeq`, `acks`, `replicas` and `saved` are SQLite, `view`, `clock` and `work`
are memory. Between devices: `wire` (frames of a connection, in order), `hints`
(Bluetooth `dataAvailable` controls), and `link`, the state of each end of a
connection: `none` (the core has no connection), `up`, `lost` (broken, and the
core's Disconnected event is on its way) or `stale` (broken, and no event will
come, because the runtime has forgotten its sessions).

- Publishing is two steps: the transaction of `publish_local` (`Publish`), and
  the rest of the handler, which sends and saves (`FinishPublish`).
- Applying a batch is one step per event and a last one: `ReceiveBatch`,
  `IngestNext`..., `FinishBatch`. A revision without its parent is an error,
  which ends the handler with neither acknowledgement nor save.
- `Crash` may happen between any two of these; `CrashBeforeAck` is the crash
  between the two transactions inside `ingest`. `Restart` is `TravelCore::new`.
- A device in the middle of a handler (`work`) takes no other step: the lock.
- An event's payload is abstracted to its slot; only document revisions have
  one more field, the revision they extend, because that one can be refused.
- The ends of a connection learn of its loss one by one; what a core sends before
  that is lost. A dataAvailable control starts discovery again, which resets
  the connections of the device that received it (see PeerTransport), and the
  digest the same handler then sends is lost with them (`ReceiveHint`).

**AntiEntropy** is replication as `crates/replication` promises it by itself:
engines that meet run `anti_entropy_pair`, whose loops are one step because both
engines are held by unique reference. It differs from TripSync where the code
does: it passes acknowledgements on.

**GroupLog** is the abstract specification of both: growing sets of immutable
events, each begun by its sender under a fresh slot, copies that only spread,
confirmations only of targets that hold the event. The refinement mapping is
`held <- log, confirmed <- acks`.

**CallMachine** has the transitions of `crates/call` as operators, and
**CallSignaling** drives one machine per device: commands, events of the system
call interface, signals in flight (`controls`), connections as the transports
have them (`links`), as the cores have heard of them (`notices`, `connected`),
and the `SetRealtime` orders a transport has not carried out yet.

- All devices read one clock `now`. The code compares a device's clock with
  times another device wrote; it needs roughly equal clocks and nothing else.
- Signals from one device to another stay in order, and may be lost, or expire
  in flight. Waiting for a Bluetooth handle is being in flight. The replicated
  `call.signal` events have no effect where they arrive and are left out.
- A change of traffic class resets every connection of the transport
  (`resetNetworkTasks`), after which devices in range connect again. So does a
  dataAvailable control, but then the device's own core is not told.
- Reasons of an end, begin times and audio are left out; nothing reads them.

**PeerTransport** is how two devices come to share one connection. A connection
`<<p, q, n>>` is the n-th that p dialled to q.

- The actor (`PeerTransportApple.swift`): `running`, `keys` (endpointKeys),
  `found`, `table` (connectionsByHandle), `tasks` with `cancelled`, `retries`.
  Attaching a task and its first lines are one step. Commands reach it through
  an ordered queue (`commands`), its events leave through another (`events`).
- The runtime (`lib.rs`): `configured`, `sessions`, `authenticated`, `current`
  (connections_by_peer). It handles one event at a time; telling the core may
  have to wait for the core's lock (`telling`), and commands of the core,
  StartDiscovery with its immediate effect on the runtime among them, may come
  between.
- The core: `connection` and `known`, its two maps, written by what it is told.
- External: when connections fail, whether the end of the other side shows as an
  error or as the end of the messages, and when browsers report.

**ResourceTransfer** is media: an import writes a manifest, the object and an
event; a receiver asks every connected device for the chunks it misses,
verifies each, assembles them, and can then serve them itself.

- `disk` holds what is on each device: manifests, chunks, objects and the events
  of its database; `row` is the state row. A handler is a list of file
  operations (`Write`, `Delete`, `Transaction`), then the row and the frames, in the order
  of the code. It runs to its end, or the process dies between any two
  operations (`Remains`), in the middle of deleting several files too.
- Files go bad (`Damage`): `Recover` and the check before serving find out.
- Objects are named by their content, so two resources can share one.
- Chunk frames carry the bytes of the object they are read from; a bad chunk would
  fail the transfer, and `ServedIsGood` says that none is ever sent.

**GroupAdmission** is how groups come to be: `CreateGroup`, the PIN and the
invitation, JoinHello, JoinResponse, confirmation, `LeaveGroup`, with what each
step saves. `mem` is the memory of a device, `row` what it has saved, `chain`
the secure storage, whose orders are carried out later and whose answers may
find another group there. The credential that a joiner gets carries the key its
inviter has loaded. Events carry their group, sender and epoch, and
`Refused` is what `ingest` checks of them. A process can die between the
transactions of a handler (`mem` is then lost). A group has at most one
founder, one epoch and admissions by its owner. The app offers to create or
join a group only outside of one, and that is a guard here too.

**TripViews** is what users see: places, chats, and the document `Trip.md` with
its lease. A device presents its own event with the command that makes it, another's
once, as it takes it into its log. The log is written event by event
(`publish_local`, `insert_remote`), the view in memory changes with it, and the row
is saved at the end of the handler, so each of these is a step or an alternative of
its own: `Takes` takes one event of a batch and saves only with the last, `Refuses`
ends the batch at an event that cannot be applied and saves nothing, `DiesTaking`
and the second half of `Publishes` are deaths after the log and before the row,
`PublishFails` leaves in memory what the command has changed before it, and `Persist` is
any later handler that saves it. `work` is the rest of a batch, `doc` the memory of
the document, `row` the saved state, `editor` the open editor with the revision it
started from. `past.unused` are the events on disk that the device does not present,
and `Presented` the others. Clocks differ by a constant. The topics never touch each
other, so one behaviour is about one of them.

**ControlCodec** is what `protocol` and `bluetooth` do to a control: fragments
that are sent over both links of a device, assemblies that complete or are
purged, the codec's memory of seen ids, acknowledgements, and the core's own
memory behind it. `past` remembers controls that were under way when something
went wrong; only those may be lost.

**PrecisionLocate** is precise ranging. Core and backend of each device
exchange orders and events through queues in order; controls between devices
form a set. The core has `held` (pending_precision), `cooldown` and `ranging`, the
backend `sessions` with the serial numbers of their tokens. The app is away in
two steps, because the core and the backend learn of it separately (`front`,
`awake`). `agreed` remembers what users agreed to; `past` what was disturbed.

The operators called *Variant* in comments are plausible mistakes. No
specification uses them; PROJECT.json `mutants` pairs each with the property
that must notice it.

## 3. Runs

Eleven of the runs pass, and GroupUnconfirmed shows a disagreement between code
and documentation. Every configuration sets CHECK_DEADLOCK FALSE: publishing,
calling, crashing and connecting are choices of users and radios, and the bounds
use them up, so every instance ends in states where nothing is left to happen.

| run | bounds | distinct states | shows |
| --- | --- | --- | --- |
| TripSyncPair | 2 devices, 2 revisions, wall clocks that differ by one or stand still, 1 crash, 1 lost connection, hints, counter saturating at 1 | 243,406 | the type invariant and eight properties of the durable state, below |
| TripSyncRelay | 3 devices in a line, 1 durable or transient event for the far end, hints from the first device, 1 crash, 1 lost connection, fairness | 215,571 | the delivery state is true, also with relays and expiry; devices in range of the sender get the event |
| AntiEntropyChain | 4 engines in a chain, 2 events, fairness | 11,594 | events and acknowledgements cross the chain, truthfully |
| CallSignals | 2 devices, one tick of time, and by the constraint `Apart` either 1 call, 1 lost connection and 1 hint, or 2 calls, 1 lost signal and 1 restart without connections | 1,910,758 | an active call has a connection, as far as its core has been told; an answered call is shared, established calls are realtime, a hang-up reaches the other side |
| PeerTransportLinks | 2 devices, 2 dials, 1 failing connection, and one of: a stop, a repeated start, a change of class | 876,249 | one connection per pair, and the cores know which |
| PeerTransportRedial | 2 devices, 3 dials, 2 failing connections, fairness | 166,780 | both cores get the same connection in the end |
| ResourceTransfers | 2 devices, 2 resources of the same content and 2 chunks, 2 faults (death in a handler, break, bad file, cancel, retry, leave), fairness | 189,501 | what is available is whole, what is gained is kept, what is cancelled stays cancelled, transfers end |
| GroupAdmissions | 2 devices that both found groups, at most 2 groups, 1 fault (death, loss, break, leave), at most 2 notes and faults together (constraint `Bounds`), fairness | 513,182 | members are who was admitted, groups keep apart, undisturbed admissions and events arrive |
| GroupUnconfirmed | 3 devices, 2 of them founders, no notes or faults, channels from 2 to 1 and from 1 to 3 only (constraint `Ring`) | violated | a device that moves to another group while it admits someone adds to its list who never heard of that group (section 4) |
| TripViews | 2 devices, clocks equal or one apart, 1 tick, 1 failed publication or death in a handler, at most 4 events and faults together (constraint `Bounds`) | 631,915 | the same events presented give the same views; a restart changes nothing that was saved; editors in touch take turns |
| ControlCodecs | 2 devices, 2 links, controls of one and two packets, each memory at its limit with one entry, 1 fault (break, tick), fairness | 491,385 | at most once, true acknowledgements, undisturbed controls arrive |
| PrecisionLocates | 2 devices, 2 requests living one tick, cooldown 1, 2 sessions each, at most 2 requests and faults together, fairness | 1,131,946 | sessions with consent only, distances with sessions only, no second question within the cooldown, ranging starts |

The properties, with what it would take to break them:

- `SlotAgreement`, `SenderHoldsOwn`: a sequence used twice, or a copy that is
  not the original. They are why the UNIQUE constraint never keeps a copy out.
- `DigestExact`: one off-by-one in `summarize` or `contains`. Sparse gaps exist
  in these runs because publishers send a new event before older ones.
- `AckSound`, `ReplicaSound`, `PhaseHonest`: acknowledging before storing, or a
  crash that undoes what was acknowledged.
- `ViewSound`: the state saved and the log disagree after a crash such that
  `TravelCore::new` would fail on its own data.
- `CausalOrder`: a tick or an observation that does not move the clock. A revision
  whose counter is at its limit is excepted (section 4).
- `NeighboursReached`, `DeliveredAndKnown`: what is missing is not asked for.
- `ImplementsGroupLog`: any step that takes an event or a confirmation back, or
  makes one up.
- `AnsweredCallIsShared`, `HangUpReachesPeer`, `ActiveHasConnection`,
  `RealtimeWhileEstablished`: signals, answers and connections that meet a call
  they do not belong to.
- `OneConnection`: after two dials that overlap, the sides keep different ones,
  or a replaced one is never given up. The two sides may authenticate the two
  in different orders.
- `CoreKnows`: the end of a replaced connection takes away the new one; a Disconnected
  event that overtakes, or is told for a connection that was not current.
- `Reconnect`: a failed connection leaves something behind (a key, a session, a
  mapping) that keeps its successor from being dialled or reported.
- `DiskSound`: an object or manifest removed that another resource, or a crash
  before it was registered, still needs; an object nobody refers to left after a
  leave. `ServedIsGood`: bytes that have gone bad are sent on.
- `ProgressKept`: verified chunks are lost in a crash between naming the object
  and deleting the chunks. `CancelledStays`: a restart or a late chunk takes a
  cancelled transfer up again. `FirstTransfers`: a transfer stops although a
  connected device has the object (except as section 4 says).
- `MembershipSound`: a device believes to be a member of a group whose owner did
  not admit it, or has admitted it in memory only; a member without the key. It
  is about groups that nobody came into straight from another one.
- `LogsKeepApart`: events of an earlier group, or sequences used again after a
  leave, mix with those of the present one.
- `ConfirmedInTheEnd`, `EventsArrive`: an undisturbed admission that stops half
  way; an event that is never asked for again. `EventsArrive` is about groups that
  nobody left or came into straight from another one: with two notes the run
  reaches batches with events of two groups, and without that premise TLC finds the
  event behind the refused one that never comes.
- `ViewsSound`: a message that is shown twice or before it is published, or one on
  disk that is not shown although the device never died of it.
  `PlacesConverge`, `DocumentsConverge`: two devices that present the same events,
  taken in different orders, and show different things; a conflict that loses content.
- `ConnectedTakeTurns`: two connected devices edit at once under a lease.
- `RestartChangesNothing`: between handlers, an effect of an event that is in memory
  only, with no failed publication and no refused batch to excuse it; a saved state
  that cannot be loaded.
- A process that dies inside a handler of TripViews leaves an event on disk that it
  does not present. `PlacesConverge`, `DocumentsConverge` and `ConnectedTakeTurns`
  speak of what devices present, so such an event is outside of them, and the last
  two also ask that no publication was cut off in this way (`PublishedWhole`).
- `AcknowledgementsTrue`: a sender is told of a receipt that never was, when ids
  expire or are evicted. `AtMostOnce`: a control handed over twice by the
  codec while it is remembered. Its part about the core (`ActedOnce`) excepts a core
  that had more controls than it remembers, which with memories of one entry is
  always so in the run: that part is the theorem's. `ControlsArrive`: pieces purged too early.
- `RangingSound`: a session for a request that was refused, expired, or answered
  by a control that overtook another; a distance on the screen of a session
  that has ended. `Spaced`: two questions of one member within the cooldown. With
  the run's two requests an older one cannot set the cooldown back (section 4)
  but in the instant that `Tied` excepts; the theorem covers any number.
- `SessionStarts`: two devices that agreed end with tokens of different sessions.

Why the bounds are enough: two revisions are the least with a parent and a gap;
a line of three has a relay; one crash can fall between any two steps of any
handler; a counter that saturates at 1 saturates in the run; two calls are the
least that cross, and one tick is the whole life of an offer; a reset or a
failure, each of which can be at any step, lets two dials of one pair overlap.
Two chunks are the least with some verified and some missing, and two resources
of one content the least that share an object. Two groups of two founders are the
least in which an event of an earlier group can meet a later one. Two notes are the
least with one behind an event that is refused. Four events are a creation, two edits
and a deletion, or two revisions of one parent and one more of each; three are the
least of which a device can take one, refuse or die of the next, and make or fail
to make another after it. The constraints `Bounds` add up what users do and what goes
wrong: both numbers never go down, so they cut no behaviour short of its bound. A memory of one entry evicts with the second control. Two requests cross,
replace each other's sessions, or meet the cooldown. The invariants proved in
section 6 do not depend on the bounds at all.

## 4. Where code and documentation disagree

The models show behaviours of the code that its documentation excludes, or that
a user would not expect. They are why some properties above have the premises
they have. Each was seen in a model, or follows from the lines named.

Events, connections and calls:

- A process that dies after storing an event and before saving the state never
  shows the event: it is a duplicate ever after (travel-core 3082 to 807, and 3715 to
  756 for an event of its own). With it go the effects of the events taken before it
  in the same batch. `MessagesOnce` says that this is all that is missing.
- A revision that overtakes its parent is stored, refused, and never shown.
- An acknowledgement that dies with its connection is not repeated: the sender
  never shows "delivered".
- Discovery is stopped and started again, and the event of the stop takes away
  the new configuration: the service is published and rejects everyone.
- A connection authenticated just before an answer arrives is not seen: the caller
  connects for ever.
- Devices that stay connected do not pass events on: a batch is acknowledged to
  its sender and the events go to nobody else (TASK.md:266 says all reachable
  members forward). `NeighboursReached` is about neighbours of the sender.
- A cancelled call whose End is lost, crossing an offer of the other side, leaves
  the devices established in different calls. `AnsweredCallIsShared` asks that
  the caller's offer was answered, `HangUpReachesPeer` that nothing was lost.
- A call whose reconnection runs out ends on one device without a signal to the
  other. `HangUpReachesPeer` asks that no time
  has run out, neither of an offer nor of a reconnection.
- A dataAvailable control resets the connections it wants to use (travel-core
  2526), and loses the digest it sends on them; TASK.md:93 says missing events
  are fetched over the connection that is there. They are, once the
  transports have connected again.
- After such a reset the core keeps connections that are gone, shows their peers
  as connected and a call as active, until they are replaced. `CoreKnows` and
  `ActiveHasConnection` say how far the core can be wrong.
- A device that resets closes its connections cleanly, and a clean end is not
  dialled again. If the browser reports (or does not report at all) before
  the old task has ended, nothing dials until the next change of services.
  `Reconnect` is about connections that fail.
- A task that ends late gives back an endpoint key that a newer connection of the
  same peer has set, so the peer is dialled twice; replacement resolves it.
- A refused revision ends its batch, and the rest of it is not asked for until
  the next connection or hint: TripSyncRelay publishes one event, which cannot
  be refused. Nothing is saved by that handler, so what the events before it did is
  shown until the process ends, and saved only if another handler succeeds first
  (`past.refused` in `RestartChangesNothing`).
- `events_missing_from` does not look at expiry, so expired transient events
  are sent in answer to a digest (TASK.md:278 says they are not).
- The rebuilt engine starts its clock at zero (`ReplicationEngine::new`): after
  a restart, with a wall clock behind what the log has seen, a new event sorts
  before the ones it follows. `CausalOrder` holds until a device restarts.
- The logical counter saturates (crates/model/src/lib.rs, `saturating_add`), after
  which the clock stands still until the wall clock passes it. A revision that
  extends one with a saturated counter may then have the same stamp, and is
  replayed before it if its author's id is smaller: TLC finds it with a third
  event. `CausalOrder` excepts exactly these parents. It takes 2^32 events in
  one millisecond, or an event from another device with such a stamp.
- A call that times out changes only its own state: the transport keeps the
  realtime class `start_call` asked for (TASK.md:69), and the system its call.
- `tick` runs only with commands, and `reconnect` after the deadline is an error
  that leaves the call reconnecting (TASK.md:393).

Resources:

- A resource whose last chunk arrived before the process died has all its chunks
  and is never assembled: nobody is asked for anything, and no chunk arrives
  that would end it (docs/ARCHITECTURE.md:198 promises recovery). A resource that shares
  its content with a completed one stays pending though its object is there.
- Holders that connect after the request was made are asked only when a batch
  arrives from them. `FirstTransfers` leaves both cases out.
- A leave that is interrupted between emptying the database and saving the row
  comes back with the old state, a cancelled resource in it, and sequences from
  one. A crash during an import leaves files nothing refers to (TASK.md:178).
- A damaged object is removed when somebody asks for it, and stays "available".
- `register_media` of an image without a thumbnail fails after its manifest has
  been published.

Groups:

- A digest names no group: after a leave, a batch that begins with an event of the
  earlier group is refused whole, for ever (TASK.md:314). `EventsArrive` is about
  groups without a past. A device that is moved from its own group into another has
  such events too, without having left anything.
- A device whose own join handshake is pending may found a group and begin to
  admit somebody. The response it was waiting for then moves it into another
  group, because `on_join_response` does not ask whether it is in one, and keeps
  `pending_inviter_admissions`; the confirmation of its joiner adds that device
  to the list of a group it never heard of (travel-core 2866; TASK.md:188 says
  the inviter adds who has confirmed). GroupUnconfirmed finds it with three
  devices. `past.moved` remembers such groups, and `MembershipSound` leaves them
  out.
- Rejoining after `clear_trip_data` reuses sequences; the old events come back
  from the others, and every publication then fails on the UNIQUE constraint.
- A PIN typed wrongly, or after the invitation came, cannot be typed again until
  the channel is new (TASK.md:187). A lost JoinHello or JoinResponse leaves
  `pending_joiner_handshake` set for ever; a lost confirmation leaves a member whose
  events are refused.
- A process that dies before the key is in the secure storage has a group without a
  key (TASK.md:192), and a late answer of the storage can overwrite the next group's.
- Two admissions whose events pass each other replace the longer member list by the
  shorter one (docs/ARCHITECTURE.md:191). With two devices the case cannot happen;
  it is listed under hazards.

Places, chats, the document:

- The conversation of a direct message is named by its receiver, so the receiver
  files it under itself, and every member shows it (TASK.md:324, :712).
- Edits of a place by a slow clock, edits in the same millisecond and a
  deletion before its creation give different lists on different devices; the premise
  `Orderly` of `PlacesConverge` excludes them.
- An update is in memory before its publication fails, and is saved with the next
  handler. For a revision, one more save on it makes a state that
  `TravelCore::new` refuses to load, for ever.
- A lease that expires leaves the editor editable, so a conflict copy needs no
  partition (docs/ARCHITECTURE.md:215). A release that arrives before its lease is
  ignored and the lease stays.
- A release whose device dies before it is saved is on disk and not in the row; the
  device starts with the lease still running, and its user can release it again at
  another time. Two releases of one lease leave the saved time of the last and the
  least of both in memory, so a restart changes when the lease ended. With leases of
  two ticks TLC finds it if `PublishedWhole` is left out of `RestartChangesNothing`.

Controls and ranging:

- A break of one of two links drops the pieces that came over both, and a control
  that was complete on the other is lost; nothing is sent again. `ControlSent` and
  failures after the fact are ignored (docs/ARCHITECTURE.md:90, TASK.md:697).
- The core forgets the smallest id, not the oldest.
- Pausing the sharing of one's location does not stop ranging that is agreed and
  not yet measured, and a token that arrives then still starts a session
  (TASK.md:168); an answer given before the pause is carried out after it.
- The expiry of a request ends no session (TASK.md:160). A measurement makes all
  requests of that member active, refused and expired ones too (TASK.md:169).
- Requests that cross replace each other's sessions and can end with sessions that
  do not fit. `SessionStarts` is about requests that met no other.
- A session that the system ends, or a restart, leaves the old distance on the
  screen (docs/ARCHITECTURE.md:204); `ShownHasSession` says so. The cooldown does
  not survive a restart (TASK.md:167).
- The cooldown runs from the creation of the request that arrived last, so an older
  request that arrives after a newer one sets it back. A request lives longer than
  the cooldown in the app (60 s and 30 s), and its sender makes no second one while the
  first is pending: both can only be under way when the second was made in the
  instant in which the first expired, or with clocks that differ. `Tied` in
  `Spaced` is that instant.

## 5. Fairness

- TripSync: weak fairness of each device's own steps (a handler runs to its end,
  frames of a live connection arrive: TCP and the drained outbox) and of
  authentication of pairs in range (transports dial again whenever a service
  appears). None of publishing, hints, crashes or lost connections. TripSyncRelay
  bounds how often a connection is lost, which is the documented premise
  that devices finally meet for long enough.
- PeerTransport: the actor and the runtime work off their queues, a retry's sleep
  ends, hellos on live connections arrive, tasks whose connection is over end,
  browsers and listeners react. None of starting, stopping, changes of class or
  failures.
- AntiEntropy: weak fairness of each pair's meeting, the documented premise of
  a store-and-forward path.
- ResourceTransfer, GroupAdmission, ControlCodec, PrecisionLocate: weak fairness of
  `Progress`, the disjunction of what devices and radios do by themselves: processes
  are started again, connections are made, frames and controls that are not lost
  arrive, queues are worked off. Since every such step uses something up, all of
  it happens in the end. Users, losses, breaks and time are not part of it.
- CallSignaling and TripViews have no liveness property, and no fairness.

## 6. Proofs

`TripSyncProofs` begins with digests: `SummaryExact`, a summary contains exactly the
sequences it was made from, and `MissingExact`, from it, for finite logs that agree
on slots. `Invariant` is `Spec => []Inv`; `TypeCorrect`, `SlotsAgree`,
`SendersHoldOwn`, `AcksAreSound`, `ReplicasAreSound` and `DigestsAreExact` are
the properties of the same names in TripSync, for every value of the constants
that satisfies the named assumptions, and `Implements` is `Spec =>
ImplementsGroupLog`: every step publishes one fresh event or spreads what is
there. None of the properties is inductive by itself. `Inv` adds that whatever
travels is true already: an event in a batch, on the wire or half ingested, is
in its sender's log; an id in an acknowledgement on the wire is in the log of
the device that sent it; what is ingested so far is on disk; and a sender's log
of its own events is exactly the sequences below its next one. Logs are finite,
which `MissingExact` needs for `Max` and `Min`.

Its last part is about what is shown: `PhasesAreHonest`, because acknowledgements and
replica rows of `Inv` name devices that hold the event; and `ViewsAreSound`, which is inductive
with the claim that whatever is in the middle of a handler is stored and not shown.
`ReplayIsCausal` says that `CausalOrder` holds for any width of the counter and any
wall clocks. It needs that the clock of a device that has not restarted is at or
past every event in its log (`Heard`, from what a tick and an observation do to
stamps, `TickAfter` and `ObserveAfter`), and that every revision in a log extends one
that is in some log (`ParentsKnown`), so that a fresh slot is nobody's parent.

The module ends with `EnginesImplement`: AntiEntropy implements GroupLog, for any peers,
any pairs that meet, any audiences and wall clocks. A sender's log of its own events
is exactly the sequences up to their number (`SendersHold`), so the next one is
fresh; and what an engine records for itself about a batch is true once the batch
is stored. The clock after a batch is a fold, a recursive function on the subsets of
the batch: that it is defined and is a stamp (`ObservedType`) follows from the least
size at which it would fail, and from the order of replay being total on events
that agree on slots (`LatestExists`).

`PrecisionLocateProofs`: `Invariant`, `RangingIsSound` and `RequestsAreSpaced`, for
every finite group and any number of requests, sessions, losses, absences and
restarts. The argument for `RangingSound` has three parts. *Types carry consent*: every order, event, control and session that
can open a session has an id that was agreed to, so that consent is a fact
about types (`Typed`). *Agreement* (`Consistent`): what never changes of a request, its
face, is the same wherever the request is held or on its way. *Settlement*
(`BackendInv`): for any two members there is a session, or it was cut off
without an event, or its end is on its way with no measurement behind it, or no
distance is shown and none is on its way. The last is why `ShownHasSession`
holds when the queues are empty and is what has to be said of full ones. For
`Spaced` the invariant (`Asking`) follows a request from the member that makes it
to the notification it becomes: at any time one member has at most one request to
another that is still open, what is under way was made by its sender and is held
there, and the cooldown is no older than what was notified, so that two
notifications of one member are a lifetime apart or in the exceptional instant.

`ControlCodecProofs`: `AcknowledgementsAreTrue` and `ControlsActOnce`, for any
number of devices, links, pieces, breaks and ticks. What travels is true already: a
piece on a wire, in a queue or in an assembly belongs to a control that its sender
has sent to that device (`Travels`, `Assembles`), and an acknowledgement comes from
a device whose core was handed the control (`ConfirmedWasReceived`). The memories
(`Memories`) are described by position: what the codec remembers is the end of
the list of what it handed over, so an id that is not remembered is either new or
more than a memory's length ago.

`GroupAdmissionProofs`: `MembersAreSound` and `LogsAreKeptApart`, for any number of
devices, founders, groups and faults. `Members` says what a device keeps of its
group, in memory and on disk; `Channel` what each handshake message on its way may
still cause, above all that a response carries a list whose other members hold the
credential and that a confirmation comes from a device that has it on disk; `Logs`
what events say; and `Founding` that a founder in its own group lists only devices
that have it on disk or have left. Every step is shown once to be `Steady` (it makes no
device answer for an admission in another group) and `Lasting` (it takes a group
from nobody's disk unless that device leaves).

`TripViewsProofs`: every property of TripViews, for any group, clocks that differ in
any way, any topic and any number of events, restarts, failed publications and deaths. Commands and receipts of events,
saved or not, change the state in one common form (`Changes`), and restarts and
deaths in another (`Reloads`), about which the lemmas of each part of `Inv` are
stated. *Batches* (`Works`): what is under way is new to the device, and what is
presented and not saved was made by others and belongs to a batch that is not
over or was refused.
*Places* (`Converging`): the value presented is that of the edit with the latest stamp
among those taken, and a table has a place exactly if an edit was taken; two
devices with the same edits then agree because stamps identify edits. *Chats*: the
list is injective and is the set of messages presented. *Revisions* (`Drafts`): parents are
older than their children, memory has every parent, and what is presented is what the
events presented give; the stamps and authors have a common bound, so that a head exists. *Leases*
(`Turns`, `Knowing`): a ghost function says for every lease who holds it and since
when, the same in every table and event; a release is made once, by the holder, while
the lease runs. Whoever acquires a lease in touch with everyone sees every lease
that runs, of which the earliest is either its own or keeps it from acquiring:
hence `ConnectedTakeTurns`, with the least element of a well-founded order in the place
of induction. *Saved*
parts (`Durable`) are what the events presented give without those not yet saved,
unless a publication failed: so a death leaves a view that fits what is presented
after it, and between handlers the row is the view, which is `RestartChangesNothing`.

`ResourceTransferProofs`: `DisksAreSound`, `OnlyGoodIsServed`, `ProgressIsKept` and
`CancelledStay`, for any devices, any finite set of resources with any content and
number of chunks, and any number of faults. A handler is a sequence of file
operations of which a death leaves any beginning, so the lemmas are about such
sequences. An operation is *mild* if it writes, or deletes nothing that was good but
the chunks of an object that is whole; mild operations, run to their end or cut off
anywhere, keep every good file but such chunks (`Gentle`, `Keeps`), and of begin,
resume, recover, accept and finalize only mild operations come. `DiskInv` adds to
`DiskSound` that only good chunks travel, that whoever left is clean while its
process is dead too, and that connections are between members whose processes run.
`CancelledStay` needs a second invariant (`QuietInv`) about frames: a cancelled
transfer has no manifest, unless the process died when it began the transfer
again, in which case the connections died with it; so a request or chunk of it
that still travels will find nothing to act on, and a batch names only events the
device has not stored.

`CallSignalingProofs`: `ActiveCallsHaveConnections` and
`EstablishedCallsAreRealtime`. The first is about one device and its queue of
notices and is nearly inductive. The second needs that a late termination
cannot take back the realtime class: only one that names the current call is
accepted, and that call ends with it. `AnsweredCallsAreShared` is about two devices
and what travels between them. Its invariant (`Shared`) says that two functions
exist, of which no device knows: for whom each call was placed, and in which order.
Offers of one device to another travel in that order; what the callee has of the
caller, a call or an answer on its way, is older than any offer still
travelling; and once the caller has taken the answer, whatever calls it has with that device
are this one or later. An answer names the call it is for, so a late one finds
its caller in another call and is dropped. `HangUpsArrive` has an invariant of its
own (`Hung`): as long as nothing was lost and no time has run out, a call that is over on one
device is over on the other (`Over`), or a signal that ends it is on its way behind
its offer (`Behind`, `Gone`), and such a signal comes from a device that is done
with the call. Every step is classed once by what it does to a call (`Follows`,
`Concludes`) and to the queue between the two (`Carries`).

`PeerTransportProofs`: `ConnectionsAreShared` and `CoresKnowTheirConnections`, for any
finite set of peers and any number of dials, resets, stops and failures. A dial's number
is never used again and a connection is accepted once (`Begun`). What the actor
reports comes in order (`Ordered`): the opening of a connection before its end, and a
stop after the ends of all that was opened before it, so that the runtime forgets
nothing at a stop that it still has. `Knows` and `Told` say what runtime and core
hold of it. An end that is alive greets the other (`Greets`), so once both are at
rest both have the same connection as the current one: that is `OneConnection`, which
no part gives by itself. Steps are classed as the actor's (`Acts`) and as those of the
runtime, the core and requests (`Minds`), and the parts are shown for each class.

The proofs assume only the ASSUMEs of the modules, which TLC evaluates on every
run. PeerTransport's is that there are finitely many peers, which are numbered. The
theorem about AntiEntropy has that module's ASSUME as its hypothesis. The prover cannot do
liveness under fairness or ENABLED, and cannot cite induction theorems that take a
predicate; no module here declares a RECURSIVE operator. Where a proof needs
induction, as for the head of a document, the earliest lease or the fold over a
batch, it takes a least element.

Every invariant and action property of the passing runs is proved, and both
refinements. Only model-checked: the liveness properties (`NeighboursReached`,
`DeliveredAndKnown`, `Reconnect`, `FirstTransfers`, `ConfirmedInTheEnd`,
`EventsArrive`, `ControlsArrive`, `SessionStarts`).

## 7. Plan

In the order of weight:

1. An abstract specification of PeerTransport: one link per pair, of which both
   cores hear; TripSync's `link` as its refinement.
2. Requests for a location and their samples, which share the consent of
   PrecisionLocate and none of its sessions.

## 8. Not modelled

Cryptography is assumed to work: signatures, sealed controls and handshakes are
only made by who holds the keys. Outside GroupAdmission, group, epoch and member
keys are fixed, so the checks of `ingest` on them always pass. In particular nobody
leaves a group in CallSignaling: `leave_group` clears the connections of the core
(travel-core 1104) and does not touch the call, which stays active without one;
`ActiveHasConnection` is about devices that stay in their group. Location requests,
samples and their arithmetic in floating point are left out. Malformed packets and
frames are not sent by the code, and are dropped by it.
Notifications, secure storage and the Apple backends are I/O whose outcome the
core does not read back, except where named above. SwiftUI views, prototypes and
build tools keep no state of the system. `RequestEvents` is handled by the code
but sent by nothing. SQLite transactions are atomic and durable.
