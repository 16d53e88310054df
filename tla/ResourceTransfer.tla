-------------------------- MODULE ResourceTransfer --------------------------
(* Media files between the devices of a group: crates/resources keeps each   *)
(* on disk as a manifest, the chunks that have arrived and, once complete,   *)
(* one object named by the hash of its content; travel-core publishes the    *)
(* manifest as an event, asks connected devices for the chunks it misses and *)
(* serves what it has completed.                                             *)
(*                                                                           *)
(* A handler of the core is a sequence of file operations, and at its end    *)
(* one write of the state row and the frames it sends. It runs to its end,   *)
(* or the process dies in it: then a prefix of the file operations has       *)
(* happened, nothing was sent, and the state row is the old one.             *)
EXTENDS Naturals, SequencesExt

CONSTANTS
  Device,
  Resource,
  Content,       \* what a file can hold, identified by its hash
  ContentOf,     \* the content each resource's manifest names
  Chunks,        \* number of chunks of each content
  MaxFaults      \* bound: what users, radios, disks and the system interrupt

ASSUME ConstantsAssumption ==
  /\ IsFiniteSet(Resource)
  /\ ContentOf \in [Resource -> Content]
  /\ Chunks \in Nat \ {0}
  /\ MaxFaults \in Nat

VARIABLES
  registered,  \* resources some user has imported: ids are never reused
  disk,        \* the files of each device, the events of its database among them
  row,         \* the state row of each device, written at the end of a handler
  alive,       \* devices whose process runs
  up,          \* <<d, e>>: the core of d has an authenticated connection to e
  wire,        \* frames from one device to another
  damaged,     \* <<d, f>>: file f of d has gone bad
  faults       \* cancels, retries, leaves, lost connections, deaths, bad files

vars == <<registered, disk, row, alive, up, wire, damaged, faults>>

-----------------------------------------------------------------------------
(* Files. Every file is written under a temporary name, synchronized and     *)
(* renamed, so under its own name it is whole; it can still go bad later.    *)

Chunk == 1..Chunks

Manifest(r) == <<"manifest", r>>
ChunkFile(r, i) == <<"chunk", r, i>>
Object(r) == <<"object", ContentOf[r]>>
Event(r) == <<"event", r>>

ChunkFiles(r) == {ChunkFile(r, i) : i \in Chunk}
File == UNION {{Manifest(r), Event(r), Object(r)} \cup ChunkFiles(r) : r \in Resource}

Files == [File -> {"none", "good", "bad"}]

Bad(D, S) == {f \in S : D[f] = "bad"}

(* One file operation: the files it changes and what they become. Deleting   *)
(* several files can be interrupted at any of them; a transaction cannot.    *)

Write(f) == [files |-> {f}, to |-> "good", whole |-> TRUE]
Delete(S) == [files |-> S, to |-> "none", whole |-> FALSE]
Transaction(S) == [files |-> S, to |-> "none", whole |-> TRUE]

(* After operations in order, what touched a file last has decided it.       *)
Run(D, ops) ==
  [f \in File |->
     LET touch == {k \in DOMAIN ops : f \in ops[k].files}
     IN  IF touch = {} THEN D[f] ELSE ops[Max(touch)].to]

(* What the death of the process leaves of operations: the first ones, and   *)
(* some of the files of the next one.                                        *)
Part(op) == IF op.whole THEN {{}, op.files} ELSE SUBSET op.files
Remains(D, ops) ==
  {D} \cup UNION {{Run(D, Append(SubSeq(ops, 1, k - 1), [ops[k] EXCEPT !.files = S])) :
                     S \in Part(ops[k])} : k \in DOMAIN ops}

-----------------------------------------------------------------------------
(* The operations of crates/resources, as file operations on a disk.         *)

Verified(D, f) == D[f] = "good"
Known(D, r) == D[Manifest(r)] = "good"

(* Variant: an object that is there is taken for complete.                   *)
CompleteByName(D, r) == D[Object(r)] # "none"

Complete(D, r) == Verified(D, Object(r))
Missing(D, r) ==
  IF Complete(D, r) THEN {} ELSE {i \in Chunk : ~Verified(D, ChunkFile(r, i))}

(* recover: a complete object makes the chunks superfluous; otherwise bad    *)
(* files go.                                                                 *)
Recover(D, r) ==
  IF Complete(D, r)
  THEN <<Delete(ChunkFiles(r))>>
  ELSE <<Delete(Bad(D, {Object(r)})), Delete(Bad(D, ChunkFiles(r)))>>

Resume(D, r) == IF Known(D, r) THEN Recover(D, r) ELSE <<>>

Begin(D, r) == (IF Known(D, r) THEN <<>> ELSE <<Write(Manifest(r))>>) \o Recover(D, r)

Accept(D, r, i) ==
  IF i \in Missing(D, r) THEN <<Write(ChunkFile(r, i))>> ELSE <<>>

(* Variant: the chunks go before the object has its name.                    *)
FinalizeChunksFirst(D, r) ==
  <<Delete(ChunkFiles(r))>> \o (IF Complete(D, r) THEN <<>> ELSE <<Write(Object(r))>>)

Finalize(D, r) ==
  (IF Complete(D, r) THEN <<>> ELSE <<Write(Object(r))>>) \o <<Delete(ChunkFiles(r))>>

(* Variant: the object goes with its transfer.                               *)
CancelWithObject(r) == <<Delete({Manifest(r), Object(r)} \cup ChunkFiles(r))>>

Cancel(r) == <<Delete({Manifest(r)} \cup ChunkFiles(r))>>

(* cleanup: objects no manifest refers to.                                   *)
Cleanup(D) ==
  LET kept == {r \in Resource : Known(D, r)}
  IN  FlattenSeq([k \in DOMAIN SetToSeq(kept) |-> Recover(D, SetToSeq(kept)[k])])
      \o <<Delete({Object(r) : r \in Resource} \ {Object(r) : r \in kept})>>

(* begin, resume or cancel for several resources, one after the other. What  *)
(* one does to a shared object is what the next would do.                    *)
ForEach(S, Ops(_)) ==
  LET order == SetToSeq(S) IN FlattenSeq([k \in DOMAIN order |-> Ops(order[k])])

-----------------------------------------------------------------------------
(* Frames, one for each member of a set.                                     *)
Each(S, F(_)) == LET order == SetToSeq(S) IN [k \in DOMAIN order |-> F(order[k])]

Request(r, S) == [type |-> "request", resource |-> r, chunks |-> S]
ChunkFrame(r, i, b) == [type |-> "chunk", resource |-> r, index |-> i, bytes |-> b]
DigestFrame(S) == [type |-> "digest", events |-> S]
BatchFrame(S) == [type |-> "batch", events |-> S]

Frame ==
  [type : {"request"}, resource : Resource, chunks : SUBSET Chunk]
    \cup [type : {"chunk"}, resource : Resource, index : Chunk, bytes : {"good", "bad"}]
    \cup [type : {"digest", "batch"}, events : SUBSET Resource]

Status == {"none", "pending", "available", "failed", "cancelled"}
Row == [member : BOOLEAN, status : [Resource -> Status]]
Fresh == [member |-> TRUE, status |-> [r \in Resource |-> "none"]]

Events(d) == {r \in Resource : disk[d][Event(r)] = "good"}
Others(d) == {e \in Device : <<d, e>> \in up}
Listed(d) == {r \in Resource : row[d].status[r] # "none"}
Runs(d) == d \in alive /\ row[d].member

Init ==
  /\ registered = {}
  /\ disk = [d \in Device |-> [f \in File |-> "none"]]
  /\ row = [d \in Device |-> Fresh]
  /\ alive = Device
  /\ up = {}
  /\ wire = [d \in Device |-> [e \in Device |-> <<>>]]
  /\ damaged = {}
  /\ faults = 0

Fault == faults < MaxFaults /\ faults' = faults + 1

(* Connections of the pairs P break, with the frames on them.                *)
Broken(P) ==
  /\ up' = up \ P
  /\ wire' = [d \in Device |-> [e \in Device |-> IF <<d, e>> \in P THEN <<>> ELSE wire[d][e]]]

Touching(d) == {pair \in Device \X Device : d \in {pair[1], pair[2]}}

(* The process of d dies in a handler, or before its first operation.        *)
Dies(d, ops) ==
  /\ Fault
  /\ \E D \in Remains(disk[d], ops) : disk' = [disk EXCEPT ![d] = D]
  /\ alive' = alive \ {d}
  /\ Broken(Touching(d))
  /\ UNCHANGED row

(* A handler of d with its file operations, the statuses it writes at the    *)
(* end, and the frames it sends to each device; from is the sender of the    *)
(* frame it handles, or d itself.                                            *)
Handles(d, from, ops, statuses, sends) ==
  \/ /\ disk' = [disk EXCEPT ![d] = Run(@, ops)]
     /\ row' = [row EXCEPT ![d].status = statuses]
     /\ wire' = [s \in Device |->
          IF s = d THEN [e \in Device |-> wire[d][e] \o sends[e]]
          ELSE IF s = from THEN [wire[s] EXCEPT ![d] = Tail(@)]
          ELSE wire[s]]
     /\ UNCHANGED <<alive, up, faults>>
  \/ Dies(d, ops)

Nothing == [e \in Device |-> <<>>]
ToAll(d, frames) == [e \in Device |-> IF e \in Others(d) THEN frames ELSE <<>>]
To(to, frames) == [Nothing EXCEPT ![to] = frames]

Settled(D, r) == IF Complete(D, r) THEN "available" ELSE "pending"

(* request_resource for each resource in S, after it has been resumed: one   *)
(* that turns out to be complete is available, and of the others the missing *)
(* chunks are asked for, if there are any.                                   *)
Asked(D, statuses, S) ==
  [r \in Resource |-> IF r \in S /\ Known(D, r) /\ Complete(D, r) THEN "available" ELSE statuses[r]]
Requests(D, S) ==
  LET wanted == {r \in S : Known(D, r) /\ Missing(D, r) # {}}
  IN  Each(wanted, LAMBDA r : Request(r, Missing(D, r)))

(* Variant: only failed transfers are taken up again.                        *)
PendingFailed(statuses) == {r \in Resource : statuses[r] = "failed"}

Pending(statuses) == {r \in Resource : statuses[r] = "pending"}

-----------------------------------------------------------------------------
(* Commands of the user.                                                     *)

RegisterMedia(d, r) ==
  /\ Runs(d)
  /\ r \notin registered
  /\ registered' = registered \cup {r}
  /\ \E begun \in {Begin(disk[d], r)} :
     \E D1 \in {Run(disk[d], begun)} :
     \E accepted \in {ForEach(Missing(D1, r), LAMBDA i : Accept(D1, r, i))} :
     \E D2 \in {Run(D1, accepted)} :
       Handles(d, d, begun \o accepted \o Finalize(D2, r) \o <<Write(Event(r))>>,
               [row[d].status EXCEPT ![r] = "available"],
               ToAll(d, <<BatchFrame({r})>>))
  /\ UNCHANGED damaged

(* A resource without files to cancel is an error, without effect.           *)
CancelResource(d, r) ==
  /\ Runs(d)
  /\ r \in Listed(d) /\ Known(disk[d], r)
  /\ \/ /\ Fault
        /\ disk' = [disk EXCEPT ![d] = Run(@, Cancel(r))]
        /\ row' = [row EXCEPT ![d].status[r] = "cancelled"]
        /\ UNCHANGED <<alive, up, wire>>
     \/ Dies(d, Cancel(r))
  /\ UNCHANGED <<registered, damaged>>

RetryResource(d, r) ==
  /\ Runs(d)
  /\ r \in Listed(d)
  /\ \E ops \in {Begin(disk[d], r)} :
       \/ /\ Fault
          /\ \E D \in {Run(disk[d], ops)} :
               /\ disk' = [disk EXCEPT ![d] = D]
               /\ row' = [row EXCEPT ![d].status[r] = Settled(D, r)]
               /\ wire' = [wire EXCEPT ![d] =
                    [e \in Device |-> @[e] \o ToAll(d, Requests(D, {r}))[e]]]
          /\ UNCHANGED <<alive, up>>
       \/ Dies(d, ops)
  /\ UNCHANGED <<registered, damaged>>

(* clear_trip_data: every listed transfer is cancelled, objects nobody       *)
(* refers to are removed, the database is emptied, the state row reset.      *)
Leave(d) ==
  /\ Runs(d)
  /\ \E cancelled \in {ForEach(Listed(d), Cancel)} :
     \E ops \in {cancelled \o Cleanup(Run(disk[d], cancelled))
                   \o <<Transaction({Event(r) : r \in Resource})>>} :
       \/ /\ Fault
          /\ disk' = [disk EXCEPT ![d] = Run(@, ops)]
          /\ row' = [row EXCEPT ![d] = [Fresh EXCEPT !.member = FALSE]]
          /\ Broken(Touching(d))
          /\ UNCHANGED alive
       \/ Dies(d, ops)
  /\ UNCHANGED <<registered, damaged>>

Rejoin(d) ==
  /\ d \in alive /\ ~row[d].member
  /\ row' = [row EXCEPT ![d].member = TRUE]
  /\ UNCHANGED <<registered, disk, alive, up, wire, damaged, faults>>

-----------------------------------------------------------------------------
(* Connections and frames.                                                   *)

Authenticate(d, e) ==
  /\ d # e /\ Runs(d) /\ Runs(e)
  /\ <<d, e>> \notin up
  /\ \E waiting \in {Pending(row[d].status)} :
     \E ops \in {ForEach(waiting, LAMBDA r : Resume(disk[d], r))} :
       \/ /\ up' = up \cup {<<d, e>>}
          /\ \E D \in {Run(disk[d], ops)} :
               /\ disk' = [disk EXCEPT ![d] = D]
               /\ row' = [row EXCEPT ![d].status = Asked(D, @, waiting)]
               /\ wire' = [wire EXCEPT ![d][e] =
                    @ \o <<DigestFrame(Events(d))>> \o Requests(D, waiting)]
          /\ UNCHANGED <<alive, faults>>
       \/ Dies(d, ops)
  /\ UNCHANGED <<registered, damaged>>

Disconnect(d, e) ==
  /\ {<<d, e>>, <<e, d>>} \cap up # {}
  /\ Fault
  /\ Broken({<<d, e>>, <<e, d>>})
  /\ UNCHANGED <<registered, disk, row, alive, damaged>>

Arrives(d, e, type) ==
  /\ <<d, e>> \in up
  /\ wire[e][d] # <<>>
  /\ Head(wire[e][d]).type = type
  /\ UNCHANGED <<registered, damaged>>

ReceiveDigest(d, e) ==
  /\ Arrives(d, e, "digest")
  /\ LET missing == Events(d) \ Head(wire[e][d]).events
     IN  Handles(d, e, <<>>, row[d].status,
                 IF missing = {} THEN Nothing ELSE To(e, <<BatchFrame(missing)>>))

(* Events that are new are stored and materialized one by one; then the      *)
(* sender of the batch is asked for whatever is pending, new or not.         *)
ReceiveBatch(d, e) ==
  /\ Arrives(d, e, "batch")
  /\ \E new \in {Head(wire[e][d]).events \ Events(d)} :
     \E begun \in {ForEach(new, LAMBDA r : <<Write(Event(r))>> \o Begin(disk[d], r))} :
     \E D1 \in {Run(disk[d], begun)} :
     \E statuses \in {[r \in Resource |->
                         IF r \in new THEN Settled(D1, r) ELSE row[d].status[r]]} :
     \E resumed \in {ForEach(Pending(statuses), LAMBDA r : Resume(D1, r))} :
     \E D2 \in {Run(D1, resumed)} :
       Handles(d, e, begun \o resumed, Asked(D2, statuses, Pending(statuses)),
               To(e, Requests(D2, Pending(statuses))))

(* Only a complete object is served; any other request is not answered.      *)
ReceiveRequest(d, e) ==
  /\ Arrives(d, e, "request")
  /\ \E frame \in {Head(wire[e][d])} :
     \E ops \in {Resume(disk[d], frame.resource)} :
     \E D \in {Run(disk[d], ops)} :
       Handles(d, e, ops, row[d].status,
               IF Known(D, frame.resource) /\ Complete(D, frame.resource)
               THEN To(e, Each(frame.chunks, LAMBDA i :
                      ChunkFrame(frame.resource, i, D[Object(frame.resource)])))
               ELSE Nothing)

(* A chunk whose hash is wrong fails the transfer, the last one completes it. *)
TakeChunk(d, e, r, i, bytes) ==
  \E resumed \in {Recover(disk[d], r)} :
  \E D1 \in {Run(disk[d], resumed)} :
  \E accepted \in {Accept(D1, r, i)} :
  \E D2 \in {Run(D1, accepted)} :
  \E finished \in {IF Missing(D2, r) = {} THEN Finalize(D2, r) ELSE <<>>} :
    LET becomes(s) == [row[d].status EXCEPT ![r] = IF @ = "none" THEN @ ELSE s]
    IN  IF bytes = "bad"
        THEN Handles(d, e, resumed, becomes("failed"), Nothing)
        ELSE Handles(d, e, resumed \o accepted \o finished,
                     becomes(Settled(Run(D2, finished), r)), Nothing)

(* The chunk of a transfer that is not on disk is dropped.                   *)
ReceiveChunk(d, e) ==
  /\ Arrives(d, e, "chunk")
  /\ LET frame == Head(wire[e][d])
     IN  IF Known(disk[d], frame.resource)
         THEN TakeChunk(d, e, frame.resource, frame.index, frame.bytes)
         ELSE Handles(d, e, <<>>, row[d].status, Nothing)

-----------------------------------------------------------------------------
(* TravelCore::new: the disk is checked for every transfer the user has not  *)
(* cancelled.                                                                *)

(* Variant: for every transfer.                                              *)
RestartedAll(d) == Listed(d)

Restarted(d) == {r \in Listed(d) : row[d].status[r] # "cancelled"}

Restart(d) ==
  /\ d \notin alive
  /\ \E kept \in {Restarted(d)} :
     \E ops \in {ForEach(kept, LAMBDA r : Begin(disk[d], r))} :
       \/ /\ \E D \in {Run(disk[d], ops)} :
               /\ disk' = [disk EXCEPT ![d] = D]
               /\ row' = [row EXCEPT ![d].status =
                    [r \in Resource |-> IF r \in kept THEN Settled(D, r) ELSE @[r]]]
          /\ alive' = alive \cup {d}
          /\ UNCHANGED <<up, wire, faults>>
       \/ Dies(d, ops)
  /\ UNCHANGED <<registered, damaged>>

Crash(d) ==
  /\ d \in alive
  /\ Dies(d, <<>>)
  /\ UNCHANGED <<registered, damaged>>

(* A chunk or an object goes bad on disk.                                    *)
Damage(d, f) ==
  /\ Fault
  /\ disk[d][f] = "good"
  /\ f \in UNION {ChunkFiles(r) \cup {Object(r)} : r \in Resource}
  /\ disk' = [disk EXCEPT ![d][f] = "bad"]
  /\ damaged' = damaged \cup {<<d, f>>}
  /\ UNCHANGED <<registered, row, alive, up, wire>>

Receive(d, e) ==
  ReceiveDigest(d, e) \/ ReceiveBatch(d, e) \/ ReceiveRequest(d, e) \/ ReceiveChunk(d, e)

Next ==
  \E d \in Device :
    \/ \E r \in Resource : RegisterMedia(d, r) \/ CancelResource(d, r) \/ RetryResource(d, r)
    \/ Leave(d) \/ Rejoin(d) \/ Crash(d) \/ Restart(d)
    \/ \E e \in Device : Authenticate(d, e) \/ Disconnect(d, e) \/ Receive(d, e)
    \/ \E f \in File : Damage(d, f)

Spec == Init /\ [][Next]_vars

(* As long as a process can come back, a connection be made or a frame       *)
(* arrive, one of these happens: what is begun comes to an end.              *)
Progress == \E d, e \in Device : Restart(d) \/ Authenticate(d, e) \/ Receive(d, e)

FairSpec == Spec /\ WF_vars(Progress)

-----------------------------------------------------------------------------
TypeOK ==
  /\ registered \subseteq Resource
  /\ disk \in [Device -> Files]
  /\ row \in [Device -> Row]
  /\ alive \subseteq Device
  /\ up \subseteq Device \X Device
  /\ wire \in [Device -> [Device -> Seq(Frame)]]
  /\ damaged \subseteq Device \X File
  /\ faults \in Nat

(* What a running device shows as available is on its disk, manifest and     *)
(* whole object, whatever was cancelled, cleaned up or interrupted, unless   *)
(* the object itself went bad.                                               *)
AvailableIsWhole ==
  \A d \in alive, r \in Resource :
    row[d].status[r] = "available" /\ <<d, Object(r)>> \notin damaged =>
      Known(disk[d], r) /\ Complete(disk[d], r)

(* Only good bytes are sent, also by a device whose object has gone bad.     *)
ServedIsGood ==
  \A d, e \in Device : \A k \in DOMAIN wire[d][e] :
    wire[d][e][k].type = "chunk" => wire[d][e][k].bytes = "good"

(* Whoever has left keeps no object but those some manifest still refers to, *)
(* which is what cleanup promises. The rest of what a dead process leaves    *)
(* behind is described in the README.                                        *)
NoOrphanObject ==
  \A d \in alive : ~row[d].member =>
    \A r \in Resource : disk[d][Object(r)] # "none" =>
      \E s \in Resource : Object(s) = Object(r) /\ Known(disk[d], s)

(* All of it: a device's disk and what it shows fit together.               *)
DiskSound == TypeOK /\ AvailableIsWhole /\ NoOrphanObject

Has(d, r, i) == Complete(disk[d], r) \/ Verified(disk[d], ChunkFile(r, i))

(* No step but cancelling, leaving and damage takes away bytes a device has, *)
(* also when the process dies in the middle of it: a chunk is deleted only   *)
(* once the object has its name.                                             *)
ProgressKept ==
  [][\A d \in Device, r \in Resource :
       \/ \A i \in Chunk : Has(d, r, i) => Has(d, r, i)'
       \/ Leave(d) \/ \E s \in Resource : CancelResource(d, s)
       \/ \E f \in File : Damage(d, f)]_vars

(* A cancelled transfer whose manifest event is stored stays cancelled when  *)
(* late chunks, batches or a restart come: only the user starts it again.    *)
CancelledStays ==
  [][\A d \in Device, r \in Resource :
       row[d].status[r] = "cancelled" /\ r \in Events(d) =>
         \/ row'[d].status[r] = "cancelled"
         \/ RetryResource(d, r)
         \/ Leave(d)]_vars

(* All chunks have arrived and the object was not put together: the process  *)
(* died in between. Nothing asks for chunks, and nothing else finalizes.     *)
Stuck(d, r) ==
  /\ ~Complete(disk[d], r)
  /\ \A i \in Chunk : Verified(disk[d], ChunkFile(r, i))

Holds(e, r) == row[e].member /\ Known(disk[e], r) /\ Complete(disk[e], r)
Waits(d, r) == row[d].status[r] = "pending"

(* A resource does not stay pending for ever beside a device that holds it   *)
(* all that time, whatever processes and connections die, but for Stuck. One *)
(* who comes to hold it later tells nobody and is not asked.                 *)
Transferred(d, e, r) ==
  [](Waits(d, r) => Holds(e, r) /\ damaged = {}) =>
    []<>(~Waits(d, r) \/ Stuck(d, r) \/ Complete(disk[d], r))

Transfers == \A d, e \in Device : \A r \in Resource : d # e => Transferred(d, e, r)
=============================================================================
