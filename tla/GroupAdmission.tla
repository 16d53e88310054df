--------------------------- MODULE GroupAdmission ---------------------------
(* How devices found, join and leave groups (travel-core, group-auth): the   *)
(* owner shows a PIN, a joiner who types it proves so in a handshake over    *)
(* Bluetooth and receives the group's credential, the owner lists the joiner *)
(* once the joiner has confirmed, and tells the group by an event.           *)
(*                                                                           *)
(* A device keeps its membership in memory, in the row that a handler saves  *)
(* at its end, and the group's key in the secure storage of the system,      *)
(* which carries out orders one by one and loses those outstanding when the  *)
(* process dies. Its log of events outlives the group they were made for.    *)
EXTENDS Naturals, Sequences

CONSTANTS
  Peer,
  Founder,       \* devices whose users found groups
  MaxGroups,     \* bound: groups founded
  MaxNotes,      \* bound: events the users publish
  MaxFaults      \* bound: lost messages and channels, deaths, leaves

ASSUME ConstantsAssumption ==
  /\ Founder \subseteq Peer
  /\ MaxGroups \in Nat /\ MaxNotes \in Nat /\ MaxFaults \in Nat

VARIABLES
  founders,  \* the founder of each group, in the order of their founding
  mem,       \* memory of each device: its state and what it does not save
  row,       \* the state saved
  chain,     \* the group key in the secure storage, 0 for none
  orders,    \* orders to the secure storage that are outstanding
  alive,     \* devices whose process runs
  met,       \* <<p, q>>: p has been told that its Bluetooth channel to q is ready
  control,   \* Bluetooth messages from one device to another
  log,       \* events on disk
  nextSeq,   \* the next sequence of each device's own events
  issued,    \* how many admissions, PINs and events there have been
  faults,
  past       \* memberships held and given up, groups joined straight from
             \* another one, logs cleared, whether anything was lost

disks == <<log, nextSeq>>
vars == <<founders, mem, row, chain, orders, alive, met, control, log, nextSeq,
          issued, faults, past>>

-----------------------------------------------------------------------------
None == <<>>
Outside(keys) == [group |-> 0, members |-> {}, pin |-> 0, keys |-> keys]

(* A process that starts has what was saved, but not the key, the PIN typed  *)
(* by its user, its handshake as a joiner, nor as an inviter the admission   *)
(* offered to each device and the session whose confirmation it waits for.   *)
Loaded(r) ==
  [group |-> r.group, members |-> r.members, pin |-> r.pin, keys |-> r.keys,
   key |-> 0, typed |-> 0, handshake |-> None,
   invited |-> [q \in Peer |-> None], admitting |-> [q \in Peer |-> None]]

(* Outside of all groups; the public keys of former members stay.            *)
Left(m) == Loaded(Outside(m.keys))

Saved(m) == [group |-> m.group, members |-> m.members, pin |-> m.pin, keys |-> m.keys]

Owns(p, m) == m.group # 0 /\ founders[m.group] = p /\ p \in m.members
Invites(p, m) == Owns(p, m) /\ m.key # 0 /\ m.pin # 0

(* What both sides derive from the admission and the PIN: with different     *)
(* PINs the sessions differ, and one side does not confirm the other's.      *)
Session(id, pin) == <<id, pin>>

Invitation(id) == [type |-> "invitation", id |-> id]
Hello(id) == [type |-> "hello", id |-> id]
Response(id, session, m) ==
  [type |-> "response", id |-> id, session |-> session,
   group |-> m.group, members |-> m.members, keys |-> m.keys, key |-> m.key]
Confirmation(session) == [type |-> "confirmation", session |-> session]

Listing(m, q) == [m EXCEPT !.members = @ \cup {q}, !.keys = @ \cup {q}]

Init ==
  /\ founders = <<>>
  /\ mem = [p \in Peer |-> Loaded(Outside({p}))]
  /\ row = [p \in Peer |-> Outside({p})]
  /\ chain = [p \in Peer |-> 0]
  /\ orders = [p \in Peer |-> <<>>]
  /\ alive = Peer
  /\ met = {}
  /\ control = [p \in Peer |-> [q \in Peer |-> <<>>]]
  /\ log = [p \in Peer |-> {}]
  /\ nextSeq = [p \in Peer |-> 1]
  /\ issued = [admissions |-> 0, pins |-> 0, events |-> 0, notes |-> 0]
  /\ faults = 0
  /\ past = [held |-> {}, left |-> {}, cleared |-> {}, moved |-> {}, lost |-> FALSE]

-----------------------------------------------------------------------------
(* The end of a handler: memory is saved, then the orders and messages that  *)
(* it queued go out. One that fails leaves memory as it is by then.          *)
Ends(p, m, ask, sent) ==
  /\ mem' = [mem EXCEPT ![p] = m]
  /\ row' = [row EXCEPT ![p] = Saved(m)]
  /\ orders' = [orders EXCEPT ![p] = @ \o ask]
  /\ control' = sent

Fails(p, m) ==
  /\ mem' = [mem EXCEPT ![p] = m]
  /\ UNCHANGED <<row, orders>>

Fault == faults < MaxFaults /\ faults' = faults + 1

Channels(p) == {pair \in Peer \X Peer : p \in {pair[1], pair[2]}}

Without(pairs) ==
  [p \in Peer |-> [q \in Peer |-> IF <<p, q>> \in pairs THEN <<>> ELSE control[p][q]]]

(* The process of p dies: what is not on disk is gone.                       *)
Dies(p) ==
  /\ Fault
  /\ mem' = [mem EXCEPT ![p] = Loaded(row[p])]
  /\ orders' = [orders EXCEPT ![p] = <<>>]
  /\ alive' = alive \ {p}
  /\ met' = met \ Channels(p)
  /\ control' = Without(Channels(p))
  /\ UNCHANGED <<row, chain>>

(* send_invitation_info: each device in S is offered an admission of its     *)
(* own, which replaces one offered before.                                   *)
NewAdmission(p, q) == <<issued.admissions + 1, p, q>>

Offering(p, m, S) ==
  [m EXCEPT !.invited = [q \in Peer |->
     IF Invites(p, m) /\ q \in S THEN NewAdmission(p, q) ELSE @[q]]]

Offered(p, m, S) ==
  [control EXCEPT ![p] = [q \in Peer |->
     IF Invites(p, m) /\ q \in S THEN Append(@[q], Invitation(NewAdmission(p, q))) ELSE @[q]]]

Counted(p, m) == [issued EXCEPT !.admissions = IF Invites(p, m) THEN @ + 1 ELSE @]

Met(p) == {q \in Peer : <<p, q>> \in met}

-----------------------------------------------------------------------------
(* Commands. The app offers to found or join a group only outside of one.    *)
CreateGroup(p) ==
  /\ p \in alive \cap Founder /\ mem[p].group = 0
  /\ Len(founders) < MaxGroups
  /\ founders' = Append(founders, p)
  /\ \E g \in {Len(founders) + 1} :
     \E m \in {[mem[p] EXCEPT !.group = g, !.members = {p}, !.pin = issued.pins + 1, !.key = g]} :
       /\ Ends(p, [m EXCEPT !.invited = [q \in Peer |->
                     IF q \in Met(p) THEN NewAdmission(p, q) ELSE @[q]]],
               <<<<"put", g>>>>,
               [control EXCEPT ![p] = [q \in Peer |->
                  IF q \in Met(p) THEN Append(@[q], Invitation(NewAdmission(p, q))) ELSE @[q]]])
       /\ past' = [past EXCEPT !.held = @ \cup {<<p, g>>}]
  /\ issued' = [issued EXCEPT !.admissions = @ + 1, !.pins = @ + 1]
  /\ UNCHANGED <<chain, alive, met, faults, disks>>

(* The PIN may be one that some owner showed earlier.                        *)
JoinWithPin(p, pin) ==
  /\ p \in alive /\ mem[p].group = 0
  /\ mem' = [mem EXCEPT ![p].typed = pin]
  /\ UNCHANGED <<founders, row, chain, orders, alive, met, control, issued, faults, past, disks>>

Joining(p, g) ==
  past' = [past EXCEPT !.held = @ \cup {<<p, g>>}, !.left = @ \ {<<p, g>>},
                       !.moved = IF mem[p].group = 0 THEN @ ELSE @ \cup {g}]

Leaving(p) ==
  past' = [past EXCEPT !.left = @ \cup {<<p, mem[p].group>>}]

LeaveGroup(p) ==
  /\ p \in alive /\ mem[p].group # 0
  /\ Fault
  /\ Ends(p, Left(mem[p]), <<<<"delete", 0>>>>, control)
  /\ Leaving(p)
  /\ UNCHANGED <<founders, chain, alive, met, issued, disks>>

(* clear_trip_data on a journey: it stops Bluetooth, and empties the log     *)
(* before the row is saved.                                                  *)
ClearTripData(p) ==
  /\ p \in alive
  /\ log' = [log EXCEPT ![p] = {}]
  /\ nextSeq' = [nextSeq EXCEPT ![p] = 1]
  /\ \/ /\ Fault
        /\ Ends(p, Left(mem[p]), <<<<"delete", 0>>>>, Without(Channels(p)))
        /\ met' = met \ Channels(p)
        /\ UNCHANGED <<chain, alive>>
     \/ Dies(p)
  /\ past' = [past EXCEPT !.left = @ \cup {<<p, mem[p].group>>}, !.cleared = @ \cup {p}, !.lost = TRUE]
  /\ UNCHANGED <<founders, issued>>

-----------------------------------------------------------------------------
(* The handshake.                                                            *)

(* A Bluetooth channel becomes ready.                                        *)
Connected(p, q) ==
  /\ p # q /\ p \in alive /\ q \in alive
  /\ <<p, q>> \notin met
  /\ met' = met \cup {<<p, q>>}
  /\ Ends(p, Offering(p, mem[p], {q}), <<>>, Offered(p, mem[p], {q}))
  /\ issued' = Counted(p, mem[p])
  /\ UNCHANGED <<founders, chain, alive, faults, past, disks>>

Arrives(p, q, type) ==
  /\ p \in alive
  /\ control[q][p] # <<>>
  /\ Head(control[q][p]).type = type
  /\ UNCHANGED <<founders, chain, alive, met, faults>>

Taken(p, q) == [control EXCEPT ![q][p] = Tail(@)]
Reply(p, q, message) == [Taken(p, q) EXCEPT ![p][q] = Append(@, message)]

OnInvitationInfo(p, q) ==
  /\ Arrives(p, q, "invitation")
  /\ LET m == mem[p]
         id == Head(control[q][p]).id
     IN  IF m.group # 0 \/ m.handshake # None \/ m.typed = 0
         THEN Ends(p, m, <<>>, Taken(p, q))
         ELSE Ends(p, [m EXCEPT !.handshake = [id |-> id, inviter |-> q, pin |-> m.typed]],
                   <<>>, Reply(p, q, Hello(id)))
  /\ UNCHANGED <<issued, past, disks>>

(* The credential lists the joiner already, the owner's own state not yet.   *)
OnJoinHello(p, q) ==
  /\ Arrives(p, q, "hello")
  /\ LET m == mem[p]
         id == Head(control[q][p]).id
         session == Session(id, m.pin)
     IN  IF m.group = 0 \/ m.pin = 0 \/ m.key = 0 \/ m.invited[q] # id
         THEN Fails(p, m) /\ control' = Taken(p, q)
         ELSE Ends(p, [m EXCEPT !.admitting[q] = session], <<>>,
                   Reply(p, q, Response(id, session, Listing(m, q))))
  /\ UNCHANGED <<issued, past, disks>>

(* Variant: the confirmation leaves before the state is saved.               *)
OnJoinResponseUnsaved(p, q) ==
  /\ Arrives(p, q, "response")
  /\ LET m == mem[p]
         used == [m EXCEPT !.handshake = None]
         response == Head(control[q][p])
         agreed == /\ m.handshake # None
                   /\ m.handshake.inviter = q /\ m.handshake.id = response.id
                   /\ Session(m.handshake.id, m.handshake.pin) = response.session
     IN  IF agreed
         THEN /\ row' = row
              /\ orders' = [orders EXCEPT ![p] = Append(@, <<"put", response.key>>)]
              /\ control' = Reply(p, q, Confirmation(response.session))
              /\ mem' = [mem EXCEPT ![p] = [used EXCEPT !.group = response.group, !.members = response.members,
                                       !.pin = 0, !.keys = response.keys, !.key = response.key,
                                       !.typed = 0]]
              /\ Joining(p, response.group)
         ELSE Fails(p, used) /\ control' = Taken(p, q) /\ UNCHANGED past
  /\ UNCHANGED <<issued, disks>>

(* Variant: no confirmation follows.                                         *)
OnJoinResponseQuiet(p, q) ==
  /\ Arrives(p, q, "response")
  /\ LET m == mem[p]
         used == [m EXCEPT !.handshake = None]
         response == Head(control[q][p])
         agreed == /\ m.handshake # None
                   /\ m.handshake.inviter = q /\ m.handshake.id = response.id
                   /\ Session(m.handshake.id, m.handshake.pin) = response.session
     IN  IF agreed
         THEN /\ Ends(p, [used EXCEPT !.group = response.group, !.members = response.members,
                                      !.pin = 0, !.keys = response.keys, !.key = response.key,
                                      !.typed = 0],
                      <<<<"put", response.key>>>>, Taken(p, q))
              /\ Joining(p, response.group)
         ELSE Fails(p, used) /\ control' = Taken(p, q) /\ UNCHANGED past
  /\ UNCHANGED <<issued, disks>>

(* The handshake is used up by the first response, whatever becomes of it.   *)
OnJoinResponse(p, q) ==
  /\ Arrives(p, q, "response")
  /\ LET m == mem[p]
         used == [m EXCEPT !.handshake = None]
         response == Head(control[q][p])
         agreed == /\ m.handshake # None
                   /\ m.handshake.inviter = q /\ m.handshake.id = response.id
                   /\ Session(m.handshake.id, m.handshake.pin) = response.session
     IN  IF agreed
         THEN /\ Ends(p, [used EXCEPT !.group = response.group, !.members = response.members,
                                      !.pin = 0, !.keys = response.keys, !.key = response.key,
                                      !.typed = 0],
                      <<<<"put", response.key>>>>, Reply(p, q, Confirmation(response.session)))
              /\ Joining(p, response.group)
         ELSE Fails(p, used) /\ control' = Taken(p, q) /\ UNCHANGED past
  /\ UNCHANGED <<issued, disks>>

Event(p, g, members, keys) ==
  [id |-> issued.events + 1, sender |-> p, seq |-> nextSeq[p], group |-> g,
   members |-> members, keys |-> keys]

Slot(e) == <<e.sender, e.seq>>

(* publish_local: an event whose sequence is in use is refused.              *)
Fresh(p) == \A e \in log[p] : Slot(e) # <<p, nextSeq[p]>>

Published(p, g, members, keys) ==
  /\ log' = [log EXCEPT ![p] = @ \cup {Event(p, g, members, keys)}]
  /\ nextSeq' = [nextSeq EXCEPT ![p] = @ + 1]

(* The event is on disk before the owner's new list is.                      *)
OnJoinConfirmation(p, q) ==
  /\ p \in alive /\ control[q][p] # <<>> /\ Head(control[q][p]).type = "confirmation"
  /\ \E used \in {[mem[p] EXCEPT !.invited[q] = None, !.admitting[q] = None]} :
     \E listed \in {[Listing(used, q) EXCEPT !.pin = issued.pins + 1]} :
       IF mem[p].admitting[q] # Head(control[q][p]).session \/ mem[p].group = 0
       THEN Fails(p, used) /\ control' = Taken(p, q)
            /\ UNCHANGED <<chain, alive, met, issued, faults, past, disks>>
       ELSE IF ~Fresh(p)
       THEN Fails(p, listed) /\ control' = Taken(p, q)
            /\ issued' = [issued EXCEPT !.pins = @ + 1]
            /\ UNCHANGED <<chain, alive, met, faults, past, disks>>
       ELSE /\ Published(p, listed.group, listed.members, listed.keys)
            /\ issued' = [issued EXCEPT !.pins = @ + 1, !.events = @ + 1]
            /\ \/ /\ Ends(p, listed, <<>>, Taken(p, q))
                  /\ UNCHANGED <<chain, alive, met, faults, past>>
               \/ /\ Dies(p)
                  /\ past' = [past EXCEPT !.lost = TRUE]
  /\ UNCHANGED founders

-----------------------------------------------------------------------------
(* The secure storage carries out its orders; what it loads is the group key *)
(* of the core from then on, and its owner invites again.                    *)
Carry(p) ==
  /\ p \in alive /\ orders[p] # <<>>
  /\ \E order \in {Head(orders[p])} :
     IF order[1] = "get"
     THEN \E m \in {[mem[p] EXCEPT !.key = chain[p]]} :
            /\ mem' = [mem EXCEPT ![p] = Offering(p, m, Met(p))]
            /\ row' = [row EXCEPT ![p] = Saved(m)]
            /\ control' = Offered(p, m, Met(p))
            /\ issued' = Counted(p, m)
            /\ UNCHANGED chain
     ELSE /\ chain' = [chain EXCEPT ![p] = order[2]]
          /\ UNCHANGED <<mem, row, control, issued>>
  /\ orders' = [orders EXCEPT ![p] = Tail(@)]
  /\ UNCHANGED <<founders, alive, met, faults, past, disks>>

-----------------------------------------------------------------------------
(* Events between devices whose connection is authenticated by the key.      *)

PublishNote(p) ==
  /\ p \in alive /\ mem[p].group # 0 /\ Fresh(p)
  /\ issued.notes < MaxNotes
  /\ Published(p, mem[p].group, {}, {})
  /\ issued' = [issued EXCEPT !.notes = @ + 1, !.events = @ + 1]
  /\ UNCHANGED <<founders, mem, row, chain, orders, alive, met, control, faults, past>>

Linked(p, q) ==
  /\ p # q /\ p \in alive /\ q \in alive
  /\ mem[p].group # 0 /\ mem[p].group = mem[q].group
  /\ mem[p].key # 0 /\ mem[p].key = mem[q].key

(* Variant: any event of a known sender is taken.                            *)
RefusedUnknown(m, held, e) ==
  \/ e.sender \notin m.keys
  \/ \E f \in held : Slot(f) = Slot(e) /\ f # e

Refused(m, held, e) ==
  \/ e.sender \notin m.keys
  \/ e.group # m.group
  \/ \E f \in held : Slot(f) = Slot(e) /\ f # e

Earlier(events, e) == {f \in events : f.id < e.id}
Latest(events) == CHOOSE e \in events : \A f \in events : f.id <= e.id

(* The last list of members replaces the one before, the keys that come with *)
(* lists are added.                                                          *)
Materialized(m, events) ==
  LET lists == {e \in events : e.members # {}}
  IN  IF lists = {} THEN m
      ELSE [m EXCEPT !.members = Latest(lists).members,
                     !.keys = @ \cup UNION {e.keys : e \in lists}]

(* The events of a batch are taken in their order, until one is refused.     *)
Accepted(p, batch) ==
  {e \in batch : \A f \in Earlier(batch, e) \cup {e} :
     LET before == Earlier(batch, f)
     IN  ~Refused(Materialized(mem[p], before \ log[p]), log[p] \cup before, f)}

Receive(p, batch) ==
  /\ \E accepted \in {Accepted(p, batch)} :
     \E m \in {Materialized(mem[p], accepted \ log[p])} :
       /\ log' = [log EXCEPT ![p] = @ \cup accepted]
       /\ \/ /\ mem' = [mem EXCEPT ![p] = m]
             /\ row' = IF accepted = batch THEN [row EXCEPT ![p] = Saved(m)] ELSE row
             /\ UNCHANGED <<orders, chain, alive, met, control, faults, past>>
          \/ /\ accepted \ log[p] # {}
             /\ Dies(p)
             /\ past' = [past EXCEPT !.lost = TRUE]
  /\ UNCHANGED <<founders, nextSeq, issued>>

(* A new event goes to whom its sender is connected to.                      *)
Push(p, q) ==
  /\ Linked(p, q)
  /\ \E e \in log[p] :
       /\ e.sender = p /\ e.group = mem[p].group /\ e \notin log[q]
       /\ Receive(q, {e})

(* Variant: a digest gives the highest sequence of each sender only.         *)
MissingAfterHighest(p, q) ==
  {e \in log[p] : \A f \in log[q] : f.sender = e.sender => f.seq < e.seq}

(* The answer to q's digest, which names senders and sequences, no group.    *)
Missing(p, q) ==
  LET known == {Slot(e) : e \in log[q]}
  IN  {e \in log[p] : Slot(e) \notin known}

Sync(p, q) ==
  /\ Linked(p, q)
  /\ \E missing \in {Missing(p, q)} :
       /\ missing # {}
       /\ Receive(q, missing)

-----------------------------------------------------------------------------
Restart(p) ==
  /\ p \notin alive
  /\ alive' = alive \cup {p}
  /\ orders' = [orders EXCEPT ![p] = IF mem[p].group # 0 THEN <<<<"get", 0>>>> ELSE <<>>]
  /\ UNCHANGED <<founders, mem, row, chain, met, control, issued, faults, past, disks>>

Crash(p) ==
  /\ p \in alive
  /\ Dies(p)
  /\ past' = [past EXCEPT !.lost = TRUE]
  /\ UNCHANGED <<founders, issued, disks>>

(* A Bluetooth channel breaks, or a message on it is lost or expires.        *)
Part(p, q) ==
  /\ {<<p, q>>, <<q, p>>} \cap met # {}
  /\ Fault
  /\ met' = met \ {<<p, q>>, <<q, p>>}
  /\ control' = Without({<<p, q>>, <<q, p>>})
  /\ past' = [past EXCEPT !.lost = TRUE]
  /\ UNCHANGED <<founders, mem, row, chain, orders, alive, issued, disks>>

Lose(p, q) ==
  /\ control[p][q] # <<>>
  /\ Fault
  /\ control' = [control EXCEPT ![p][q] = Tail(@)]
  /\ past' = [past EXCEPT !.lost = TRUE]
  /\ UNCHANGED <<founders, mem, row, chain, orders, alive, met, issued, disks>>

Handshake(p, q) ==
  \/ OnInvitationInfo(p, q) \/ OnJoinHello(p, q)
  \/ OnJoinResponse(p, q) \/ OnJoinConfirmation(p, q)

Progress ==
  \E p \in Peer :
    \/ Restart(p) \/ Carry(p)
    \/ \E q \in Peer : Connected(p, q) \/ Handshake(p, q) \/ Sync(p, q)

Next ==
  \/ Progress
  \/ \E p \in Peer :
       \/ CreateGroup(p) \/ LeaveGroup(p) \/ ClearTripData(p) \/ PublishNote(p) \/ Crash(p)
       \/ \E pin \in 1..issued.pins : JoinWithPin(p, pin)
       \/ \E q \in Peer : Push(p, q) \/ Part(p, q) \/ Lose(p, q)

Spec == Init /\ [][Next]_vars

(* Processes are started again, the secure storage works, channels become    *)
(* ready, messages arrive, and connected devices exchange digests.           *)
FairSpec == Spec /\ WF_vars(Progress)

-----------------------------------------------------------------------------
(* Every device is in the state that its handlers leave it in: a group comes *)
(* with members, a PIN is shown by a founder only, a channel carries nothing *)
(* for a dead process, and each stored event is one that was published.      *)
Groups == 1..Len(founders)

TypeOK ==
  /\ founders \in Seq(Founder) /\ alive \subseteq Peer /\ met \subseteq Peer \X Peer
  /\ \A p \in Peer :
       /\ \A m \in {Saved(mem[p]), row[p]} :
            /\ m.group \in Groups \cup {0} /\ m.members \subseteq Peer
            /\ m.keys \subseteq Peer /\ m.pin \in 0..issued.pins
            /\ m.group # 0 <=> m.members # {}
            /\ m.pin # 0 => Owns(p, m) \/ m.group \in past.moved
       /\ chain[p] \in Groups \cup {0} /\ mem[p].key \in Groups \cup {0}
       /\ nextSeq[p] \in 1..issued.events + 1
       /\ \A e \in log[p] :
            /\ e.id \in 1..issued.events /\ e.sender \in Peer /\ e.group \in Groups
            /\ e.members \subseteq Peer /\ e.keys \subseteq Peer
       /\ p \notin alive =>
            /\ orders[p] = <<>>
            /\ \A q \in Peer : control[p][q] = <<>> /\ control[q][p] = <<>>
  /\ faults \in 0..MaxFaults

(* Whoever p lists as a member of its group has at some time held the        *)
(* group's credential.                                                       *)
ListsAdmitted(p) == \A q \in mem[p].members : <<q, mem[p].group>> \in past.held

(* Both sides of a handshake confirm the group (TASK.md), so nobody is a     *)
(* member of a group whose credential it never had. on_join_confirmation     *)
(* adds the joiner to the group of the moment, and a handshake that the      *)
(* owner began as a joiner may have put another group in its place.          *)
MembersConfirmedGroup == \A p \in Peer : ListsAdmitted(p)

(* Where no device came straight from another group, a list never runs ahead *)
(* of the handshake, whichever way it arrived, by credential or by event.    *)
MembersAreAdmitted == \A p \in Peer : mem[p].group \notin past.moved => ListsAdmitted(p)

(* Whoever the founder of such a group lists has the group saved, unless it  *)
(* gave it up: an admission that the group was told of survives a death of   *)
(* the admitted device (on_join_response saves before it confirms).          *)
AdmittedIsDurable ==
  \A p \in Peer : Owns(p, mem[p]) /\ mem[p].group \notin past.moved =>
    \A q \in mem[p].members : row[q].group = mem[p].group \/ <<q, mem[p].group>> \in past.left

(* The public key of every member listed is known, also after a restart:     *)
(* nobody's events are refused for a key that came apart from its list.      *)
KeysCoverMembers ==
  \A p \in Peer : mem[p].members \subseteq mem[p].keys /\ row[p].members \subseteq row[p].keys

(* All of it: who is listed was admitted, durably, and with a key.           *)
MembershipSound == TypeOK /\ MembersAreAdmitted /\ AdmittedIsDurable /\ KeysCoverMembers

(* One sequence of a sender names one event wherever it is stored, through   *)
(* groups left and founded, unless the sender cleared its log.               *)
SlotsAgree ==
  \A p, q \in Peer : \A e \in log[p], f \in log[q] :
    Slot(e) = Slot(f) => e = f \/ e.sender \in past.cleared

(* A device stores events only of groups that it was at some time a member   *)
(* of, although digests name no group and offer what an earlier one left.    *)
OnlyMembersHold ==
  \A p \in Peer : \A e \in log[p] : <<p, e.group>> \in past.held

(* Logs neither mix the events of groups nor confuse a sender's events.      *)
LogsKeepApart == SlotsAgree /\ OnlyMembersHold

(* Nothing was lost and nobody left.                                         *)
Undisturbed == ~past.lost /\ past.left = {}

SameGroup(p, q) == mem[p].group # 0 /\ mem[p].group = mem[q].group

(* Undisturbed, whoever holds a group is in the end listed by its founder,   *)
(* however the handshakes, orders and events of the devices interleave.      *)
ConfirmedInTheEnd ==
  <>[](\A p, q \in Peer :
         Undisturbed /\ SameGroup(p, q) /\ Owns(p, mem[p]) => q \in mem[p].members)

(* While nobody has left a group or cleared its log, and in a group that no  *)
(* device joined straight from another one, connected devices get the events *)
(* of their group from each other in the end, whatever died and was lost     *)
(* meanwhile, if they know the public keys of all senders. An event that is  *)
(* refused, as one of another group is, ends every batch it is in, and the   *)
(* events after it do not come (handle_wire_message).                        *)
KnowsSenders(p, q) == \A e \in log[p] : e.sender \in mem[q].keys

Complete(p, q) == \A e \in log[p] : e.group = mem[p].group => e \in log[q]

EventsArrive ==
  <>[](\A p, q \in Peer :
         Linked(p, q) /\ KnowsSenders(p, q) /\ past.left = {} /\ mem[p].group \notin past.moved
           => Complete(p, q))
=============================================================================
