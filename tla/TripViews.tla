----------------------------- MODULE TripViews ------------------------------
(* What devices show of the events they share (travel-core, document, im):   *)
(* the places, the chats, and the document Trip.md with its editor lease.    *)
(* A device presents its own event as it makes it and another's once, as it  *)
(* takes it into its log, in whatever order they come. The log is written    *)
(* event by event, the view is saved when a handler ends, and a device can   *)
(* die in between. Stamps are from the clocks of the devices, which may      *)
(* differ. The views of different kinds never touch each other, so the users *)
(* of a behaviour work on one of them.                                       *)
EXTENDS Naturals, FiniteSets, SequencesExt

CONSTANTS
  Peer,          \* numbers: the code compares authors
  Owner,         \* the owner of the group
  Topics,        \* "places", "chats", "document": what the users work on
  Skews,         \* by how much clocks may be ahead
  Duration,      \* of a lease
  MaxEvents,     \* bound: what users do
  MaxTime,       \* bound: time that passes
  MaxFaults      \* bound: publications that the store refuses, deaths in a handler

ASSUME ConstantsAssumption ==
  /\ Peer \subseteq Nat /\ Owner \in Peer
  /\ Topics \subseteq {"places", "chats", "document"}
  /\ Skews \subseteq Nat /\ Duration \in Nat \ {0}
  /\ MaxEvents \in Nat /\ MaxTime \in Nat /\ MaxFaults \in Nat

VARIABLES
  topic,    \* what the users work on
  skew,     \* by how much each clock is ahead
  now,      \* the time
  issued,   \* how many things users have done
  log,      \* events on disk
  view,     \* what each device has presented of them
  doc,      \* the document's state in memory: its revisions and leases
  row,      \* the view saved
  running,  \* devices whose core runs
  work,     \* what a handler has still to take of a batch of events
  editor,   \* the open editor of each device
  past      \* what happened, see Init

vars == <<topic, skew, now, issued, log, view, doc, row, running, work, editor, past>>

-----------------------------------------------------------------------------
None == <<>>
Everyone == 0
NoPlaces == <<>>

Clock(p) == now + skew[p]
NewId == issued + 1

Has(f, x) == x \in DOMAIN f
Put(f, x, v) == [y \in DOMAIN f \cup {x} |-> IF y = x THEN v ELSE f[y]]

(* DocumentState. A lease that is not released ends when it expires.         *)
Empty == [places |-> NoPlaces, chats |-> <<>>, revisions |-> <<>>, leases |-> <<>>]
NoDocument == [revisions |-> {}, leases |-> <<>>]

HasRevision(d, id) == \E r \in d.revisions : r.id = id
HasParent(d, r) == r.parent = None \/ HasRevision(d, r.parent[1])
Inserted(d, r) == [d EXCEPT !.revisions = @ \cup {r}]

Active(leases, time) == {l \in DOMAIN leases : leases[l].from <= time /\ time < leases[l].till}

(* The earliest acquisition wins.                                            *)
Earlier(leases, l, k) ==
  \/ leases[l].from < leases[k].from
  \/ leases[l].from = leases[k].from /\ l <= k

ActiveLease(d, time) ==
  {l \in Active(d.leases, time) : \A k \in Active(d.leases, time) : Earlier(d.leases, l, k)}

(* Variant: a lease does not count at the moment of its acquisition.         *)
HeldByAnotherBefore(p, d, time) ==
  \E l \in ActiveLease(d, time) : d.leases[l].holder # p /\ d.leases[l].from < time

HeldByAnother(p, d, time) == \E l \in ActiveLease(d, time) : d.leases[l].holder # p

(* The head is the tip that was made last; the other tips are conflict       *)
(* copies.                                                                   *)
Tips(d) == {r \in d.revisions : \A s \in d.revisions : s.parent # <<r.id>>}

Newer(r, s) ==
  \/ r.stamp > s.stamp
  \/ r.stamp = s.stamp /\ r.author > s.author
  \/ r.stamp = s.stamp /\ r.author = s.author /\ r.id >= s.id

IsHead(d, r) == r \in Tips(d) /\ \A s \in Tips(d) : Newer(r, s)

HeadId(d) ==
  IF d.revisions = {} THEN None ELSE <<(CHOOSE r \in d.revisions : IsHead(d, r)).id>>

(* The document's state is rebuilt from the lists saved; a revision before   *)
(* its parent, or without it, stops the core from starting.                  *)
Loadable(v) ==
  \A k \in DOMAIN v.revisions :
    \/ v.revisions[k].parent = None
    \/ \E j \in 1..k-1 : <<v.revisions[j].id>> = v.revisions[k].parent

Loaded(v) == [revisions |-> ToSet(v.revisions), leases |-> v.leases]

(* past: who failed to publish; events on disk that are not presented, as    *)
(* they were refused or a death took what they did; events presented since   *)
(* the view was saved; who took a part of a batch and refused the rest;      *)
(* whether someone worked on old events; failed publications and deaths.     *)
Init ==
  /\ topic \in Topics
  /\ skew \in [Peer -> Skews] /\ \E p \in Peer : skew[p] = 0
  /\ now = 0 /\ issued = 0
  /\ log = [p \in Peer |-> {}]
  /\ view = [p \in Peer |-> Empty]
  /\ doc = [p \in Peer |-> NoDocument]
  /\ row = [p \in Peer |-> Empty]
  /\ running = Peer
  /\ work = [p \in Peer |-> {}]
  /\ editor = [p \in Peer |-> None]
  /\ past = [failed |-> {}, unused |-> [p \in Peer |-> {}], unsaved |-> [p \in Peer |-> {}],
             refused |-> {}, apart |-> FALSE, faults |-> 0]

-----------------------------------------------------------------------------
(* A handler ends well: the view is saved.                                   *)
Saves(p, v, d, h) ==
  /\ view' = [view EXCEPT ![p] = v]
  /\ doc' = [doc EXCEPT ![p] = d]
  /\ row' = [row EXCEPT ![p] = v]
  /\ past' = [h EXCEPT !.unsaved[p] = {}, !.refused = @ \ {p}]
  /\ UNCHANGED running

(* A device starts again from what it has saved; lost: events on disk that   *)
(* memory had not presented yet.                                             *)
Reloads(p, lost, h) ==
  /\ IF Loadable(row[p])
     THEN /\ view' = [view EXCEPT ![p] = row[p]]
          /\ doc' = [doc EXCEPT ![p] = Loaded(row[p])]
          /\ UNCHANGED running
     ELSE /\ running' = running \ {p}
          /\ UNCHANGED <<view, doc>>
  /\ editor' = [editor EXCEPT ![p] = None]
  /\ past' = [h EXCEPT !.unused[p] = @ \cup h.unsaved[p] \cup lost,
                       !.unsaved[p] = {}, !.refused = @ \ {p}]
  /\ UNCHANGED row

Faulty(h) == [h EXCEPT !.faults = @ + 1]

(* A core carries out one command or event at a time.                        *)
Idle(p) == p \in running /\ work[p] = {}

Commands(p) ==
  /\ Idle(p)
  /\ issued < MaxEvents
  /\ issued' = issued + 1
  /\ UNCHANGED <<topic, skew, now, work>>

Presented(p) == log[p] \ past.unused[p]

InTouch(p) == \A q \in Peer : log[q] \subseteq Presented(p)

Apart(p) == [past EXCEPT !.apart = @ \/ (topic = "document" /\ ~InTouch(p))]

(* publish and the end of its handler: v, d and open are the view, the       *)
(* document and the editor after. The process can die with the event stored. *)
Publishes(p, e, v, d, open) ==
  /\ log' = [log EXCEPT ![p] = @ \cup {e}]
  /\ \/ Saves(p, v, d, Apart(p)) /\ editor' = [editor EXCEPT ![p] = open]
     \/ past.faults < MaxFaults /\ Reloads(p, {e}, Faulty(Apart(p)))

(* A failed publication leaves in memory what the command has changed before *)
(* it, v and d; the next handler that succeeds saves it.                     *)
PublishFails(p, v, d, open) ==
  /\ past.faults < MaxFaults
  /\ view' = [view EXCEPT ![p] = v]
  /\ doc' = [doc EXCEPT ![p] = d]
  /\ editor' = [editor EXCEPT ![p] = open]
  /\ past' = [Faulty(Apart(p)) EXCEPT !.failed = @ \cup {p}]
  /\ UNCHANGED <<log, row, running>>

Event(p, kind, body) == [id |-> NewId, sender |-> p, kind |-> kind, body |-> body]

-----------------------------------------------------------------------------
(* Places. The app lets the author and the owner of the group change one.    *)
Place(p, edit, deleted) == [edit |-> edit, stamp |-> Clock(p), deleted |-> deleted]

CreatePlace(p) ==
  /\ topic = "places"
  /\ Commands(p)
  /\ \E place \in {[id |-> NewId, author |-> p, base |-> None, value |-> Place(p, NewId, FALSE)]} :
       \/ Publishes(p, Event(p, "place", place),
                    [view[p] EXCEPT !.places = Put(@, NewId, place)], doc[p], editor[p])
       \/ PublishFails(p, view[p], doc[p], editor[p])

Manages(p, place) == p \in {place.author, Owner}

(* base: what the edit was made on.                                          *)
Edited(p, x, deleted) ==
  LET old == view[p].places[x]
  IN  [old EXCEPT !.base = <<old.value.stamp>>,
                  !.value = Place(p, IF deleted THEN old.value.edit ELSE NewId,
                                  deleted \/ old.value.deleted)]

EditPlace(p, x, kind) ==
  /\ topic = "places"
  /\ Commands(p)
  /\ Has(view[p].places, x) /\ Manages(p, view[p].places[x])
  /\ \E place \in {Edited(p, x, kind = "deletion")} :
     \E v \in {[view[p] EXCEPT !.places = Put(@, x, place)]} :
       \/ Publishes(p, Event(p, kind, place), v, doc[p], editor[p])
       \/ PublishFails(p, v, doc[p], editor[p])

UpdatePlace(p, x) == EditPlace(p, x, "place")
DeletePlace(p, x) == EditPlace(p, x, "deletion")

(* Chats: with everyone, or with one member.                                 *)
Message(id, chat, p) == [id |-> id, chat |-> chat, sender |-> p]

(* Variant: a message is shown before it is published.                       *)
SendMessageEarly(p, chat) ==
  /\ topic = "chats" /\ chat # p
  /\ Commands(p)
  /\ \E v \in {[view[p] EXCEPT !.chats = Append(@, Message(NewId, chat, p))]} :
       \/ Publishes(p, Event(p, "message", Message(NewId, chat, p)), v, doc[p], editor[p])
       \/ PublishFails(p, v, doc[p], editor[p])

SendMessage(p, chat) ==
  /\ topic = "chats" /\ chat # p
  /\ Commands(p)
  /\ \/ Publishes(p, Event(p, "message", Message(NewId, chat, p)),
                  [view[p] EXCEPT !.chats = Append(@, Message(NewId, chat, p))], doc[p], editor[p])
     \/ PublishFails(p, view[p], doc[p], editor[p])

-----------------------------------------------------------------------------
(* The document. Opening the editor takes the head as the parent of what     *)
(* will be saved, and acquires a lease; an editor that got one can edit      *)
(* until it is closed.                                                       *)
OpenEditor(p) ==
  /\ topic = "document" /\ editor[p] = None
  /\ ~HeldByAnother(p, doc[p], Clock(p))
  /\ Commands(p)
  /\ \E lease \in {[holder |-> p, from |-> Clock(p), till |-> Clock(p) + Duration]} :
     \E d \in {[doc[p] EXCEPT !.leases = Put(@, NewId, lease)]} :
       \/ Publishes(p, Event(p, "lease", lease), [view[p] EXCEPT !.leases = Put(@, NewId, lease)],
                    d, [parent |-> HeadId(doc[p]), saved |-> FALSE])
       \/ PublishFails(p, view[p], d, editor[p])

Revision(p, parent) == [id |-> NewId, author |-> p, stamp |-> Clock(p), parent |-> parent]

SaveDocument(p) ==
  /\ editor[p] # None /\ ~editor[p].saved
  /\ ~HeldByAnother(p, doc[p], Clock(p))
  /\ Commands(p)
  /\ \E r \in {Revision(p, editor[p].parent)} :
     \E d \in {Inserted(doc[p], r)} :
       \/ Publishes(p, Event(p, "revision", r), [view[p] EXCEPT !.revisions = Append(@, r)],
                    d, [editor[p] EXCEPT !.saved = TRUE])
       \/ PublishFails(p, view[p], d, editor[p])

Released(leases, l, time) == [leases EXCEPT ![l].till = time]
Least(a, b) == IF a <= b THEN a ELSE b

(* The app releases the active lease, which must be the device's own.        *)
CloseEditor(p) ==
  /\ editor[p] # None /\ Idle(p)
  /\ \E own \in {{l \in ActiveLease(doc[p], Clock(p)) : doc[p].leases[l].holder = p}} :
       IF own = {}
       THEN /\ editor' = [editor EXCEPT ![p] = None]
            /\ UNCHANGED <<topic, skew, now, issued, log, view, doc, row, running, work, past>>
       ELSE /\ Commands(p)
            /\ \E l \in own :
               \E v \in {[view[p] EXCEPT !.leases =
                            IF Has(@, l) THEN Released(@, l, Clock(p)) ELSE @]},
                  d \in {[doc[p] EXCEPT !.leases = Released(@, l, Least(@[l].till, Clock(p)))]} :
                 \/ Publishes(p, Event(p, "release", [lease |-> l, time |-> Clock(p)]), v, d, None)
                 \/ PublishFails(p, v, d, None)

-----------------------------------------------------------------------------
(* materialize_event: view, document and whether the event had an effect.    *)
Effect(v, d) == [view |-> v, doc |-> d, used |-> TRUE]
NoEffect(v, d) == [view |-> v, doc |-> d, used |-> FALSE]

OnPlace(v, d, place) ==
  IF Has(v.places, place.id) /\ place.value.stamp < v.places[place.id].value.stamp
  THEN Effect(v, d)
  ELSE Effect([v EXCEPT !.places = Put(@, place.id, place)], d)

(* Variant: a deletion leaves the stamp of the place.                        *)
OnDeletionUnstamped(v, d, place) ==
  IF ~Has(v.places, place.id) THEN NoEffect(v, d)
  ELSE IF place.value.stamp < v.places[place.id].value.stamp THEN Effect(v, d)
  ELSE Effect([v EXCEPT !.places[place.id].value.deleted = TRUE], d)

OnDeletion(v, d, place) ==
  IF ~Has(v.places, place.id) THEN NoEffect(v, d)
  ELSE IF place.value.stamp < v.places[place.id].value.stamp THEN Effect(v, d)
  ELSE Effect([v EXCEPT !.places[place.id].value.deleted = TRUE,
                        !.places[place.id].value.stamp = place.value.stamp], d)

OnMessage(v, d, message) ==
  IF \E k \in DOMAIN v.chats : v.chats[k].id = message.id THEN Effect(v, d)
  ELSE Effect([v EXCEPT !.chats = Append(@, message)], d)

(* Variant: of two revisions of one parent the later to come is dropped.     *)
OnFirstRevision(v, d, r) ==
  IF ~HasParent(d, r) THEN NoEffect(v, d)
  ELSE IF \E s \in d.revisions : s.id = r.id \/ s.parent = r.parent THEN Effect(v, d)
  ELSE Effect([v EXCEPT !.revisions = Append(@, r)], Inserted(d, r))

OnRevision(v, d, r) ==
  IF ~HasParent(d, r) THEN NoEffect(v, d)
  ELSE IF HasRevision(d, r.id) THEN Effect(v, d)
  ELSE Effect([v EXCEPT !.revisions = Append(@, r)], Inserted(d, r))

OnLease(v, d, l, lease) ==
  IF Has(v.leases, l) THEN Effect(v, d)
  ELSE Effect([v EXCEPT !.leases = Put(@, l, lease)], [d EXCEPT !.leases = Put(@, l, lease)])

(* Variant: the list that is saved does not learn of the release.            *)
OnReleaseInMemory(v, d, l, time) ==
  IF ~Has(d.leases, l) THEN NoEffect(v, d)
  ELSE Effect(v, [d EXCEPT !.leases = Released(@, l, Least(@[l].till, time))])

OnRelease(v, d, l, time) ==
  IF ~Has(d.leases, l) THEN NoEffect(v, d)
  ELSE Effect([v EXCEPT !.leases = IF Has(@, l) THEN Released(@, l, time) ELSE @],
              [d EXCEPT !.leases = Released(@, l, Least(@[l].till, time))])

Materialized(v, d, e) ==
  CASE e.kind = "place"    -> OnPlace(v, d, e.body)
    [] e.kind = "deletion" -> OnDeletion(v, d, e.body)
    [] e.kind = "message"  -> OnMessage(v, d, e.body)
    [] e.kind = "revision" -> OnRevision(v, d, e.body)
    [] e.kind = "lease"    -> OnLease(v, d, e.id, e.body)
    [] e.kind = "release"  -> OnRelease(v, d, e.body.lease, e.body.time)

(* An event of a batch is stored and then taken. The batch goes on, and the  *)
(* view is saved when it ends.                                               *)
Takes(p, e, rest) ==
  \E result \in {Materialized(view[p], doc[p], e)} :
    /\ result.used \/ e.kind = "deletion"
    /\ work' = [work EXCEPT ![p] = rest]
    /\ UNCHANGED editor
    /\ \E h \in {IF result.used THEN [past EXCEPT !.unsaved[p] = @ \cup {e}]
                 ELSE [past EXCEPT !.unused[p] = @ \cup {e}]} :
         IF rest = {}
         THEN Saves(p, result.view, result.doc, h)
         ELSE /\ view' = [view EXCEPT ![p] = result.view]
              /\ doc' = [doc EXCEPT ![p] = result.doc]
              /\ past' = h
              /\ UNCHANGED <<row, running>>

(* A revision or release that cannot be applied is an error, which ends the  *)
(* batch: the event stays in the log, and nothing is saved, of the events    *)
(* before it neither.                                                        *)
Refuses(p, e) ==
  /\ ~Materialized(view[p], doc[p], e).used /\ e.kind # "deletion"
  /\ work' = [work EXCEPT ![p] = {}]
  /\ past' = [past EXCEPT !.unused[p] = @ \cup {e},
                          !.refused = IF past.unsaved[p] = {} THEN @ ELSE @ \cup {p}]
  /\ UNCHANGED <<view, doc, row, running, editor>>

(* The process dies after it has stored the event and before it has saved.   *)
DiesTaking(p, e) ==
  /\ past.faults < MaxFaults
  /\ work' = [work EXCEPT ![p] = {}]
  /\ Reloads(p, {e}, Faulty(past))

Receive(p, batch) ==
  \E e \in batch :
    /\ \A f \in batch : e.id <= f.id
    /\ log' = [log EXCEPT ![p] = @ \cup {e}]
    /\ Takes(p, e, batch \ {e}) \/ Refuses(p, e) \/ DiesTaking(p, e)
    /\ UNCHANGED <<topic, skew, now, issued>>

Meets(p, q) == p # q /\ p \in running /\ Idle(q)

(* A new event goes at once to whom its sender is connected to, past earlier *)
(* events that are still missing there.                                      *)
Push(p, q) ==
  /\ Meets(p, q)
  /\ \E e \in Presented(p) \ log[q] :
       /\ e.sender = p
       /\ \A f \in log[p] : f.sender = p /\ f.id > e.id => f \notin log[q]
       /\ Receive(q, {e})

(* Digests are answered with a batch, in an order that agrees with what      *)
(* events know of each other, by a handler that has saved.                   *)
Sync(p, q) ==
  /\ Meets(p, q) /\ Idle(p) /\ row[p] = view[p]
  /\ Receive(q, log[p] \ log[q])

Continue(p) == p \in running /\ Receive(p, work[p])

(* Another handler succeeds, and saves what memory holds.                    *)
Persist(p) ==
  /\ Idle(p) /\ row[p] # view[p]
  /\ Saves(p, view[p], doc[p], past)
  /\ UNCHANGED <<topic, skew, now, issued, log, work, editor>>

Restart(p) ==
  /\ Idle(p)
  /\ Reloads(p, {}, past)
  /\ UNCHANGED <<topic, skew, now, issued, log, work>>

Advance ==
  /\ topic # "chats" /\ now < MaxTime
  /\ now' = now + 1
  /\ UNCHANGED <<topic, skew, issued, log, view, doc, row, running, work, editor, past>>

Next ==
  \/ Advance
  \/ \E p \in Peer :
       \/ CreatePlace(p) \/ OpenEditor(p) \/ SaveDocument(p) \/ CloseEditor(p)
       \/ Continue(p) \/ Persist(p) \/ Restart(p)
       \/ \E x \in 1..issued : UpdatePlace(p, x) \/ DeletePlace(p, x)
       \/ \E chat \in Peer \cup {Everyone} : SendMessage(p, chat)
       \/ \E q \in Peer : Push(p, q) \/ Sync(p, q)

Spec == Init /\ [][Next]_vars

-----------------------------------------------------------------------------
(* Views hold what was made, with parents, stamps and leases as their makers *)
(* gave them; a core that does not run has a list it cannot load.            *)
Ids == 1..issued

TypeOK ==
  /\ issued \in 0..MaxEvents /\ now \in 0..MaxTime /\ running \subseteq Peer
  /\ \A p \in Peer :
       /\ \A e \in log[p] : e.id \in Ids /\ e.sender \in Peer
       /\ \A v \in {view[p], row[p]} :
            /\ DOMAIN v.places \subseteq Ids /\ DOMAIN v.leases \subseteq Ids
            /\ \A x \in DOMAIN v.places : v.places[x].value.edit \in Ids /\ v.places[x].id = x
            /\ \A k \in DOMAIN v.chats : v.chats[k].chat \in Peer \cup {Everyone}
       /\ ToSet(view[p].revisions) \subseteq doc[p].revisions
       /\ \A r \in doc[p].revisions : HasParent(doc[p], r)
       /\ p \notin running => ~Loadable(row[p])

(* Devices that present the same events of a place agree on whether it is    *)
(* there and what it says, in whatever order the events came, provided that  *)
(* no two edits have the same stamp, that no edit was made by a clock behind *)
(* the stamp of what it edits, and that no publication failed. A device does *)
(* not present a deletion that came before the place, and no event that it   *)
(* died of between storing it and saving the view (materialize_event).       *)
Edits(x) == {e \in UNION {log[p] : p \in Peer} : e.kind \in {"place", "deletion"} /\ e.body.id = x}

InOrder(edits) ==
  /\ \A e, f \in edits : e.body.value.stamp = f.body.value.stamp => e = f
  /\ \A e \in edits : e.body.base # None => e.body.base[1] < e.body.value.stamp

Orderly(x) == past.failed = {} /\ InOrder(Edits(x))

Shown(p, x) ==
  IF ~Has(view[p].places, x) \/ view[p].places[x].value.deleted THEN {} ELSE {view[p].places[x].value}

PlacesConverge ==
  \A x \in Ids : topic = "places" /\ Orderly(x) => \A p, q \in Peer :
    Edits(x) \cap Presented(p) = Edits(x) \cap Presented(q) => Shown(p, x) = Shown(q, x)

(* No death cut off the publication of an event.                             *)
PublishedWhole == \A p \in Peer : \A e \in past.unused[p] : e.sender # p

(* Devices that present the same events of the document present the same     *)
(* head, the same conflict copies and the same lease, in whatever order the  *)
(* events came, provided that no publication failed or was cut off by a      *)
(* death. A device does not present an event that came before what it builds *)
(* on, and none that it died of before it saved the view.                    *)
DocumentsConverge ==
  \A p, q \in Peer :
    Presented(p) = Presented(q) /\ past.failed = {} /\ PublishedWhole =>
      /\ HeadId(doc[p]) = HeadId(doc[q])
      /\ Tips(doc[p]) = Tips(doc[q])
      /\ \A time \in Clock(p)..MaxTime + Duration : ActiveLease(doc[p], time) = ActiveLease(doc[q], time)

(* In normal connectivity only one member edits (TASK.md): while clocks      *)
(* agree, no publication failed or was cut off by a death, and nobody has    *)
(* worked without presenting the latest events (that a device died of one    *)
(* before it saved the view is a reason not to), at most one device has a    *)
(* lease of its own that has not ended.                                      *)
Together == ~past.apart /\ past.failed = {} /\ PublishedWhole /\ \A p, q \in Peer : skew[p] = skew[q]

Holds(p) == \E l \in Active(doc[p].leases, Clock(p)) : doc[p].leases[l].holder = p

ConnectedTakeTurns ==
  Together => \A p, q \in Peer : Holds(p) /\ Holds(q) => p = q

(* A device presents each message on its disk exactly once, and none that    *)
(* was not published, also when publications fail. The messages that it does *)
(* not present are those that it died of between storing them and saving     *)
(* the view, and it never does (insert_remote, publish_local, persist).      *)
MessagesOnce ==
  \A p \in Peer : topic = "chats" =>
    /\ IsInjective(view[p].chats)
    /\ ToSet(view[p].chats) = {e.body : e \in Presented(p)}
    /\ past.faults = 0 => Presented(p) = log[p]

(* Both: a device presents only what was made, and every message once.       *)
ViewsSound == TypeOK /\ MessagesOnce

(* Unless a publication failed, a core can always start again. Between two   *)
(* handlers it presents after a restart what it presented before, released   *)
(* leases and all, unless it took a part of a batch and refused the rest; a  *)
(* release that a death cut off is made again with another time, and then    *)
(* leases can differ (TravelCore::new).                                      *)
RestartChangesNothing ==
  \A p \in Peer : p \notin past.failed =>
    /\ Loadable(row[p])
    /\ work[p] = {} /\ p \notin past.refused =>
         /\ row[p] = view[p]
         /\ PublishedWhole => Loaded(row[p]) = doc[p]
=============================================================================
