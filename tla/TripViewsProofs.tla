--------------------------- MODULE TripViewsProofs ---------------------------
(* Proofs about TripViews.  Every property of its run is proved for any      *)
(* group, any clocks, any topic and any number of events and faults: what    *)
(* views hold, that places and the document converge, that connected members *)
(* take turns at the editor, and what a restart changes. The invariant says  *)
(* of memory how it belongs to the events that a device presents, and of     *)
(* what is saved how it belongs to those of them that are safe: a save takes *)
(* the one to the other, and a restart the other way.                        *)
EXTENDS TripViews, SequenceTheorems, NaturalsInduction, WellFoundedInduction, TLAPS

Kinds == {"place", "deletion", "message", "revision", "lease", "release"}

Optional == {None} \cup {<<n>> : n \in Nat}

Tables(V) == UNION {[S -> V] : S \in SUBSET Nat}

Values    == [edit : Nat, stamp : Nat, deleted : BOOLEAN]
Places    == [id : Nat, author : Peer, base : Optional, value : Values]
Messages  == [id : Nat, chat : Peer \cup {Everyone}, sender : Peer]
Revisions == [id : Nat, author : Peer, stamp : Nat, parent : Optional]
Leases    == [holder : Peer, from : Nat, till : Nat]
Releases  == [lease : Nat, time : Nat]

Views     == [places : Tables(Places), chats : Seq(Messages),
              revisions : Seq(Revisions), leases : Tables(Leases)]
Documents == [revisions : SUBSET Revisions, leases : Tables(Leases)]
Editors   == [parent : Optional, saved : BOOLEAN]

Made(kinds, Body) == [id : Nat, sender : Peer, kind : kinds, body : Body]

Events ==
  Made({"place", "deletion"}, Places) \cup Made({"message"}, Messages)
  \cup Made({"revision"}, Revisions) \cup Made({"lease"}, Leases)
  \cup Made({"release"}, Releases)

Histories ==
  [failed : SUBSET Peer, unused : [Peer -> SUBSET Events], unsaved : [Peer -> SUBSET Events],
   refused : SUBSET Peer, apart : BOOLEAN, faults : 0..MaxFaults]

Typed ==
  /\ skew \in [Peer -> Nat] /\ now \in 0..MaxTime /\ issued \in 0..MaxEvents
  /\ log \in [Peer -> SUBSET Events]
  /\ view \in [Peer -> Views] /\ row \in [Peer -> Views]
  /\ doc \in [Peer -> Documents]
  /\ running \subseteq Peer
  /\ editor \in [Peer -> {None} \cup Editors]
  /\ work \in [Peer -> SUBSET Events]
  /\ past \in Histories

(* Events are made once, by who has them.                                    *)
Named(e) ==
  /\ e.id \in Ids /\ e \in log[e.sender]
  /\ e.kind \in {"place", "deletion"} =>
       e.body.id \in Ids /\ e.body.value.edit \in Ids
  /\ e.kind = "deletion" => e.body.value.deleted
  /\ e.kind \in {"message", "revision"} => e.body.id = e.id
  /\ topic = "chats" <=> e.kind = "message"

Logs ==
  /\ \A p \in Peer : editor[p] # None => topic # "chats"
  /\ \A p \in Peer : \A e \in log[p] : Named(e)
  /\ \A p, q \in Peer : \A e \in log[p], f \in log[q] : e.id = f.id => e = f
  /\ \A p \in Peer : past.unused[p] \subseteq log[p]

(* A batch holds events that are new to the device. What is not saved yet    *)
(* was made by others, and taken in this batch or one that was refused.      *)
Works ==
  \A p \in Peer :
    /\ \A e \in work[p] : e \notin log[p] /\ \E q \in Peer : e \in log[q]
    /\ past.unsaved[p] \subseteq Presented(p)
    /\ \A e \in past.unsaved[p] : e.sender # p
    /\ past.unsaved[p] # {} => work[p] # {} \/ p \in past.refused

(* Events that a device still presents after a death.                        *)
Safe(p) == Presented(p) \ past.unsaved[p]

(* What tables of places hold.                                               *)
Listed(t) ==
  \A x \in DOMAIN t : x \in Ids /\ t[x].id = x /\ t[x].value.edit \in Ids

Lists == \A p \in Peer : Listed(view[p].places) /\ Listed(row[p].places)

(* The edits of a place that a device presents, and the last of them.        *)
Taken(p, x) == Edits(x) \cap Presented(p)

LastOf(e, taken) ==
  e \in taken /\ \A f \in taken : f.body.value.stamp <= e.body.value.stamp

Says(place, value) ==
  /\ place.value.stamp = value.stamp /\ place.value.deleted = value.deleted
  /\ value.deleted \/ place.value = value

Fits(t, x, taken) ==
  /\ Has(t, x) <=> taken # {}
  /\ Has(t, x) => \E e \in taken : LastOf(e, taken) /\ Says(t[x], e.body.value)

Presents(p, x) == Fits(view[p].places, x, Taken(p, x))

Converging == \A p \in Peer : \A x \in Ids : Orderly(x) => Presents(p, x)

(* Chats.                                                                    *)
Chatting(v, events) ==
  /\ v.revisions = <<>>
  /\ IsInjective(v.chats)
  /\ ToSet(v.chats) = {e.body : e \in events}

Chats ==
  topic = "chats" =>
    /\ past.refused = {}
    /\ past.faults = 0 => \A p \in Peer : past.unused[p] = {}
    /\ \A p \in Peer : Chatting(view[p], Presented(p))

(* Revisions: made after their parents, by clocks and devices that have a    *)
(* bound, and never without their parents in memory.                         *)
Dated(r, b) ==
  /\ r.id \in Ids /\ r.stamp <= b /\ r.author <= b
  /\ r.parent # None => r.parent[1] < r.id

Parented(d) == \A r \in d.revisions : HasParent(d, r)

Loads(v, events) ==
  Loadable(v) /\ ToSet(v.revisions) = {e.body : e \in {f \in events : f.kind = "revision"}}

Drafts ==
  /\ \E b \in Nat : \A p \in Peer :
       /\ \A r \in doc[p].revisions : Dated(r, b)
       /\ \A r \in ToSet(row[p].revisions) : Dated(r, b)
       /\ \A e \in log[p] : e.kind = "revision" => Dated(e.body, b)
  /\ \A p \in Peer :
       /\ ToSet(view[p].revisions) \subseteq doc[p].revisions
       /\ Parented(doc[p])
       /\ editor[p] # None =>
            editor[p].parent = None \/ HasRevision(doc[p], editor[p].parent[1])
       /\ p \notin running => ~Loadable(row[p])
       /\ p \notin past.failed =>
            /\ Loads(view[p], Presented(p))
            /\ ToSet(view[p].revisions) = doc[p].revisions

(* Leases: who holds each and since when, wherever it is listed.             *)
Grants == [Nat -> [holder : Peer, from : Nat]]

Granted(grant, t) ==
  \A l \in DOMAIN t :
    /\ l \in Ids /\ t[l].holder = grant[l].holder /\ t[l].from = grant[l].from
    /\ t[l].from <= Clock(t[l].holder) /\ t[l].till <= t[l].from + Duration

(* A release is made once, by the holder, while the lease runs, and the      *)
(* holder knows of it.                                                       *)
TablesOf(p) == {view[p].leases, doc[p].leases, row[p].leases}

Ended(t, e) == e.body.lease \in DOMAIN t => t[e.body.lease].till <= e.body.time

GrantEvent(grant, e) ==
  /\ e.kind = "lease" =>
       /\ e.body.holder = e.sender /\ e.body.holder = grant[e.id].holder
       /\ e.body.from = grant[e.id].from /\ e.body.till = e.body.from + Duration
       /\ e.body.from <= Clock(e.sender)
  /\ e.kind = "release" =>
       /\ e.body.lease \in Ids /\ e.sender = grant[e.body.lease].holder
       /\ grant[e.body.lease].from <= e.body.time
       /\ e.body.time < grant[e.body.lease].from + Duration
       /\ e.body.time <= Clock(e.sender)

Grantings(grant) ==
  /\ \A p \in Peer : \A t \in TablesOf(p) : Granted(grant, t)
  /\ \A p \in Peer : \A e \in log[p] :
       /\ GrantEvent(grant, e)
       /\ PublishedWhole /\ e.kind = "release" => \A t \in TablesOf(e.sender) : Ended(t, e)

Turns ==
  /\ \E grant \in Grants : Grantings(grant)
  /\ PublishedWhole => \A p, q \in Peer : \A e \in log[p], f \in log[q] :
       e.kind = "release" /\ f.kind = "release" /\ e.body.lease = f.body.lease => e = f

(* What a device that never failed to publish knows of leases: the lease     *)
(* events it has, each until it was released or for its whole duration.      *)
Known(events, t) ==
  /\ \A l \in DOMAIN t : \E e \in events :
       /\ e.kind = "lease" /\ e.id = l
       /\ t[l].holder = e.body.holder /\ t[l].from = e.body.from
  /\ \A e \in events : e.kind = "lease" => e.id \in DOMAIN t
  /\ \A e \in events : e.kind = "release" =>
       e.body.lease \in DOMAIN t /\ t[e.body.lease].till = e.body.time
  /\ \A l \in DOMAIN t :
       \/ t[l].till = t[l].from + Duration
       \/ \E e \in events : e.kind = "release" /\ e.body.lease = l

Knowing ==
  PublishedWhole => \A p \in Peer : p \notin past.failed =>
    view[p].leases = doc[p].leases /\ Known(Presented(p), doc[p].leases)

(* What is saved.                                                            *)
Durable ==
  \A p \in Peer :
    /\ topic = "chats" => Chatting(row[p], Safe(p))
    /\ \A x \in Ids : Orderly(x) => Fits(row[p].places, x, Edits(x) \cap Safe(p))
    /\ p \notin past.failed =>
         /\ Loads(row[p], Safe(p))
         /\ PublishedWhole => Known(Safe(p), row[p].leases)
         /\ past.unsaved[p] = {} => row[p] = view[p]

Inv == /\ Typed /\ Logs /\ Works /\ Lists /\ Converging /\ Chats /\ Drafts
       /\ Turns /\ Knowing /\ Durable /\ ConnectedTakeTurns

-----------------------------------------------------------------------------
(* Tables, sequences and single elements *)

(* What a table is.                                                          *)
LEMMA TableFacts ==
  ASSUME NEW V, NEW t \in Tables(V)
  PROVE  /\ DOMAIN t \subseteq Nat
         /\ t \in [DOMAIN t -> V]
         /\ \A x \in DOMAIN t : x \in Nat /\ t[x] \in V
<1>1. PICK S \in SUBSET Nat : t \in [S -> V]
  BY DEF Tables
<1>2. QED
  BY <1>1

LEMMA IsTable ==
  ASSUME NEW V, NEW D \in SUBSET Nat, NEW t \in [D -> V]
  PROVE  t \in Tables(V)
  BY DEF Tables

LEMMA EmptyTable ==
  ASSUME NEW V
  PROVE  <<>> \in Tables(V) /\ DOMAIN <<>> = {}
<1>1. DOMAIN <<>> = {}
  OBVIOUS
<1>2. <<>> = [x \in {} |-> 0]
  OBVIOUS
<1>3. <<>> \in [{} -> V]
  BY <1>2
<1>4. QED
  BY <1>1, <1>3, IsTable

(* Put: one more entry, or another value for one.                            *)
LEMMA PutFacts ==
  ASSUME NEW V, NEW t \in Tables(V), NEW x \in Nat, NEW v \in V
  PROVE  /\ Put(t, x, v) \in Tables(V)
         /\ DOMAIN Put(t, x, v) = DOMAIN t \cup {x}
         /\ Put(t, x, v)[x] = v
         /\ \A y \in DOMAIN t : y # x => Put(t, x, v)[y] = t[y]
<1> DEFINE D == DOMAIN t \cup {x}
           u == [y \in D |-> IF y = x THEN v ELSE t[y]]
<1>1. Put(t, x, v) = u
  BY DEF Put
<1>2. DOMAIN t \subseteq Nat /\ \A y \in DOMAIN t : t[y] \in V
  BY TableFacts
<1>3. u \in [D -> V]
  BY <1>2
<1>4. D \in SUBSET Nat
  BY <1>2
<1>5. u \in Tables(V)
  BY <1>3, <1>4, IsTable
<1>6. QED
  BY <1>1, <1>5

LEMMA SameTables ==
  ASSUME NEW V, NEW t \in Tables(V), NEW u \in Tables(V),
         DOMAIN t = DOMAIN u, \A x \in DOMAIN t : t[x] = u[x]
  PROVE  t = u
  BY TableFacts

(* Released: the end of one lease is another, everything else stays.         *)
LEMMA ReleasedFacts ==
  ASSUME NEW t \in Tables(Leases), NEW l \in DOMAIN t, NEW time \in Nat
  PROVE  /\ Released(t, l, time) \in Tables(Leases)
         /\ DOMAIN Released(t, l, time) = DOMAIN t
         /\ Released(t, l, time)[l].till = time
         /\ Released(t, l, time)[l].holder = t[l].holder
         /\ Released(t, l, time)[l].from = t[l].from
         /\ \A k \in DOMAIN t : k # l => Released(t, l, time)[k] = t[k]
<1>1. DOMAIN t \subseteq Nat /\ t \in [DOMAIN t -> Leases] /\ t[l] \in Leases
  BY TableFacts
<1>2. PICK lease : lease = [t[l] EXCEPT !.till = time]
  OBVIOUS
<1>3. lease \in Leases /\ lease.till = time /\ lease.holder = t[l].holder /\ lease.from = t[l].from
  BY <1>1, <1>2 DEF Leases
<1>4. Released(t, l, time) = [t EXCEPT ![l] = lease]
  BY <1>2 DEF Released
<1>5. PICK u : u = [t EXCEPT ![l] = lease]
  OBVIOUS
<1>6. u \in [DOMAIN t -> Leases]
  BY <1>1, <1>3, <1>5
<1>7. DOMAIN u = DOMAIN t /\ u[l] = lease /\ \A k \in DOMAIN t : k # l => u[k] = t[k]
  BY <1>1, <1>5
<1>8. u \in Tables(Leases)
  BY <1>1, <1>6, IsTable
<1>9. QED
  BY <1>3, <1>4, <1>5, <1>7, <1>8

LEMMA OneElement ==
  ASSUME NEW S0, NEW x \in S0
  PROVE  <<x>> \in Seq(S0) /\ <<x>> # <<>> /\ <<x>>[1] = x /\ Len(<<x>>) = 1
  OBVIOUS

(* A sequence with one element more.                                         *)
LEMMA Appended ==
  ASSUME NEW S0, NEW list \in Seq(S0), NEW x \in S0
  PROVE  /\ Append(list, x) \in Seq(S0)
         /\ Len(Append(list, x)) = Len(list) + 1
         /\ Append(list, x)[Len(list) + 1] = x
         /\ \A k \in 1..Len(list) : Append(list, x)[k] = list[k]
         /\ ToSet(Append(list, x)) = ToSet(list) \cup {x}
<1>1. /\ Append(list, x) \in Seq(S0)
      /\ Len(Append(list, x)) = Len(list) + 1
      /\ Append(list, x)[Len(list) + 1] = x
      /\ \A k \in 1..Len(list) : Append(list, x)[k] = list[k]
  BY AppendProperties
<1>2. DOMAIN list = 1..Len(list) /\ Len(list) \in Nat
  OBVIOUS
<1>3. DOMAIN Append(list, x) = 1..(Len(list) + 1)
  BY <1>1
<1>4. PICK new : new = Append(list, x)
  OBVIOUS
<1>5. \A y \in ToSet(new) : y \in ToSet(list) \cup {x}
  BY <1>1, <1>2, <1>3, <1>4 DEF ToSet
<1>6. \A y \in ToSet(list) \cup {x} : y \in ToSet(new)
  BY <1>1, <1>2, <1>3, <1>4 DEF ToSet
<1>7. QED
  BY <1>1, <1>4, <1>5, <1>6

(* Views and documents with one part changed.                                *)
LEMMA ViewParts ==
  ASSUME NEW v \in Views
  PROVE  /\ v.places \in Tables(Places) /\ v.chats \in Seq(Messages)
         /\ v.revisions \in Seq(Revisions) /\ v.leases \in Tables(Leases)
  BY DEF Views

LEMMA ViewWithPlaces ==
  ASSUME NEW v \in Views, NEW t \in Tables(Places)
  PROVE  LET u == [v EXCEPT !.places = t]
         IN  /\ u \in Views /\ u.places = t /\ u.chats = v.chats
             /\ u.revisions = v.revisions /\ u.leases = v.leases
  BY DEF Views

LEMMA ViewWithChats ==
  ASSUME NEW v \in Views, NEW list \in Seq(Messages)
  PROVE  LET u == [v EXCEPT !.chats = list]
         IN  /\ u \in Views /\ u.chats = list /\ u.places = v.places
             /\ u.revisions = v.revisions /\ u.leases = v.leases
  BY DEF Views

LEMMA ViewWithRevisions ==
  ASSUME NEW v \in Views, NEW list \in Seq(Revisions)
  PROVE  LET u == [v EXCEPT !.revisions = list]
         IN  /\ u \in Views /\ u.revisions = list /\ u.places = v.places
             /\ u.chats = v.chats /\ u.leases = v.leases
  BY DEF Views

LEMMA ViewWithLeases ==
  ASSUME NEW v \in Views, NEW t \in Tables(Leases)
  PROVE  LET u == [v EXCEPT !.leases = t]
         IN  /\ u \in Views /\ u.leases = t /\ u.places = v.places
             /\ u.chats = v.chats /\ u.revisions = v.revisions
  BY DEF Views

LEMMA DocumentWithLeases ==
  ASSUME NEW d \in Documents, NEW t \in Tables(Leases)
  PROVE  LET u == [d EXCEPT !.leases = t]
         IN  u \in Documents /\ u.leases = t /\ u.revisions = d.revisions
  BY DEF Documents

LEMMA DocumentWithRevision ==
  ASSUME NEW d \in Documents, NEW r \in Revisions
  PROVE  /\ Inserted(d, r) \in Documents /\ Inserted(d, r).leases = d.leases
         /\ Inserted(d, r).revisions = d.revisions \cup {r}
  BY DEF Documents, Inserted

-----------------------------------------------------------------------------
(* Events are made once *)

(* Named: what makes an event a proper one stays true of it.                 *)
LEMMA NamedStays ==
  ASSUME NEW e, e \in Events, Named(e), Typed, topic' = topic, issued' \in Nat, issued <= issued',
         \A q \in Peer : log[q] \subseteq log'[q]
  PROVE  Named(e)'
<1>1. e.sender \in Peer
  BY DEF Events, Made
<1>2. issued \in Nat
  BY DEF Typed
<1>3. e.id \in 1..issued' /\ e \in log'[e.sender]
  BY <1>1, <1>2 DEF Named, Ids
<1>4. e.kind \in {"place", "deletion"} =>
        e.body.id \in 1..issued' /\ e.body.value.edit \in 1..issued'
  BY <1>2 DEF Named, Ids
<1>5. QED
  BY <1>3, <1>4 DEF Named, Ids

LEMMA LogsStay ==
  ASSUME Typed, Logs, topic' = topic, issued' \in Nat, issued <= issued', UNCHANGED log,
         \A p \in Peer : past'.unused[p] \subseteq log[p],
         \A p \in Peer : editor'[p] # None => topic # "chats"
  PROVE  Logs'
<1>1. ASSUME NEW p \in Peer, NEW e \in log'[p] PROVE Named(e)'
  <2>1. e \in Events /\ Named(e)
    BY <1>1 DEF Typed, Logs
  <2>2. QED
    BY <2>1, NamedStays
<1>2. QED
  BY <1>1 DEF Logs

LEMMA LogsPublished ==
  ASSUME Typed, Logs, topic' = topic, issued' = issued + 1,
         NEW p \in Peer, NEW e \in Events, e.id = issued + 1, e.sender = p,
         log' = [log EXCEPT ![p] = @ \cup {e}], \A q \in Peer : past'.unused[q] \subseteq log'[q],
         Named(e)', \A q \in Peer : editor'[q] # None => topic # "chats"
  PROVE  Logs'
<1>1. issued \in Nat /\ \A q \in Peer : log[q] \subseteq log'[q]
  BY DEF Typed
<1>2. ASSUME NEW q \in Peer, NEW f \in log'[q] PROVE f = e \/ f \in log[q]
  BY DEF Typed
<1>3. ASSUME NEW q \in Peer, NEW f \in log'[q] PROVE Named(f)'
  <2>1. CASE f = e
    BY <2>1
  <2>2. CASE f \in log[q]
    <3>1. f \in Events /\ Named(f)
      BY <2>2 DEF Typed, Logs
    <3>2. QED
      BY <1>1, <3>1, NamedStays
  <2>3. QED
    BY <1>2, <1>3, <2>1, <2>2
<1>4. ASSUME NEW q \in Peer, NEW f \in log[q] PROVE f.id # e.id
  <2>1. Named(f)
    BY <1>4 DEF Logs
  <2>2. QED
    BY <1>1, <2>1 DEF Named, Ids
<1>5. ASSUME NEW q \in Peer, NEW r \in Peer, NEW f \in log'[q], NEW g \in log'[r], f.id = g.id
      PROVE  f = g
  <2>1. f = e \/ f \in log[q]
    BY <1>2, <1>5
  <2>2. g = e \/ g \in log[r]
    BY <1>2, <1>5
  <2>3. CASE f \in log[q] /\ g \in log[r]
    BY <1>5, <2>3 DEF Logs
  <2>4. QED
    BY <1>4, <1>5, <2>1, <2>2, <2>3
<1>6. QED
  BY <1>3, <1>5 DEF Logs

(* An event that a device takes from another, presenting it or not.          *)
Stores(p, e) ==
  /\ log' = [log EXCEPT ![p] = @ \cup {e}]
  /\ e \notin log[p] /\ \E q \in Peer : e \in log[q]
  /\ UNCHANGED <<topic, skew, now, issued, running, editor>>
  /\ past'.failed = past.failed /\ past'.apart = past.apart
  /\ \/ past'.unused = past.unused
     \/ past'.unused = [past.unused EXCEPT ![p] = @ \cup {e}]

LEMMA TakenEvent ==
  ASSUME Typed, Logs, NEW p \in Peer, NEW e, Stores(p, e)
  PROVE  /\ e \in Events /\ Named(e) /\ e.sender \in Peer /\ e.sender # p /\ e \in log[e.sender]
         /\ \A q \in Peer : log[q] \subseteq log'[q]
         /\ \A q \in Peer : \A f \in log'[q] : f \in log[q] \/ (q = p /\ f = e)
         /\ \A q \in Peer : past.unused[q] \subseteq past'.unused[q]
         /\ \A q \in Peer : Presented(q) \subseteq Presented(q)'
         /\ \A f \in log[p] : f.id # e.id
<1>1. PICK q \in Peer : e \in log[q]
  BY DEF Stores
<1>2. e \in Events /\ Named(e)
  BY <1>1 DEF Typed, Logs
<1>3. e.sender \in Peer /\ e \in log[e.sender]
  BY <1>2 DEF Events, Made, Named
<1>4. e.sender # p /\ e \notin log[p]
  BY <1>3 DEF Stores
<1>5. log' = [log EXCEPT ![p] = @ \cup {e}] /\ log \in [Peer -> SUBSET Events]
  BY DEF Stores, Typed
<1>6. past.unused \in [Peer -> SUBSET Events]
  BY DEF Typed, Histories
<1>7. \A a \in Peer : past.unused[a] \subseteq past'.unused[a]
  BY <1>6 DEF Stores
<1>8. \A a \in Peer : Presented(a) \subseteq Presented(a)'
  BY <1>4, <1>5, <1>6 DEF Stores, Presented
<1>9. \A f \in log[p] : f.id # e.id
  BY <1>1, <1>4 DEF Logs
<1>10. QED
  BY <1>2, <1>3, <1>4, <1>5, <1>7, <1>8, <1>9

LEMMA LogsTaken ==
  ASSUME Typed, Logs, topic' = topic, issued' = issued, NEW p \in Peer, NEW e,
         log' = [log EXCEPT ![p] = @ \cup {e}], \E q \in Peer : e \in log[q],
         \A q \in Peer : past'.unused[q] \subseteq log'[q],
         \A q \in Peer : editor'[q] # None => topic # "chats"
  PROVE  Logs'
<1>1. issued \in Nat /\ \A q \in Peer : log[q] \subseteq log'[q]
  BY DEF Typed
<1>2. ASSUME NEW q \in Peer, NEW f \in log'[q]
      PROVE  f \in Events /\ Named(f) /\ \E r \in Peer : f \in log[r]
  <2>1. PICK r \in Peer : f \in log[r]
    BY <1>2 DEF Typed
  <2>2. QED
    BY <2>1 DEF Typed, Logs
<1>3. ASSUME NEW q \in Peer, NEW f \in log'[q] PROVE Named(f)'
  <2>1. f \in Events /\ Named(f)
    BY <1>2, <1>3
  <2>2. QED
    BY <1>1, <2>1, NamedStays
<1>4. ASSUME NEW q \in Peer, NEW r \in Peer, NEW f \in log'[q], NEW g \in log'[r], f.id = g.id
      PROVE  f = g
  <2>1. PICK a \in Peer : f \in log[a]
    BY <1>2, <1>4
  <2>2. PICK b \in Peer : g \in log[b]
    BY <1>2, <1>4
  <2>3. QED
    BY <1>4, <2>1, <2>2 DEF Logs
<1>5. QED
  BY <1>3, <1>4 DEF Logs

-----------------------------------------------------------------------------
(* Places *)

LEMMA ListedStays ==
  ASSUME NEW t, Listed(t), issued \in Nat, issued' \in Nat, issued <= issued'
  PROVE  Listed(t)'
  BY DEF Listed, Ids

(* A device has new tables, and everyone else what they had.                 *)
LEMMA ListsAfter ==
  ASSUME Typed, Lists, issued' \in Nat, issued <= issued', NEW p \in Peer, NEW v \in Views,
         view' = [view EXCEPT ![p] = v], row' = row \/ row' = [row EXCEPT ![p] = v],
         Listed(v.places)'
  PROVE  Lists'
<1>1. issued \in Nat
  BY DEF Typed
<1>2. ASSUME NEW q \in Peer PROVE Listed(view[q].places)' /\ Listed(row[q].places)'
  <2>1. view'[q] = v \/ view'[q] = view[q]
    BY DEF Typed
  <2>2. row'[q] = v \/ row'[q] = row[q]
    BY DEF Typed
  <2>3. Listed(view[q].places) /\ Listed(row[q].places)
    BY DEF Lists
  <2>4. PICK vp : vp = view[q].places
    OBVIOUS
  <2>5. PICK rp : rp = row[q].places
    OBVIOUS
  <2>6. Listed(vp)' /\ Listed(rp)'
    BY <1>1, <2>3, <2>4, <2>5, ListedStays
  <2>7. PICK new : new = v.places /\ Listed(new)'
    OBVIOUS
  <2>8. PICK nv : nv = view'[q].places
    OBVIOUS
  <2>9. PICK nr : nr = row'[q].places
    OBVIOUS
  <2>10. (nv = new \/ nv = vp) /\ (nr = new \/ nr = rp)
    BY <2>1, <2>2, <2>4, <2>5, <2>7, <2>8, <2>9
  <2>11. Listed(nv)' /\ Listed(nr)'
    BY <2>6, <2>7, <2>10
  <2>12. QED
    BY <2>8, <2>9, <2>11 DEF Listed
<1>3. QED
  BY <1>2 DEF Lists

LEMMA EditsAre ==
  ASSUME NEW x, NEW e
  PROVE  /\ e \in Edits(x) <=> /\ \E p \in Peer : e \in log[p]
                               /\ e.kind \in {"place", "deletion"} /\ e.body.id = x
         /\ e \in Edits(x)' <=> /\ \E p \in Peer : e \in log'[p]
                                /\ e.kind \in {"place", "deletion"} /\ e.body.id = x
  BY DEF Edits

LEMMA EditsTyped ==
  ASSUME Typed, NEW x, NEW e \in Edits(x)
  PROVE  e \in Events /\ e.body \in Places /\ e.body.value \in Values /\ e.body.value.stamp \in Nat
<1>1. e \in Events /\ e.kind \in {"place", "deletion"}
  BY EditsAre DEF Typed
<1>2. e.body \in Places
  BY <1>1 DEF Events, Made
<1>3. QED
  BY <1>1, <1>2 DEF Places, Values

(* What was orderly before.                                                  *)
LEMMA OrderlyBefore ==
  ASSUME NEW x, Orderly(x)', past.failed \subseteq past'.failed,
         \A q \in Peer : log[q] \subseteq log'[q]
  PROVE  Orderly(x)
<1>1. \A e \in Edits(x) : e \in Edits(x)'
  BY EditsAre
<1>2. past.failed = {}
  BY DEF Orderly
<1>3. \A e, f \in Edits(x) : e.body.value.stamp = f.body.value.stamp => e = f
  BY <1>1 DEF Orderly, InOrder
<1>4. \A e \in Edits(x) : e.body.base # None => e.body.base[1] < e.body.value.stamp
  BY <1>1 DEF Orderly, InOrder
<1>5. QED
  BY <1>2, <1>3, <1>4 DEF Orderly, InOrder

(* A place of which nobody knows yet.                                        *)
LEMMA Unknown ==
  ASSUME Typed, Logs, Lists, NEW x \in Nat \ Ids, NEW p \in Peer
  PROVE  /\ Taken(p, x) = {} /\ Edits(x) = {}
         /\ ~Has(view[p].places, x) /\ ~Has(row[p].places, x)
<1>1. ASSUME NEW e \in Edits(x) PROVE FALSE
  <2>1. PICK q \in Peer : e \in log[q] /\ e.kind \in {"place", "deletion"} /\ e.body.id = x
    BY EditsAre
  <2>2. Named(e)
    BY <2>1 DEF Logs
  <2>3. QED
    BY <2>1, <2>2 DEF Named
<1>2. ~Has(view[p].places, x) /\ ~Has(row[p].places, x)
  BY DEF Lists, Listed, Has
<1>3. QED
  BY <1>1, <1>2 DEF Taken

(* Events of other kinds, or that a device does not present, change nothing  *)
(* about places.                                                             *)
LEMMA ConvergingStays ==
  ASSUME Typed, Logs, Lists, Converging, issued' \in Nat, issued <= issued',
         past.failed \subseteq past'.failed,
         \A q \in Peer : view'[q].places = view[q].places,
         \A q \in Peer : log[q] \subseteq log'[q],
         \A q \in Peer : \A f \in log'[q] :
           f \in log[q] \/ f.kind \notin {"place", "deletion"} \/ f \in past'.unused[q],
         \A q \in Peer : \A f \in log[q] : f \in past'.unused[q] <=> f \in past.unused[q]
  PROVE  Converging'
<1>1. SUFFICES ASSUME NEW p \in Peer, NEW x \in Ids', Orderly(x)' PROVE Presents(p, x)'
  BY DEF Converging
<1>2. x \in Nat /\ Orderly(x)
  BY <1>1, OrderlyBefore DEF Ids
<1>3. Taken(p, x)' = Taken(p, x)
  <2>1. ASSUME NEW e, e \in Taken(p, x)' PROVE e \in Taken(p, x)
    <3>1. /\ e \in log'[p] /\ e \notin past'.unused[p]
          /\ e.kind \in {"place", "deletion"} /\ e.body.id = x
      BY <2>1, EditsAre DEF Taken, Presented
    <3>2. e \in log[p] /\ e \notin past.unused[p]
      BY <3>1
    <3>3. QED
      BY <3>1, <3>2, EditsAre DEF Taken, Presented
  <2>2. ASSUME NEW e, e \in Taken(p, x) PROVE e \in Taken(p, x)'
    <3>1. /\ e \in log[p] /\ e \notin past.unused[p]
          /\ e.kind \in {"place", "deletion"} /\ e.body.id = x
      BY <2>2, EditsAre DEF Taken, Presented
    <3>2. QED
      BY <3>1, EditsAre DEF Taken, Presented
  <2>3. QED
    BY <2>1, <2>2
<1>4. Presents(p, x)
  <2>1. CASE x \in Ids
    BY <1>2, <2>1 DEF Converging
  <2>2. CASE x \notin Ids
    BY <1>2, <2>2, Unknown DEF Presents, Fits
  <2>3. QED
    BY <2>1, <2>2
<1>5. PICK taken : taken = Taken(p, x)
  OBVIOUS
<1>6. PICK t : t = view[p].places
  OBVIOUS
<1>7. taken = Taken(p, x)' /\ t = view'[p].places
  BY <1>3, <1>5, <1>6
<1>8. Fits(t, x, taken)
  BY <1>4, <1>5, <1>6 DEF Presents
<1>9. QED
  BY <1>7, <1>8 DEF Presents, Fits, LastOf, Says, Has

LEMMA ConvergingFailed ==
  ASSUME past'.failed # {}
  PROVE  Converging'
  BY DEF Converging, Orderly

(* One more edit that comes after all others, or before the last.            *)
LEMMA FitsLatest ==
  ASSUME NEW t, NEW u, NEW x, NEW taken, NEW e,
         Fits(t, x, taken), Has(u, x), Says(u[x], e.body.value), e.body.value.stamp \in Nat,
         \A f \in taken : f.body.value.stamp \in Nat,
         Has(t, x) => t[x].value.stamp <= e.body.value.stamp
  PROVE  Fits(u, x, taken \cup {e})
<1>1. \A f \in taken : f.body.value.stamp <= e.body.value.stamp
  <2>1. CASE taken = {}
    BY <2>1
  <2>2. CASE taken # {}
    <3>1. Has(t, x)
      BY <2>2 DEF Fits
    <3>2. PICK f \in taken : LastOf(f, taken) /\ Says(t[x], f.body.value)
      BY <3>1 DEF Fits
    <3>3. f.body.value.stamp <= e.body.value.stamp
      BY <3>1, <3>2 DEF Says
    <3>4. QED
      BY <3>2, <3>3 DEF LastOf
  <2>3. QED
    BY <2>1, <2>2
<1>2. LastOf(e, taken \cup {e})
  BY <1>1 DEF LastOf
<1>3. e \in taken \cup {e} /\ taken \cup {e} # {}
  OBVIOUS
<1>4. \E f \in taken \cup {e} : LastOf(f, taken \cup {e}) /\ Says(u[x], f.body.value)
  BY <1>2, <1>3
<1>5. QED
  BY <1>3, <1>4 DEF Fits

LEMMA FitsEarlier ==
  ASSUME NEW t, NEW x, NEW taken, NEW e,
         Fits(t, x, taken), Has(t, x), e.body.value.stamp \in Nat,
         e.body.value.stamp < t[x].value.stamp,
         \A f \in taken : f.body.value.stamp \in Nat
  PROVE  Fits(t, x, taken \cup {e})
<1>1. PICK f \in taken : LastOf(f, taken) /\ Says(t[x], f.body.value)
  BY DEF Fits
<1>2. e.body.value.stamp < f.body.value.stamp
  BY <1>1 DEF Says
<1>3. LastOf(f, taken \cup {e})
  BY <1>1, <1>2 DEF LastOf
<1>4. QED
  BY <1>1, <1>3 DEF Fits

(* An edit of place x that is new or that others have comes to device p,     *)
(* which presents it.                                                        *)
Gets(p, e, x) ==
  /\ e.kind \in {"place", "deletion"} /\ e.body.id = x
  /\ log' = [log EXCEPT ![p] = @ \cup {e}]
  /\ e \notin log[p] /\ e \notin past'.unused[p]
  /\ \A q \in Peer : \A f \in log[q] : f \in past'.unused[q] <=> f \in past.unused[q]

(* Who presents which edits when a device gets one more.                     *)
LEMMA TakenAfter ==
  ASSUME Typed, NEW p \in Peer, NEW e, NEW x, Gets(p, e, x), NEW q \in Peer, NEW y
  PROVE  Taken(q, y)' = IF q = p /\ y = x THEN Taken(p, x) \cup {e} ELSE Taken(q, y)
<1>1. /\ log'[p] = log[p] \cup {e} /\ \A a \in Peer : a # p => log'[a] = log[a]
      /\ e \in Edits(y)' <=> y = x
  BY EditsAre DEF Gets, Typed
<1>2. ASSUME NEW f, f \in log[q]
      PROVE  /\ f \in Edits(y)' <=> f \in Edits(y)
             /\ f \in Presented(q)' <=> f \in Presented(q)
  <2>1. f \in log'[q]
    BY <1>1, <1>2
  <2>2. f \in Edits(y)' <=> f \in Edits(y)
    BY <1>2, <2>1, EditsAre
  <2>3. QED
    BY <1>2, <2>1, <2>2 DEF Gets, Presented
<1>3. \A f : f \in Taken(q, y) <=> f \in log[q] /\ f \in Edits(y) /\ f \in Presented(q)
  BY DEF Taken, Presented
<1>4. \A f : f \in Taken(q, y)' <=> f \in log'[q] /\ f \in Edits(y)' /\ f \in Presented(q)'
  BY DEF Taken, Presented
<1>5. CASE q = p /\ y = x
  <2>1. e \in Presented(p)'
    BY <1>1 DEF Gets, Presented
  <2>2. \A f : f \in Taken(q, y)' <=> f \in Taken(q, y) \/ f = e
    BY <1>1, <1>2, <1>3, <1>4, <1>5, <2>1
  <2>3. QED
    BY <1>5, <2>2
<1>6. CASE ~(q = p /\ y = x)
  <2>1. \A f : f \in Taken(q, y)' <=> f \in Taken(q, y)
    BY <1>1, <1>2, <1>3, <1>4, <1>6 DEF Gets
  <2>2. Taken(q, y)' = Taken(q, y)
    BY <2>1
  <2>3. QED
    BY <1>6, <2>2
<1>7. QED
  BY <1>5, <1>6

(* Every place that was orderly is presented, made already or not.           *)
LEMMA PresentsIs ==
  ASSUME Typed, Logs, Lists, Converging, NEW p \in Peer, NEW x \in Nat, Orderly(x)
  PROVE  Presents(p, x)
<1>1. CASE x \in Ids
  BY <1>1 DEF Converging
<1>2. CASE x \notin Ids
  BY <1>2, Unknown DEF Presents, Fits
<1>3. QED
  BY <1>1, <1>2

LEMMA ConvergingEdited ==
  ASSUME Typed, Logs, Lists, Converging, NEW p \in Peer, NEW e, NEW x \in Nat,
         Gets(p, e, x), past.failed \subseteq past'.failed,
         \A q \in Peer : q # p => view'[q].places = view[q].places,
         \A y : y # x => (Has(view'[p].places, y) <=> Has(view[p].places, y))
                         /\ (Has(view[p].places, y) => view'[p].places[y] = view[p].places[y]),
         Presents(p, x) /\ Orderly(x)' => Fits(view'[p].places, x, Taken(p, x) \cup {e})
  PROVE  Converging'
<1>1. SUFFICES ASSUME NEW q \in Peer, NEW y \in Ids', Orderly(y)' PROVE Presents(q, y)'
  BY DEF Converging
<1>2. \A a \in Peer : log[a] \subseteq log'[a]
  BY DEF Gets, Typed
<1>3. y \in Nat /\ Orderly(y)
  BY <1>1, <1>2, OrderlyBefore DEF Ids
<1>4. Presents(q, y)
  BY <1>3, PresentsIs
<1>5. Taken(q, y)' = IF q = p /\ y = x THEN Taken(p, x) \cup {e} ELSE Taken(q, y)
  BY TakenAfter
<1>6. Fits(view'[q].places, y, Taken(q, y)')
  <2>1. CASE q = p /\ y = x
    <3>1. Fits(view'[p].places, x, Taken(p, x) \cup {e})
      BY <1>1, <1>4, <2>1
    <3>2. Taken(q, y)' = Taken(p, x) \cup {e}
      BY <1>5, <2>1
    <3>3. QED
      BY <2>1, <3>1, <3>2
  <2>2. CASE q # p \/ y # x
    <3>1. Taken(q, y)' = Taken(q, y)
      BY <1>5, <2>2
    <3>2. Has(view'[q].places, y) <=> Has(view[q].places, y)
      BY <2>2
    <3>3. Has(view[q].places, y) => view'[q].places[y] = view[q].places[y]
      BY <2>2
    <3>4. Fits(view[q].places, y, Taken(q, y))
      BY <1>4 DEF Presents
    <3>5. QED
      BY <3>1, <3>2, <3>3, <3>4 DEF Fits
  <2>3. QED
    BY <2>1, <2>2
<1>7. PICK t : t = view'[q].places
  OBVIOUS
<1>8. PICK taken : taken = Taken(q, y)'
  OBVIOUS
<1>9. Fits(t, y, taken)
  BY <1>6, <1>7, <1>8
<1>10. QED
  BY <1>7, <1>8, <1>9 DEF Presents, Fits, LastOf, Says, Has

-----------------------------------------------------------------------------
(* Least and greatest numbers, and the head of a document *)

LEMMA OptionalFacts ==
  ASSUME NEW o \in Optional, o # None
  PROVE  o[1] \in Nat /\ o = <<o[1]>>
  BY DEF Optional

LEMMA LeastExists ==
  ASSUME NEW N \in SUBSET Nat, N # {}
  PROVE  \E least \in N : \A n \in N : least <= n
<1>1. PICK least \in N : \A n \in N : ~(<<n, least>> \in OpToRel(<, Nat))
  BY NatLessThanWellFounded, WFMin, Zenon
<1>2. \A n \in N : least <= n
  <2>1. TAKE n \in N
  <2>2. <<n, least>> \in Nat \X Nat
    OBVIOUS
  <2>3. ~(n < least)
    BY <1>1, <2>2 DEF OpToRel
  <2>4. QED
    BY <2>3
<1>3. QED
  BY <1>2

LEMMA GreatestExists ==
  ASSUME NEW N \in SUBSET Nat, N # {}, NEW b \in Nat, \A n \in N : n <= b
  PROVE  \E most \in N : \A n \in N : n <= most
<1>1. PICK M \in SUBSET Nat : M = {b - n : n \in N} /\ M # {}
  <2>1. \A n \in N : b - n \in Nat
    OBVIOUS
  <2>2. {b - n : n \in N} \in SUBSET Nat
    BY <2>1
  <2>3. {b - n : n \in N} # {}
    OBVIOUS
  <2>4. QED
    BY <2>2, <2>3, Zenon
<1>2. PICK least \in M : \A m \in M : least <= m
  BY <1>1, LeastExists
<1>3. PICK most \in N : least = b - most
  BY <1>1
<1>4. \A n \in N : n <= most
  BY <1>1, <1>2, <1>3
<1>5. QED
  BY <1>4

(* Of revisions that are made after their parents, the last made is a tip.   *)
LEMMA TipExists ==
  ASSUME NEW d, d.revisions # {}, d.revisions \subseteq Revisions, NEW b \in Nat,
         \A r \in d.revisions : r.id <= b /\ (r.parent # None => r.parent[1] < r.id)
  PROVE  Tips(d) # {}
<1>1. PICK N \in SUBSET Nat : N = {r.id : r \in d.revisions} /\ N # {}
  <2>1. {r.id : r \in d.revisions} \in SUBSET Nat
    BY DEF Revisions
  <2>2. {r.id : r \in d.revisions} # {}
    OBVIOUS
  <2>3. QED
    BY <2>1, <2>2, Zenon
<1>2. \A n \in N : n <= b
  BY <1>1
<1>3. PICK most \in N : \A n \in N : n <= most
  BY <1>1, <1>2, GreatestExists
<1>4. PICK r \in d.revisions : r.id = most
  BY <1>1
<1>5. \A s \in d.revisions : s.parent # <<r.id>>
  <2>1. TAKE s \in d.revisions
  <2>2. s.id <= r.id /\ s.id \in Nat /\ r.id \in Nat
    BY <1>1, <1>3, <1>4 DEF Revisions
  <2>3. SUFFICES ASSUME s.parent = <<r.id>> PROVE FALSE
    OBVIOUS
  <2>4. s.parent # None /\ s.parent[1] = r.id
    BY <2>3 DEF None
  <2>5. QED
    BY <2>2, <2>4
<1>6. QED
  BY <1>4, <1>5 DEF Tips

LEMMA HeadExists ==
  ASSUME NEW d, d.revisions # {}, d.revisions \subseteq Revisions, NEW b \in Nat,
         \A r \in d.revisions :
           r.id <= b /\ r.stamp <= b /\ r.author <= b /\ (r.parent # None => r.parent[1] < r.id)
  PROVE  \E r \in d.revisions : IsHead(d, r)
<1>1. Tips(d) # {} /\ Tips(d) \subseteq d.revisions
  BY TipExists DEF Tips
<1>2. \A r \in Tips(d) : /\ r.id \in Nat /\ r.stamp \in Nat /\ r.author \in Nat
                         /\ r.id <= b /\ r.stamp <= b /\ r.author <= b
  BY <1>1, ConstantsAssumption DEF Revisions
<1>3. PICK A : A = {r.stamp : r \in Tips(d)}
  OBVIOUS
<1>4. PICK stamp \in A : \A n \in A : n <= stamp
  <2>1. A \in SUBSET Nat /\ A # {} /\ \A n \in A : n <= b
    BY <1>1, <1>2, <1>3
  <2>2. QED
    BY <2>1, GreatestExists
<1>5. PICK B : B = {r.author : r \in {s \in Tips(d) : s.stamp = stamp}}
  OBVIOUS
<1>6. PICK author \in B : \A n \in B : n <= author
  <2>1. B \in SUBSET Nat /\ B # {} /\ \A n \in B : n <= b
    BY <1>2, <1>3, <1>4, <1>5
  <2>2. QED
    BY <2>1, GreatestExists
<1>7. PICK C : C = {r.id : r \in {s \in Tips(d) : s.stamp = stamp /\ s.author = author}}
  OBVIOUS
<1>8. PICK id \in C : \A n \in C : n <= id
  <2>1. C \in SUBSET Nat /\ C # {} /\ \A n \in C : n <= b
    BY <1>2, <1>5, <1>6, <1>7
  <2>2. QED
    BY <2>1, GreatestExists
<1>9. PICK r \in Tips(d) : r.stamp = stamp /\ r.author = author /\ r.id = id
  BY <1>7, <1>8
<1>10. ASSUME NEW s \in Tips(d) PROVE Newer(r, s)
  <2>1. s.stamp <= r.stamp
    BY <1>3, <1>4, <1>9, <1>10
  <2>2. s.stamp = r.stamp => s.author <= r.author
    BY <1>5, <1>6, <1>9, <1>10
  <2>3. s.stamp = r.stamp /\ s.author = r.author => s.id <= r.id
    BY <1>7, <1>8, <1>9, <1>10
  <2>4. QED
    BY <1>2, <1>9, <1>10, <2>1, <2>2, <2>3 DEF Newer
<1>11. QED
  BY <1>1, <1>9, <1>10 DEF IsHead

LEMMA HeadIsThere ==
  ASSUME NEW d, d.revisions \subseteq Revisions, NEW b \in Nat,
         \A r \in d.revisions :
           r.id <= b /\ r.stamp <= b /\ r.author <= b /\ (r.parent # None => r.parent[1] < r.id)
  PROVE  /\ HeadId(d) \in Optional
         /\ HeadId(d) = None \/ HasRevision(d, HeadId(d)[1])
<1>1. CASE d.revisions = {}
  BY <1>1 DEF HeadId, Optional
<1>2. CASE d.revisions # {}
  <2>1. \E r \in d.revisions : IsHead(d, r)
    BY <1>2, HeadExists
  <2>2. PICK head : head = CHOOSE r \in d.revisions : IsHead(d, r)
    OBVIOUS
  <2>3. head \in d.revisions
    BY <2>1, <2>2
  <2>4. head.id \in Nat
    BY <2>3 DEF Revisions
  <2>5. HeadId(d) = <<head.id>>
    BY <1>2, <2>2 DEF HeadId
  <2>6. HasRevision(d, head.id)
    BY <2>3 DEF HasRevision
  <2>7. QED
    BY <2>4, <2>5, <2>6 DEF Optional
<1>3. QED
  BY <1>1, <1>2

-----------------------------------------------------------------------------
(* Revisions *)

(* The revisions a device has taken with effect.                             *)
Applied(p) == {e.body : e \in {f \in Presented(p) : f.kind = "revision"}}

LEMMA AppliedAre ==
  ASSUME NEW p, NEW r
  PROVE  /\ r \in Applied(p) <=>
              \E e \in log[p] : e \notin past.unused[p] /\ e.kind = "revision" /\ r = e.body
         /\ r \in Applied(p)' <=>
              \E e \in log'[p] : e \notin past'.unused[p] /\ e.kind = "revision" /\ r = e.body
  BY DEF Applied, Presented

(* What is so of a device that never failed to publish.                      *)
Keeps(p) ==
  /\ Loadable(view[p])
  /\ ToSet(view[p].revisions) = doc[p].revisions
  /\ doc[p].revisions = Applied(p)

(* What is so of every device.                                               *)
Drafted(p) ==
  /\ ToSet(view[p].revisions) \subseteq doc[p].revisions
  /\ Parented(doc[p])
  /\ editor[p] # None =>
       editor[p].parent = None \/ HasRevision(doc[p], editor[p].parent[1])
  /\ p \notin running => ~Loadable(row[p])
  /\ p \notin past.failed => Keeps(p)

DatedBy(b, p) ==
  /\ \A r \in doc[p].revisions : Dated(r, b)
  /\ \A r \in ToSet(row[p].revisions) : Dated(r, b)
  /\ \A e \in log[p] : e.kind = "revision" => Dated(e.body, b)

LEMMA DraftsAre ==
  /\ Drafts <=> /\ \E b \in Nat : \A p \in Peer : DatedBy(b, p)
                /\ \A p \in Peer : Drafted(p)
  /\ Drafts' <=> /\ \E b \in Nat : \A p \in Peer : DatedBy(b, p)'
                 /\ \A p \in Peer : Drafted(p)'
  BY DEF Drafts, DatedBy, Drafted, Keeps, Applied, Loads, Presented

LEMMA DatedStays ==
  ASSUME NEW r, NEW b \in Nat, Dated(r, b), NEW c \in Nat, b <= c, r \in Revisions,
         issued \in Nat, issued' \in Nat, issued <= issued'
  PROVE  Dated(r, c)'
<1>1. r.stamp \in Nat /\ r.author \in Nat
  BY ConstantsAssumption DEF Revisions
<1>2. QED
  BY <1>1 DEF Dated, Ids

LEMMA AppendedLoadable ==
  ASSUME NEW v \in Views, NEW u, NEW r \in Revisions, u.revisions = Append(v.revisions, r),
         Loadable(v), r.parent = None \/ \E s \in ToSet(v.revisions) : s.id = r.parent[1]
  PROVE  Loadable(u)
<1>1. PICK list \in Seq(Revisions) : list = v.revisions
  BY DEF Views
<1>2. PICK new : new = Append(list, r)
  OBVIOUS
<1>3. /\ Len(new) = Len(list) + 1 /\ new[Len(list) + 1] = r /\ new \in Seq(Revisions)
      /\ \A k \in 1..Len(list) : new[k] = list[k]
  BY <1>1, <1>2, Appended
<1>4. Len(list) \in Nat /\ DOMAIN list = 1..Len(list) /\ DOMAIN new = 1..(Len(list) + 1)
  BY <1>1, <1>3
<1>5. ASSUME NEW k \in 1..(Len(list) + 1)
      PROVE  new[k].parent = None \/ \E j \in 1..k-1 : <<new[j].id>> = new[k].parent
  <2>1. CASE k = Len(list) + 1
    <3>1. CASE r.parent # None
      <4>1. PICK j \in DOMAIN list : list[j].id = r.parent[1]
        BY <1>1, <3>1 DEF ToSet
      <4>2. r.parent = <<r.parent[1]>>
        BY <3>1, OptionalFacts DEF Revisions
      <4>3. new[j] = list[j] /\ j \in 1..k-1
        BY <1>3, <1>4, <2>1, <4>1
      <4>4. <<new[j].id>> = r.parent
        BY <4>1, <4>2, <4>3
      <4>5. QED
        BY <1>3, <2>1, <4>3, <4>4
    <3>2. QED
      BY <1>3, <2>1, <3>1
  <2>2. CASE k # Len(list) + 1
    <3>1. k \in 1..Len(list) /\ new[k] = list[k]
      BY <1>3, <1>4, <2>2
    <3>2. list[k].parent = None \/ \E j \in 1..k-1 : <<list[j].id>> = list[k].parent
      BY <1>1, <1>4, <3>1 DEF Loadable
    <3>3. \A j \in 1..k-1 : new[j] = list[j]
      BY <1>3, <1>4, <3>1
    <3>4. QED
      BY <3>1, <3>2, <3>3
  <2>3. QED
    BY <2>1, <2>2
<1>6. u.revisions = new
  BY <1>1, <1>2
<1>7. QED
  BY <1>4, <1>5, <1>6 DEF Loadable

LEMMA LoadedParented ==
  ASSUME NEW v \in Views, Loadable(v)
  PROVE  Parented(Loaded(v))
<1>0. Len(v.revisions) \in Nat /\ DOMAIN v.revisions = 1..Len(v.revisions)
  BY DEF Views
<1>1. PICK d : d = Loaded(v)
  OBVIOUS
<1>2. d.revisions = ToSet(v.revisions)
  BY <1>1 DEF Loaded
<1>3. ASSUME NEW r \in d.revisions PROVE HasParent(d, r)
  <2>1. PICK k \in DOMAIN v.revisions : v.revisions[k] = r
    BY <1>2, <1>3 DEF ToSet
  <2>2. CASE r.parent # None
    <3>1. PICK j \in 1..k-1 : <<v.revisions[j].id>> = r.parent
      BY <2>1, <2>2 DEF Loadable
    <3>2. j \in DOMAIN v.revisions
      BY <1>0, <2>1
    <3>3. PICK s : s = v.revisions[j]
      OBVIOUS
    <3>4. s \in d.revisions /\ s.id = r.parent[1]
      BY <1>2, <3>1, <3>2, <3>3 DEF ToSet
    <3>5. QED
      BY <3>4 DEF HasParent, HasRevision
  <2>3. QED
    BY <2>2 DEF HasParent
<1>4. QED
  BY <1>1, <1>3 DEF Parented

(* Nothing happens to revisions, except that a device can take one without   *)
(* effect.                                                                   *)
LEMMA DraftsStay ==
  ASSUME Typed, Drafts, issued' \in Nat, issued <= issued', running' = running,
         past.failed \subseteq past'.failed,
         \A q \in Peer : /\ doc'[q].revisions = doc[q].revisions
                         /\ view'[q].revisions = view[q].revisions,
         \A q \in Peer : row'[q].revisions \in {row[q].revisions, view[q].revisions},
         \A q \in Peer : q \notin running => row'[q].revisions = row[q].revisions,
         \A q \in Peer : \/ editor'[q] \in {None, editor[q]}
                         \/ editor'[q].parent = None
                         \/ HasRevision(doc[q], editor'[q].parent[1]),
         \A q \in Peer : log[q] \subseteq log'[q],
         \A q \in Peer : \A f \in log'[q] :
           f.kind = "revision" =>
             /\ \E a \in Peer : f \in log[a]
             /\ f \in log[q] \/ q \in past'.failed \/ f \in past'.unused[q],
         \A q \in Peer : \A f \in log[q] : f \in past'.unused[q] <=> f \in past.unused[q]
  PROVE  Drafts'
<1>1. PICK b \in Nat : \A p \in Peer : DatedBy(b, p)
  BY DraftsAre
<1>2. \A p \in Peer : Drafted(p)
  BY DraftsAre
<1>3. issued \in Nat /\ b <= b
  BY DEF Typed
<1>4. ASSUME NEW p \in Peer PROVE DatedBy(b, p)'
  <2>1. \A r \in doc'[p].revisions : r \in Revisions /\ Dated(r, b)
    BY <1>1 DEF DatedBy, Typed, Documents
  <2>2. ASSUME NEW r \in ToSet(row'[p].revisions) PROVE r \in Revisions /\ Dated(r, b)
    <3>1. CASE r \in ToSet(row[p].revisions)
      <4>1. Dated(r, b)
        BY <1>1, <3>1 DEF DatedBy
      <4>2. row[p].revisions \in Seq(Revisions)
        BY DEF Typed, Views
      <4>3. QED
        BY <3>1, <4>1, <4>2 DEF ToSet
    <3>2. CASE r \in ToSet(view[p].revisions)
      <4>1. r \in doc[p].revisions
        BY <1>2, <3>2 DEF Drafted
      <4>2. QED
        BY <1>1, <4>1 DEF DatedBy, Typed, Documents
    <3>3. QED
      BY <2>2, <3>1, <3>2
  <2>3. ASSUME NEW e \in log'[p], e.kind = "revision" PROVE e.body \in Revisions /\ Dated(e.body, b)
    <3>1. PICK a \in Peer : e \in log[a]
      BY <2>3
    <3>2. Dated(e.body, b)
      BY <1>1, <2>3, <3>1 DEF DatedBy
    <3>3. e \in Events
      BY <3>1 DEF Typed
    <3>4. QED
      BY <2>3, <3>2, <3>3 DEF Events, Made
  <2>4. \A r \in doc'[p].revisions : Dated(r, b)'
    BY <1>3, <2>1, DatedStays
  <2>5. \A r \in ToSet(row'[p].revisions) : Dated(r, b)'
    BY <1>3, <2>2, DatedStays
  <2>6. \A e \in log'[p] : e.kind = "revision" => Dated(e.body, b)'
    <3>1. TAKE e \in log'[p]
    <3>2. HAVE e.kind = "revision"
    <3>3. PICK r : r = e.body
      OBVIOUS
    <3>4. r \in Revisions /\ Dated(r, b)
      BY <2>3, <3>2, <3>3
    <3>5. Dated(r, b)'
      BY <1>3, <3>4, DatedStays
    <3>6. QED
      BY <3>3, <3>5 DEF Dated
  <2>7. QED
    BY <2>4, <2>5, <2>6 DEF DatedBy, Dated
<1>5. ASSUME NEW p \in Peer PROVE Drafted(p)'
  <2>1. ToSet(view'[p].revisions) \subseteq doc'[p].revisions
    BY <1>2 DEF Drafted
  <2>2. Parented(doc[p])'
    BY <1>2 DEF Drafted, Parented, HasParent, HasRevision
  <2>3. editor'[p] # None => editor'[p].parent = None \/ HasRevision(doc[p], editor'[p].parent[1])
    BY <1>2 DEF Drafted
  <2>4. editor'[p] # None => editor'[p].parent = None \/ HasRevision(doc[p], editor[p].parent[1])'
    BY <2>3 DEF HasRevision
  <2>5. p \notin running' => ~Loadable(row[p])'
    BY <1>2 DEF Drafted, Loadable
  <2>6. ASSUME p \notin past'.failed PROVE Keeps(p)'
    <3>1. Keeps(p)
      BY <1>2, <2>6 DEF Drafted
    <3>2. ToSet(view'[p].revisions) = doc'[p].revisions
      BY <3>1 DEF Keeps
    <3>3. Loadable(view[p])'
      BY <3>1 DEF Keeps, Loadable
    <3>4. Applied(p)' = Applied(p)
      <4>1. ASSUME NEW r, r \in Applied(p)' PROVE r \in Applied(p)
        <5>1. PICK e \in log'[p] : e \notin past'.unused[p] /\ e.kind = "revision" /\ r = e.body
          BY <4>1, AppliedAre
        <5>2. e \in log[p] /\ e \notin past.unused[p]
          BY <2>6, <5>1
        <5>3. QED
          BY <5>1, <5>2, AppliedAre
      <4>2. ASSUME NEW r, r \in Applied(p) PROVE r \in Applied(p)'
        <5>1. PICK e \in log[p] : e \notin past.unused[p] /\ e.kind = "revision" /\ r = e.body
          BY <4>2, AppliedAre
        <5>2. e \in log'[p] /\ e \notin past'.unused[p]
          BY <5>1
        <5>3. QED
          BY <5>1, <5>2, AppliedAre
      <4>3. QED
        BY <4>1, <4>2
    <3>5. QED
      BY <3>1, <3>2, <3>3, <3>4 DEF Keeps
  <2>7. QED
    BY <2>1, <2>2, <2>4, <2>5, <2>6 DEF Drafted
<1>6. QED
  BY <1>4, <1>5, DraftsAre

(* A revision comes to a device: its own or another's, and then it is listed *)
(* and perhaps saved; or its own that the store refuses, and then it stays   *)
(* in memory.                                                                *)
Shares(p, e) ==
  /\ view'[p].revisions = Append(view[p].revisions, e.body)
  /\ row'[p].revisions \in {row[p].revisions, view'[p].revisions}
  /\ log' = [log EXCEPT ![p] = @ \cup {e}]
  /\ e.kind = "revision" /\ e \notin past'.unused[p]

LEMMA DraftsAdded ==
  ASSUME Typed, Drafts, issued' \in Nat, issued <= issued', running' = running,
         NEW p \in Peer, p \in running, NEW r \in Revisions,
         r.id \in Ids', r.parent # None => r.parent[1] < r.id, HasParent(doc[p], r),
         past.failed \subseteq past'.failed,
         doc' = [doc EXCEPT ![p] = Inserted(@, r)],
         \A q \in Peer : q # p =>
           row'[q].revisions = row[q].revisions /\ view'[q].revisions = view[q].revisions,
         \A q \in Peer : \/ editor'[q] \in {None, editor[q]}
                         \/ editor[q] # None /\ editor'[q].parent = editor[q].parent,
         \A q \in Peer : \A f \in log[q] : f \in past'.unused[q] <=> f \in past.unused[q],
         \/ \E e \in Events : e.body = r /\ Shares(p, e)
         \/ /\ UNCHANGED <<log, view, row>> /\ p \in past'.failed
  PROVE  Drafts'
<1>1. PICK b \in Nat : \A q \in Peer : DatedBy(b, q)
  BY DraftsAre
<1>2. \A q \in Peer : Drafted(q)
  BY DraftsAre
<1>3. issued \in Nat
  BY DEF Typed
<1>4. r.stamp \in Nat /\ r.author \in Nat
  BY ConstantsAssumption DEF Revisions
<1>5. PICK c \in Nat : b <= c /\ r.stamp <= c /\ r.author <= c
  <2>1. b + r.stamp + r.author \in Nat /\ b <= b + r.stamp + r.author
        /\ r.stamp <= b + r.stamp + r.author /\ r.author <= b + r.stamp + r.author
    BY <1>4
  <2>2. QED
    BY <2>1
<1>6. Dated(r, c)'
  BY <1>5 DEF Dated
<1>7. /\ doc'[p].revisions = doc[p].revisions \cup {r}
      /\ \A q \in Peer : q # p => doc'[q] = doc[q]
  BY DEF Typed, Documents, Inserted
<1>8. \/ view'[p].revisions = view[p].revisions /\ row'[p].revisions = row[p].revisions
      \/ /\ view'[p].revisions = Append(view[p].revisions, r)
         /\ \/ row'[p].revisions = row[p].revisions
            \/ row'[p].revisions = Append(view[p].revisions, r)
         /\ ToSet(view'[p].revisions) = ToSet(view[p].revisions) \cup {r}
  <2>1. view[p].revisions \in Seq(Revisions)
    BY DEF Typed, Views
  <2>2. ToSet(Append(view[p].revisions, r)) = ToSet(view[p].revisions) \cup {r}
    BY <2>1, Appended
  <2>3. QED
    BY <2>2 DEF Shares
<1>9. ASSUME NEW q \in Peer PROVE DatedBy(c, q)'
  <2>1. ASSUME NEW s \in doc'[q].revisions PROVE Dated(s, c)'
    <3>1. CASE s = r
      BY <1>6, <3>1
    <3>2. CASE s \in doc[q].revisions
      <4>1. s \in Revisions /\ Dated(s, b)
        BY <1>1, <3>2 DEF DatedBy, Typed, Documents
      <4>2. QED
        BY <1>3, <1>5, <4>1, DatedStays
    <3>3. QED
      BY <1>7, <2>1, <3>1, <3>2
  <2>2. ASSUME NEW s \in ToSet(row'[q].revisions) PROVE Dated(s, c)'
    <3>1. s \in ToSet(row[q].revisions) \/ s \in ToSet(view[q].revisions) \/ s = r
      <4>1. CASE q = p
        <5>1. view[p].revisions \in Seq(Revisions)
          BY DEF Typed, Views
        <5>2. ToSet(Append(view[p].revisions, r)) = ToSet(view[p].revisions) \cup {r}
          BY <5>1, Appended
        <5>3. \/ row'[p].revisions = row[p].revisions
              \/ row'[p].revisions = Append(view[p].revisions, r)
          BY <1>8
        <5>4. CASE row'[p].revisions = row[p].revisions
          BY <2>2, <4>1, <5>4
        <5>5. CASE row'[p].revisions = Append(view[p].revisions, r)
          BY <2>2, <4>1, <5>2, <5>5
        <5>6. QED
          BY <5>3, <5>4, <5>5
      <4>2. CASE q # p
        <5>1. row'[q].revisions = row[q].revisions
          BY <4>2
        <5>2. QED
          BY <2>2, <5>1
      <4>3. QED
        BY <4>1, <4>2
    <3>2. CASE s \in ToSet(row[q].revisions)
      <4>1. row[q].revisions \in Seq(Revisions)
        BY DEF Typed, Views
      <4>2. s \in Revisions /\ Dated(s, b)
        BY <1>1, <3>2, <4>1 DEF DatedBy, ToSet
      <4>3. QED
        BY <1>3, <1>5, <4>2, DatedStays
    <3>3. CASE s \in ToSet(view[q].revisions)
      <4>1. s \in doc[q].revisions
        BY <1>2, <3>3 DEF Drafted
      <4>2. s \in Revisions /\ Dated(s, b)
        BY <1>1, <4>1 DEF DatedBy, Typed, Documents
      <4>3. QED
        BY <1>3, <1>5, <4>2, DatedStays
    <3>4. QED
      BY <1>6, <3>1, <3>2, <3>3
  <2>3. ASSUME NEW e \in log'[q], e.kind = "revision" PROVE Dated(e.body, c)'
    <3>1. CASE e \in log[q]
      <4>1. PICK s : s = e.body
        OBVIOUS
      <4>2. e \in Events
        BY <3>1 DEF Typed
      <4>3. s \in Revisions /\ Dated(s, b)
        BY <1>1, <2>3, <3>1, <4>1, <4>2 DEF DatedBy, Events, Made
      <4>4. Dated(s, c)'
        BY <1>3, <1>5, <4>3, DatedStays
      <4>5. QED
        BY <4>1, <4>4 DEF Dated
    <3>2. CASE e \notin log[q]
      <4>1. PICK f \in Events : f.body = r /\ Shares(p, f)
        BY <3>2
      <4>2. log' = [log EXCEPT ![p] = @ \cup {f}]
        BY <4>1 DEF Shares
      <4>3. e = f
        BY <3>2, <4>2 DEF Typed
      <4>4. QED
        BY <1>6, <4>1, <4>3 DEF Dated
    <3>3. QED
      BY <3>1, <3>2
  <2>4. QED
    BY <2>1, <2>2, <2>3 DEF DatedBy, Dated
<1>10. ASSUME NEW q \in Peer PROVE Drafted(q)'
  <2>1. ToSet(view'[q].revisions) \subseteq doc'[q].revisions
    BY <1>2, <1>7, <1>8 DEF Drafted
  <2>2. doc[q].revisions \subseteq doc'[q].revisions
    BY <1>7
  <2>3. Parented(doc[q])'
    <3>1. ASSUME NEW s \in doc'[q].revisions PROVE HasParent(doc[q], s)
      BY <1>2, <1>7, <3>1 DEF Drafted, Parented
    <3>2. QED
      BY <2>2, <3>1 DEF Parented, HasParent, HasRevision
  <2>4. editor'[q] # None => editor'[q].parent = None \/ HasRevision(doc[q], editor'[q].parent[1])
    BY <1>2 DEF Drafted
  <2>5. editor'[q] # None => editor'[q].parent = None \/ HasRevision(doc[q], editor[q].parent[1])'
    BY <2>2, <2>4 DEF HasRevision
  <2>6. q \notin running' => ~Loadable(row[q])'
    BY <1>2 DEF Drafted, Loadable
  <2>7. ASSUME q \notin past'.failed PROVE Keeps(q)'
    <3>1. Keeps(q)
      BY <1>2, <2>7 DEF Drafted
    <3>2. CASE q # p
      <4>1. ToSet(view'[q].revisions) = doc'[q].revisions
        BY <1>7, <3>1, <3>2 DEF Keeps
      <4>2. Loadable(view[q])'
        BY <3>1, <3>2 DEF Keeps, Loadable
      <4>3. log'[q] = log[q]
        BY <3>2 DEF Shares, Typed
      <4>4. Applied(q)' = Applied(q)
        <5>1. \A s : s \in Applied(q)' <=> s \in Applied(q)
          BY <4>3, AppliedAre
        <5>2. QED
          BY <5>1
      <4>5. QED
        BY <1>7, <3>1, <3>2, <4>1, <4>2, <4>4 DEF Keeps
    <3>3. CASE q = p
      <4>1. PICK e \in Events : e.body = r /\ Shares(p, e)
        BY <2>7, <3>3
      <4>2. view'[p].revisions = Append(view[p].revisions, r)
            /\ ToSet(view'[p].revisions) = ToSet(view[p].revisions) \cup {r}
        <5>1. view[p].revisions \in Seq(Revisions)
          BY DEF Typed, Views
        <5>2. QED
          BY <4>1, <5>1, Appended DEF Shares
      <4>3. Loadable(view[p])'
        <5>1. view[p] \in Views /\ Loadable(view[p])
          BY <3>1, <3>3 DEF Keeps, Typed
        <5>2. r.parent = None \/ \E s \in ToSet(view[p].revisions) : s.id = r.parent[1]
          BY <3>1, <3>3 DEF Keeps, HasParent, HasRevision
        <5>3. PICK u : u = view'[p]
          OBVIOUS
        <5>4. Loadable(u)
          BY <4>2, <5>1, <5>2, <5>3, AppendedLoadable
        <5>5. QED
          BY <5>3, <5>4 DEF Loadable
      <4>4. Applied(p)' = Applied(p) \cup {r}
        <5>1. log'[p] = log[p] \cup {e} /\ e.kind = "revision" /\ e \notin past'.unused[p]
          BY <4>1 DEF Shares, Typed
        <5>2. ASSUME NEW s, s \in Applied(p)' PROVE s \in Applied(p) \cup {r}
          <6>1. PICK f \in log'[p] : f \notin past'.unused[p] /\ f.kind = "revision" /\ s = f.body
            BY <5>2, AppliedAre
          <6>2. CASE f = e
            BY <4>1, <6>1, <6>2
          <6>3. CASE f \in log[p]
            <7>1. f \notin past.unused[p]
              BY <6>1, <6>3
            <7>2. QED
              BY <6>1, <6>3, <7>1, AppliedAre
          <6>4. QED
            BY <5>1, <6>2, <6>3
        <5>3. ASSUME NEW s, s \in Applied(p) PROVE s \in Applied(p)'
          <6>1. PICK f \in log[p] : f \notin past.unused[p] /\ f.kind = "revision" /\ s = f.body
            BY <5>3, AppliedAre
          <6>2. f \in log'[p] /\ f \notin past'.unused[p]
            BY <5>1, <6>1
          <6>3. QED
            BY <6>1, <6>2, AppliedAre
        <5>4. r \in Applied(p)'
          BY <4>1, <5>1, AppliedAre
        <5>5. QED
          BY <5>2, <5>3, <5>4
      <4>5. QED
        BY <1>7, <3>1, <3>3, <4>2, <4>3, <4>4 DEF Keeps
    <3>4. QED
      BY <3>2, <3>3
  <2>8. QED
    BY <2>1, <2>3, <2>5, <2>6, <2>7 DEF Drafted
<1>11. QED
  BY <1>9, <1>10, DraftsAre

-----------------------------------------------------------------------------
(* Leases *)

LEMMA LeaseEvent ==
  ASSUME NEW e \in Events
  PROVE  /\ e.id \in Nat /\ e.sender \in Peer
         /\ e.kind = "lease" => e.body \in Leases
         /\ e.kind = "release" => e.body \in Releases /\ e.body.lease \in Nat /\ e.body.time \in Nat
  BY DEF Events, Made, Releases

LEMMA TablesTyped ==
  ASSUME Typed, NEW p \in Peer, NEW t \in TablesOf(p)
  PROVE  t \in Tables(Leases) /\ DOMAIN t \subseteq Nat /\ \A l \in DOMAIN t : t[l] \in Leases
<1>1. t \in Tables(Leases)
  BY DEF Typed, Views, Documents, TablesOf
<1>2. QED
  BY <1>1, TableFacts

LEMMA ClockIs ==
  ASSUME Typed, NEW p \in Peer
  PROVE  Clock(p) \in Nat
  BY ConstantsAssumption DEF Typed, Clock

LEMMA ClockGrows ==
  ASSUME Typed, NEW p \in Peer, skew' = skew, now' \in Nat, now <= now'
  PROVE  /\ Clock(p) \in Nat /\ Clock(p)' \in Nat /\ Clock(p) <= Clock(p)'
         /\ now' = now => Clock(p)' = Clock(p)
  BY ConstantsAssumption DEF Typed, Clock

LEMMA GrantedStays ==
  ASSUME Typed, NEW grant, NEW t \in Tables(Leases), Granted(grant, t),
         issued' \in Nat, issued <= issued', skew' = skew, now' \in Nat, now <= now'
  PROVE  Granted(grant, t)'
<1>1. issued \in Nat
  BY DEF Typed
<1>2. ASSUME NEW l \in DOMAIN t
      PROVE  /\ l \in Ids' /\ t[l].holder = grant[l].holder /\ t[l].from = grant[l].from
             /\ t[l].from <= now' + skew'[t[l].holder] /\ t[l].till <= t[l].from + Duration
  <2>1. t[l] \in Leases
    BY TableFacts
  <2>2. t[l].holder \in Peer /\ t[l].from \in Nat
    BY <2>1 DEF Leases
  <2>3. l \in Ids /\ t[l].holder = grant[l].holder /\ t[l].from = grant[l].from
        /\ t[l].from <= Clock(t[l].holder) /\ t[l].till <= t[l].from + Duration
    BY DEF Granted
  <2>4. l \in Ids'
    BY <1>1, <2>3 DEF Ids
  <2>5. PICK h \in Peer : h = t[l].holder
    BY <2>2
  <2>6. t[l].from <= now' + skew'[h]
    BY <2>2, <2>3, <2>5, ConstantsAssumption DEF Typed, Clock
  <2>7. QED
    BY <2>3, <2>4, <2>5, <2>6
<1>3. QED
  BY <1>2 DEF Granted, Clock

LEMMA GrantEventStays ==
  ASSUME Typed, NEW grant, NEW e \in Events, GrantEvent(grant, e),
         issued' \in Nat, issued <= issued', skew' = skew, now' \in Nat, now <= now'
  PROVE  GrantEvent(grant, e)'
<1>1. issued \in Nat /\ e.sender \in Peer
  BY LeaseEvent DEF Typed
<1>2. Clock(e.sender) \in Nat /\ Clock(e.sender) <= now' + skew'[e.sender]
      /\ now' + skew'[e.sender] \in Nat
  <2>1. PICK p \in Peer : p = e.sender
    BY <1>1
  <2>2. Clock(p) \in Nat /\ now' + skew'[p] \in Nat /\ Clock(p) <= now' + skew'[p]
    BY ClockGrows DEF Clock
  <2>3. QED
    BY <2>1, <2>2
<1>3. CASE e.kind = "lease"
  <2>1. e.body.from \in Nat
    BY <1>3, LeaseEvent DEF Leases
  <2>2. e.body.from <= now' + skew'[e.sender]
    BY <1>2, <1>3, <2>1 DEF GrantEvent
  <2>3. e.kind # "release"
    BY <1>3
  <2>4. QED
    BY <1>3, <2>2, <2>3 DEF GrantEvent, Clock
<1>4. CASE e.kind = "release"
  <2>1. e.body.time \in Nat
    BY <1>4, LeaseEvent
  <2>2. e.body.time <= now' + skew'[e.sender]
    BY <1>2, <1>4, <2>1 DEF GrantEvent
  <2>3. e.body.lease \in Ids'
    BY <1>1, <1>4 DEF GrantEvent, Ids
  <2>4. e.kind # "lease"
    BY <1>4
  <2>5. QED
    BY <1>4, <2>2, <2>3, <2>4 DEF GrantEvent, Clock
<1>5. CASE e.kind \notin {"lease", "release"}
  BY <1>5 DEF GrantEvent
<1>6. QED
  BY <1>3, <1>4, <1>5

LEMMA PutLease ==
  ASSUME NEW s \in Tables(Leases), NEW l \in Nat, NEW lease \in Leases
  PROVE  /\ Put(s, l, lease) \in Tables(Leases)
         /\ DOMAIN Put(s, l, lease) = DOMAIN s \cup {l}
         /\ Put(s, l, lease)[l] = lease
         /\ \A y \in DOMAIN s : y # l => Put(s, l, lease)[y] = s[y]
  BY PutFacts, SMTT(30)

(* Ended: a lease table knows of a release, or does not have the lease.      *)
LEMMA EndedPut ==
  ASSUME NEW s \in Tables(Leases), NEW l \in Nat, NEW lease \in Leases, NEW e,
         Ended(s, e), e.body.lease # l
  PROVE  Ended(Put(s, l, lease), e)
<1>1. /\ DOMAIN Put(s, l, lease) = DOMAIN s \cup {l}
      /\ \A y \in DOMAIN s : y # l => Put(s, l, lease)[y] = s[y]
  BY PutLease, ZenonT(40)
<1>2. QED
  BY <1>1 DEF Ended

LEMMA EndedReleased ==
  ASSUME NEW s \in Tables(Leases), NEW l \in DOMAIN s, NEW n \in Nat, NEW e,
         Ended(s, e), e.body.lease # l
  PROVE  Ended(Released(s, l, n), e)
<1>1. /\ DOMAIN Released(s, l, n) = DOMAIN s
      /\ \A k \in DOMAIN s : k # l => Released(s, l, n)[k] = s[k]
  BY ReleasedFacts
<1>2. QED
  BY <1>1 DEF Ended

LEMMA GrantedPut ==
  ASSUME NEW s \in Tables(Leases), NEW l \in Nat, NEW lease \in Leases, NEW grant,
         Granted(grant, s), l \in Ids, lease.holder = grant[l].holder, lease.from = grant[l].from,
         lease.from <= Clock(lease.holder), lease.till <= lease.from + Duration
  PROVE  Granted(grant, Put(s, l, lease))
<1>1. /\ DOMAIN Put(s, l, lease) = DOMAIN s \cup {l}
      /\ Put(s, l, lease)[l] = lease
      /\ \A y \in DOMAIN s : y # l => Put(s, l, lease)[y] = s[y]
  BY PutLease, ZenonT(40)
<1>2. PICK u : u = Put(s, l, lease)
  OBVIOUS
<1>3. ASSUME NEW k \in DOMAIN u
      PROVE  /\ k \in Ids /\ u[k].holder = grant[k].holder /\ u[k].from = grant[k].from
             /\ u[k].from <= Clock(u[k].holder) /\ u[k].till <= u[k].from + Duration
  <2>1. CASE k = l
    BY <1>1, <1>2, <2>1
  <2>2. CASE k # l
    <3>1. k \in DOMAIN s /\ u[k] = s[k]
      BY <1>1, <1>2, <2>2
    <3>2. QED
      BY <3>1 DEF Granted
  <2>3. QED
    BY <2>1, <2>2
<1>4. QED
  BY <1>2, <1>3 DEF Granted

LEMMA GrantedReleased ==
  ASSUME NEW s \in Tables(Leases), NEW l \in DOMAIN s, NEW n \in Nat, NEW grant,
         Granted(grant, s), n <= grant[l].from + Duration
  PROVE  Granted(grant, Released(s, l, n))
<1>1. /\ DOMAIN Released(s, l, n) = DOMAIN s
      /\ Released(s, l, n)[l].till = n
      /\ Released(s, l, n)[l].holder = s[l].holder
      /\ Released(s, l, n)[l].from = s[l].from
      /\ \A k \in DOMAIN s : k # l => Released(s, l, n)[k] = s[k]
  BY ReleasedFacts
<1>2. PICK u : u = Released(s, l, n)
  OBVIOUS
<1>3. ASSUME NEW k \in DOMAIN u
      PROVE  /\ k \in Ids /\ u[k].holder = grant[k].holder /\ u[k].from = grant[k].from
             /\ u[k].from <= Clock(u[k].holder) /\ u[k].till <= u[k].from + Duration
  <2>1. k \in DOMAIN s
    BY <1>1, <1>2
  <2>2. CASE k = l
    BY <1>1, <1>2, <2>1, <2>2 DEF Granted
  <2>3. CASE k # l
    BY <1>1, <1>2, <2>1, <2>3 DEF Granted
  <2>4. QED
    BY <2>2, <2>3
<1>4. QED
  BY <1>2, <1>3 DEF Granted

(* Nothing new is granted or released: tables are those there were.          *)
LEMMA TurnsStay ==
  ASSUME Typed, Turns, issued' \in Nat, issued <= issued', skew' = skew, now' \in Nat, now <= now',
         PublishedWhole' => PublishedWhole,
         \A q \in Peer : TablesOf(q)' \subseteq TablesOf(q),
         \A q \in Peer : \A f \in log'[q] :
           f.kind \in {"lease", "release"} => \E a \in Peer : f \in log[a],
         \A q \in Peer : log'[q] \subseteq Events
  PROVE  Turns'
<1>1. PICK grant \in Grants : Grantings(grant)
  BY DEF Turns
<1>2. ASSUME NEW p \in Peer, NEW t \in TablesOf(p)' PROVE Granted(grant, t)'
  <2>1. t \in TablesOf(p) /\ t \in Tables(Leases)
    BY <1>2, TablesTyped
  <2>2. Granted(grant, t)
    BY <1>1, <2>1 DEF Grantings
  <2>3. QED
    BY <2>1, <2>2, GrantedStays
<1>3. ASSUME NEW p \in Peer, NEW e \in log'[p]
      PROVE  /\ GrantEvent(grant, e)'
             /\ PublishedWhole' /\ e.kind = "release" => \A t \in TablesOf(e.sender)' : Ended(t, e)
  <2>1. e \in Events
    BY <1>3
  <2>2. CASE e.kind \in {"lease", "release"}
    <3>1. PICK a \in Peer : e \in log[a]
      BY <1>3, <2>2
    <3>2. GrantEvent(grant, e) /\ (PublishedWhole /\ e.kind = "release" => \A t \in TablesOf(e.sender) : Ended(t, e))
      BY <1>1, <3>1 DEF Grantings
    <3>3. GrantEvent(grant, e)'
      BY <2>1, <3>2, GrantEventStays
    <3>4. e.sender \in Peer
      BY <2>1, LeaseEvent
    <3>5. QED
      BY <3>2, <3>3, <3>4
  <2>3. CASE e.kind \notin {"lease", "release"}
    BY <2>3 DEF GrantEvent
  <2>4. QED
    BY <2>2, <2>3
<1>4. Grantings(grant)'
  BY <1>2, <1>3 DEF Grantings, Ended
<1>5. ASSUME PublishedWhole', NEW p \in Peer, NEW q \in Peer, NEW e \in log'[p], NEW f \in log'[q],
             e.kind = "release", f.kind = "release", e.body.lease = f.body.lease
      PROVE  e = f
  <2>1. PICK a \in Peer : e \in log[a]
    BY <1>5
  <2>2. PICK b \in Peer : f \in log[b]
    BY <1>5
  <2>3. QED
    BY <1>5, <2>1, <2>2 DEF Turns
<1>6. QED
  BY <1>1, <1>4, <1>5 DEF Turns

(* A new lease is acquired; the store may refuse its event.                  *)
LEMMA TurnsOpened ==
  ASSUME Typed, Logs, Turns, issued' = issued + 1, UNCHANGED <<skew, now>>,
         PublishedWhole' => PublishedWhole,
         NEW p \in Peer, NEW lease \in Leases,
         lease.holder = p, lease.from = Clock(p), lease.till = lease.from + Duration,
         \A q \in Peer : \A t \in TablesOf(q)' :
           \/ t \in TablesOf(q)
           \/ q = p /\ \E s \in TablesOf(p) : t = Put(s, issued + 1, lease),
         \A q \in Peer : \A f \in log'[q] :
           \/ f \in log[q]
           \/ f.kind = "lease" /\ f.id = issued + 1 /\ f.body = lease /\ f.sender = p,
         \A q \in Peer : log'[q] \subseteq Events
  PROVE  Turns'
<1>1. PICK grant \in Grants : Grantings(grant)
  BY DEF Turns
<1>2. issued \in Nat /\ issued + 1 \in Nat /\ issued <= issued' /\ issued' \in Nat
      /\ now \in Nat /\ now' \in Nat /\ now <= now' /\ skew' = skew
  BY DEF Typed
<1>3. PICK other : other = [grant EXCEPT ![issued + 1] = [holder |-> p, from |-> lease.from]]
  OBVIOUS
<1>4. /\ other \in Grants /\ other[issued + 1].holder = p /\ other[issued + 1].from = lease.from
      /\ \A l \in Nat : l # issued + 1 => other[l] = grant[l]
  BY <1>2, <1>3 DEF Grants, Leases
<1>5. \A l \in Ids : l \in Nat /\ l # issued + 1
  BY <1>2 DEF Ids
<1>6. ASSUME NEW q \in Peer, NEW t \in TablesOf(q) PROVE t \in Tables(Leases) /\ Granted(other, t)'
  <2>1. t \in Tables(Leases) /\ Granted(grant, t)
    BY <1>1, TablesTyped DEF Grantings
  <2>2. Granted(other, t)
    BY <1>4, <1>5, <2>1 DEF Granted
  <2>3. QED
    BY <1>2, <2>1, <2>2, GrantedStays
<1>7. issued + 1 \in Ids'
  BY <1>2 DEF Ids
<1>8. Clock(p)' = Clock(p) /\ Clock(p) \in Nat
  BY <1>2, ClockGrows
<1>9. ASSUME NEW q \in Peer, NEW t \in TablesOf(q)' PROVE Granted(other, t)'
  <2>1. CASE t \in TablesOf(q)
    BY <1>6, <2>1
  <2>2. CASE q = p /\ \E s \in TablesOf(p) : t = Put(s, issued + 1, lease)
    <3>1. PICK s \in TablesOf(p) : t = Put(s, issued + 1, lease)
      BY <2>2
    <3>2. s \in Tables(Leases) /\ Granted(other, s)'
      BY <1>6
    <3>3. /\ DOMAIN t = DOMAIN s \cup {issued + 1}
          /\ t[issued + 1] = lease
          /\ \A y \in DOMAIN s : y # issued + 1 => t[y] = s[y]
      <4>1. PICK n \in Nat : n = issued + 1
        BY <1>2
      <4>2. PICK u : u = Put(s, n, lease)
        OBVIOUS
      <4>3. /\ DOMAIN u = DOMAIN s \cup {n} /\ u[n] = lease
            /\ \A y \in DOMAIN s : y # n => u[y] = s[y]
        BY <3>2, <4>2, PutLease
      <4>4. t = u
        BY <3>1, <4>1, <4>2
      <4>5. QED
        BY <4>1, <4>3, <4>4
    <3>4. ASSUME NEW k \in DOMAIN t
          PROVE  /\ k \in Ids' /\ t[k].holder = other[k].holder /\ t[k].from = other[k].from
                 /\ t[k].from <= Clock(t[k].holder)' /\ t[k].till <= t[k].from + Duration
      <4>1. CASE k = issued + 1
        <5>1. lease.from <= Clock(p)' /\ lease.till <= lease.from + Duration
          BY <1>8, ConstantsAssumption DEF Leases
        <5>2. QED
          BY <1>4, <1>7, <3>3, <4>1, <5>1 DEF Clock
      <4>2. CASE k # issued + 1
        <5>1. k \in DOMAIN s /\ t[k] = s[k]
          BY <3>3, <4>2
        <5>2. QED
          BY <3>2, <5>1 DEF Granted, Clock
      <4>3. QED
        BY <4>1, <4>2
    <3>5. QED
      BY <3>4 DEF Granted, Clock
  <2>3. QED
    BY <1>9, <2>1, <2>2
<1>10. ASSUME NEW q \in Peer, NEW e \in log'[q]
       PROVE  /\ GrantEvent(other, e)'
              /\ PublishedWhole' /\ e.kind = "release" => \A t \in TablesOf(e.sender)' : Ended(t, e)
  <2>1. e \in Events /\ e.sender \in Peer
    BY <1>10, LeaseEvent
  <2>2. CASE e \in log[q]
    <3>1. /\ GrantEvent(grant, e) /\ e.id \in Ids
          /\ PublishedWhole /\ e.kind = "release" => \A t \in TablesOf(e.sender) : Ended(t, e)
      BY <1>1, <2>2 DEF Grantings, Logs, Named
    <3>2. e.kind = "release" => e.body.lease \in Ids
      BY <3>1 DEF GrantEvent
    <3>3. GrantEvent(other, e)
      BY <1>4, <1>5, <3>1, <3>2 DEF GrantEvent
    <3>4. GrantEvent(other, e)'
      BY <1>2, <2>1, <3>3, GrantEventStays
    <3>5. ASSUME PublishedWhole', e.kind = "release", NEW t \in TablesOf(e.sender)' PROVE Ended(t, e)
      <4>1. CASE t \in TablesOf(e.sender)
        BY <3>1, <3>5, <4>1
      <4>2. CASE \E s \in TablesOf(e.sender) : t = Put(s, issued + 1, lease)
        <5>1. PICK s \in TablesOf(e.sender) : t = Put(s, issued + 1, lease)
          BY <4>2
        <5>2. s \in Tables(Leases) /\ Ended(s, e)
          BY <2>1, <3>1, <3>5, <5>1, TablesTyped
        <5>3. e.body.lease # issued + 1
          BY <1>5, <3>2, <3>5
        <5>4. QED
          BY <1>2, <5>1, <5>2, <5>3, EndedPut
      <4>3. QED
        BY <2>1, <3>5, <4>1, <4>2
    <3>6. QED
      BY <3>4, <3>5
  <2>3. CASE e \notin log[q]
    <3>1. e.kind = "lease" /\ e.id = issued + 1 /\ e.body = lease /\ e.sender = p
      BY <1>10, <2>3
    <3>2. lease.from <= Clock(p)'
      BY <1>8 DEF Leases
    <3>3. QED
      BY <1>4, <3>1, <3>2 DEF GrantEvent, Clock
  <2>4. QED
    BY <2>2, <2>3
<1>11. Grantings(other)'
  BY <1>9, <1>10 DEF Grantings, Ended
<1>12. ASSUME PublishedWhole', NEW a \in Peer, NEW b \in Peer, NEW e \in log'[a], NEW f \in log'[b],
              e.kind = "release", f.kind = "release", e.body.lease = f.body.lease
       PROVE  e = f
  <2>1. e \in log[a] /\ f \in log[b]
    BY <1>12
  <2>2. QED
    BY <1>12, <2>1 DEF Turns
<1>13. QED
  BY <1>4, <1>11, <1>12 DEF Turns


(* What is granted stays so; what is new is given.                           *)
LEMMA TurnsAre ==
  ASSUME Typed, NEW grant \in Grants, Grantings(grant),
         issued' \in Nat, issued <= issued', UNCHANGED <<skew, now>>,
         \A q \in Peer : \A t \in TablesOf(q)' :
           t \in TablesOf(q) \/ (t \in Tables(Leases) /\ Granted(grant, t)),
         \A q \in Peer : log'[q] \subseteq Events,
         \A q \in Peer : \A f \in log'[q] :
           f.kind \in {"lease", "release"} => GrantEvent(grant, f) \/ \E a \in Peer : f \in log[a],
         PublishedWhole' => \A q \in Peer : \A f \in log'[q] :
           f.kind = "release" => \A t \in TablesOf(f.sender)' : Ended(t, f),
         PublishedWhole' => \A q, r \in Peer : \A f \in log'[q], g \in log'[r] :
           f.kind = "release" /\ g.kind = "release" /\ f.body.lease = g.body.lease => f = g
  PROVE  Turns'
<1>1. now \in Nat /\ now' \in Nat /\ now <= now' /\ skew' = skew
  BY DEF Typed
<1>2. ASSUME NEW q \in Peer, NEW t \in TablesOf(q)' PROVE Granted(grant, t)'
  <2>1. t \in Tables(Leases) /\ Granted(grant, t)
    <3>1. CASE t \in TablesOf(q)
      BY <3>1, TablesTyped DEF Grantings
    <3>2. QED
      BY <1>2, <3>1
  <2>2. QED
    BY <1>1, <2>1, GrantedStays
<1>3. ASSUME NEW q \in Peer, NEW f \in log'[q] PROVE GrantEvent(grant, f)'
  <2>1. f \in Events
    BY <1>3
  <2>2. CASE f.kind \in {"lease", "release"}
    <3>1. GrantEvent(grant, f)
      BY <1>3, <2>2 DEF Grantings
    <3>2. QED
      BY <1>1, <2>1, <3>1, GrantEventStays
  <2>3. CASE f.kind \notin {"lease", "release"}
    BY <2>3 DEF GrantEvent
  <2>4. QED
    BY <2>2, <2>3
<1>4. Grantings(grant)'
  BY <1>2, <1>3 DEF Grantings, Ended
<1>5. PublishedWhole' => \A q, r \in Peer : \A f \in log'[q], g \in log'[r] :
        f.kind = "release" /\ g.kind = "release" /\ f.body.lease = g.body.lease => f = g
  OBVIOUS
<1>6. QED
  BY <1>4, <1>5 DEF Turns

(* Another's lease is taken.                                                 *)
LEMMA TurnsTook ==
  ASSUME Typed, Logs, Turns, NEW p \in Peer, NEW e, Stores(p, e), e.kind = "lease",
         PublishedWhole' => PublishedWhole,
         \A q \in Peer : \A t \in TablesOf(q)' :
           \/ t \in TablesOf(q)
           \/ q = p /\ \E s \in TablesOf(p) : t = Put(s, e.id, e.body)
  PROVE  Turns'
<1>1. PICK grant \in Grants : Grantings(grant)
  BY DEF Turns
<1>2. /\ e \in Events /\ Named(e) /\ e.sender \in Peer /\ e.sender # p /\ e \in log[e.sender]
      /\ \A q \in Peer : \A f \in log'[q] : f \in log[q] \/ (q = p /\ f = e)
  BY TakenEvent
<1>3. UNCHANGED <<skew, now>> /\ issued' = issued /\ issued \in Nat
  BY DEF Typed, Stores
<1>4. e.id \in Ids /\ e.id \in Nat /\ e.body \in Leases
  BY <1>2, LeaseEvent DEF Named
<1>5. GrantEvent(grant, e)
  BY <1>1, <1>2 DEF Grantings
<1>6. /\ e.body.holder = e.sender /\ e.body.holder = grant[e.id].holder
      /\ e.body.from = grant[e.id].from /\ e.body.till = e.body.from + Duration
      /\ e.body.from <= Clock(e.body.holder)
  BY <1>5 DEF GrantEvent
<1>7. e.body.till <= e.body.from + Duration
  BY <1>4, <1>6, ConstantsAssumption DEF Leases
<1>8. ASSUME NEW q \in Peer, NEW t \in TablesOf(q)'
      PROVE  t \in TablesOf(q) \/ (t \in Tables(Leases) /\ Granted(grant, t))
  <2>1. CASE q = p /\ \E s \in TablesOf(p) : t = Put(s, e.id, e.body)
    <3>1. PICK s \in TablesOf(p) : t = Put(s, e.id, e.body)
      BY <2>1
    <3>2. s \in Tables(Leases) /\ Granted(grant, s)
      BY <1>1, TablesTyped DEF Grantings
    <3>3. t \in Tables(Leases)
      BY <1>4, <3>1, <3>2, PutLease
    <3>4. Granted(grant, t)
      BY <1>4, <1>6, <1>7, <3>1, <3>2, GrantedPut
    <3>5. QED
      BY <3>3, <3>4
  <2>2. QED
    BY <1>8, <2>1
<1>9. \A q \in Peer : log'[q] \subseteq Events
  BY <1>2 DEF Typed
<1>10. \A q \in Peer : \A f \in log'[q] : \E a \in Peer : f \in log[a]
  BY <1>2
<1>11. ASSUME PublishedWhole', NEW q \in Peer, NEW f \in log'[q], f.kind = "release", NEW t \in TablesOf(f.sender)'
       PROVE  Ended(t, f)
  <2>1. PICK a \in Peer : f \in log[a]
    BY <1>10, <1>11
  <2>2. /\ f \in Events /\ f.sender \in Peer /\ GrantEvent(grant, f)
        /\ \A s \in TablesOf(f.sender) : Ended(s, f)
    BY <1>1, <1>11, <2>1, LeaseEvent DEF Grantings, Typed
  <2>3. CASE f.sender = p /\ \E s \in TablesOf(p) : t = Put(s, e.id, e.body)
    <3>1. PICK s \in TablesOf(p) : t = Put(s, e.id, e.body)
      BY <2>3
    <3>2. s \in Tables(Leases) /\ Ended(s, f)
      BY <2>2, <2>3, <3>1, TablesTyped
    <3>3. f.sender = grant[f.body.lease].holder
      BY <1>11, <2>2 DEF GrantEvent
    <3>4. f.body.lease # e.id
      BY <1>2, <1>6, <2>3, <3>3
    <3>5. QED
      BY <1>4, <3>1, <3>2, <3>4, EndedPut
  <2>4. QED
    BY <1>11, <2>2, <2>3
<1>12. ASSUME PublishedWhole', NEW a \in Peer, NEW b \in Peer, NEW f \in log'[a], NEW g \in log'[b],
              f.kind = "release", g.kind = "release", f.body.lease = g.body.lease
       PROVE  f = g
  <2>1. PICK c \in Peer : f \in log[c]
    BY <1>10, <1>12
  <2>2. PICK d \in Peer : g \in log[d]
    BY <1>10, <1>12
  <2>3. QED
    BY <1>12, <2>1, <2>2 DEF Turns
<1>13. issued' \in Nat /\ issued <= issued'
  BY <1>3
<1>14. QED
  BY <1>1, <1>3, <1>8, <1>9, <1>10, <1>11, <1>12, <1>13, TurnsAre

(* Another's release is taken.                                               *)
LEMMA TurnsEnded ==
  ASSUME Typed, Logs, Turns, NEW p \in Peer, NEW e, Stores(p, e), e.kind = "release",
         PublishedWhole' => PublishedWhole,
         \A q \in Peer : \A t \in TablesOf(q)' :
           \/ t \in TablesOf(q)
           \/ /\ q = p
              /\ \E s \in TablesOf(p) : \E n \in Nat :
                   /\ e.body.lease \in DOMAIN s /\ n <= e.body.time
                   /\ t = Released(s, e.body.lease, n)
  PROVE  Turns'
<1>1. PICK grant \in Grants : Grantings(grant)
  BY DEF Turns
<1>2. /\ e \in Events /\ Named(e) /\ e.sender \in Peer /\ e.sender # p /\ e \in log[e.sender]
      /\ \A q \in Peer : \A f \in log'[q] : f \in log[q] \/ (q = p /\ f = e)
  BY TakenEvent
<1>3. UNCHANGED <<skew, now>> /\ issued' = issued /\ issued \in Nat
  BY DEF Typed, Stores
<1>4. e.body.lease \in Nat /\ e.body.time \in Nat
  BY <1>2, LeaseEvent
<1>5. PICK l \in Nat : l = e.body.lease
  BY <1>4
<1>6. /\ e.sender = grant[l].holder /\ grant[l].from \in Nat
      /\ e.body.time < grant[l].from + Duration
  BY <1>1, <1>2, <1>5 DEF Grantings, GrantEvent, Grants
<1>7. ASSUME NEW q \in Peer, NEW t \in TablesOf(q)'
      PROVE  t \in TablesOf(q) \/ (t \in Tables(Leases) /\ Granted(grant, t))
  <2>1. CASE /\ q = p
             /\ \E s \in TablesOf(p) : \E n \in Nat :
                  l \in DOMAIN s /\ n <= e.body.time /\ t = Released(s, l, n)
    <3>1. PICK s \in TablesOf(p), n \in Nat :
                  l \in DOMAIN s /\ n <= e.body.time /\ t = Released(s, l, n)
      BY <2>1
    <3>2. s \in Tables(Leases) /\ Granted(grant, s)
      BY <1>1, TablesTyped DEF Grantings
    <3>3. t \in Tables(Leases)
      BY <3>1, <3>2, ReleasedFacts
    <3>4. n <= grant[l].from + Duration
      BY <1>4, <1>6, <3>1, ConstantsAssumption
    <3>5. Granted(grant, t)
      BY <3>1, <3>2, <3>4, GrantedReleased
    <3>6. QED
      BY <3>3, <3>5
  <2>2. QED
    BY <1>5, <1>7, <2>1
<1>8. \A q \in Peer : log'[q] \subseteq Events
  BY <1>2 DEF Typed
<1>9. \A q \in Peer : \A f \in log'[q] : \E a \in Peer : f \in log[a]
  BY <1>2
<1>10. ASSUME PublishedWhole', NEW q \in Peer, NEW f \in log'[q], f.kind = "release", NEW t \in TablesOf(f.sender)'
       PROVE  Ended(t, f)
  <2>1. PICK a \in Peer : f \in log[a]
    BY <1>9, <1>10
  <2>2. /\ f \in Events /\ f.sender \in Peer /\ GrantEvent(grant, f)
        /\ \A s \in TablesOf(f.sender) : Ended(s, f)
    BY <1>1, <1>10, <2>1, LeaseEvent DEF Grantings, Typed
  <2>3. CASE /\ f.sender = p
             /\ \E s \in TablesOf(p) : \E n \in Nat : l \in DOMAIN s /\ t = Released(s, l, n)
    <3>1. PICK s \in TablesOf(p), n \in Nat : l \in DOMAIN s /\ t = Released(s, l, n)
      BY <2>3
    <3>2. s \in Tables(Leases) /\ Ended(s, f)
      BY <2>2, <2>3, <3>1, TablesTyped
    <3>3. f.sender = grant[f.body.lease].holder
      BY <1>10, <2>2 DEF GrantEvent
    <3>4. f.body.lease # l
      BY <1>2, <1>6, <2>3, <3>3
    <3>5. QED
      BY <3>1, <3>2, <3>4, EndedReleased
  <2>4. QED
    BY <1>5, <1>10, <2>2, <2>3
<1>11. ASSUME PublishedWhole', NEW a \in Peer, NEW b \in Peer, NEW f \in log'[a], NEW g \in log'[b],
              f.kind = "release", g.kind = "release", f.body.lease = g.body.lease
       PROVE  f = g
  <2>1. PICK c \in Peer : f \in log[c]
    BY <1>9, <1>11
  <2>2. PICK d \in Peer : g \in log[d]
    BY <1>9, <1>11
  <2>3. QED
    BY <1>11, <2>1, <2>2 DEF Turns
<1>12. issued' \in Nat /\ issued <= issued'
  BY <1>3
<1>13. QED
  BY <1>1, <1>3, <1>7, <1>8, <1>9, <1>10, <1>11, <1>12, TurnsAre

(* A device's own lease that runs is not released yet.                       *)
LEMMA NotReleased ==
  ASSUME Typed, Turns, NEW p \in Peer, NEW l \in Active(doc[p].leases, Clock(p)),
         doc[p].leases[l].holder = p
  PROVE  /\ PublishedWhole => \A q \in Peer : \A f \in log[q] : f.kind = "release" => f.body.lease # l
         /\ Clock(p) < doc[p].leases[l].from + Duration
<1>1. PICK grant \in Grants : Grantings(grant)
  BY DEF Turns
<1>2. PICK time \in Nat : time = Clock(p)
  BY ClockIs
<1>3. PICK t \in TablesOf(p) : t = doc[p].leases
  BY DEF TablesOf
<1>4. /\ l \in DOMAIN t /\ t[l].from <= time /\ time < t[l].till
      /\ t[l].holder = p /\ t[l].from \in Nat /\ t[l].till \in Nat
  BY <1>2, <1>3, TablesTyped DEF Active, Leases
<1>5. t[l].holder = grant[l].holder /\ t[l].till <= t[l].from + Duration
  BY <1>1, <1>4 DEF Grantings, Granted
<1>6. ASSUME PublishedWhole, NEW q \in Peer, NEW f \in log[q], f.kind = "release", f.body.lease = l
      PROVE  FALSE
  <2>1. f \in Events /\ GrantEvent(grant, f) /\ f.body.time \in Nat
        /\ \A u \in TablesOf(f.sender) : Ended(u, f)
    BY <1>1, <1>6, LeaseEvent DEF Grantings, Typed
  <2>2. f.sender = p /\ f.body.time <= time
    BY <1>2, <1>4, <1>5, <1>6, <2>1 DEF GrantEvent
  <2>3. t[l].till <= f.body.time
    BY <1>4, <1>6, <2>1, <2>2 DEF Ended
  <2>4. QED
    BY <1>4, <2>1, <2>2, <2>3
<1>7. time < t[l].from + Duration
  BY <1>4, <1>5, ConstantsAssumption
<1>8. QED
  BY <1>2, <1>3, <1>6, <1>7

(* A device releases its own lease, that has not ended; the store may refuse *)
(* the event.                                                                *)
LEMMA TurnsClosed ==
  ASSUME Typed, Logs, Turns, issued' = issued + 1, UNCHANGED <<skew, now>>,
         PublishedWhole' => PublishedWhole,
         NEW p \in Peer, NEW l \in Active(doc[p].leases, Clock(p)), doc[p].leases[l].holder = p,
         \A q \in Peer : \A t \in TablesOf(q)' :
           \/ t \in TablesOf(q)
           \/ /\ q = p
              /\ \E s \in TablesOf(p) : \E n \in Nat :
                   l \in DOMAIN s /\ n <= Clock(p) /\ t = Released(s, l, n),
         NEW e \in Events, e.kind = "release", e.sender = p, e.body.lease = l,
         e.body.time = Clock(p),
         \A q \in Peer : \A f \in log'[q] : f \in log[q] \/ f = e,
         \/ ~PublishedWhole' \/ (\A q \in Peer : log'[q] = log[q])
         \/ \A t \in TablesOf(p)' : Ended(t, e)
  PROVE  Turns'
<1>1. PICK grant \in Grants : Grantings(grant)
  BY DEF Turns
<1>2. issued' \in Nat /\ issued <= issued' /\ Clock(p) \in Nat
  BY ClockGrows DEF Typed
<1>3. PICK t0 \in TablesOf(p) : t0 = doc[p].leases
  BY DEF TablesOf
<1>4. /\ l \in DOMAIN t0 /\ t0[l].from <= Clock(p) /\ Clock(p) < t0[l].till
      /\ t0[l].holder = p /\ t0[l].from \in Nat /\ t0[l].till \in Nat /\ l \in Nat
  BY <1>3, TablesTyped DEF Active, Leases
<1>5. /\ l \in Ids /\ t0[l].holder = grant[l].holder /\ t0[l].from = grant[l].from
      /\ t0[l].till <= t0[l].from + Duration
  BY <1>1, <1>4 DEF Grantings, Granted
<1>6. /\ grant[l].holder = p /\ grant[l].from <= Clock(p) /\ grant[l].from \in Nat
      /\ Clock(p) < grant[l].from + Duration
  BY <1>2, <1>4, <1>5, ConstantsAssumption
<1>7. GrantEvent(grant, e)
  BY <1>2, <1>5, <1>6 DEF GrantEvent
<1>8. PublishedWhole => \A q \in Peer : \A f \in log[q] : f.kind = "release" => f.body.lease # l
  BY NotReleased
<1>9. ASSUME NEW q \in Peer, NEW t \in TablesOf(q)'
      PROVE  t \in TablesOf(q) \/ (t \in Tables(Leases) /\ Granted(grant, t))
  <2>1. CASE /\ q = p
             /\ \E s \in TablesOf(p) : \E n \in Nat :
                  l \in DOMAIN s /\ n <= Clock(p) /\ t = Released(s, l, n)
    <3>1. PICK s \in TablesOf(p), n \in Nat :
                  l \in DOMAIN s /\ n <= Clock(p) /\ t = Released(s, l, n)
      BY <2>1
    <3>2. s \in Tables(Leases) /\ Granted(grant, s)
      BY <1>1, TablesTyped DEF Grantings
    <3>3. t \in Tables(Leases)
      BY <3>1, <3>2, ReleasedFacts
    <3>4. n <= grant[l].from + Duration
      BY <1>2, <1>6, <3>1, ConstantsAssumption
    <3>5. Granted(grant, t)
      BY <3>1, <3>2, <3>4, GrantedReleased
    <3>6. QED
      BY <3>3, <3>5
  <2>2. QED
    BY <1>9, <2>1
<1>10. \A q \in Peer : log'[q] \subseteq Events
  BY DEF Typed
<1>11. \A q \in Peer : \A f \in log'[q] : GrantEvent(grant, f) \/ \E a \in Peer : f \in log[a]
  BY <1>7
<1>12. ASSUME PublishedWhole', NEW q \in Peer, NEW f \in log'[q], f.kind = "release", NEW t \in TablesOf(f.sender)'
       PROVE  Ended(t, f)
  <2>1. CASE f \in log[q]
    <3>1. /\ f \in Events /\ f.sender \in Peer /\ \A s \in TablesOf(f.sender) : Ended(s, f)
          /\ f.body.lease # l
      BY <1>1, <1>8, <1>12, <2>1, LeaseEvent DEF Grantings, Typed
    <3>2. CASE f.sender = p /\ \E s \in TablesOf(p) : \E n \in Nat : l \in DOMAIN s /\ t = Released(s, l, n)
      <4>1. PICK s \in TablesOf(p), n \in Nat : l \in DOMAIN s /\ t = Released(s, l, n)
        BY <3>2
      <4>2. s \in Tables(Leases) /\ Ended(s, f)
        BY <3>1, <3>2, <4>1, TablesTyped
      <4>3. QED
        BY <3>1, <4>1, <4>2, EndedReleased
    <3>3. QED
      BY <1>12, <3>1, <3>2
  <2>2. CASE f \notin log[q]
    <3>1. f = e /\ f.sender = p /\ log'[q] # log[q]
      BY <1>12, <2>2
    <3>2. QED
      BY <1>12, <3>1
  <2>3. QED
    BY <2>1, <2>2
<1>13. ASSUME PublishedWhole', NEW a \in Peer, NEW b \in Peer, NEW f \in log'[a], NEW g \in log'[b],
              f.kind = "release", g.kind = "release", f.body.lease = g.body.lease
       PROVE  f = g
  <2>1. CASE f \in log[a] /\ g \in log[b]
    BY <1>13, <2>1 DEF Turns
  <2>2. CASE f \in log[a] /\ g = e
    BY <1>8, <1>13, <2>2
  <2>3. CASE f = e /\ g \in log[b]
    BY <1>8, <1>13, <2>3
  <2>4. QED
    BY <1>13, <2>1, <2>2, <2>3
<1>14. QED
  BY <1>1, <1>2, <1>9, <1>10, <1>11, <1>12, <1>13, TurnsAre

-----------------------------------------------------------------------------
(* What a device that never failed to publish knows of leases *)

LEMMA KnownStays ==
  ASSUME NEW events, NEW t, Known(events, t), NEW more, events \subseteq more,
         \A f \in more : f \in events \/ f.kind \notin {"lease", "release"}
  PROVE  Known(more, t)
<1>1. \A l \in DOMAIN t : \E e \in more :
        e.kind = "lease" /\ e.id = l /\ t[l].holder = e.body.holder /\ t[l].from = e.body.from
  BY DEF Known
<1>2. \A e \in more : e.kind = "lease" => e.id \in DOMAIN t
  BY DEF Known
<1>3. \A e \in more : e.kind = "release" =>
        e.body.lease \in DOMAIN t /\ t[e.body.lease].till = e.body.time
  BY DEF Known
<1>4. \A l \in DOMAIN t :
        \/ t[l].till = t[l].from + Duration
        \/ \E e \in more : e.kind = "release" /\ e.body.lease = l
  BY DEF Known
<1>5. QED
  BY <1>1, <1>2, <1>3, <1>4 DEF Known

LEMMA KnownPut ==
  ASSUME NEW events, NEW t \in Tables(Leases), Known(events, t),
         NEW e, e.kind = "lease", e.id \in Nat, e.body \in Leases,
         e.body.till = e.body.from + Duration,
         \A f \in events : f.id # e.id
  PROVE  Known(events \cup {e}, Put(t, e.id, e.body))
<1> DEFINE more == events \cup {e}
<1>1. PICK l \in Nat : l = e.id
  OBVIOUS
<1>2. PICK u : u = Put(t, l, e.body)
  OBVIOUS
<1>3. /\ DOMAIN u = DOMAIN t \cup {l} /\ u[l] = e.body
      /\ \A y \in DOMAIN t : y # l => u[y] = t[y]
  BY <1>2 DEF Put
<1>4. l \notin DOMAIN t
  <2>1. \A k \in DOMAIN t : \E f \in events : f.id = k
    BY DEF Known
  <2>2. QED
    BY <1>1, <2>1
<1>5. \A k \in DOMAIN t : u[k] = t[k]
  BY <1>3, <1>4
<1>6. ASSUME NEW k \in DOMAIN u
      PROVE  \E f \in more : f.kind = "lease" /\ f.id = k
                             /\ u[k].holder = f.body.holder /\ u[k].from = f.body.from
  <2>1. CASE k = l
    BY <1>1, <1>3, <2>1
  <2>2. CASE k \in DOMAIN t
    <3>1. PICK f \in events : f.kind = "lease" /\ f.id = k
                              /\ t[k].holder = f.body.holder /\ t[k].from = f.body.from
      BY <2>2 DEF Known
    <3>2. QED
      BY <1>5, <2>2, <3>1
  <2>3. QED
    BY <1>3, <2>1, <2>2
<1>7. \A f \in more : f.kind = "lease" => f.id \in DOMAIN u
  BY <1>1, <1>3 DEF Known
<1>8. ASSUME NEW f \in more, f.kind = "release"
      PROVE  f.body.lease \in DOMAIN u /\ u[f.body.lease].till = f.body.time
  <2>1. f \in events
    BY <1>8
  <2>2. f.body.lease \in DOMAIN t /\ t[f.body.lease].till = f.body.time
    BY <1>8, <2>1 DEF Known
  <2>3. QED
    BY <1>3, <1>5, <2>2
<1>9. ASSUME NEW k \in DOMAIN u
      PROVE  \/ u[k].till = u[k].from + Duration
             \/ \E f \in more : f.kind = "release" /\ f.body.lease = k
  <2>1. CASE k = l
    BY <1>3, <2>1
  <2>2. CASE k \in DOMAIN t
    BY <1>5, <2>2 DEF Known
  <2>3. QED
    BY <1>3, <2>1, <2>2
<1>10. Known(more, u)
  BY <1>6, <1>7, <1>8, <1>9 DEF Known
<1>11. QED
  BY <1>1, <1>2, <1>10

LEMMA KnownReleased ==
  ASSUME NEW events, NEW t \in Tables(Leases), Known(events, t),
         NEW e, e.kind = "release", NEW l \in DOMAIN t, e.body.lease = l, e.body.time \in Nat,
         \A f \in events : f.kind = "release" => f.body.lease # l
  PROVE  Known(events \cup {e}, Released(t, l, e.body.time))
<1> DEFINE more == events \cup {e}
<1>1. PICK n \in Nat : n = e.body.time
  OBVIOUS
<1>2. PICK u : u = Released(t, l, n)
  OBVIOUS
<1>3. /\ DOMAIN u = DOMAIN t /\ u[l].till = n
      /\ u[l].holder = t[l].holder /\ u[l].from = t[l].from
      /\ \A k \in DOMAIN t : k # l => u[k] = t[k]
  BY <1>2, ReleasedFacts
<1>4. \A k \in DOMAIN u : u[k].holder = t[k].holder /\ u[k].from = t[k].from
  BY <1>3
<1>5. ASSUME NEW k \in DOMAIN u
      PROVE  \E f \in more : f.kind = "lease" /\ f.id = k
                             /\ u[k].holder = f.body.holder /\ u[k].from = f.body.from
  <2>1. PICK f \in events : f.kind = "lease" /\ f.id = k
                            /\ t[k].holder = f.body.holder /\ t[k].from = f.body.from
    BY <1>3, <1>5 DEF Known
  <2>2. QED
    BY <1>4, <1>5, <2>1
<1>6. \A f \in more : f.kind = "lease" => f.id \in DOMAIN u
  BY <1>3 DEF Known
<1>7. \A f \in more : f.kind = "release" =>
        f.body.lease \in DOMAIN u /\ u[f.body.lease].till = f.body.time
  BY <1>1, <1>3 DEF Known
<1>8. ASSUME NEW k \in DOMAIN u
      PROVE  \/ u[k].till = u[k].from + Duration
             \/ \E f \in more : f.kind = "release" /\ f.body.lease = k
  <2>1. CASE k = l
    BY <2>1
  <2>2. CASE k # l
    BY <1>3, <1>8, <2>2 DEF Known
  <2>3. QED
    BY <2>1, <2>2
<1>9. Known(more, u)
  BY <1>5, <1>6, <1>7, <1>8 DEF Known
<1>10. QED
  BY <1>1, <1>2, <1>9

(* A lease of which no release had an effect runs for its whole duration.    *)
LEMMA KnownWhole ==
  ASSUME NEW events, NEW t, Known(events, t), NEW l \in DOMAIN t,
         \A f \in events : f.kind = "release" => f.body.lease # l
  PROVE  t[l].till = t[l].from + Duration
  BY DEF Known

(* The two tables of a device in memory are one.                             *)
Knows(p) ==
  view[p].leases = doc[p].leases /\ Known(Presented(p), doc[p].leases)

LEMMA KnowingIs ==
  /\ Knowing <=> (PublishedWhole => \A p \in Peer : p \notin past.failed => Knows(p))
  /\ Knowing' <=> (PublishedWhole' => \A p \in Peer : p \notin past'.failed => Knows(p)')
  BY DEF Knowing, Knows

(* The tables of leases stay; no lease or release is presented.              *)
LEMMA KnowingStays ==
  ASSUME Knowing, PublishedWhole' => PublishedWhole, past.failed \subseteq past'.failed,
         \A q \in Peer : q \notin past'.failed =>
           /\ view'[q].leases \in {view[q].leases, doc[q].leases}
           /\ doc'[q].leases \in {view[q].leases, doc[q].leases}
           /\ Presented(q) \subseteq Presented(q)'
           /\ \A f \in Presented(q)' : f \in Presented(q) \/ f.kind \notin {"lease", "release"}
  PROVE  Knowing'
<1>1. ASSUME PublishedWhole', NEW q \in Peer, q \notin past'.failed PROVE Knows(q)'
  <2>1. Knows(q)
    BY <1>1, KnowingIs
  <2>2. PICK t : t = doc[q].leases
    OBVIOUS
  <2>3. Known(Presented(q), t) /\ view[q].leases = t
    BY <2>1, <2>2 DEF Knows
  <2>4. Known(Presented(q)', t)
    BY <1>1, <2>3, KnownStays
  <2>5. doc'[q].leases = t /\ view'[q].leases = t
    BY <1>1, <2>2, <2>3
  <2>6. QED
    BY <2>4, <2>5 DEF Knows
<1>2. QED
  BY <1>1, KnowingIs

(* One device learns of something; everyone else knows what they knew.       *)
LEMMA KnowingLearns ==
  ASSUME Knowing, PublishedWhole' => PublishedWhole, past.failed \subseteq past'.failed,
         NEW p \in Peer,
         \A q \in Peer : q # p =>
           view'[q] = view[q] /\ doc'[q] = doc[q] /\ Presented(q)' = Presented(q),
         PublishedWhole' /\ p \notin past'.failed /\ Knows(p) => Knows(p)'
  PROVE  Knowing'
<1>1. ASSUME PublishedWhole', NEW q \in Peer, q \notin past'.failed PROVE Knows(q)'
  <2>1. Knows(q)
    BY <1>1, KnowingIs
  <2>2. CASE q = p
    BY <1>1, <2>1, <2>2
  <2>3. CASE q # p
    BY <2>1, <2>3 DEF Knows
  <2>4. QED
    BY <2>2, <2>3
<1>2. QED
  BY <1>1, KnowingIs

LEMMA KnowsPut ==
  ASSUME Typed, NEW p \in Peer, Knows(p), NEW e \in Events, e.kind = "lease",
         e.body.till = e.body.from + Duration,
         Presented(p)' = Presented(p) \cup {e}, \A f \in Presented(p) : f.id # e.id,
         doc'[p].leases = Put(doc[p].leases, e.id, e.body),
         view'[p].leases = Put(view[p].leases, e.id, e.body)
  PROVE  Knows(p)'
<1>1. PICK t \in Tables(Leases) : t = doc[p].leases
  BY DEF Typed, Documents
<1>2. Known(Presented(p), t) /\ view[p].leases = t
  BY <1>1 DEF Knows
<1>3. e.id \in Nat /\ e.body \in Leases
  BY LeaseEvent
<1>4. Known(Presented(p)', Put(t, e.id, e.body))
  BY <1>2, <1>3, KnownPut
<1>5. doc'[p].leases = Put(t, e.id, e.body) /\ view'[p].leases = Put(t, e.id, e.body)
  BY <1>1, <1>2
<1>6. QED
  BY <1>4, <1>5 DEF Knows

(* A device has a lease that no event has come for yet only if it has failed *)
(* to publish.                                                               *)
LEMMA KnowsIds ==
  ASSUME NEW p, Knows(p), NEW l \in DOMAIN doc[p].leases
  PROVE  \E f \in Presented(p) : f.kind = "lease" /\ f.id = l
  BY DEF Knows, Known

LEMMA KnowsReleased ==
  ASSUME Typed, NEW p \in Peer, Knows(p), NEW e \in Events, e.kind = "release",
         NEW l \in DOMAIN doc[p].leases, e.body.lease = l,
         e.body.time < doc[p].leases[l].from + Duration,
         Presented(p)' = Presented(p) \cup {e},
         \A f \in Presented(p) : f.kind = "release" => f.body.lease # l,
         doc'[p].leases = Released(doc[p].leases, l, Least(doc[p].leases[l].till, e.body.time)),
         l \in DOMAIN view[p].leases =>
           view'[p].leases = Released(view[p].leases, l, e.body.time)
  PROVE  Knows(p)'
<1>1. PICK t \in Tables(Leases) : t = doc[p].leases
  BY DEF Typed, Documents
<1>2. Known(Presented(p), t) /\ view[p].leases = t /\ l \in DOMAIN t
  BY <1>1 DEF Knows
<1>3. e.body.time \in Nat /\ t[l] \in Leases
  BY <1>2, LeaseEvent, TableFacts
<1>4. t[l].till = t[l].from + Duration
  BY <1>2, KnownWhole
<1>5. Least(t[l].till, e.body.time) = e.body.time
  BY <1>1, <1>3, <1>4, ConstantsAssumption DEF Least, Leases
<1>6. Known(Presented(p)', Released(t, l, e.body.time))
  BY <1>2, <1>3, KnownReleased
<1>7. /\ doc'[p].leases = Released(t, l, e.body.time)
      /\ view'[p].leases = Released(t, l, e.body.time)
  BY <1>1, <1>2, <1>5
<1>8. QED
  BY <1>6, <1>7 DEF Knows

-----------------------------------------------------------------------------
(* Members that take turns *)

(* The leases of its own that a device has not ended, in its table t.        *)
HoldsIn(p, t, time) == \E l \in Active(t, time) : t[l].holder = p

LEMMA HoldsIs ==
  ASSUME NEW p
  PROVE  /\ Holds(p) <=> HoldsIn(p, doc[p].leases, Clock(p))
         /\ Holds(p)' <=> HoldsIn(p, doc'[p].leases, Clock(p)')
  BY DEF Holds, HoldsIn

(* Nobody holds who did not.                                                 *)
LEMMA TurnsKept ==
  ASSUME ConnectedTakeTurns, Together' => Together,
         Together' => \A q \in Peer : Holds(q)' => Holds(q)
  PROVE  ConnectedTakeTurns'
  BY DEF ConnectedTakeTurns

LEMMA TogetherBefore ==
  ASSUME PublishedWhole' => PublishedWhole, past.failed \subseteq past'.failed,
         past.apart => past'.apart, skew' = skew
  PROVE  Together' => Together
  BY DEF Together

LEMMA HoldsLonger ==
  ASSUME Typed, NEW p \in Peer, NEW t \in Tables(Leases), NEW grant, Granted(grant, t),
         NEW time \in Nat, Clock(p) <= time, HoldsIn(p, t, time)
  PROVE  HoldsIn(p, t, Clock(p))
<1>1. PICK l \in Active(t, time) : t[l].holder = p
  BY DEF HoldsIn
<1>2. l \in DOMAIN t /\ t[l] \in Leases /\ t[l].from <= Clock(p) /\ time < t[l].till
  BY <1>1, TableFacts DEF Active, Granted
<1>3. Clock(p) \in Nat
  BY ConstantsAssumption DEF Typed, Clock
<1>4. Clock(p) < t[l].till
  BY <1>2, <1>3 DEF Leases
<1>5. QED
  BY <1>1, <1>2, <1>4 DEF HoldsIn, Active

(* Another's lease, and any release, give nobody a lease of their own.       *)
LEMMA HoldsPut ==
  ASSUME NEW p, NEW s \in Tables(Leases), NEW l \in Nat, NEW lease \in Leases, lease.holder # p,
         NEW time, HoldsIn(p, Put(s, l, lease), time)
  PROVE  HoldsIn(p, s, time)
<1>1. PICK u : u = Put(s, l, lease)
  OBVIOUS
<1>2. /\ DOMAIN u = DOMAIN s \cup {l} /\ u[l] = lease
      /\ \A y \in DOMAIN s : y # l => u[y] = s[y]
  BY <1>1 DEF Put
<1>3. PICK k \in DOMAIN u : u[k].holder = p /\ u[k].from <= time /\ time < u[k].till
  BY <1>1 DEF HoldsIn, Active
<1>4. k # l
  BY <1>2, <1>3
<1>5. k \in DOMAIN s /\ u[k] = s[k]
  BY <1>2, <1>3, <1>4
<1>6. QED
  BY <1>3, <1>5 DEF HoldsIn, Active

LEMMA HoldsReleased ==
  ASSUME NEW p, NEW s \in Tables(Leases), NEW l \in DOMAIN s, NEW n \in Nat, n <= s[l].till,
         NEW time \in Nat, HoldsIn(p, Released(s, l, n), time)
  PROVE  HoldsIn(p, s, time)
<1>1. PICK u : u = Released(s, l, n)
  OBVIOUS
<1>2. /\ DOMAIN u = DOMAIN s /\ u[l].till = n
      /\ u[l].holder = s[l].holder /\ u[l].from = s[l].from
      /\ \A k \in DOMAIN s : k # l => u[k] = s[k]
  BY <1>1, ReleasedFacts
<1>3. PICK k \in DOMAIN u : u[k].holder = p /\ u[k].from <= time /\ time < u[k].till
  BY <1>1 DEF HoldsIn, Active
<1>4. s[k].holder = p /\ s[k].from <= time
  BY <1>2, <1>3
<1>5. s[k] \in Leases
  BY <1>2, <1>3, TableFacts
<1>6. time < s[k].till
  BY <1>2, <1>3, <1>5 DEF Leases
<1>7. QED
  BY <1>2, <1>3, <1>4, <1>6 DEF HoldsIn, Active

(* Of active leases there is an earliest.                                    *)
LEMMA EarliestExists ==
  ASSUME NEW t \in Tables(Leases), NEW time, Active(t, time) # {}
  PROVE  \E m \in Active(t, time) : \A k \in Active(t, time) : Earlier(t, m, k)
<1>1. \A k \in Active(t, time) : k \in Nat /\ t[k].from \in Nat
  <2>1. \A k \in Active(t, time) : k \in DOMAIN t
    BY DEF Active
  <2>2. \A k \in DOMAIN t : k \in Nat /\ t[k] \in Leases
    BY TableFacts
  <2>3. QED
    BY <2>1, <2>2 DEF Leases
<1>2. PICK A \in SUBSET Nat : A = {t[k].from : k \in Active(t, time)} /\ A # {}
  <2>1. PICK M : M = Active(t, time)
    OBVIOUS
  <2>2. PICK A : A = {t[k].from : k \in M}
    OBVIOUS
  <2>3. A \subseteq Nat /\ A # {}
    BY <1>1, <2>1, <2>2
  <2>4. QED
    BY <2>1, <2>2, <2>3
<1>3. PICK from \in A : \A n \in A : from <= n
  BY <1>2, LeastExists
<1>4. PICK B \in SUBSET Nat : B = {k \in Active(t, time) : t[k].from = from} /\ B # {}
  BY <1>1, <1>2, <1>3
<1>5. PICK m \in B : \A n \in B : m <= n
  BY <1>4, LeastExists
<1>6. m \in Active(t, time) /\ t[m].from = from
  BY <1>4, <1>5
<1>7. ASSUME NEW k \in Active(t, time) PROVE Earlier(t, m, k)
  <2>1. t[k].from \in A
    BY <1>2
  <2>2. from <= t[k].from
    BY <1>3, <2>1
  <2>3. CASE t[k].from = from
    <3>1. k \in B
      BY <1>4, <2>3
    <3>2. QED
      BY <1>5, <1>6, <2>3, <3>1 DEF Earlier
  <2>4. CASE t[k].from # from
    <3>1. from \in Nat /\ t[k].from \in Nat
      BY <1>1, <1>7
    <3>2. from < t[k].from
      BY <2>2, <2>4, <3>1
    <3>3. QED
      BY <1>6, <3>2 DEF Earlier
  <2>5. QED
    BY <2>3, <2>4
<1>8. QED
  BY <1>6, <1>7

(* Who knows of all there is and may open the editor is the only one that    *)
(* holds a lease.                                                            *)
LEMMA NobodyElse ==
  ASSUME Typed, Logs, Turns, Knowing, ConnectedTakeTurns, Together,
         NEW p \in Peer, InTouch(p), ~HeldByAnother(p, doc[p], Clock(p)),
         NEW q \in Peer, Holds(q)
  PROVE  q = p
<1>1. PICK grant \in Grants : Grantings(grant)
  BY DEF Turns
<1>2. PICK time \in Nat : time = Clock(p) /\ time = Clock(q)
  <2>1. skew[p] = skew[q] /\ Clock(p) \in Nat
    BY ConstantsAssumption DEF Together, Typed, Clock
  <2>2. QED
    BY <2>1 DEF Clock
<1>3. PICK s \in Tables(Leases) : s = doc[q].leases
  BY DEF Typed, Documents
<1>4. PICK t \in Tables(Leases) : t = doc[p].leases
  BY DEF Typed, Documents
<1>5. s \in TablesOf(q) /\ t \in TablesOf(p)
  BY <1>3, <1>4 DEF TablesOf
<1>6. PICK l \in DOMAIN s : s[l].holder = q /\ s[l].from <= time /\ time < s[l].till
  BY <1>2, <1>3 DEF Holds, Active
<1>7. /\ s[l].holder = grant[l].holder /\ s[l].from \in Nat /\ s[l].till \in Nat
      /\ s[l].till <= s[l].from + Duration
  <2>1. Granted(grant, s)
    BY <1>1, <1>5 DEF Grantings
  <2>2. s[l] \in Leases
    BY <1>6, TableFacts
  <2>3. QED
    BY <1>6, <2>1, <2>2 DEF Granted, Leases
<1>8. Known(Presented(q), s) /\ Known(Presented(p), t)
  BY <1>3, <1>4, KnowingIs DEF Knows, Together
<1>9. PICK e \in log[q] : /\ e.kind = "lease" /\ e.id = l
                          /\ s[l].holder = e.body.holder /\ s[l].from = e.body.from
  BY <1>6, <1>8 DEF Known, Presented
<1>10. e \in Presented(p) /\ e \in log[p]
  BY <1>9 DEF InTouch, Presented
<1>11. l \in DOMAIN t
  BY <1>8, <1>9, <1>10 DEF Known
<1>12. PICK f \in log[p] : /\ f.kind = "lease" /\ f.id = l
                           /\ t[l].holder = f.body.holder /\ t[l].from = f.body.from
  BY <1>8, <1>11 DEF Known, Presented
<1>13. e = f
  BY <1>9, <1>10, <1>12 DEF Logs
<1>14. t[l].holder = q /\ t[l].from = s[l].from
  BY <1>6, <1>9, <1>12, <1>13
<1>15. time < t[l].till
  <2>1. CASE t[l].till = t[l].from + Duration
    BY <1>6, <1>7, <1>14, <2>1, ConstantsAssumption
  <2>2. CASE \E g \in Presented(p) : g.kind = "release" /\ g.body.lease = l
    <3>1. PICK g \in log[p] : g.kind = "release" /\ g.body.lease = l
      BY <2>2 DEF Presented
    <3>2. /\ g \in Events /\ GrantEvent(grant, g) /\ g.body.time \in Nat
          /\ \A u \in TablesOf(g.sender) : Ended(u, g)
      BY <1>1, <3>1, LeaseEvent DEF Grantings, Typed, Together
    <3>3. g.sender = q /\ g.body.time <= time
      BY <1>2, <1>6, <1>7, <3>1, <3>2 DEF GrantEvent
    <3>4. s[l].till <= g.body.time
      BY <1>5, <1>6, <3>1, <3>2, <3>3 DEF Ended
    <3>5. QED
      BY <1>6, <1>7, <3>2, <3>3, <3>4
  <2>3. QED
    BY <1>8, <1>11, <2>1, <2>2 DEF Known
<1>16. l \in Active(t, time)
  BY <1>6, <1>11, <1>14, <1>15 DEF Active
<1>17. PICK m \in Active(t, time) : \A k \in Active(t, time) : Earlier(t, m, k)
  BY <1>16, EarliestExists
<1>18. t[m].holder = p
  BY <1>2, <1>4, <1>17 DEF HeldByAnother, ActiveLease
<1>19. Holds(p)
  BY <1>2, <1>4, <1>17, <1>18 DEF Holds
<1>20. QED
  BY <1>19 DEF ConnectedTakeTurns

LEMMA TurnsTaken ==
  ASSUME Typed, Logs, Turns, Knowing, ConnectedTakeTurns, UNCHANGED <<skew, now>>,
         NEW p \in Peer, ~HeldByAnother(p, doc[p], Clock(p)),
         \A q \in Peer : q # p => doc'[q] = doc[q], PublishedWhole' => PublishedWhole,
         past.failed \subseteq past'.failed, past'.apart <=> past.apart \/ ~InTouch(p)
  PROVE  ConnectedTakeTurns'
<1>1. Together' => Together /\ InTouch(p)
  BY TogetherBefore DEF Together
<1>2. ASSUME Together', NEW q \in Peer, Holds(q)' PROVE q = p
  <2>1. CASE q # p
    <3>1. Clock(q)' = Clock(q)
      BY DEF Clock
    <3>2. Holds(q)
      BY <1>2, <2>1, <3>1, HoldsIs
    <3>3. QED
      BY <1>1, <1>2, <3>2, NobodyElse
  <2>2. QED
    BY <2>1
<1>3. QED
  BY <1>2 DEF ConnectedTakeTurns

-----------------------------------------------------------------------------
(* What a device does with an event e, its own or another's: its view is     *)
(* then v and its document d; it saves the view, or what is safe stays so.   *)

Changes(p, e, v, d) ==
  /\ p \in running /\ e \in Events /\ e \notin log[p] /\ e \notin past.unused[p]
  /\ v \in Views /\ d \in Documents
  /\ UNCHANGED <<topic, skew, now, running>>
  /\ issued' \in 0..MaxEvents /\ issued <= issued'
  /\ view' = [view EXCEPT ![p] = v]
  /\ doc' = [doc EXCEPT ![p] = d]
  /\ (log' = log /\ p \in past'.failed) \/ log' = [log EXCEPT ![p] = @ \cup {e}]
  /\ past' \in Histories /\ past.failed \subseteq past'.failed
  /\ past.apart => past'.apart
  /\ \/ past'.unused = past.unused
     \/ past'.unused = [past.unused EXCEPT ![p] = @ \cup {e}]
  /\ \A q \in Peer : q # p => past'.unsaved[q] = past.unsaved[q]
  /\ \/ row' = [row EXCEPT ![p] = v] /\ past'.unsaved[p] = {}
     \/ /\ row' = row /\ Safe(p)' = Safe(p)
        /\ p \notin past'.failed /\ past'.unsaved[p] = {} => v = view[p] /\ past.unsaved[p] = {}

LEMMA ChangesAre ==
  ASSUME Typed, NEW p \in Peer, NEW e, NEW v, NEW d, Changes(p, e, v, d)
  PROVE  /\ view'[p] = v /\ doc'[p] = d /\ (row'[p] = v \/ row'[p] = row[p])
         /\ \A q \in Peer : q # p => /\ view'[q] = view[q] /\ doc'[q] = doc[q]
                                     /\ row'[q] = row[q] /\ log'[q] = log[q]
         /\ \A q \in Peer : log[q] \subseteq log'[q]
         /\ \A q \in Peer : \A f \in log'[q] : f \in log[q] \/ (q = p /\ f = e)
         /\ \A q \in Peer : \A f \in log'[q] : f \in Events
         /\ \A q \in Peer : past.unused[q] \subseteq past'.unused[q]
         /\ \A q \in Peer : \A f \in log[q] : f \in past'.unused[q] <=> f \in past.unused[q]
         /\ issued' \in Nat /\ issued \in Nat /\ issued <= issued'
         /\ p \notin past'.failed => log'[p] = log[p] \cup {e}
         /\ PublishedWhole' => PublishedWhole
<1>1. /\ log \in [Peer -> SUBSET Events] /\ view \in [Peer -> Views] /\ row \in [Peer -> Views]
      /\ doc \in [Peer -> Documents] /\ past.unused \in [Peer -> SUBSET Events]
      /\ issued \in Nat
  BY DEF Typed, Histories
<1>2. view'[p] = v /\ \A q \in Peer : q # p => view'[q] = view[q]
  BY <1>1 DEF Changes
<1>3. doc'[p] = d /\ \A q \in Peer : q # p => doc'[q] = doc[q]
  BY <1>1 DEF Changes
<1>4. (row'[p] = v \/ row'[p] = row[p]) /\ \A q \in Peer : q # p => row'[q] = row[q]
  BY <1>1 DEF Changes
<1>5. /\ log'[p] = log[p] \cup {e} \/ (log'[p] = log[p] /\ p \in past'.failed)
      /\ \A q \in Peer : q # p => log'[q] = log[q]
  BY <1>1 DEF Changes
<1>6. /\ \A q \in Peer : past.unused[q] \subseteq past'.unused[q]
      /\ \A q \in Peer : \A f \in log[q] : f \in past'.unused[q] <=> f \in past.unused[q]
  <2>1. CASE past'.unused = past.unused
    BY <2>1
  <2>2. CASE past'.unused = [past.unused EXCEPT ![p] = @ \cup {e}]
    <3>1. e \notin log[p]
      BY DEF Changes
    <3>2. QED
      BY <1>1, <2>2, <3>1
  <2>3. QED
    BY <2>1, <2>2 DEF Changes
<1>7. e \in Events /\ issued' \in Nat /\ issued <= issued'
  BY DEF Changes
<1>8. \A q \in Peer : \A f \in log'[q] : f \in log[q] \/ (q = p /\ f = e)
  BY <1>5
<1>9. \A q \in Peer : \A f \in log'[q] : f \in Events
  BY <1>1, <1>7, <1>8
<1>10. PublishedWhole' => PublishedWhole
  BY <1>6 DEF PublishedWhole
<1>11. QED
  BY <1>1, <1>2, <1>3, <1>4, <1>5, <1>6, <1>7, <1>8, <1>9, <1>10

(* What is presented then.                                                   *)
LEMMA PresentedAfter ==
  ASSUME Typed, NEW p \in Peer, NEW e, NEW v, NEW d, Changes(p, e, v, d)
  PROVE  /\ \A q \in Peer : q # p => Presented(q)' = Presented(q) /\ Safe(q)' = Safe(q)
         /\ \/ /\ Presented(p)' = Presented(p) \cup {e}
               /\ log'[p] = log[p] \cup {e} /\ e \notin past'.unused[p]
            \/ /\ Presented(p)' = Presented(p)
               /\ e \in past'.unused[p] \/ log'[p] = log[p]
<1>1. log \in [Peer -> SUBSET Events] /\ past.unused \in [Peer -> SUBSET Events]
  BY DEF Typed, Histories
<1>2. \A q \in Peer : q # p => /\ log'[q] = log[q] /\ past'.unused[q] = past.unused[q]
                               /\ past'.unsaved[q] = past.unsaved[q]
  BY <1>1 DEF Changes
<1>3. /\ log'[p] = log[p] \cup {e} \/ log'[p] = log[p]
      /\ past'.unused[p] = past.unused[p] \/ past'.unused[p] = past.unused[p] \cup {e}
      /\ e \notin log[p] /\ e \notin past.unused[p]
  BY <1>1 DEF Changes
<1>4. \A q \in Peer : q # p => Presented(q)' = Presented(q) /\ Safe(q)' = Safe(q)
  BY <1>2 DEF Presented, Safe
<1>5. QED
  BY <1>3, <1>4 DEF Presented

LEMMA TypedAfter ==
  ASSUME Typed, NEW p \in Peer, NEW e, NEW v, NEW d, Changes(p, e, v, d),
         editor' \in [Peer -> {None} \cup Editors], work' \in [Peer -> SUBSET Events]
  PROVE  Typed'
<1>1. log' \in [Peer -> SUBSET Events]
  BY DEF Typed, Changes
<1>2. view' \in [Peer -> Views] /\ row' \in [Peer -> Views]
  BY DEF Typed, Changes
<1>3. doc' \in [Peer -> Documents]
  BY DEF Typed, Changes
<1>4. skew' \in [Peer -> Nat] /\ now' \in 0..MaxTime /\ issued' \in 0..MaxEvents /\ running' \subseteq Peer
  BY DEF Typed, Changes
<1>5. past' \in Histories
  BY DEF Changes
<1>6. QED
  BY <1>1, <1>2, <1>3, <1>4, <1>5 DEF Typed

(* What is saved is what memory holds, or it is what it was, and so are the  *)
(* events that are safe.                                                     *)
LEMMA DurableAfter ==
  ASSUME Typed, Logs, Lists, Durable, Converging', Chats', Drafts', Knowing',
         topic' = topic, issued \in Nat, issued' \in Nat, issued <= issued',
         past.failed \subseteq past'.failed, PublishedWhole' => PublishedWhole,
         \A q \in Peer : log[q] \subseteq log'[q],
         \A q \in Peer :
           \/ row'[q] = view'[q] /\ past'.unsaved[q] = {}
           \/ /\ row'[q] = row[q] /\ Safe(q)' = Safe(q)
              /\ q \notin past'.failed /\ past'.unsaved[q] = {} => row[q] = view'[q]
  PROVE  Durable'
<1>1. ASSUME NEW q \in Peer, row'[q] = view'[q], past'.unsaved[q] = {}
      PROVE  /\ topic' = "chats" => Chatting(row'[q], Safe(q)')
             /\ \A x \in Ids' : Orderly(x)' => Fits(row'[q].places, x, Edits(x)' \cap Safe(q)')
             /\ q \notin past'.failed =>
                  /\ Loads(row'[q], Safe(q)')
                  /\ PublishedWhole' => Known(Safe(q)', row'[q].leases)
                  /\ past'.unsaved[q] = {} => row'[q] = view'[q]
  <2>1. Safe(q)' = Presented(q)'
    BY <1>1 DEF Safe
  <2>2. topic' = "chats" => Chatting(row'[q], Safe(q)')
    BY <1>1, <2>1 DEF Chats
  <2>3. ASSUME NEW x \in Ids', Orderly(x)' PROVE Fits(row'[q].places, x, Edits(x)' \cap Safe(q)')
    <3>1. Presents(q, x)'
      BY <2>3 DEF Converging
    <3>2. Fits(view'[q].places, x, Edits(x)' \cap Presented(q)')
      BY <3>1 DEF Presents, Taken, Fits, Has, LastOf, Says
    <3>3. QED
      BY <1>1, <2>1, <3>2
  <2>4. q \notin past'.failed => Loads(row'[q], Safe(q)')
    <3>1. q \notin past'.failed => Loads(view[q], Presented(q))'
      BY DEF Drafts
    <3>2. q \notin past'.failed => Loads(view'[q], Presented(q)')
      BY <3>1 DEF Loads, Loadable
    <3>3. QED
      BY <1>1, <2>1, <3>2
  <2>5. q \notin past'.failed /\ PublishedWhole' => Known(Safe(q)', row'[q].leases)
    BY <1>1, <2>1 DEF Knowing, Known
  <2>6. QED
    BY <1>1, <2>2, <2>3, <2>4, <2>5
<1>2. ASSUME NEW q \in Peer, row'[q] = row[q], Safe(q)' = Safe(q),
             q \notin past'.failed /\ past'.unsaved[q] = {} => row[q] = view'[q]
      PROVE  /\ topic' = "chats" => Chatting(row'[q], Safe(q)')
             /\ \A x \in Ids' : Orderly(x)' => Fits(row'[q].places, x, Edits(x)' \cap Safe(q)')
             /\ q \notin past'.failed =>
                  /\ Loads(row'[q], Safe(q)')
                  /\ PublishedWhole' => Known(Safe(q)', row'[q].leases)
                  /\ past'.unsaved[q] = {} => row'[q] = view'[q]
  <2>1. topic' = "chats" => Chatting(row'[q], Safe(q)')
    BY <1>2 DEF Durable
  <2>2. ASSUME NEW x \in Ids', Orderly(x)' PROVE Fits(row'[q].places, x, Edits(x)' \cap Safe(q)')
    <3>1. x \in Nat /\ Orderly(x)
      BY <2>2, OrderlyBefore DEF Ids
    <3>2. ASSUME NEW f, f \in Safe(q) PROVE f \in Edits(x)' <=> f \in Edits(x)
      <4>1. f \in log[q] /\ f \in log'[q]
        BY <3>2 DEF Safe, Presented
      <4>2. QED
        BY <4>1, EditsAre
    <3>3. Edits(x)' \cap Safe(q)' = Edits(x) \cap Safe(q)
      BY <1>2, <3>2
    <3>4. Fits(row[q].places, x, Edits(x) \cap Safe(q))
      <4>1. CASE x \in Ids
        BY <3>1, <4>1 DEF Durable
      <4>2. CASE x \notin Ids
        <5>1. Edits(x) = {} /\ ~Has(row[q].places, x)
          BY <3>1, <4>2, Unknown
        <5>2. QED
          BY <5>1 DEF Fits
      <4>3. QED
        BY <4>1, <4>2
    <3>5. QED
      BY <1>2, <3>3, <3>4
  <2>3. ASSUME q \notin past'.failed
        PROVE  /\ Loads(row'[q], Safe(q)')
               /\ PublishedWhole' => Known(Safe(q)', row'[q].leases)
               /\ past'.unsaved[q] = {} => row'[q] = view'[q]
    <3>1. q \notin past.failed
      BY <2>3
    <3>2. Loads(row[q], Safe(q)) /\ (PublishedWhole => Known(Safe(q), row[q].leases))
      BY <3>1 DEF Durable
    <3>3. QED
      BY <1>2, <2>3, <3>2
  <2>4. QED
    BY <2>1, <2>2, <2>3
<1>3. \A q \in Peer :
        /\ topic' = "chats" => Chatting(row'[q], Safe(q)')
        /\ \A x \in Ids' : Orderly(x)' => Fits(row'[q].places, x, Edits(x)' \cap Safe(q)')
        /\ q \notin past'.failed =>
             /\ Loads(row'[q], Safe(q)')
             /\ PublishedWhole' => Known(Safe(q)', row'[q].leases)
             /\ past'.unsaved[q] = {} => row'[q] = view'[q]
  BY <1>1, <1>2
<1>4. QED
  BY <1>3 DEF Durable, Chatting, Fits, Has, LastOf, Says, Loads, Loadable, Known

LEMMA DurableChanged ==
  ASSUME Typed, Logs, Lists, Durable, Converging', Chats', Drafts', Knowing',
         NEW p \in Peer, NEW e, NEW v, NEW d, Changes(p, e, v, d)
  PROVE  Durable'
<1>1. /\ \A q \in Peer : log[q] \subseteq log'[q]
      /\ issued' \in Nat /\ issued \in Nat /\ issued <= issued'
      /\ PublishedWhole' => PublishedWhole
  BY ChangesAre
<1>2. topic' = topic /\ past.failed \subseteq past'.failed
  BY DEF Changes
<1>3. ASSUME NEW q \in Peer
      PROVE  \/ row'[q] = view'[q] /\ past'.unsaved[q] = {}
             \/ /\ row'[q] = row[q] /\ Safe(q)' = Safe(q)
                /\ q \notin past'.failed /\ past'.unsaved[q] = {} => row[q] = view'[q]
  <2>1. CASE q # p
    <3>1. row'[q] = row[q] /\ view'[q] = view[q] /\ Safe(q)' = Safe(q)
      BY <2>1, ChangesAre, PresentedAfter
    <3>2. past'.unsaved[q] = past.unsaved[q]
      BY <2>1 DEF Changes
    <3>3. q \notin past'.failed => q \notin past.failed
      BY <1>2
    <3>4. QED
      BY <3>1, <3>2, <3>3 DEF Durable
  <2>2. CASE q = p /\ row' = [row EXCEPT ![p] = v] /\ past'.unsaved[p] = {}
    <3>1. row'[p] = v
      BY <2>2 DEF Typed
    <3>2. view'[p] = v
      BY ChangesAre
    <3>3. QED
      BY <2>2, <3>1, <3>2
  <2>3. CASE /\ q = p /\ row' = row /\ Safe(p)' = Safe(p)
             /\ p \notin past'.failed /\ past'.unsaved[p] = {} => v = view[p] /\ past.unsaved[p] = {}
    <3>1. view'[p] = v
      BY ChangesAre
    <3>2. p \notin past'.failed => p \notin past.failed
      BY <1>2
    <3>3. p \notin past'.failed /\ past'.unsaved[p] = {} => row[p] = view[p]
      BY <2>3, <3>2 DEF Durable
    <3>4. QED
      BY <2>3, <3>1, <3>3
  <2>4. QED
    BY <2>1, <2>2, <2>3 DEF Changes
<1>4. QED
  BY <1>1, <1>2, <1>3, DurableAfter

LEMMA ChatsElsewhere ==
  ASSUME topic' = topic, topic # "chats"
  PROVE  Chats'
  BY DEF Chats

(* The event is not about places.                                            *)
LEMMA OffPlaces ==
  ASSUME Typed, Logs, Lists, Converging, NEW p \in Peer, NEW e, NEW v, NEW d,
         Changes(p, e, v, d), v.places = view[p].places, e.kind \notin {"place", "deletion"}
  PROVE  Lists' /\ Converging'
<1>1. Listed(v.places)
  BY DEF Lists
<1>2. issued \in Nat /\ issued' \in Nat /\ issued <= issued'
  BY ChangesAre
<1>3. Listed(v.places)'
  BY <1>1, <1>2, ListedStays DEF Listed
<1>4. v \in Views /\ view' = [view EXCEPT ![p] = v] /\ (row' = row \/ row' = [row EXCEPT ![p] = v])
  BY DEF Changes
<1>5. Lists'
  BY <1>2, <1>3, <1>4, ListsAfter
<1>6. \A q \in Peer : view'[q].places = view[q].places
  BY ChangesAre
<1>7. /\ \A q \in Peer : log[q] \subseteq log'[q]
      /\ \A q \in Peer : \A f \in log'[q] : f \in log[q] \/ f.kind \notin {"place", "deletion"}
      /\ \A q \in Peer : \A f \in log[q] : f \in past'.unused[q] <=> f \in past.unused[q]
  BY ChangesAre
<1>8. past.failed \subseteq past'.failed
  BY DEF Changes
<1>9. Converging'
  BY <1>2, <1>6, <1>7, <1>8, ConvergingStays
<1>10. QED
  BY <1>5, <1>9

(* The event is not about revisions, or has no effect on them.               *)
LEMMA OffRevisions ==
  ASSUME Typed, Drafts, NEW p \in Peer, NEW e, NEW v, NEW d, Changes(p, e, v, d),
         v.revisions = view[p].revisions, d.revisions = doc[p].revisions,
         e.kind = "revision" =>
           /\ \E a \in Peer : e \in log[a]
           /\ p \in past'.failed \/ e \in past'.unused[p],
         \A q \in Peer : \/ editor'[q] \in {None, editor[q]}
                         \/ editor'[q].parent = None
                         \/ HasRevision(doc[q], editor'[q].parent[1])
  PROVE  Drafts'
<1>1. /\ issued' \in Nat /\ issued <= issued'
      /\ \A q \in Peer : log[q] \subseteq log'[q]
      /\ \A q \in Peer : \A f \in log[q] : f \in past'.unused[q] <=> f \in past.unused[q]
  BY ChangesAre
<1>2. running' = running /\ past.failed \subseteq past'.failed /\ p \in running
  BY DEF Changes
<1>3. \A q \in Peer : doc'[q].revisions = doc[q].revisions /\ view'[q].revisions = view[q].revisions
  BY ChangesAre
<1>4. \A q \in Peer : row'[q].revisions \in {row[q].revisions, view[q].revisions}
  BY ChangesAre
<1>5. \A q \in Peer : q \notin running => row'[q].revisions = row[q].revisions
  BY <1>2, ChangesAre
<1>7. ASSUME NEW q \in Peer, NEW f \in log'[q], f.kind = "revision"
      PROVE  /\ \E a \in Peer : f \in log[a]
             /\ f \in log[q] \/ q \in past'.failed \/ f \in past'.unused[q]
  BY <1>7, ChangesAre
<1>8. QED
  BY <1>1, <1>2, <1>3, <1>4, <1>5, <1>7, DraftsStay

(* The event is not about leases, or has no effect on them.                  *)
LEMMA OffLeases ==
  ASSUME Typed, Turns, Knowing, ConnectedTakeTurns, NEW p \in Peer, NEW e, NEW v, NEW d,
         Changes(p, e, v, d), v.leases = view[p].leases, d.leases = doc[p].leases,
         e.kind \in {"lease", "release"} =>
           /\ \E a \in Peer : e \in log[a]
           /\ \/ p \in past'.failed \/ ~PublishedWhole'
              \/ e.kind = "release" /\ e \in past'.unused[p]
  PROVE  Turns' /\ Knowing' /\ ConnectedTakeTurns'
<1>1. issued' \in Nat /\ issued <= issued'
  BY ChangesAre
<1>2. skew' = skew /\ now' = now /\ now' \in Nat /\ now <= now' /\ past.failed \subseteq past'.failed
      /\ (past.apart => past'.apart)
  BY DEF Typed, Changes
<1>3. \A q \in Peer : /\ view'[q].leases = view[q].leases /\ doc'[q].leases = doc[q].leases
                      /\ row'[q].leases \in {row[q].leases, view[q].leases}
  BY ChangesAre
<1>14. PublishedWhole' => PublishedWhole
  BY ChangesAre
<1>4. \A q \in Peer : TablesOf(q)' \subseteq TablesOf(q)
  BY <1>3 DEF TablesOf
<1>5. \A q \in Peer : \A f \in log'[q] : f.kind \in {"lease", "release"} => \E a \in Peer : f \in log[a]
  BY ChangesAre
<1>6. \A q \in Peer : log'[q] \subseteq Events
  BY ChangesAre
<1>7. Turns'
  BY <1>1, <1>2, <1>4, <1>5, <1>6, <1>14, TurnsStay
<1>8. ASSUME PublishedWhole', NEW q \in Peer, q \notin past'.failed
      PROVE  /\ view'[q].leases \in {view[q].leases, doc[q].leases}
             /\ doc'[q].leases \in {view[q].leases, doc[q].leases}
             /\ Presented(q) \subseteq Presented(q)'
             /\ \A f \in Presented(q)' : f \in Presented(q) \/ f.kind \notin {"lease", "release"}
  <2>1. CASE q # p
    BY <1>3, <2>1, PresentedAfter
  <2>2. CASE q = p
    <3>1. \/ Presented(p)' = Presented(p)
          \/ Presented(p)' = Presented(p) \cup {e} /\ e \notin past'.unused[p]
      BY PresentedAfter
    <3>2. QED
      BY <1>3, <1>8, <2>2, <3>1
  <2>3. QED
    BY <2>1, <2>2
<1>9. Knowing'
  <2>1. CASE PublishedWhole'
    BY <1>2, <1>8, <1>14, <2>1, KnowingStays
  <2>2. CASE ~PublishedWhole'
    BY <2>2 DEF Knowing
  <2>3. QED
    BY <2>1, <2>2
<1>10. Together' => Together
  BY <1>2, <1>14, TogetherBefore
<1>11. ASSUME NEW q \in Peer, Holds(q)' PROVE Holds(q)
  <2>1. Clock(q)' = Clock(q)
    BY <1>2 DEF Clock
  <2>2. QED
    BY <1>3, <1>11, <2>1, HoldsIs
<1>12. ConnectedTakeTurns'
  BY <1>10, <1>11, TurnsKept
<1>13. QED
  BY <1>7, <1>9, <1>12

-----------------------------------------------------------------------------
(* Work, chats, and steps in which no event comes *)

LEMMA WorksAfter ==
  ASSUME Works, NEW p \in Peer, \A q \in Peer : log[q] \subseteq log'[q],
         \A q \in Peer : q # p =>
           /\ log'[q] = log[q] /\ work'[q] = work[q] /\ past'.unsaved[q] = past.unsaved[q]
           /\ Presented(q)' = Presented(q) /\ (q \in past.refused => q \in past'.refused),
         \A e \in work'[p] : e \notin log'[p] /\ \E q \in Peer : e \in log[q],
         past'.unsaved[p] \subseteq Presented(p)',
         \A e \in past'.unsaved[p] : e.sender # p,
         past'.unsaved[p] # {} => work'[p] # {} \/ p \in past'.refused
  PROVE  Works'
<1>1. ASSUME NEW q \in Peer
      PROVE  /\ \A e \in work'[q] : e \notin log'[q] /\ \E a \in Peer : e \in log'[a]
             /\ past'.unsaved[q] \subseteq Presented(q)'
             /\ \A e \in past'.unsaved[q] : e.sender # q
             /\ past'.unsaved[q] # {} => work'[q] # {} \/ q \in past'.refused
  <2>1. CASE q = p
    BY <2>1
  <2>2. CASE q # p
    <3>1. /\ \A e \in work[q] : e \notin log[q] /\ \E a \in Peer : e \in log[a]
          /\ past.unsaved[q] \subseteq Presented(q)
          /\ \A e \in past.unsaved[q] : e.sender # q
          /\ past.unsaved[q] # {} => work[q] # {} \/ q \in past.refused
      BY DEF Works
    <3>2. /\ log'[q] = log[q] /\ work'[q] = work[q] /\ past'.unsaved[q] = past.unsaved[q]
          /\ Presented(q)' = Presented(q) /\ (q \in past.refused => q \in past'.refused)
      BY <2>2
    <3>3. \A e \in work'[q] : e \notin log'[q] /\ \E a \in Peer : e \in log'[a]
      BY <3>1, <3>2
    <3>4. QED
      BY <3>1, <3>2, <3>3
  <2>3. QED
    BY <2>1, <2>2
<1>2. QED
  BY <1>1 DEF Works

LEMMA ChatsAfter ==
  ASSUME Chats, topic' = topic, past'.refused \subseteq past.refused,
         topic = "chats" /\ past'.faults = 0 =>
           past.faults = 0 /\ \A q \in Peer : past'.unused[q] \subseteq past.unused[q],
         topic = "chats" =>
           \A q \in Peer : Chatting(view[q], Presented(q)) => Chatting(view'[q], Presented(q)')
  PROVE  Chats'
<1>1. SUFFICES ASSUME topic = "chats" PROVE
        /\ past'.refused = {}
        /\ past'.faults = 0 => \A q \in Peer : past'.unused[q] = {}
        /\ \A q \in Peer : Chatting(view[q], Presented(q))'
  BY DEF Chats
<1>2. past.refused = {} /\ (past.faults = 0 => \A q \in Peer : past.unused[q] = {})
  BY <1>1 DEF Chats
<1>3. \A q \in Peer : Chatting(view'[q], Presented(q)')
  BY <1>1 DEF Chats
<1>4. \A q \in Peer : Chatting(view[q], Presented(q))'
  BY <1>3 DEF Chatting
<1>5. QED
  BY <1>1, <1>2, <1>4

(* Time goes by, a device closes its editor or saves what memory holds.      *)
Quiet ==
  /\ UNCHANGED <<topic, skew, issued, log, view, doc, running, work>>
  /\ now' \in 0..MaxTime /\ now <= now'
  /\ editor' \in [Peer -> {None} \cup Editors] /\ \A q \in Peer : editor'[q] \in {None, editor[q]}
  /\ row' \in [Peer -> Views] /\ past' \in Histories
  /\ past'.failed = past.failed /\ past'.unused = past.unused
  /\ past'.apart = past.apart /\ past'.faults = past.faults
  /\ \A q \in Peer :
       \/ row'[q] = row[q] /\ past'.unsaved[q] = past.unsaved[q]
          /\ (q \in past'.refused <=> q \in past.refused)
       \/ row'[q] = view[q] /\ past'.unsaved[q] = {} /\ q \in running /\ q \notin past'.refused

LEMMA QuietKeeps ==
  ASSUME Inv, Quiet
  PROVE  Inv'
<1>1. /\ Typed /\ Logs /\ Works /\ Lists /\ Converging /\ Chats /\ Drafts /\ Turns /\ Knowing
      /\ Durable /\ ConnectedTakeTurns
  BY DEF Inv
<1>2. /\ topic' = topic /\ skew' = skew /\ issued' = issued /\ log' = log /\ view' = view
      /\ doc' = doc /\ running' = running /\ work' = work
      /\ issued' \in Nat /\ issued \in Nat /\ issued <= issued'
      /\ now' \in 0..MaxTime /\ now' \in Nat /\ now <= now'
      /\ past'.unused = past.unused /\ past'.failed = past.failed
      /\ past'.apart = past.apart /\ past'.faults = past.faults
      /\ past.failed \subseteq past'.failed /\ (past.apart => past'.apart)
  BY <1>1, ConstantsAssumption DEF Typed, Quiet
<1>3. /\ \A q \in Peer : Presented(q)' = Presented(q)
      /\ PublishedWhole' => PublishedWhole
  BY <1>2 DEF Presented, PublishedWhole
<1>4. Typed'
  BY <1>1, <1>2 DEF Typed, Quiet
<1>5. Logs'
  <2>1. \A q \in Peer : editor'[q] # None => topic # "chats"
    BY <1>1 DEF Logs, Quiet
  <2>2. \A q \in Peer : past'.unused[q] \subseteq log[q]
    BY <1>1, <1>2 DEF Logs
  <2>3. QED
    BY <1>1, <1>2, <2>1, <2>2, LogsStay
<1>6. Works'
  <2>1. ASSUME NEW q \in Peer
        PROVE  /\ \A e \in work'[q] : e \notin log'[q] /\ \E a \in Peer : e \in log'[a]
               /\ past'.unsaved[q] \subseteq Presented(q)'
               /\ \A e \in past'.unsaved[q] : e.sender # q
               /\ past'.unsaved[q] # {} => work'[q] # {} \/ q \in past'.refused
    <3>1. /\ \A e \in work[q] : e \notin log[q] /\ \E a \in Peer : e \in log[a]
          /\ past.unsaved[q] \subseteq Presented(q)
          /\ \A e \in past.unsaved[q] : e.sender # q
          /\ past.unsaved[q] # {} => work[q] # {} \/ q \in past.refused
      BY <1>1 DEF Works
    <3>2. \/ past'.unsaved[q] = past.unsaved[q] /\ (q \in past'.refused <=> q \in past.refused)
          \/ past'.unsaved[q] = {}
      BY DEF Quiet
    <3>3. QED
      BY <1>2, <1>3, <3>1, <3>2
  <2>2. QED
    BY <2>1 DEF Works
<1>7. Lists'
  <2>1. \A q \in Peer : row'[q] = row[q] \/ row'[q] = view[q]
    BY DEF Quiet
  <2>2. \A q \in Peer : Listed(view'[q].places) /\ Listed(row'[q].places)
    BY <1>1, <1>2, <2>1 DEF Lists
  <2>3. QED
    BY <1>2, <2>2 DEF Lists, Listed, Ids
<1>8. Converging'
  BY <1>1, <1>2, ConvergingStays
<1>9. Chats'
  <2>1. past'.refused \subseteq past.refused
    <3>1. past'.refused \subseteq Peer
      BY DEF Quiet, Histories
    <3>2. \A q \in Peer : q \in past'.refused => q \in past.refused
      BY DEF Quiet
    <3>3. QED
      BY <3>1, <3>2
  <2>2. \A q \in Peer : Chatting(view[q], Presented(q)) => Chatting(view'[q], Presented(q)')
    BY <1>2, <1>3
  <2>3. QED
    BY <1>1, <1>2, <2>1, <2>2, ChatsAfter
<1>10. Drafts'
  <2>1. \A q \in Peer : editor'[q] \in {None, editor[q]}
    BY DEF Quiet
  <2>2. /\ \A q \in Peer : row'[q].revisions \in {row[q].revisions, view[q].revisions}
        /\ \A q \in Peer : q \notin running => row'[q].revisions = row[q].revisions
    BY DEF Quiet
  <2>3. QED
    BY <1>1, <1>2, <2>1, <2>2, DraftsStay
<1>11. Turns'
  <2>1. \A q \in Peer : row'[q] = row[q] \/ row'[q] = view[q]
    BY DEF Quiet
  <2>2. \A q \in Peer : TablesOf(q)' \subseteq TablesOf(q)
    BY <1>2, <2>1 DEF TablesOf
  <2>3. \A q \in Peer : log'[q] \subseteq Events
    BY <1>4 DEF Typed
  <2>4. QED
    BY <1>1, <1>2, <1>3, <2>2, <2>3, TurnsStay
<1>12. Knowing'
  BY <1>1, <1>2, <1>3, KnowingStays
<1>13. Durable'
  <2>1. ASSUME NEW q \in Peer
        PROVE  \/ row'[q] = view'[q] /\ past'.unsaved[q] = {}
               \/ /\ row'[q] = row[q] /\ Safe(q)' = Safe(q)
                  /\ q \notin past'.failed /\ past'.unsaved[q] = {} => row[q] = view'[q]
    <3>1. CASE row'[q] = row[q] /\ past'.unsaved[q] = past.unsaved[q]
      <4>1. Safe(q)' = Safe(q)
        BY <1>3, <3>1 DEF Safe
      <4>2. q \notin past.failed /\ past.unsaved[q] = {} => row[q] = view[q]
        BY <1>1 DEF Durable
      <4>3. QED
        BY <1>2, <3>1, <4>1, <4>2
    <3>2. CASE row'[q] = view[q] /\ past'.unsaved[q] = {}
      BY <1>2, <3>2
    <3>3. QED
      BY <3>1, <3>2 DEF Quiet
  <2>2. \A q \in Peer : log[q] \subseteq log'[q]
    BY <1>2
  <2>3. QED
    BY <1>1, <1>2, <1>3, <1>8, <1>9, <1>10, <1>12, <2>1, <2>2, DurableAfter
<1>14. ConnectedTakeTurns'
  <2>1. Together' => Together
    BY <1>2, <1>3, TogetherBefore
  <2>2. PICK grant \in Grants : Grantings(grant)
    BY <1>1 DEF Turns
  <2>3. ASSUME NEW q \in Peer, Holds(q)' PROVE Holds(q)
    <3>1. PICK t \in TablesOf(q) : t = doc[q].leases
      BY DEF TablesOf
    <3>2. t \in Tables(Leases) /\ Granted(grant, t)
      BY <1>1, <2>2, TablesTyped DEF Grantings
    <3>3. PICK time \in Nat : time = Clock(q)' /\ Clock(q) <= time
      BY <1>1, <1>2, ClockGrows
    <3>4. HoldsIn(q, t, time)
      BY <1>2, <2>3, <3>1, <3>3, HoldsIs
    <3>5. HoldsIn(q, t, Clock(q))
      BY <1>1, <3>2, <3>3, <3>4, HoldsLonger
    <3>6. QED
      BY <3>1, <3>5, HoldsIs
  <2>4. QED
    BY <1>1, <2>1, <2>3, TurnsKept
<1>15. QED
  BY <1>4, <1>5, <1>6, <1>7, <1>8, <1>9, <1>10, <1>11, <1>12, <1>13, <1>14 DEF Inv

LEMMA AdvanceKeeps ==
  ASSUME Inv, Advance
  PROVE  Inv'
<1>1. /\ Typed /\ now \in 0..MaxTime /\ MaxTime \in Nat
      /\ past.unsaved \in [Peer -> SUBSET Events]
  BY ConstantsAssumption DEF Inv, Typed, Histories
<1>2. now' \in 0..MaxTime /\ now <= now'
  BY <1>1 DEF Advance
<1>3. Quiet
  BY <1>1, <1>2 DEF Advance, Quiet, Typed
<1>4. QED
  BY <1>3, QuietKeeps

LEMMA PersistKeeps ==
  ASSUME Inv, NEW p \in Peer, Persist(p)
  PROVE  Inv'
<1>1. /\ Typed /\ now \in 0..MaxTime /\ p \in running
      /\ past \in Histories /\ past.unsaved \in [Peer -> SUBSET Events]
      /\ view \in [Peer -> Views] /\ doc \in [Peer -> Documents] /\ row \in [Peer -> Views]
      /\ UNCHANGED <<topic, skew, now, issued, log, work, editor, running>>
  BY DEF Inv, Typed, Histories, Persist, Saves, Idle
<1>2. /\ view' = [view EXCEPT ![p] = view[p]] /\ doc' = [doc EXCEPT ![p] = doc[p]]
      /\ row' = [row EXCEPT ![p] = view[p]]
      /\ past' = [past EXCEPT !.unsaved[p] = {}, !.refused = @ \ {p}]
  BY DEF Persist, Saves
<1>3. view' = view /\ doc' = doc /\ row' \in [Peer -> Views]
  BY <1>1, <1>2
<1>4. /\ past' \in Histories
      /\ past'.failed = past.failed /\ past'.unused = past.unused
      /\ past'.apart = past.apart /\ past'.faults = past.faults
      /\ past'.unsaved = [past.unsaved EXCEPT ![p] = {}] /\ past'.refused = past.refused \ {p}
  BY <1>1, <1>2 DEF Histories
<1>5. ASSUME NEW q \in Peer
      PROVE  \/ row'[q] = row[q] /\ past'.unsaved[q] = past.unsaved[q]
                /\ (q \in past'.refused <=> q \in past.refused)
             \/ row'[q] = view[q] /\ past'.unsaved[q] = {} /\ q \in running /\ q \notin past'.refused
  BY <1>1, <1>2, <1>4
<1>6. editor' \in [Peer -> {None} \cup Editors] /\ \A q \in Peer : editor'[q] \in {None, editor[q]}
  BY <1>1 DEF Typed
<1>7. now' \in 0..MaxTime /\ now <= now'
  BY <1>1, ConstantsAssumption
<1>8. Quiet
  BY <1>1, <1>3, <1>4, <1>5, <1>6, <1>7 DEF Quiet
<1>9. QED
  BY <1>8, QuietKeeps

-----------------------------------------------------------------------------
(* A device starts again *)

(* It may have died with events on disk, lost, that it had not presented.    *)
Restarts(p, lost, h) ==
  /\ p \in running /\ Reloads(p, lost, h)
  /\ lost \subseteq Events /\ lost \cap log[p] = {}
  /\ log' = [log EXCEPT ![p] = @ \cup lost]
  /\ UNCHANGED <<topic, skew, now>> /\ issued' \in 0..MaxEvents /\ issued <= issued'
  /\ work' = [work EXCEPT ![p] = {}]
  /\ h \in Histories /\ h.failed = past.failed /\ h.unused = past.unused
  /\ h.unsaved = past.unsaved /\ h.refused = past.refused
  /\ past.apart => h.apart
  /\ h.faults = 0 => past.faults = 0 /\ lost = {} /\ work[p] = {}

LEMMA RestartsAre ==
  ASSUME Typed, NEW p \in Peer, NEW lost, NEW h, Restarts(p, lost, h)
  PROVE  /\ \A q \in Peer : q # p =>
              /\ view'[q] = view[q] /\ doc'[q] = doc[q] /\ log'[q] = log[q] /\ work'[q] = work[q]
              /\ editor'[q] = editor[q] /\ past'.unused[q] = past.unused[q]
              /\ past'.unsaved[q] = past.unsaved[q]
              /\ (q \in running' <=> q \in running) /\ (q \in past'.refused <=> q \in past.refused)
         /\ row' = row /\ editor'[p] = None /\ work'[p] = {} /\ log'[p] = log[p] \cup lost
         /\ past'.unused[p] = past.unused[p] \cup past.unsaved[p] \cup lost
         /\ past'.unsaved[p] = {}
         /\ past'.failed = past.failed /\ past'.refused = past.refused \ {p}
         /\ past'.apart = h.apart /\ past'.faults = h.faults /\ past' \in Histories
         /\ Loadable(row[p]) =>
              view'[p] = row[p] /\ doc'[p] = Loaded(row[p]) /\ running' = running
         /\ ~Loadable(row[p]) =>
              view' = view /\ doc' = doc /\ running' = running \ {p}
         /\ \A q \in Peer : log[q] \subseteq log'[q]
         /\ \A q \in Peer : past.unused[q] \subseteq past'.unused[q]
         /\ PublishedWhole' => PublishedWhole
<1>1. /\ log \in [Peer -> SUBSET Events] /\ view \in [Peer -> Views] /\ row \in [Peer -> Views]
      /\ doc \in [Peer -> Documents] /\ running \subseteq Peer
      /\ editor \in [Peer -> {None} \cup Editors] /\ work \in [Peer -> SUBSET Events]
      /\ past.unused \in [Peer -> SUBSET Events] /\ past.unsaved \in [Peer -> SUBSET Events]
  BY DEF Typed, Histories
<1>2. PICK unused : unused = [past.unused EXCEPT ![p] = @ \cup past.unsaved[p] \cup lost]
  OBVIOUS
<1>3. PICK unsaved : unsaved = [past.unsaved EXCEPT ![p] = {}]
  OBVIOUS
<1>4. /\ unused \in [Peer -> SUBSET Events] /\ unsaved \in [Peer -> SUBSET Events]
      /\ past.refused \ {p} \in SUBSET Peer
  BY <1>1, <1>2, <1>3 DEF Restarts, Histories, Typed
<1>5. past' = [h EXCEPT !.unused = unused, !.unsaved = unsaved, !.refused = past.refused \ {p}]
  BY <1>2, <1>3 DEF Restarts, Reloads, Histories
<1>6. /\ past' \in Histories /\ past'.unused = unused /\ past'.unsaved = unsaved
      /\ past'.refused = past.refused \ {p} /\ past'.failed = past.failed
      /\ past'.apart = h.apart /\ past'.faults = h.faults
  BY <1>4, <1>5 DEF Restarts, Histories
<1>7. /\ past'.unused[p] = past.unused[p] \cup past.unsaved[p] \cup lost
      /\ past'.unsaved[p] = {}
      /\ \A q \in Peer : q # p =>
           past'.unused[q] = past.unused[q] /\ past'.unsaved[q] = past.unsaved[q]
  BY <1>1, <1>2, <1>3, <1>6
<1>8. /\ editor' = [editor EXCEPT ![p] = None] /\ row' = row
      /\ log' = [log EXCEPT ![p] = @ \cup lost] /\ work' = [work EXCEPT ![p] = {}]
  BY DEF Restarts, Reloads
<1>9. /\ editor'[p] = None /\ work'[p] = {} /\ log'[p] = log[p] \cup lost
      /\ \A q \in Peer : q # p => /\ editor'[q] = editor[q] /\ work'[q] = work[q]
                                  /\ log'[q] = log[q]
  BY <1>1, <1>8
<1>10. CASE Loadable(row[p])
  <2>1. /\ view' = [view EXCEPT ![p] = row[p]] /\ doc' = [doc EXCEPT ![p] = Loaded(row[p])]
        /\ running' = running
    BY <1>10 DEF Restarts, Reloads
  <2>2. /\ view'[p] = row[p] /\ doc'[p] = Loaded(row[p])
        /\ \A q \in Peer : q # p => view'[q] = view[q] /\ doc'[q] = doc[q]
    BY <1>1, <2>1
  <2>3. PublishedWhole' => PublishedWhole
    BY <1>7 DEF PublishedWhole
  <2>4. \A q \in Peer : q \in past'.refused <=> q \in past.refused /\ q # p
    BY <1>6
  <2>5. /\ \A q \in Peer : log[q] \subseteq log'[q]
        /\ \A q \in Peer : past.unused[q] \subseteq past'.unused[q]
    BY <1>7, <1>9
  <2>6. QED
    BY <1>6, <1>7, <1>8, <1>9, <1>10, <2>1, <2>2, <2>3, <2>4, <2>5
<1>11. CASE ~Loadable(row[p])
  <2>1. view' = view /\ doc' = doc /\ running' = running \ {p}
    BY <1>11 DEF Restarts, Reloads
  <2>2. PublishedWhole' => PublishedWhole
    BY <1>7 DEF PublishedWhole
  <2>3. \A q \in Peer : q \in past'.refused <=> q \in past.refused /\ q # p
    BY <1>6
  <2>4. /\ \A q \in Peer : log[q] \subseteq log'[q]
        /\ \A q \in Peer : past.unused[q] \subseteq past'.unused[q]
    BY <1>7, <1>9
  <2>5. QED
    BY <1>6, <1>7, <1>8, <1>9, <1>11, <2>1, <2>2, <2>3, <2>4
<1>12. QED
  BY <1>10, <1>11

(* It presents then what was safe.                                           *)
LEMMA RestartPresents ==
  ASSUME Typed, NEW p \in Peer, NEW lost, NEW h, Restarts(p, lost, h)
  PROVE  /\ Presented(p)' = Safe(p) /\ Safe(p)' = Safe(p)
         /\ \A q \in Peer : q # p => Presented(q)' = Presented(q) /\ Safe(q)' = Safe(q)
<1>1. /\ log'[p] = log[p] \cup lost
      /\ past'.unused[p] = past.unused[p] \cup past.unsaved[p] \cup lost
      /\ past'.unsaved[p] = {}
      /\ \A q \in Peer : q # p => /\ log'[q] = log[q] /\ past'.unused[q] = past.unused[q]
                                  /\ past'.unsaved[q] = past.unsaved[q]
  BY RestartsAre
<1>2. lost \cap log[p] = {}
  BY DEF Restarts
<1>3. QED
  BY <1>1, <1>2 DEF Presented, Safe

LEMMA RestartTyped ==
  ASSUME Typed, NEW p \in Peer, NEW lost, NEW h, Restarts(p, lost, h)
  PROVE  Typed' /\ row[p] \in Views /\ Loaded(row[p]) \in Documents
<1>1. row[p] \in Views /\ row[p].revisions \in Seq(Revisions) /\ row[p].leases \in Tables(Leases)
  BY ViewParts DEF Typed
<1>2. ToSet(row[p].revisions) \subseteq Revisions
  BY <1>1 DEF ToSet
<1>3. Loaded(row[p]) \in Documents
  BY <1>1, <1>2 DEF Loaded, Documents
<1>4. /\ log' \in [Peer -> SUBSET Events] /\ work' \in [Peer -> SUBSET Events]
      /\ editor' \in [Peer -> {None} \cup Editors]
      /\ skew' \in [Peer -> Nat] /\ now' \in 0..MaxTime /\ issued' \in 0..MaxEvents
  BY DEF Typed, Restarts, Reloads
<1>5. row' = row /\ past' \in Histories
  BY RestartsAre
<1>6. view' \in [Peer -> Views] /\ doc' \in [Peer -> Documents] /\ running' \subseteq Peer
  BY <1>1, <1>3 DEF Typed, Restarts, Reloads
<1>7. QED
  BY <1>1, <1>3, <1>4, <1>5, <1>6 DEF Typed

(* A core that never failed to publish can load what it has saved.           *)
LEMMA RestartLoads ==
  ASSUME Typed, Durable, NEW p \in Peer, NEW lost, NEW h, Restarts(p, lost, h), p \notin past'.failed
  PROVE  /\ p \notin past.failed /\ Loadable(row[p]) /\ Loads(row[p], Safe(p))
         /\ view'[p] = row[p] /\ doc'[p] = Loaded(row[p])
         /\ doc'[p].leases = row[p].leases /\ doc'[p].revisions = ToSet(row[p].revisions)
<1>1. p \notin past.failed
  BY RestartsAre
<1>2. Loads(row[p], Safe(p)) /\ Loadable(row[p])
  BY <1>1 DEF Durable, Loads
<1>3. QED
  BY <1>1, <1>2, RestartsAre DEF Loaded

LEMMA RestartConverges ==
  ASSUME Typed, Logs, Lists, Converging, Durable,
         NEW p \in Peer, NEW lost, NEW h, Restarts(p, lost, h)
  PROVE  Converging'
<1>1. SUFFICES ASSUME NEW q \in Peer, NEW x \in Ids', Orderly(x)' PROVE Presents(q, x)'
  BY DEF Converging
<1>2. /\ past'.failed = past.failed /\ \A a \in Peer : log[a] \subseteq log'[a]
  BY RestartsAre
<1>3. issued' \in Nat /\ past'.failed = {}
  BY <1>1 DEF Orderly, Restarts
<1>4. x \in Nat /\ Orderly(x)
  BY <1>1, <1>2, OrderlyBefore DEF Ids
<1>5. CASE q = p
  <2>1. view'[p] = row[p] /\ Presented(p)' = Safe(p)
    BY <1>3, RestartLoads, RestartPresents
  <2>2. ASSUME NEW f, f \in Safe(p) PROVE f \in Edits(x)' <=> f \in Edits(x)
    <3>1. f \in log[p] /\ f \in log'[p]
      BY <1>2, <2>2 DEF Safe, Presented
    <3>2. QED
      BY <3>1, EditsAre
  <2>3. Taken(p, x)' = Edits(x) \cap Safe(p)
    BY <2>1, <2>2 DEF Taken
  <2>4. Fits(row[p].places, x, Edits(x) \cap Safe(p))
    <3>1. CASE x \in Ids
      BY <1>4, <3>1 DEF Durable
    <3>2. CASE x \notin Ids
      <4>1. Edits(x) = {} /\ ~Has(row[p].places, x)
        BY <1>4, <3>2, Unknown
      <4>2. QED
        BY <4>1 DEF Fits
    <3>3. QED
      BY <3>1, <3>2
  <2>5. Fits(view'[p].places, x, Taken(p, x)')
    BY <2>1, <2>3, <2>4
  <2>6. QED
    BY <1>5, <2>5 DEF Presents, Fits, Has, LastOf, Says
<1>6. CASE q # p
  <2>1. view'[q] = view[q] /\ Presented(q)' = Presented(q)
    BY <1>6, RestartsAre, RestartPresents
  <2>2. ASSUME NEW f, f \in Presented(q) PROVE f \in Edits(x)' <=> f \in Edits(x)
    <3>1. f \in log[q] /\ f \in log'[q]
      BY <1>2, <2>2 DEF Presented
    <3>2. QED
      BY <3>1, EditsAre
  <2>3. Taken(q, x)' = Taken(q, x)
    BY <2>1, <2>2 DEF Taken
  <2>4. Presents(q, x)
    BY <1>4, PresentsIs
  <2>5. Fits(view'[q].places, x, Taken(q, x)')
    BY <2>1, <2>3, <2>4 DEF Presents
  <2>6. QED
    BY <2>5 DEF Presents, Fits, Has, LastOf, Says
<1>7. QED
  BY <1>5, <1>6

LEMMA RestartDrafts ==
  ASSUME Typed, Drafts, Durable, NEW p \in Peer, NEW lost, NEW h, Restarts(p, lost, h),
         \E c \in Nat : \A f \in lost : f.kind = "revision" => Dated(f.body, c)'
  PROVE  Drafts'
<1>1. PICK b \in Nat : \A q \in Peer : DatedBy(b, q)
  BY DraftsAre
<1>2. \A q \in Peer : Drafted(q)
  BY DraftsAre
<1>3. PICK c \in Nat : \A f \in lost : f.kind = "revision" => Dated(f.body, c)'
  OBVIOUS
<1>4. PICK m \in Nat : b <= m /\ c <= m
  <2>1. b + c \in Nat /\ b <= b + c /\ c <= b + c
    OBVIOUS
  <2>2. QED
    BY <2>1
<1>5. issued \in Nat /\ issued' \in Nat /\ issued <= issued' /\ lost \subseteq Events
  BY DEF Typed, Restarts
<1>6. /\ \A q \in Peer : q # p => view'[q] = view[q] /\ doc'[q] = doc[q] /\ log'[q] = log[q]
                                  /\ editor'[q] = editor[q] /\ (q \in running' <=> q \in running)
      /\ row' = row /\ editor'[p] = None /\ log'[p] = log[p] \cup lost
      /\ past'.failed = past.failed
      /\ Loadable(row[p]) => view'[p] = row[p] /\ doc'[p] = Loaded(row[p]) /\ running' = running
      /\ ~Loadable(row[p]) => view' = view /\ doc' = doc /\ running' = running \ {p}
  BY RestartsAre
<1>7. \A q \in Peer : \A r \in doc'[q].revisions :
        r \in doc[q].revisions \/ r \in ToSet(row[q].revisions)
  BY <1>6 DEF Loaded
<1>8. ASSUME NEW q \in Peer PROVE DatedBy(m, q)'
  <2>1. \A r \in ToSet(row[q].revisions) : r \in Revisions
    <3>1. row[q].revisions \in Seq(Revisions)
      BY DEF Typed, Views
    <3>2. QED
      BY <3>1 DEF ToSet
  <2>2. \A r \in doc[q].revisions : r \in Revisions
    BY DEF Typed, Documents
  <2>3. \A r : r \in doc[q].revisions \/ r \in ToSet(row[q].revisions) => r \in Revisions /\ Dated(r, b)
    BY <1>1, <2>1, <2>2 DEF DatedBy
  <2>4. \A r : r \in doc[q].revisions \/ r \in ToSet(row[q].revisions) => Dated(r, m)'
    <3>1. ASSUME NEW r, r \in doc[q].revisions \/ r \in ToSet(row[q].revisions) PROVE Dated(r, m)'
      <4>1. r \in Revisions /\ Dated(r, b)
        BY <2>3, <3>1
      <4>2. QED
        BY <1>4, <1>5, <4>1, DatedStays
    <3>2. QED
      BY <3>1
  <2>5. ASSUME NEW e \in log'[q], e.kind = "revision" PROVE Dated(e.body, m)'
    <3>1. PICK s : s = e.body
      OBVIOUS
    <3>2. e \in Events
      BY <1>5, <1>6 DEF Typed
    <3>3. s \in Revisions
      BY <2>5, <3>1, <3>2 DEF Events, Made
    <3>4. CASE e \in log[q]
      <4>1. Dated(s, b)
        BY <1>1, <2>5, <3>1, <3>4 DEF DatedBy
      <4>2. Dated(s, m)'
        BY <1>4, <1>5, <3>3, <4>1, DatedStays
      <4>3. QED
        BY <3>1, <4>2 DEF Dated
    <3>5. CASE e \in lost
      <4>1. Dated(e.body, c)'
        BY <1>3, <2>5, <3>5
      <4>2. s.stamp \in Nat /\ s.author \in Nat /\ s.stamp <= c /\ s.author <= c
        BY <3>1, <3>3, <4>1, ConstantsAssumption DEF Dated, Revisions
      <4>3. s.stamp <= m /\ s.author <= m
        BY <1>4, <4>2
      <4>4. QED
        BY <3>1, <4>1, <4>3 DEF Dated
    <3>6. QED
      BY <1>6, <3>4, <3>5
  <2>6. \A r \in doc'[q].revisions : Dated(r, m)'
    BY <1>7, <2>4
  <2>7. \A r \in ToSet(row'[q].revisions) : Dated(r, m)'
    BY <1>6, <2>4
  <2>8. QED
    BY <2>5, <2>6, <2>7 DEF DatedBy, Dated
<1>9. ASSUME NEW q \in Peer, view'[q] = view[q], doc'[q] = doc[q], editor'[q] \in {None, editor[q]},
             q \notin running' => q \notin running \/ ~Loadable(row[q]),
             q \notin past'.failed => Presented(q)' = Presented(q)
      PROVE  Drafted(q)'
  <2>1. Parented(doc[q])'
    BY <1>2, <1>9 DEF Drafted, Parented, HasParent, HasRevision
  <2>2. editor'[q] # None =>
          editor'[q].parent = None \/ HasRevision(doc[q], editor'[q].parent[1])
    BY <1>2, <1>9 DEF Drafted
  <2>3. HasRevision(doc[q], editor[q].parent[1])' <=> HasRevision(doc[q], editor'[q].parent[1])
    BY <1>9 DEF HasRevision
  <2>4. (ToSet(view[q].revisions) \subseteq doc[q].revisions)'
    BY <1>2, <1>9 DEF Drafted, ToSet
  <2>5. q \notin running' => ~Loadable(row[q])'
    BY <1>2, <1>6, <1>9 DEF Drafted, Loadable
  <2>6. ASSUME q \notin past'.failed PROVE Keeps(q)'
    <3>1. Keeps(q)
      BY <1>2, <1>6, <2>6 DEF Drafted
    <3>2. Loadable(view[q])'
      BY <1>9, <3>1 DEF Keeps, Loadable
    <3>3. ToSet(view[q].revisions)' = ToSet(view[q].revisions) /\ Applied(q)' = Applied(q)
      BY <1>9, <2>6 DEF ToSet, Applied
    <3>4. QED
      BY <1>9, <3>1, <3>2, <3>3 DEF Keeps
  <2>7. QED
    BY <2>1, <2>2, <2>3, <2>4, <2>5, <2>6 DEF Drafted
<1>10. CASE Loadable(row[p])
  <2>1. PICK v \in Views : v = row[p]
    BY DEF Typed
  <2>2. PICK d : d = Loaded(v)
    OBVIOUS
  <2>3. Parented(d) /\ d.revisions = ToSet(v.revisions) /\ Loadable(v)
    BY <1>10, <2>1, <2>2, LoadedParented DEF Loaded
  <2>4. view'[p] = v /\ doc'[p] = d /\ row'[p] = v /\ running' = running
    BY <1>6, <1>10, <2>1, <2>2
  <2>5. Parented(doc[p])'
    BY <2>3, <2>4 DEF Parented, HasParent, HasRevision
  <2>6. ToSet(view[p].revisions)' = doc'[p].revisions
    BY <2>3, <2>4 DEF ToSet
  <2>7. Loadable(view[p])' /\ Loadable(row[p])'
    BY <2>3, <2>4 DEF Loadable
  <2>8. p \in running'
    BY <2>4 DEF Restarts
  <2>9. ASSUME p \notin past'.failed PROVE Keeps(p)'
    <3>1. Loads(row[p], Safe(p)) /\ Presented(p)' = Safe(p)
      BY <2>9, RestartLoads, RestartPresents
    <3>2. Applied(p)' = {e.body : e \in {f \in Safe(p) : f.kind = "revision"}}
      BY <3>1 DEF Applied
    <3>3. Applied(p)' = ToSet(v.revisions)
      BY <2>1, <3>1, <3>2 DEF Loads
    <3>4. QED
      BY <2>3, <2>4, <2>6, <2>7, <3>3 DEF Keeps
  <2>10. Drafted(p)'
    BY <1>6, <2>5, <2>6, <2>8, <2>9 DEF Drafted
  <2>11. ASSUME NEW q \in Peer, q # p PROVE Drafted(q)'
    <3>1. Presented(q)' = Presented(q)
      BY <2>11, RestartPresents
    <3>2. QED
      BY <1>6, <1>9, <2>11, <3>1
  <2>12. \A q \in Peer : Drafted(q)'
    BY <2>10, <2>11
  <2>13. QED
    BY <1>8, <2>12, DraftsAre
<1>11. CASE ~Loadable(row[p])
  <2>1. ASSUME NEW q \in Peer PROVE Drafted(q)'
    <3>1. q \notin past'.failed => Presented(q)' = Presented(q)
      <4>1. CASE q = p
        BY <1>11, <4>1, RestartLoads
      <4>2. CASE q # p
        BY <4>2, RestartPresents
      <4>3. QED
        BY <4>1, <4>2
    <3>2. q \notin running' => q \notin running \/ ~Loadable(row[q])
      BY <1>6, <1>11
    <3>3. view'[q] = view[q] /\ doc'[q] = doc[q] /\ editor'[q] \in {None, editor[q]}
      BY <1>6, <1>11
    <3>4. QED
      BY <1>9, <3>1, <3>2, <3>3
  <2>2. QED
    BY <1>8, <2>1, DraftsAre
<1>12. QED
  BY <1>10, <1>11

LEMMA RestartTakesTurns ==
  ASSUME Typed, Logs, Turns, Knowing, Durable, ConnectedTakeTurns,
         NEW p \in Peer, NEW lost, NEW h, Restarts(p, lost, h)
  PROVE  ConnectedTakeTurns'
<1>1. /\ past'.failed = past.failed /\ (past.apart => past'.apart) /\ skew' = skew
      /\ PublishedWhole' => PublishedWhole
      /\ \A q \in Peer : Clock(q)' = Clock(q)
  <2>1. /\ past'.failed = past.failed /\ past'.apart = h.apart
        /\ PublishedWhole' => PublishedWhole
    BY RestartsAre
  <2>2. (past.apart => h.apart) /\ skew' = skew /\ now' = now
    BY DEF Restarts
  <2>3. QED
    BY <2>1, <2>2 DEF Clock
<1>2. Together' => Together
  BY <1>1, TogetherBefore
<1>3. ASSUME Together', Holds(p)' PROVE Holds(p)
  <2>1. PublishedWhole /\ p \notin past'.failed /\ p \notin past.failed
    BY <1>1, <1>2, <1>3 DEF Together
  <2>2. PICK s \in Tables(Leases) : s = row[p].leases
    BY ViewParts DEF Typed
  <2>3. PICK t \in Tables(Leases) : t = doc[p].leases
    BY DEF Typed, Documents
  <2>4. doc'[p].leases = s /\ Known(Safe(p), s) /\ Known(Presented(p), t)
    BY <2>1, <2>2, <2>3, RestartLoads DEF Durable, Knowing
  <2>5. PICK time \in Nat : time = Clock(p)
    BY ClockIs
  <2>6. HoldsIn(p, s, time)
    BY <1>1, <1>3, <2>4, <2>5, HoldsIs
  <2>7. PICK l \in DOMAIN s : s[l].holder = p /\ s[l].from <= time /\ time < s[l].till
    BY <2>6 DEF HoldsIn, Active
  <2>8. PICK grant \in Grants : Grantings(grant)
    BY DEF Turns
  <2>9. /\ s[l].holder = grant[l].holder /\ s[l].till <= s[l].from + Duration
        /\ s[l].from \in Nat /\ s[l].till \in Nat
    <3>1. s \in TablesOf(p)
      BY <2>2 DEF TablesOf
    <3>2. Granted(grant, s) /\ s[l] \in Leases
      BY <2>7, <2>8, <3>1, TableFacts DEF Grantings
    <3>3. QED
      BY <2>7, <3>2 DEF Granted, Leases
  <2>10. PICK e \in Safe(p) : /\ e.kind = "lease" /\ e.id = l
                              /\ s[l].holder = e.body.holder /\ s[l].from = e.body.from
    BY <2>4, <2>7 DEF Known
  <2>11. e \in Presented(p) /\ e \in log[p]
    BY <2>10 DEF Safe, Presented
  <2>12. l \in DOMAIN t
    BY <2>4, <2>10, <2>11 DEF Known
  <2>13. PICK f \in Presented(p) : /\ f.kind = "lease" /\ f.id = l
                                   /\ t[l].holder = f.body.holder /\ t[l].from = f.body.from
    BY <2>4, <2>12 DEF Known
  <2>14. e = f
    BY <2>10, <2>11, <2>13 DEF Logs, Presented
  <2>15. t[l].holder = p /\ t[l].from = s[l].from
    BY <2>7, <2>10, <2>13, <2>14
  <2>16. time < t[l].till
    <3>1. CASE t[l].till = t[l].from + Duration
      BY <2>7, <2>9, <2>15, <3>1, ConstantsAssumption
    <3>2. CASE \E g \in Presented(p) : g.kind = "release" /\ g.body.lease = l
      <4>1. PICK g \in Presented(p) : g.kind = "release" /\ g.body.lease = l
        BY <3>2
      <4>2. g \in log[p] /\ g \in Events
        BY <4>1 DEF Presented, Typed
      <4>3. /\ GrantEvent(grant, g) /\ g.body.time \in Nat
            /\ \A u \in TablesOf(g.sender) : Ended(u, g)
        BY <2>1, <2>8, <4>1, <4>2, LeaseEvent DEF Grantings
      <4>4. g.sender = p /\ s \in TablesOf(p)
        BY <2>2, <2>7, <2>9, <4>1, <4>3 DEF GrantEvent, TablesOf
      <4>5. s[l].till <= g.body.time
        BY <2>7, <4>1, <4>3, <4>4 DEF Ended
      <4>6. t[l].till = g.body.time
        BY <2>4, <4>1 DEF Known
      <4>7. QED
        BY <2>7, <2>9, <4>3, <4>5, <4>6
    <3>3. QED
      BY <2>4, <2>12, <3>1, <3>2 DEF Known
  <2>17. l \in Active(t, time)
    BY <2>7, <2>12, <2>15, <2>16 DEF Active
  <2>18. QED
    BY <2>3, <2>5, <2>15, <2>17 DEF Holds
<1>4. ASSUME Together', NEW q \in Peer, Holds(q)' PROVE Holds(q)
  <2>1. CASE q = p
    BY <1>3, <1>4, <2>1
  <2>2. CASE q # p
    <3>1. doc'[q] = doc[q]
      BY <2>2, RestartsAre
    <3>2. QED
      BY <1>1, <1>4, <3>1, HoldsIs
  <2>3. QED
    BY <2>1, <2>2
<1>5. QED
  BY <1>2, <1>4, TurnsKept

LEMMA RestartKnows ==
  ASSUME Typed, Knowing, Durable, NEW p \in Peer, NEW lost, NEW h, Restarts(p, lost, h)
  PROVE  Knowing'
<1>1. PublishedWhole' => PublishedWhole
  BY RestartsAre
<1>2. ASSUME PublishedWhole', NEW q \in Peer, q \notin past'.failed PROVE Knows(q)'
  <2>1. CASE q = p
    <3>1. /\ view'[p] = row[p] /\ doc'[p].leases = row[p].leases /\ p \notin past.failed
          /\ Presented(p)' = Safe(p)
      BY <1>2, <2>1, RestartLoads, RestartPresents
    <3>2. Known(Safe(p), row[p].leases)
      BY <1>1, <1>2, <3>1 DEF Durable
    <3>3. Known(Presented(p)', doc'[p].leases)
      BY <3>1, <3>2
    <3>4. QED
      BY <2>1, <3>1, <3>3 DEF Knows
  <2>2. CASE q # p
    <3>1. /\ view'[q] = view[q] /\ doc'[q] = doc[q] /\ q \notin past.failed
          /\ Presented(q)' = Presented(q)
      BY <1>2, <2>2, RestartsAre, RestartPresents
    <3>2. Knows(q)
      BY <1>1, <1>2, <3>1, KnowingIs
    <3>3. QED
      BY <3>1, <3>2 DEF Knows
  <2>3. QED
    BY <2>1, <2>2
<1>3. QED
  BY <1>2, KnowingIs

LEMMA RestartsKeep ==
  ASSUME Inv, NEW p \in Peer, NEW lost, NEW h, Restarts(p, lost, h), Logs', Turns',
         \E c \in Nat : \A f \in lost : f.kind = "revision" => Dated(f.body, c)'
  PROVE  Inv'
<1>1. /\ Typed /\ Logs /\ Works /\ Lists /\ Converging /\ Chats /\ Drafts /\ Turns /\ Knowing
      /\ Durable /\ ConnectedTakeTurns
  BY DEF Inv
<1>2. /\ \A q \in Peer : q # p =>
           /\ view'[q] = view[q] /\ doc'[q] = doc[q] /\ log'[q] = log[q] /\ work'[q] = work[q]
           /\ past'.unused[q] = past.unused[q] /\ past'.unsaved[q] = past.unsaved[q]
           /\ (q \in past'.refused <=> q \in past.refused)
      /\ row' = row /\ work'[p] = {}
      /\ past'.unused[p] = past.unused[p] \cup past.unsaved[p] \cup lost
      /\ past'.unsaved[p] = {}
      /\ past'.failed = past.failed /\ past'.refused = past.refused \ {p}
      /\ past'.faults = h.faults
      /\ Loadable(row[p]) => view'[p] = row[p]
      /\ ~Loadable(row[p]) => view' = view
      /\ \A q \in Peer : log[q] \subseteq log'[q]
      /\ PublishedWhole' => PublishedWhole
  BY <1>1, RestartsAre
<1>3. /\ Presented(p)' = Safe(p) /\ Safe(p)' = Safe(p)
      /\ \A q \in Peer : q # p => Presented(q)' = Presented(q) /\ Safe(q)' = Safe(q)
  BY <1>1, RestartPresents
<1>4. topic' = topic /\ issued \in Nat /\ issued' \in Nat /\ issued <= issued'
  BY <1>1 DEF Restarts, Typed
<1>5. Typed'
  BY <1>1, RestartTyped
<1>6. Works'
  <2>1. \A q \in Peer : q # p =>
          /\ log'[q] = log[q] /\ work'[q] = work[q] /\ past'.unsaved[q] = past.unsaved[q]
          /\ Presented(q)' = Presented(q) /\ (q \in past.refused => q \in past'.refused)
    BY <1>2, <1>3
  <2>2. QED
    BY <1>1, <1>2, <2>1, WorksAfter
<1>7. Lists'
  <2>1. \A q \in Peer : view'[q] = view[q] \/ view'[q] = row[q]
    BY <1>2
  <2>2. \A q \in Peer : Listed(view'[q].places) /\ Listed(row'[q].places)
    BY <1>1, <1>2, <2>1 DEF Lists
  <2>3. QED
    BY <1>4, <2>2 DEF Lists, Listed, Ids
<1>8. Converging'
  BY <1>1, RestartConverges
<1>9. Chats'
  <2>1. ASSUME topic = "chats", past'.faults = 0
        PROVE  past.faults = 0 /\ \A q \in Peer : past'.unused[q] \subseteq past.unused[q]
    <3>1. past.faults = 0 /\ lost = {} /\ work[p] = {}
      BY <1>2, <2>1 DEF Restarts
    <3>2. past.unsaved[p] = {}
      BY <1>1, <2>1, <3>1 DEF Works, Chats
    <3>3. QED
      BY <1>2, <3>1, <3>2
  <2>2. ASSUME topic = "chats", NEW q \in Peer, Chatting(view[q], Presented(q))
        PROVE  Chatting(view'[q], Presented(q)')
    <3>1. CASE q = p
      <4>1. Chatting(row[p], Safe(p))
        BY <1>1, <2>2 DEF Durable
      <4>2. Loadable(row[p])
        BY <4>1 DEF Chatting, Loadable
      <4>3. QED
        BY <1>2, <1>3, <3>1, <4>1, <4>2
    <3>2. CASE q # p
      BY <1>2, <1>3, <2>2, <3>2
    <3>3. QED
      BY <3>1, <3>2
  <2>3. past'.refused \subseteq past.refused
    BY <1>2
  <2>4. QED
    BY <1>1, <1>4, <2>1, <2>2, <2>3, ChatsAfter
<1>10. Drafts'
  BY <1>1, RestartDrafts
<1>11. Knowing'
  BY <1>1, RestartKnows
<1>12. Durable'
  <2>1. ASSUME NEW q \in Peer
        PROVE  /\ row'[q] = row[q] /\ Safe(q)' = Safe(q)
               /\ q \notin past'.failed /\ past'.unsaved[q] = {} => row[q] = view'[q]
    <3>1. CASE q = p
      BY <1>1, <1>2, <1>3, <3>1, RestartLoads
    <3>2. CASE q # p
      <4>1. q \notin past.failed /\ past.unsaved[q] = {} => row[q] = view[q]
        BY <1>1 DEF Durable
      <4>2. QED
        BY <1>2, <1>3, <3>2, <4>1
    <3>3. QED
      BY <3>1, <3>2
  <2>2. past.failed \subseteq past'.failed
    BY <1>2
  <2>3. QED
    BY <1>1, <1>2, <1>4, <1>8, <1>9, <1>10, <1>11, <2>1, <2>2, DurableAfter
<1>13. ConnectedTakeTurns'
  BY <1>1, RestartTakesTurns
<1>14. QED
  BY <1>5, <1>6, <1>7, <1>8, <1>9, <1>10, <1>11, <1>12, <1>13 DEF Inv

(* The tables of leases after a restart are those there were.                *)
LEMMA RestartTables ==
  ASSUME Typed, NEW p \in Peer, NEW lost, NEW h, Restarts(p, lost, h)
  PROVE  \A q \in Peer : TablesOf(q)' \subseteq TablesOf(q)
<1>1. /\ \A q \in Peer : q # p => view'[q] = view[q] /\ doc'[q] = doc[q]
      /\ row' = row
      /\ Loadable(row[p]) => view'[p] = row[p] /\ doc'[p] = Loaded(row[p])
      /\ ~Loadable(row[p]) => view' = view /\ doc' = doc
  BY RestartsAre
<1>2. Loaded(row[p]).leases = row[p].leases
  BY DEF Loaded
<1>3. QED
  BY <1>1, <1>2 DEF TablesOf

(* No lease and no release is lost, or others have it.                       *)
LEMMA RestartTurns ==
  ASSUME Typed, Turns, NEW p \in Peer, NEW lost, NEW h, Restarts(p, lost, h),
         \A f \in lost : f.kind \in {"lease", "release"} => \E a \in Peer : f \in log[a]
  PROVE  Turns'
<1>1. /\ log'[p] = log[p] \cup lost /\ \A q \in Peer : q # p => log'[q] = log[q]
      /\ PublishedWhole' => PublishedWhole
  BY RestartsAre
<1>2. /\ issued' \in Nat /\ issued <= issued' /\ skew' = skew
      /\ now' \in Nat /\ now <= now' /\ lost \subseteq Events
  BY DEF Restarts, Typed
<1>3. \A q \in Peer : TablesOf(q)' \subseteq TablesOf(q)
  BY RestartTables
<1>4. \A q \in Peer : \A f \in log'[q] : f.kind \in {"lease", "release"} => \E a \in Peer : f \in log[a]
  BY <1>1
<1>5. \A q \in Peer : log'[q] \subseteq Events
  BY <1>1, <1>2 DEF Typed
<1>6. QED
  BY <1>1, <1>2, <1>3, <1>4, <1>5, TurnsStay

LEMMA RestartLogs ==
  ASSUME Typed, Logs, Works, NEW p \in Peer, NEW lost, NEW h, Restarts(p, lost, h)
  PROVE  /\ \A q \in Peer : past'.unused[q] \subseteq log'[q]
         /\ \A q \in Peer : editor'[q] # None => topic # "chats"
<1>1. /\ \A q \in Peer : q # p => /\ log'[q] = log[q] /\ editor'[q] = editor[q]
                                  /\ past'.unused[q] = past.unused[q]
      /\ editor'[p] = None /\ log'[p] = log[p] \cup lost
      /\ past'.unused[p] = past.unused[p] \cup past.unsaved[p] \cup lost
  BY RestartsAre
<1>2. past.unsaved[p] \subseteq log[p]
  BY DEF Works, Presented
<1>3. QED
  BY <1>1, <1>2 DEF Logs

LEMMA RestartKeeps ==
  ASSUME Inv, NEW p \in Peer, Restart(p)
  PROVE  Inv'
<1>1. /\ Typed /\ Logs /\ Works /\ Turns /\ past \in Histories /\ issued \in 0..MaxEvents
      /\ issued \in Nat /\ log \in [Peer -> SUBSET Events] /\ work \in [Peer -> SUBSET Events]
  BY DEF Inv, Typed
<1>2. /\ p \in running /\ work[p] = {} /\ Reloads(p, {}, past)
      /\ UNCHANGED <<topic, skew, now, issued, log, work>>
  BY DEF Restart, Idle
<1>3. log' = [log EXCEPT ![p] = @ \cup {}] /\ work' = [work EXCEPT ![p] = {}]
  BY <1>1, <1>2
<1>4. Restarts(p, {}, past)
  <2>1. issued' \in 0..MaxEvents /\ issued <= issued'
    BY <1>1, <1>2
  <2>2. past.apart => past.apart
    OBVIOUS
  <2>3. QED
    BY <1>1, <1>2, <1>3, <2>1 DEF Restarts
<1>5. Logs'
  <2>1. past'.unused[p] \subseteq log[p] /\ \A q \in Peer : past'.unused[q] \subseteq log[q]
    BY <1>1, <1>2, <1>4, RestartLogs
  <2>2. QED
    BY <1>1, <1>2, <1>4, <2>1, RestartLogs, LogsStay
<1>6. Turns'
  BY <1>1, <1>4, RestartTurns
<1>7. \E c \in Nat : \A f \in {} : f.kind = "revision" => Dated(f.body, c)'
  OBVIOUS
<1>8. QED
  BY <1>4, <1>5, <1>6, <1>7, RestartsKeep

-----------------------------------------------------------------------------
(* Commands *)

NewEvent(p, e) ==
  /\ e \in Events /\ e.id = issued + 1 /\ e.sender = p
  /\ e.kind \in {"place", "deletion"} =>
       e.body.id \in 1..(issued + 1) /\ e.body.value.edit \in 1..(issued + 1)
  /\ e.kind = "deletion" => e.body.value.deleted
  /\ e.kind \in {"message", "revision"} => e.body.id = e.id
  /\ topic = "chats" <=> e.kind = "message"

LEMMA Fresh ==
  ASSUME Typed, Logs, NEW p, NEW e, NewEvent(p, e)
  PROVE  \A q \in Peer : e \notin log[q] /\ \A f \in log[q] : f.id # e.id
<1>1. \A q \in Peer : \A f \in log[q] : f.id \in 1..issued
  BY DEF Logs, Named, Ids
<1>2. e.id = issued + 1 /\ issued \in Nat
  BY DEF NewEvent, Typed
<1>3. QED
  BY <1>1, <1>2

LEMMA ApartIs ==
  ASSUME Typed, NEW p
  PROVE  /\ Apart(p) \in Histories
         /\ Apart(p).failed = past.failed /\ Apart(p).unused = past.unused
         /\ Apart(p).unsaved = past.unsaved /\ Apart(p).refused = past.refused
         /\ Apart(p).faults = past.faults
         /\ Apart(p).apart <=> past.apart \/ (topic = "document" /\ ~InTouch(p))
<1>1. past \in Histories
  BY DEF Typed
<1>2. PICK b \in BOOLEAN : b <=> past.apart \/ (topic = "document" /\ ~InTouch(p))
  OBVIOUS
<1>3. (past.apart \/ (topic = "document" /\ ~InTouch(p))) = b
  <2>1. past.apart \in BOOLEAN
    BY <1>1 DEF Histories
  <2>2. QED
    BY <1>2, <2>1
<1>4. Apart(p) = [past EXCEPT !.apart = b]
  BY <1>3 DEF Apart
<1>5. QED
  BY <1>1, <1>2, <1>4 DEF Histories

LEMMA FaultyIs ==
  ASSUME NEW h \in Histories, h.faults < MaxFaults
  PROVE  /\ Faulty(h) \in Histories
         /\ Faulty(h).failed = h.failed /\ Faulty(h).unused = h.unused
         /\ Faulty(h).unsaved = h.unsaved /\ Faulty(h).refused = h.refused
         /\ Faulty(h).apart = h.apart /\ Faulty(h).faults # 0
<1>1. PICK n \in 0..MaxFaults : n = h.faults + 1 /\ n # 0
  BY ConstantsAssumption DEF Histories
<1>2. Faulty(h) = [h EXCEPT !.faults = n]
  BY <1>1 DEF Faulty
<1>3. QED
  BY <1>1, <1>2 DEF Histories

(* How a publication can end.                                                *)
Done(p, e, v, d) ==
  log' = [log EXCEPT ![p] = @ \cup {e}] /\ Saves(p, v, d, Apart(p))

CutOff(p, e) ==
  /\ log' = [log EXCEPT ![p] = @ \cup {e}]
  /\ past.faults < MaxFaults /\ Reloads(p, {e}, Faulty(Apart(p)))

Fails(p, v, d) ==
  /\ past.faults < MaxFaults
  /\ view' = [view EXCEPT ![p] = v] /\ doc' = [doc EXCEPT ![p] = d]
  /\ past' = [Faulty(Apart(p)) EXCEPT !.failed = @ \cup {p}]
  /\ UNCHANGED <<log, row, running>>

LEMMA Publishing ==
  ASSUME NEW p, NEW e, NEW v, NEW d, NEW open
  PROVE  /\ Publishes(p, e, v, d, open) =>
              (Done(p, e, v, d) /\ editor' = [editor EXCEPT ![p] = open]) \/ CutOff(p, e)
         /\ PublishFails(p, v, d, open) =>
              Fails(p, v, d) /\ editor' = [editor EXCEPT ![p] = open]
  BY DEF Publishes, PublishFails, Done, CutOff, Fails

LEMMA Published ==
  ASSUME Typed, Logs, NEW p \in Peer, Commands(p), NEW e, NewEvent(p, e), NEW v, NEW d,
         v \in Views, d \in Documents, Done(p, e, v, d)
  PROVE  /\ Changes(p, e, v, d)
         /\ log' = [log EXCEPT ![p] = @ \cup {e}] /\ row' = [row EXCEPT ![p] = v]
         /\ past'.failed = past.failed /\ past'.unused = past.unused
         /\ past'.unsaved[p] = {} /\ past'.refused = past.refused \ {p}
         /\ past'.faults = past.faults
         /\ past'.apart <=> past.apart \/ (topic = "document" /\ ~InTouch(p))
<1>1. /\ past \in Histories /\ issued \in 0..MaxEvents /\ row \in [Peer -> Views]
      /\ past.unsaved \in [Peer -> SUBSET Events] /\ past.refused \in SUBSET Peer
  BY DEF Typed, Histories
<1>2. /\ Apart(p) \in Histories
      /\ Apart(p).failed = past.failed /\ Apart(p).unused = past.unused
      /\ Apart(p).unsaved = past.unsaved /\ Apart(p).refused = past.refused
      /\ Apart(p).faults = past.faults
      /\ Apart(p).apart <=> past.apart \/ (topic = "document" /\ ~InTouch(p))
  BY ApartIs
<1>3. PICK unsaved \in [Peer -> SUBSET Events] : unsaved = [past.unsaved EXCEPT ![p] = {}]
  BY <1>1
<1>4. PICK refused \in SUBSET Peer : refused = past.refused \ {p}
  BY <1>1
<1>5. past' = [Apart(p) EXCEPT !.unsaved = unsaved, !.refused = refused]
  BY <1>2, <1>3, <1>4 DEF Done, Saves, Histories
<1>6. /\ past' \in Histories /\ past'.failed = past.failed /\ past'.unused = past.unused
      /\ past'.unsaved = unsaved /\ past'.refused = past.refused \ {p}
      /\ past'.faults = past.faults
      /\ past'.apart <=> past.apart \/ (topic = "document" /\ ~InTouch(p))
  BY <1>2, <1>4, <1>5 DEF Histories
<1>7. past'.unsaved[p] = {} /\ \A q \in Peer : q # p => past'.unsaved[q] = past.unsaved[q]
  BY <1>1, <1>3, <1>6
<1>8. issued' \in 0..MaxEvents /\ issued <= issued'
  BY <1>1, ConstantsAssumption DEF Commands
<1>9. e \in Events /\ e \notin log[p] /\ e \notin past.unused[p]
  BY Fresh DEF NewEvent, Logs
<1>10. /\ view' = [view EXCEPT ![p] = v] /\ doc' = [doc EXCEPT ![p] = d]
       /\ row' = [row EXCEPT ![p] = v] /\ log' = [log EXCEPT ![p] = @ \cup {e}]
       /\ UNCHANGED <<topic, skew, now, running>> /\ p \in running
  BY DEF Done, Saves, Commands, Idle
<1>11. QED
  BY <1>6, <1>7, <1>8, <1>9, <1>10 DEF Changes

LEMMA Refused ==
  ASSUME Typed, Logs, NEW p \in Peer, Commands(p), NEW e, NewEvent(p, e), NEW v, NEW d,
         v \in Views, d \in Documents, Fails(p, v, d)
  PROVE  /\ Changes(p, e, v, d)
         /\ UNCHANGED <<log, row>> /\ p \in past'.failed /\ past'.unused = past.unused
         /\ past'.unsaved = past.unsaved /\ past'.refused = past.refused /\ past'.faults # 0
         /\ past'.apart <=> past.apart \/ (topic = "document" /\ ~InTouch(p))
<1>1. /\ past \in Histories /\ issued \in 0..MaxEvents /\ past.failed \in SUBSET Peer
  BY DEF Typed, Histories
<1>2. /\ Apart(p) \in Histories
      /\ Apart(p).failed = past.failed /\ Apart(p).unused = past.unused
      /\ Apart(p).unsaved = past.unsaved /\ Apart(p).refused = past.refused
      /\ Apart(p).faults = past.faults
      /\ Apart(p).apart <=> past.apart \/ (topic = "document" /\ ~InTouch(p))
  BY ApartIs
<1>3. /\ Faulty(Apart(p)) \in Histories
      /\ Faulty(Apart(p)).failed = past.failed /\ Faulty(Apart(p)).unused = past.unused
      /\ Faulty(Apart(p)).unsaved = past.unsaved /\ Faulty(Apart(p)).refused = past.refused
      /\ Faulty(Apart(p)).apart = Apart(p).apart /\ Faulty(Apart(p)).faults # 0
  <2>1. Apart(p).faults < MaxFaults
    BY <1>2 DEF Fails
  <2>2. QED
    BY <1>2, <2>1, FaultyIs
<1>4. past' = [Faulty(Apart(p)) EXCEPT !.failed = past.failed \cup {p}]
  BY <1>3 DEF Fails, Histories
<1>5. /\ past' \in Histories /\ past'.failed = past.failed \cup {p}
      /\ past'.unused = past.unused /\ past'.unsaved = past.unsaved
      /\ past'.refused = past.refused /\ past'.faults # 0
      /\ past'.apart <=> past.apart \/ (topic = "document" /\ ~InTouch(p))
  BY <1>1, <1>2, <1>3, <1>4 DEF Histories
<1>6. issued' \in 0..MaxEvents /\ issued <= issued'
  BY <1>1, ConstantsAssumption DEF Commands
<1>7. e \in Events /\ e \notin log[p] /\ e \notin past.unused[p]
  BY Fresh DEF NewEvent, Logs
<1>8. /\ view' = [view EXCEPT ![p] = v] /\ doc' = [doc EXCEPT ![p] = d]
      /\ row' = row /\ log' = log
      /\ UNCHANGED <<topic, skew, now, running>> /\ p \in running
  BY DEF Fails, Commands, Idle
<1>9. Safe(p)' = Safe(p)
  BY <1>5, <1>8 DEF Safe, Presented
<1>10. QED
  BY <1>5, <1>6, <1>7, <1>8, <1>9 DEF Changes

(* A command that was cut off by a death.                                    *)
LEMMA CutOffRestarts ==
  ASSUME Typed, Logs, NEW p \in Peer, Commands(p), NEW e, NewEvent(p, e), CutOff(p, e)
  PROVE  Restarts(p, {e}, Faulty(Apart(p)))
<1>1. /\ Apart(p) \in Histories
      /\ Apart(p).failed = past.failed /\ Apart(p).unused = past.unused
      /\ Apart(p).unsaved = past.unsaved /\ Apart(p).refused = past.refused
      /\ Apart(p).faults = past.faults
      /\ Apart(p).apart <=> past.apart \/ (topic = "document" /\ ~InTouch(p))
  BY ApartIs
<1>2. /\ Faulty(Apart(p)) \in Histories
      /\ Faulty(Apart(p)).failed = past.failed /\ Faulty(Apart(p)).unused = past.unused
      /\ Faulty(Apart(p)).unsaved = past.unsaved /\ Faulty(Apart(p)).refused = past.refused
      /\ Faulty(Apart(p)).apart = Apart(p).apart /\ Faulty(Apart(p)).faults # 0
  <2>1. Apart(p).faults < MaxFaults
    BY <1>1 DEF CutOff
  <2>2. QED
    BY <1>1, <2>1, FaultyIs
<1>3. {e} \subseteq Events /\ {e} \cap log[p] = {}
  BY Fresh DEF NewEvent
<1>4. issued' \in 0..MaxEvents /\ issued <= issued'
  BY ConstantsAssumption DEF Commands, Typed
<1>5. work' = [work EXCEPT ![p] = {}]
  <2>1. work' = work /\ work[p] = {} /\ work \in [Peer -> SUBSET Events]
    BY DEF Commands, Idle, Typed
  <2>2. QED
    BY <2>1
<1>6. /\ p \in running /\ Reloads(p, {e}, Faulty(Apart(p)))
      /\ log' = [log EXCEPT ![p] = @ \cup {e}] /\ UNCHANGED <<topic, skew, now>>
  BY DEF CutOff, Commands, Idle
<1>7. QED
  BY <1>1, <1>2, <1>3, <1>4, <1>5, <1>6 DEF Restarts

LEMMA CutOffKeeps ==
  ASSUME Inv, NEW p \in Peer, Commands(p), NEW e, NewEvent(p, e), CutOff(p, e),
         e.kind \in {"lease", "release"} => Turns',
         e.kind = "revision" => (e.body.parent # None => e.body.parent[1] < e.body.id)
  PROVE  Inv'
<1>1. Typed /\ Logs /\ Works /\ Turns /\ issued \in Nat /\ issued' = issued + 1 /\ topic' = topic
  BY DEF Inv, Typed, Commands
<1>2. PICK h : h = Faulty(Apart(p))
  OBVIOUS
<1>3. Restarts(p, {e}, h)
  BY <1>1, <1>2, CutOffRestarts
<1>4. log' = [log EXCEPT ![p] = @ \cup {e}] /\ e \in log'[p]
  BY <1>1 DEF CutOff, Typed
<1>5. e \in Events /\ e.id = issued + 1 /\ e.sender = p
  BY DEF NewEvent
<1>6. Logs'
  <2>1. Named(e)'
    BY <1>1, <1>4 DEF NewEvent, Named, Ids
  <2>2. /\ \A q \in Peer : past'.unused[q] \subseteq log'[q]
        /\ \A q \in Peer : editor'[q] # None => topic # "chats"
    BY <1>1, <1>3, RestartLogs
  <2>3. QED
    BY <1>1, <1>4, <1>5, <2>1, <2>2, LogsPublished
<1>7. Turns'
  <2>1. CASE e.kind \in {"lease", "release"}
    BY <2>1
  <2>2. CASE e.kind \notin {"lease", "release"}
    BY <1>1, <1>3, <2>2, RestartTurns
  <2>3. QED
    BY <2>1, <2>2
<1>8. \E c \in Nat : \A f \in {e} : f.kind = "revision" => Dated(f.body, c)'
  <2>1. CASE e.kind # "revision"
    BY <2>1
  <2>2. CASE e.kind = "revision"
    <3>1. PICK r \in Revisions : r = e.body
      BY <1>5, <2>2 DEF Events, Made
    <3>2. r.stamp \in Nat /\ r.author \in Nat /\ r.id = issued + 1
      BY <1>5, <2>2, <3>1, ConstantsAssumption DEF Revisions, NewEvent
    <3>3. PICK c \in Nat : r.stamp <= c /\ r.author <= c
      <4>1. r.stamp + r.author \in Nat /\ r.stamp <= r.stamp + r.author /\ r.author <= r.stamp + r.author
        BY <3>2
      <4>2. QED
        BY <4>1
    <3>4. Dated(r, c)'
      BY <1>1, <2>2, <3>1, <3>2, <3>3 DEF Dated, Ids
    <3>5. Dated(e.body, c)'
      BY <3>1, <3>4 DEF Dated
    <3>6. QED
      BY <3>5
  <2>3. QED
    BY <2>1, <2>2
<1>9. QED
  BY <1>3, <1>6, <1>7, <1>8, RestartsKeep

(* What a command leaves of the invariant, whatever it is about.             *)
LEMMA Commanded ==
  ASSUME Typed, Logs, Works, NEW p \in Peer, Commands(p), NEW e, NewEvent(p, e),
         NEW v \in Views, NEW d \in Documents, Done(p, e, v, d) \/ Fails(p, v, d),
         editor' \in [Peer -> {None} \cup Editors],
         \A q \in Peer : editor'[q] # None => topic # "chats"
  PROVE  /\ Changes(p, e, v, d) /\ issued' = issued + 1 /\ topic' = topic
         /\ Typed' /\ Logs' /\ Works'
         /\ past'.unused = past.unused
         /\ past'.apart <=> past.apart \/ (topic = "document" /\ ~InTouch(p))
<1>1. /\ Changes(p, e, v, d) /\ past'.unused = past.unused
      /\ past'.apart <=> past.apart \/ (topic = "document" /\ ~InTouch(p))
  BY Published, Refused
<1>2. e \in Events /\ issued' = issued + 1 /\ topic' = topic /\ issued \in Nat
      /\ work' = work /\ work[p] = {} /\ work \in [Peer -> SUBSET Events]
  BY DEF Commands, Typed, NewEvent, Idle
<1>3. Typed'
  BY <1>1, <1>2, TypedAfter
<1>4. \A q \in Peer : past'.unused[q] \subseteq log'[q]
  <2>1. \A q \in Peer : log[q] \subseteq log'[q]
    BY <1>1, ChangesAre
  <2>2. QED
    BY <1>1, <2>1 DEF Logs
<1>5. Works'
  <2>1. \A q \in Peer : q # p =>
          /\ log'[q] = log[q] /\ work'[q] = work[q] /\ past'.unsaved[q] = past.unsaved[q]
          /\ Presented(q)' = Presented(q) /\ (q \in past.refused => q \in past'.refused)
    <3>1. \A q \in Peer : q # p => log'[q] = log[q] /\ Presented(q)' = Presented(q)
      BY <1>1, ChangesAre, PresentedAfter
    <3>2. \A q \in Peer : q # p => past'.unsaved[q] = past.unsaved[q]
      BY <1>1 DEF Changes
    <3>3. past'.refused = past.refused \ {p} \/ past'.refused = past.refused
      BY Published, Refused
    <3>4. QED
      BY <1>2, <3>1, <3>2, <3>3
  <2>2. /\ past'.unsaved[p] \subseteq Presented(p)'
        /\ \A f \in past'.unsaved[p] : f.sender # p
        /\ past'.unsaved[p] # {} => p \in past'.refused
    <3>1. CASE Done(p, e, v, d)
      <4>1. past'.unsaved[p] = {}
        BY <3>1, Published
      <4>2. QED
        BY <4>1
    <3>2. CASE Fails(p, v, d)
      <4>1. past'.unsaved = past.unsaved /\ past'.refused = past.refused
        BY <3>2, Refused
      <4>2. Presented(p) \subseteq Presented(p)'
        BY <1>1, PresentedAfter
      <4>3. QED
        BY <1>2, <4>1, <4>2 DEF Works
    <3>3. QED
      BY <3>1, <3>2
  <2>3. \A q \in Peer : log[q] \subseteq log'[q]
    BY <1>1, ChangesAre
  <2>4. QED
    BY <1>2, <2>1, <2>2, <2>3, WorksAfter
<1>6. CASE Done(p, e, v, d)
  <2>1. log' = [log EXCEPT ![p] = @ \cup {e}]
    BY <1>6, Published
  <2>2. e \in log'[p]
    BY <2>1 DEF Typed
  <2>3. Named(e)'
    BY <1>2, <2>2 DEF NewEvent, Named, Ids
  <2>4. e.id = issued + 1 /\ e.sender = p
    BY DEF NewEvent
  <2>5. Logs'
    BY <1>2, <1>4, <2>1, <2>3, <2>4, LogsPublished
  <2>6. QED
    BY <1>1, <1>2, <1>3, <1>5, <2>5
<1>7. CASE Fails(p, v, d)
  <2>1. UNCHANGED log
    BY <1>7, Refused
  <2>2. issued' \in Nat /\ issued <= issued'
    BY <1>2
  <2>3. Logs'
    BY <1>2, <1>4, <2>1, <2>2, LogsStay
  <2>4. QED
    BY <1>1, <1>2, <1>3, <1>5, <2>3
<1>8. QED
  BY <1>6, <1>7

(* What is presented after a command.                                        *)
LEMMA DonePresents ==
  ASSUME Typed, Logs, NEW p \in Peer, Commands(p), NEW e, NewEvent(p, e),
         NEW v \in Views, NEW d \in Documents, Done(p, e, v, d)
  PROVE  /\ Presented(p)' = Presented(p) \cup {e}
         /\ \A f \in Presented(p) : f.id # e.id
<1>1. /\ Changes(p, e, v, d) /\ log' = [log EXCEPT ![p] = @ \cup {e}]
      /\ past'.unused = past.unused
  BY Published
<1>2. e \notin log[p] /\ \A f \in log[p] : f.id # e.id
  BY Fresh
<1>3. e \notin past'.unused[p] /\ log'[p] # log[p]
  BY <1>1, <1>2 DEF Logs, Typed
<1>4. Presented(p)' = Presented(p) \cup {e}
  BY <1>1, <1>3, PresentedAfter
<1>5. QED
  BY <1>2, <1>4 DEF Presented

(* A lease or release that was cut off.                                      *)
LEMMA CutOffTables ==
  ASSUME Typed, Logs, NEW p \in Peer, Commands(p), NEW e, NewEvent(p, e), CutOff(p, e)
  PROVE  /\ ~PublishedWhole'
         /\ \A q \in Peer : TablesOf(q)' \subseteq TablesOf(q)
         /\ \A q \in Peer : log'[q] \subseteq Events
         /\ \A q \in Peer : \A f \in log'[q] : f \in log[q] \/ f = e
<1>1. PICK h : Restarts(p, {e}, h)
  BY CutOffRestarts
<1>2. e \in past'.unused[p]
  BY <1>1, RestartsAre
<1>3. ~PublishedWhole'
  BY <1>2 DEF PublishedWhole, NewEvent
<1>4. \A q \in Peer : TablesOf(q)' \subseteq TablesOf(q)
  BY <1>1, RestartTables
<1>5. \A q \in Peer : \A f \in log'[q] : f \in log[q] \/ f = e
  BY DEF CutOff, Typed
<1>6. \A q \in Peer : log'[q] \subseteq Events
  BY <1>5 DEF NewEvent, Typed
<1>7. QED
  BY <1>3, <1>4, <1>5, <1>6

(* Messages.                                                                 *)
LEMMA InjectiveAppended ==
  ASSUME NEW list \in Seq(Messages), NEW m \in Messages, IsInjective(list), m \notin ToSet(list)
  PROVE  IsInjective(Append(list, m))
<1>1. PICK new : new = Append(list, m)
  OBVIOUS
<1>2. /\ new \in Seq(Messages) /\ Len(new) = Len(list) + 1 /\ new[Len(list) + 1] = m
      /\ \A k \in 1..Len(list) : new[k] = list[k]
  BY <1>1, Appended
<1>3. DOMAIN list = 1..Len(list) /\ Len(list) \in Nat /\ DOMAIN new = 1..(Len(list) + 1)
  BY <1>2
<1>4. \A k \in 1..Len(list) : list[k] # m
  BY <1>3 DEF ToSet
<1>5. \A j, k \in 1..Len(list) : list[j] = list[k] => j = k
  BY <1>3 DEF IsInjective
<1>6. ASSUME NEW j \in DOMAIN new, NEW k \in DOMAIN new, new[j] = new[k] PROVE j = k
  <2>1. CASE j \in 1..Len(list) /\ k \in 1..Len(list)
    BY <1>2, <1>5, <1>6, <2>1
  <2>2. CASE j \in 1..Len(list) /\ k = Len(list) + 1
    BY <1>2, <1>4, <1>6, <2>2
  <2>3. CASE j = Len(list) + 1 /\ k \in 1..Len(list)
    BY <1>2, <1>4, <1>6, <2>3
  <2>4. CASE j = Len(list) + 1 /\ k = Len(list) + 1
    BY <2>4
  <2>5. QED
    BY <1>3, <2>1, <2>2, <2>3, <2>4
<1>7. QED
  BY <1>1, <1>6 DEF IsInjective

(* Of what a device presents, the identity is that of the event.             *)
LEMMA ShownMessages ==
  ASSUME Typed, Logs, Chats, topic = "chats", NEW p \in Peer, NEW k \in DOMAIN view[p].chats
  PROVE  \E f \in Presented(p) : view[p].chats[k].id = f.id
<1>1. view[p].chats[k] \in ToSet(view[p].chats)
  BY DEF ToSet
<1>2. PICK f \in Presented(p) : view[p].chats[k] = f.body
  BY <1>1 DEF Chats, Chatting
<1>3. f.body.id = f.id
  BY DEF Logs, Named, Presented
<1>4. QED
  BY <1>2, <1>3

(* One more message that is new.                                             *)
LEMMA ChatsGain ==
  ASSUME NEW v \in Views, NEW events, Chatting(v, events),
         NEW e, e.body \in Messages, e.body.id = e.id,
         \A f \in events : f.body.id = f.id /\ f.id # e.id,
         NEW w, w.chats = Append(v.chats, e.body), w.revisions = v.revisions
  PROVE  Chatting(w, events \cup {e})
<1>1. PICK list \in Seq(Messages) : list = v.chats
  BY ViewParts
<1>2. PICK m \in Messages : m = e.body
  OBVIOUS
<1>3. IsInjective(list) /\ ToSet(list) = {f.body : f \in events} /\ w.revisions = <<>>
  BY <1>1 DEF Chatting
<1>4. m \notin ToSet(list)
  <2>1. \A f \in events : f.body # m
    BY <1>2
  <2>2. QED
    BY <1>3, <2>1
<1>5. PICK new : new = Append(list, m)
  OBVIOUS
<1>6. IsInjective(new) /\ ToSet(new) = ToSet(list) \cup {m}
  BY <1>3, <1>4, <1>5, InjectiveAppended, Appended
<1>7. w.chats = new
  BY <1>1, <1>2, <1>5
<1>8. ToSet(new) = {f.body : f \in events \cup {e}}
  BY <1>2, <1>3, <1>6
<1>9. QED
  BY <1>3, <1>6, <1>7, <1>8 DEF Chatting

(* The document is untouched.                                                *)
LEMMA OffDocument ==
  ASSUME Typed, Drafts, Turns, Knowing, ConnectedTakeTurns,
         NEW p \in Peer, NEW e, NEW v, Changes(p, e, v, doc[p]),
         v.revisions = view[p].revisions, v.leases = view[p].leases,
         e.kind \notin {"revision", "lease", "release"}, UNCHANGED editor
  PROVE  Drafts' /\ Turns' /\ Knowing' /\ ConnectedTakeTurns'
<1>1. Drafts'
  <2>1. \A q \in Peer : editor'[q] \in {None, editor[q]}
    OBVIOUS
  <2>2. QED
    BY <2>1, OffRevisions
<1>2. Turns' /\ Knowing' /\ ConnectedTakeTurns'
  BY OffLeases
<1>3. QED
  BY <1>1, <1>2

LEMMA PlaceCommand ==
  ASSUME Inv, topic = "places", NEW p \in Peer, Commands(p), NEW e, NewEvent(p, e),
         e.kind \in {"place", "deletion"}, NEW v \in Views, Listed(v.places)',
         v.revisions = view[p].revisions, v.leases = view[p].leases,
         \/ Done(p, e, v, doc[p]) /\ UNCHANGED editor
         \/ Fails(p, v, doc[p]) /\ UNCHANGED editor
         \/ CutOff(p, e),
         Done(p, e, v, doc[p]) => Converging'
  PROVE  Inv'
<1>1. doc[p] \in Documents /\ Typed /\ Logs /\ Works /\ Lists /\ Durable
  BY DEF Inv, Typed
<1>2. CASE CutOff(p, e)
  <2>1. e.kind \notin {"revision", "lease", "release"}
    OBVIOUS
  <2>2. QED
    BY <1>2, <2>1, CutOffKeeps
<1>3. CASE (Done(p, e, v, doc[p]) \/ Fails(p, v, doc[p])) /\ UNCHANGED editor
  <2>1. editor' \in [Peer -> {None} \cup Editors] /\ \A q \in Peer : editor'[q] # None => topic # "chats"
    BY <1>1, <1>3 DEF Typed
  <2>2. /\ Changes(p, e, v, doc[p]) /\ issued' = issued + 1 /\ topic' = topic
        /\ Typed' /\ Logs' /\ Works'
    BY <1>1, <1>3, <2>1, Commanded
  <2>3. Drafts' /\ Turns' /\ Knowing' /\ ConnectedTakeTurns'
    BY <1>3, <2>2, OffDocument DEF Inv
  <2>4. Chats'
    BY <2>2, ChatsElsewhere
  <2>5. Lists'
    <3>1. issued' \in Nat /\ issued <= issued'
      BY <1>1, <2>2 DEF Typed
    <3>2. view' = [view EXCEPT ![p] = v] /\ (row' = row \/ row' = [row EXCEPT ![p] = v])
      BY <2>2 DEF Changes
    <3>3. QED
      BY <1>1, <3>1, <3>2, ListsAfter
  <2>6. Converging'
    <3>1. CASE Fails(p, v, doc[p])
      <4>1. p \in past'.failed
        BY <1>1, <3>1, Refused
      <4>2. QED
        BY <4>1, ConvergingFailed
    <3>2. QED
      BY <1>3, <3>1
  <2>7. Durable'
    BY <1>1, <2>2, <2>3, <2>4, <2>6, DurableChanged
  <2>8. QED
    BY <2>2, <2>3, <2>4, <2>5, <2>6, <2>7 DEF Inv
<1>4. QED
  BY <1>2, <1>3

(* A place that is new, or an edit of the place that its maker presents.     *)
LEMMA PlaceConverges ==
  ASSUME Inv, NEW p \in Peer, Commands(p), NEW e, NewEvent(p, e),
         e.kind \in {"place", "deletion"}, NEW place \in Places, e.body = place,
         NEW x \in Nat, place.id = x, NEW v \in Views, v.places = Put(view[p].places, x, place),
         IF Has(view[p].places, x)
         THEN place.base = <<view[p].places[x].value.stamp>>
         ELSE x = issued + 1,
         Done(p, e, v, doc[p])
  PROVE  Converging'
<1>1. Typed /\ Logs /\ Lists /\ Converging /\ doc[p] \in Documents /\ e \in Events
  BY DEF Inv, Typed, NewEvent
<1>2. /\ Changes(p, e, v, doc[p]) /\ log' = [log EXCEPT ![p] = @ \cup {e}]
      /\ past'.failed = past.failed /\ past'.unused = past.unused
  BY <1>1, Published
<1>3. e \notin log[p]
  BY <1>1, Fresh
<1>4. Gets(p, e, x)
  <2>1. e \notin past'.unused[p]
    BY <1>1, <1>2, <1>3 DEF Logs
  <2>2. QED
    BY <1>2, <1>3, <2>1 DEF Gets
<1>5. \A q \in Peer : q # p => view'[q].places = view[q].places
  BY <1>1, <1>2, ChangesAre
<1>6. PICK t : t = view[p].places
  OBVIOUS
<1>7. PICK u : u = Put(t, x, place)
  OBVIOUS
<1>8. view'[p].places = u
  BY <1>1, <1>2, <1>6, <1>7, ChangesAre
<1>9. DOMAIN u = DOMAIN t \cup {x} /\ u[x] = place /\ \A y \in DOMAIN t : y # x => u[y] = t[y]
  BY <1>7 DEF Put
<1>10. ASSUME NEW y, y # x
       PROVE  (Has(view'[p].places, y) <=> Has(view[p].places, y))
              /\ (Has(view[p].places, y) => view'[p].places[y] = view[p].places[y])
  BY <1>6, <1>8, <1>9, <1>10 DEF Has
<1>11. ASSUME Presents(p, x), Orderly(x)' PROVE Fits(u, x, Taken(p, x) \cup {e})
  <2>1. PICK taken : taken = Taken(p, x)
    OBVIOUS
  <2>2. Fits(t, x, taken)
    BY <1>6, <1>11, <2>1 DEF Presents
  <2>3. e.body.value.stamp \in Nat /\ \A f \in taken : f.body.value.stamp \in Nat
    BY <1>1, <2>1, EditsTyped DEF Taken, Places, Values
  <2>4. Has(u, x) /\ Says(u[x], e.body.value)
    BY <1>9 DEF Has, Says
  <2>5. ASSUME Has(t, x) PROVE t[x].value.stamp <= e.body.value.stamp
    <3>1. t \in Tables(Places)
      BY <1>1, <1>6, ViewParts DEF Typed
    <3>2. t[x] \in Places
      BY <2>5, <3>1, TableFacts DEF Has
    <3>3. t[x].value.stamp \in Nat
      BY <3>2 DEF Places, Values
    <3>4. e.body.base = <<t[x].value.stamp>>
      BY <1>6, <2>5
    <3>5. e \in Edits(x)'
      <4>1. e \in log'[p]
        BY <1>1, <1>2 DEF Typed
      <4>2. QED
        BY <4>1, EditsAre
    <3>6. e.body.base # None => e.body.base[1] < e.body.value.stamp
      BY <1>11, <3>5 DEF Orderly, InOrder
    <3>7. <<t[x].value.stamp>> # None /\ <<t[x].value.stamp>>[1] = t[x].value.stamp
      BY <3>3, OneElement DEF None
    <3>8. QED
      BY <2>3, <3>3, <3>4, <3>6, <3>7
  <2>6. Fits(u, x, taken \cup {e})
    BY <2>2, <2>3, <2>4, <2>5, FitsLatest
  <2>7. QED
    BY <2>1, <2>6
<1>12. Presents(p, x) /\ Orderly(x)' => Fits(view'[p].places, x, Taken(p, x) \cup {e})
  BY <1>8, <1>11
<1>13. past.failed \subseteq past'.failed
  BY <1>2
<1>14. QED
  BY <1>1, <1>4, <1>5, <1>10, <1>12, <1>13, ConvergingEdited

LEMMA NewEvents ==
  ASSUME Typed, NEW p \in Peer, NEW kind, NEW body,
         \/ kind \in {"place", "deletion"} /\ body \in Places
         \/ kind = "message" /\ body \in Messages
         \/ kind = "revision" /\ body \in Revisions
         \/ kind = "lease" /\ body \in Leases
         \/ kind = "release" /\ body \in Releases
  PROVE  LET e == Event(p, kind, body)
         IN  /\ e \in Events /\ e.id = issued + 1 /\ e.sender = p
             /\ e.kind = kind /\ e.body = body
<1>1. PICK n \in Nat : n = issued + 1
  BY DEF Typed
<1>2. PICK e : e = [id |-> n, sender |-> p, kind |-> kind, body |-> body]
  OBVIOUS
<1>3. e.id = n /\ e.sender = p /\ e.kind = kind /\ e.body = body
  BY <1>2
<1>4. e \in Events
  BY <1>2 DEF Events, Made
<1>5. Event(p, kind, body) = e
  BY <1>1, <1>2 DEF Event, NewId
<1>6. QED
  BY <1>1, <1>3, <1>4, <1>5

LEMMA CreatePlaceKeeps ==
  ASSUME Inv, NEW p \in Peer, CreatePlace(p)
  PROVE  Inv'
<1>1. Typed /\ Lists /\ topic = "places" /\ Commands(p)
      /\ editor = [editor EXCEPT ![p] = editor[p]] /\ issued \in Nat /\ issued' = issued + 1 /\ issued + 1 \in Nat
  BY DEF Inv, CreatePlace, Commands, Typed
<1>2. PICK place :
        /\ place = [id |-> NewId, author |-> p, base |-> None, value |-> Place(p, NewId, FALSE)]
        /\ \/ Publishes(p, Event(p, "place", place),
                        [view[p] EXCEPT !.places = Put(@, NewId, place)], doc[p], editor[p])
           \/ PublishFails(p, view[p], doc[p], editor[p])
  BY DEF CreatePlace
<1>3. PICK n \in Nat : n = issued + 1
  BY <1>1
<1>4. place \in Places /\ place.id = n /\ place.value.edit = n
  <2>1. PICK stamp \in Nat : stamp = Clock(p)
    BY <1>1, ClockIs
  <2>2. place = [id |-> n, author |-> p, base |-> None,
                 value |-> [edit |-> n, stamp |-> stamp, deleted |-> FALSE]]
    BY <1>2, <1>3, <2>1 DEF NewId, Place
  <2>3. QED
    BY <2>2 DEF Places, Values, Optional
<1>5. PICK e : e = Event(p, "place", place)
  OBVIOUS
<1>6. e \in Events /\ e.id = issued + 1 /\ e.sender = p /\ e.kind = "place" /\ e.body = place
  BY <1>1, <1>4, <1>5, NewEvents
<1>7. NewEvent(p, e)
  BY <1>1, <1>3, <1>4, <1>6 DEF NewEvent
<1>8. PICK t \in Tables(Places) : t = view[p].places
  BY <1>1, ViewParts DEF Typed
<1>9. n \notin DOMAIN t
  <2>1. n \notin Ids
    BY <1>1, <1>3 DEF Ids
  <2>2. QED
    BY <1>1, <1>8, <2>1 DEF Lists, Listed
<1>10. CASE Publishes(p, e, [view[p] EXCEPT !.places = Put(@, NewId, place)], doc[p], editor[p])
  <2>1. PICK u \in Tables(Places) : u = Put(t, n, place)
    BY <1>4, PutFacts
  <2>2. PICK v : v = [view[p] EXCEPT !.places = u]
    OBVIOUS
  <2>3. /\ v \in Views /\ v.places = u /\ v.revisions = view[p].revisions
        /\ v.leases = view[p].leases
    BY <1>1, <2>2, ViewWithPlaces DEF Typed
  <2>4. Publishes(p, e, v, doc[p], editor[p])
    BY <1>3, <1>8, <1>10, <2>1, <2>2 DEF NewId
  <2>5. (Done(p, e, v, doc[p]) /\ UNCHANGED editor) \/ CutOff(p, e)
    BY <1>1, <2>4, Publishing
  <2>6. Listed(u)'
    <3>1. DOMAIN u = DOMAIN t \cup {n} /\ u[n] = place /\ \A y \in DOMAIN t : y # n => u[y] = t[y]
      BY <2>1 DEF Put
    <3>2. Listed(t) /\ n \in Ids' /\ \A y \in Ids : y \in Ids'
      BY <1>1, <1>3, <1>8 DEF Lists, Ids
    <3>3. QED
      BY <1>4, <3>1, <3>2 DEF Listed
  <2>7. ~Has(view[p].places, n)
    BY <1>8, <1>9 DEF Has
  <2>8. Done(p, e, v, doc[p]) => Converging'
    BY <1>1, <1>3, <1>4, <1>6, <1>7, <1>8, <2>1, <2>3, <2>7, PlaceConverges
  <2>9. QED
    BY <1>1, <1>6, <1>7, <2>3, <2>5, <2>6, <2>8, PlaceCommand
<1>11. CASE PublishFails(p, view[p], doc[p], editor[p])
  <2>1. PICK v \in Views : v = view[p]
    BY <1>1 DEF Typed
  <2>2. Listed(v.places)'
    BY <1>1, <2>1, ListedStays DEF Lists
  <2>3. Fails(p, v, doc[p]) /\ UNCHANGED editor
    BY <1>1, <1>11, <2>1, Publishing
  <2>4. Converging'
    <3>1. p \in past'.failed
      BY <1>1, <1>7, <2>1, <2>3, Refused DEF Inv, Typed
    <3>2. QED
      BY <3>1, ConvergingFailed
  <2>5. QED
    BY <1>1, <1>6, <1>7, <2>1, <2>2, <2>3, <2>4, PlaceCommand
<1>12. QED
  BY <1>2, <1>5, <1>10, <1>11

LEMMA EditPlaceKeeps ==
  ASSUME Inv, NEW p \in Peer, NEW x \in Ids, NEW kind \in {"place", "deletion"},
         EditPlace(p, x, kind)
  PROVE  Inv'
<1>1. Typed /\ Lists /\ topic = "places" /\ Commands(p)
      /\ editor = [editor EXCEPT ![p] = editor[p]] /\ issued \in Nat /\ issued' = issued + 1 /\ issued + 1 \in Nat /\ x \in Nat
  BY DEF Inv, EditPlace, Commands, Typed, Ids
<1>2. PICK place, v :
        /\ place = Edited(p, x, kind = "deletion")
        /\ v = [view[p] EXCEPT !.places = Put(@, x, place)]
        /\ \/ Publishes(p, Event(p, kind, place), v, doc[p], editor[p])
           \/ PublishFails(p, v, doc[p], editor[p])
  BY DEF EditPlace
<1>3. PICK t \in Tables(Places) : t = view[p].places
  BY <1>1, ViewParts DEF Typed
<1>4. x \in DOMAIN t /\ t[x] \in Places /\ t[x].id = x /\ t[x].value.edit \in Ids
  BY <1>1, <1>3, TableFacts DEF EditPlace, Has, Lists, Listed
<1>5. /\ place \in Places /\ place.id = x /\ place.base = <<t[x].value.stamp>>
      /\ place.value.edit \in 1..(issued + 1)
      /\ kind = "deletion" => place.value.deleted
  <2>1. PICK stamp \in Nat : stamp = Clock(p)
    BY <1>1, ClockIs
  <2>2. PICK old \in Places : old = t[x]
    BY <1>4
  <2>3. PICK n \in Nat : n = issued + 1
    BY <1>1
  <2>4. PICK edit \in Nat : edit = IF kind = "deletion" THEN old.value.edit ELSE n
    BY DEF Places, Values
  <2>5. PICK deleted \in BOOLEAN : deleted <=> (kind = "deletion") \/ old.value.deleted
    OBVIOUS
  <2>6. PICK base \in Optional : base = <<old.value.stamp>>
    BY DEF Places, Values, Optional
  <2>7. ((kind = "deletion") \/ old.value.deleted) = deleted
    BY <2>5 DEF Places, Values
  <2>8. place = [old EXCEPT !.base = <<old.value.stamp>>,
                            !.value = [edit |-> IF kind = "deletion" THEN old.value.edit ELSE n,
                                       stamp |-> stamp,
                                       deleted |-> (kind = "deletion") \/ old.value.deleted]]
    BY <1>2, <1>3, <2>1, <2>2, <2>3 DEF Edited, Place, NewId
  <2>9. place = [old EXCEPT !.base = base,
                            !.value = [edit |-> edit, stamp |-> stamp, deleted |-> deleted]]
    BY <2>4, <2>6, <2>7, <2>8
  <2>10. place \in Places /\ place.id = old.id /\ place.base = base
         /\ place.value.edit = edit /\ place.value.deleted = deleted
    BY <2>9 DEF Places, Values
  <2>11. edit \in 1..(issued + 1)
    BY <1>1, <1>4, <2>2, <2>3, <2>4 DEF Ids
  <2>12. QED
    BY <1>4, <2>2, <2>5, <2>6, <2>10, <2>11
<1>6. PICK e : e = Event(p, kind, place)
  OBVIOUS
<1>7. e \in Events /\ e.id = issued + 1 /\ e.sender = p /\ e.kind = kind /\ e.body = place
  BY <1>1, <1>5, <1>6, NewEvents
<1>8. x \in 1..(issued + 1)
  BY <1>1 DEF Ids
<1>9. NewEvent(p, e)
  BY <1>1, <1>5, <1>7, <1>8 DEF NewEvent
<1>10. PICK u \in Tables(Places) : u = Put(t, x, place)
  BY <1>1, <1>5, PutFacts
<1>11. v = [view[p] EXCEPT !.places = u]
  BY <1>2, <1>3, <1>10
<1>12. /\ v \in Views /\ v.places = u /\ v.revisions = view[p].revisions
       /\ v.leases = view[p].leases
  BY <1>1, <1>11, ViewWithPlaces DEF Typed
<1>13. Listed(u)'
  <2>1. DOMAIN u = DOMAIN t \cup {x} /\ u[x] = place /\ \A y \in DOMAIN t : y # x => u[y] = t[y]
    BY <1>10 DEF Put
  <2>2. Listed(t) /\ Ids' = 1..(issued + 1) /\ \A y \in Ids : y \in Ids'
    BY <1>1, <1>3 DEF Lists, Ids
  <2>3. QED
    BY <1>5, <1>8, <2>1, <2>2 DEF Listed
<1>14. \/ Done(p, e, v, doc[p]) /\ UNCHANGED editor
       \/ Fails(p, v, doc[p]) /\ UNCHANGED editor
       \/ CutOff(p, e)
  BY <1>1, <1>2, <1>6, Publishing
<1>15. ASSUME Done(p, e, v, doc[p]) PROVE Converging'
  <2>1. v.places = Put(view[p].places, x, place) /\ Has(view[p].places, x)
        /\ place.base = <<view[p].places[x].value.stamp>>
    BY <1>3, <1>4, <1>5, <1>10, <1>12 DEF Has
  <2>2. QED
    BY <1>1, <1>5, <1>7, <1>9, <1>12, <1>15, <2>1, PlaceConverges
<1>16. QED
  BY <1>1, <1>7, <1>9, <1>12, <1>13, <1>14, <1>15, PlaceCommand

LEMMA SendMessageKeeps ==
  ASSUME Inv, NEW p \in Peer, NEW chat \in Peer \cup {Everyone}, SendMessage(p, chat)
  PROVE  Inv'
<1>1. /\ Typed /\ Logs /\ Works /\ Lists /\ Converging /\ Chats /\ Durable
      /\ topic = "chats" /\ Commands(p)
      /\ issued \in Nat /\ issued' = issued + 1 /\ topic' = topic
      /\ view[p] \in Views /\ doc[p] \in Documents /\ editor = [editor EXCEPT ![p] = editor[p]]
  BY DEF Inv, SendMessage, Commands, Typed
<1>2. PICK m \in Messages : m = Message(NewId, chat, p) /\ m.id = issued + 1
  <2>1. PICK n \in Nat : n = issued + 1
    BY <1>1
  <2>2. Message(NewId, chat, p) = [id |-> n, chat |-> chat, sender |-> p]
    BY <2>1 DEF Message, NewId
  <2>3. QED
    BY <2>1, <2>2 DEF Messages
<1>3. PICK e : e = Event(p, "message", m)
  OBVIOUS
<1>4. e \in Events /\ e.id = issued + 1 /\ e.sender = p /\ e.kind = "message" /\ e.body = m
  BY <1>1, <1>3, NewEvents
<1>5. NewEvent(p, e)
  BY <1>1, <1>2, <1>4 DEF NewEvent
<1>6. PICK list \in Seq(Messages) : list = Append(view[p].chats, m)
  BY <1>1, ViewParts, Appended
<1>7. PICK w \in Views :
        /\ w = [view[p] EXCEPT !.chats = list] /\ w.chats = list /\ w.places = view[p].places
        /\ w.revisions = view[p].revisions /\ w.leases = view[p].leases
  BY <1>1, ViewWithChats, ZenonT(40)
<1>8. \/ Publishes(p, e, w, doc[p], editor[p])
      \/ PublishFails(p, view[p], doc[p], editor[p])
  BY <1>2, <1>3, <1>6, <1>7 DEF SendMessage
<1>9. CASE CutOff(p, e)
  BY <1>1, <1>4, <1>5, <1>9, CutOffKeeps
<1>10. ASSUME NEW v \in Views, Done(p, e, v, doc[p]) \/ Fails(p, v, doc[p]), UNCHANGED editor,
              v.places = view[p].places, v.revisions = view[p].revisions,
              v.leases = view[p].leases,
              Chats'
       PROVE  Inv'
  <2>1. editor' \in [Peer -> {None} \cup Editors] /\ \A q \in Peer : editor'[q] # None => topic # "chats"
    BY <1>1, <1>10 DEF Typed, Logs
  <2>2. Changes(p, e, v, doc[p]) /\ Typed' /\ Logs' /\ Works'
    BY <1>1, <1>5, <1>10, <2>1, Commanded
  <2>3. Lists' /\ Converging'
    BY <1>1, <1>4, <1>10, <2>2, OffPlaces
  <2>4. Drafts' /\ Turns' /\ Knowing' /\ ConnectedTakeTurns'
    BY <1>1, <1>4, <1>10, <2>2, OffDocument DEF Inv
  <2>5. Durable'
    BY <1>1, <1>10, <2>2, <2>3, <2>4, DurableChanged
  <2>6. QED
    BY <1>10, <2>2, <2>3, <2>4, <2>5 DEF Inv
<1>11. CASE Done(p, e, w, doc[p]) /\ UNCHANGED editor
  <2>1. /\ Changes(p, e, w, doc[p]) /\ log' = [log EXCEPT ![p] = @ \cup {e}]
        /\ past'.unused = past.unused /\ past'.refused = past.refused \ {p}
        /\ past'.faults = past.faults
    BY <1>1, <1>5, <1>7, <1>11, Published
  <2>2. \A f \in Presented(p) : f.id # e.id
    BY <1>1, <1>5, <1>7, <1>11, DonePresents
  <2>3. Presented(p)' = Presented(p) \cup {e}
    BY <1>1, <1>5, <1>7, <1>11, DonePresents
  <2>4. ASSUME NEW q \in Peer, Chatting(view[q], Presented(q))
        PROVE  Chatting(view'[q], Presented(q)')
    <3>1. CASE q = p
      <4>1. PICK v \in Views : v = view[p]
        BY <1>1
      <4>2. PICK events : events = Presented(p)
        OBVIOUS
      <4>3. \A f \in events : f.body.id = f.id /\ f.id # e.id
        BY <1>1, <2>2, <4>2 DEF Presented, Logs, Named
      <4>4. Chatting(w, events \cup {e})
        BY <1>2, <1>4, <1>6, <1>7, <2>4, <3>1, <4>1, <4>2, <4>3, ChatsGain
      <4>5. view'[p] = w
        BY <1>1, <2>1, ChangesAre
      <4>6. QED
        BY <2>3, <3>1, <4>2, <4>4, <4>5
    <3>2. CASE q # p
      <4>1. view'[q] = view[q] /\ Presented(q)' = Presented(q)
        BY <1>1, <2>1, <3>2, ChangesAre, PresentedAfter
      <4>2. QED
        BY <2>4, <4>1
    <3>3. QED
      BY <3>1, <3>2
  <2>5. Chats'
    BY <1>1, <2>1, <2>4, ChatsAfter
  <2>6. QED
    BY <1>7, <1>10, <1>11, <2>5
<1>12. CASE Fails(p, view[p], doc[p]) /\ UNCHANGED editor
  <2>1. PICK v \in Views : v = view[p]
    BY <1>1
  <2>2. /\ Changes(p, e, v, doc[p]) /\ UNCHANGED log /\ past'.unused = past.unused
        /\ past'.refused = past.refused /\ past'.faults # 0
    BY <1>1, <1>5, <1>12, <2>1, Refused
  <2>3. \A q \in Peer : view'[q] = view[q]
    BY <1>1, <2>1, <2>2, ChangesAre
  <2>4. \A q \in Peer : Presented(q)' = Presented(q)
    BY <2>2 DEF Presented
  <2>5. Chats'
    BY <1>1, <2>2, <2>3, <2>4, ChatsAfter
  <2>6. QED
    BY <1>10, <1>12, <2>1, <2>5
<1>13. QED
  BY <1>1, <1>8, <1>9, <1>11, <1>12, Publishing

-----------------------------------------------------------------------------
(* The editor *)

(* The events of the document are of no other topic.                         *)
LEMMA DocumentCommand ==
  ASSUME Inv, topic # "chats", NEW p \in Peer, Commands(p), NEW e, NewEvent(p, e),
         e.kind \in {"revision", "lease", "release"}, NEW v \in Views, v.places = view[p].places,
         NEW d \in Documents, Done(p, e, v, d) \/ Fails(p, v, d),
         editor' \in [Peer -> {None} \cup Editors]
  PROVE  /\ Changes(p, e, v, d) /\ issued' = issued + 1
         /\ past'.unused = past.unused /\ past.failed \subseteq past'.failed
         /\ (topic = "document" => (past'.apart <=> past.apart \/ ~InTouch(p)))
         /\ Typed' /\ Logs' /\ Works' /\ Lists' /\ Converging' /\ Chats'
<1>1. Typed /\ Logs /\ Works /\ Lists /\ Converging
  BY DEF Inv
<1>2. \A q \in Peer : editor'[q] # None => topic # "chats"
  OBVIOUS
<1>3. /\ Changes(p, e, v, d) /\ issued' = issued + 1 /\ topic' = topic
      /\ past'.unused = past.unused /\ past.failed \subseteq past'.failed
         /\ (topic = "document" => (past'.apart <=> past.apart \/ ~InTouch(p)))
      /\ Typed' /\ Logs' /\ Works'
  <2>1. /\ Changes(p, e, v, d) /\ issued' = issued + 1 /\ topic' = topic
        /\ past'.unused = past.unused
        /\ (past'.apart <=> past.apart \/ (topic = "document" /\ ~InTouch(p)))
        /\ Typed' /\ Logs' /\ Works'
    BY <1>1, <1>2, Commanded
  <2>2. past.failed \subseteq past'.failed
    BY <2>1 DEF Changes
  <2>3. QED
    BY <2>1, <2>2
<1>4. Lists' /\ Converging'
  BY <1>1, <1>3, OffPlaces
<1>5. Chats'
  BY <1>3, ChatsElsewhere
<1>6. QED
  BY <1>3, <1>4, <1>5

LEMMA OpenEditorKeeps ==
  ASSUME Inv, NEW p \in Peer, OpenEditor(p)
  PROVE  Inv'
<1>1. /\ Typed /\ Logs /\ Lists /\ Durable /\ Drafts /\ Turns /\ Knowing /\ ConnectedTakeTurns
      /\ topic = "document" /\ Commands(p) /\ issued \in Nat /\ issued' = issued + 1
      /\ view[p] \in Views /\ doc[p] \in Documents /\ UNCHANGED <<skew, now>>
      /\ ~HeldByAnother(p, doc[p], Clock(p))
  BY DEF Inv, OpenEditor, Commands, Typed
<1>2. PICK lease, d :
        /\ lease = [holder |-> p, from |-> Clock(p), till |-> Clock(p) + Duration]
        /\ d = [doc[p] EXCEPT !.leases = Put(@, NewId, lease)]
        /\ \/ Publishes(p, Event(p, "lease", lease),
                        [view[p] EXCEPT !.leases = Put(@, NewId, lease)],
                        d, [parent |-> HeadId(doc[p]), saved |-> FALSE])
           \/ PublishFails(p, view[p], d, editor[p])
  BY DEF OpenEditor
<1>3. /\ lease \in Leases /\ lease.holder = p /\ lease.from = Clock(p)
      /\ lease.till = lease.from + Duration
  <2>1. PICK time \in Nat : time = Clock(p)
    BY <1>1, ClockIs
  <2>2. time + Duration \in Nat
    BY ConstantsAssumption
  <2>3. lease = [holder |-> p, from |-> time, till |-> time + Duration]
    BY <1>2, <2>1
  <2>4. QED
    BY <2>1, <2>2, <2>3 DEF Leases
<1>4. PICK n \in Nat : n = issued + 1
  BY <1>1
<1>5. PICK e : e = Event(p, "lease", lease)
  OBVIOUS
<1>6. e \in Events /\ e.id = n /\ e.sender = p /\ e.kind = "lease" /\ e.body = lease
  BY <1>1, <1>3, <1>4, <1>5, NewEvents
<1>7. NewEvent(p, e)
  BY <1>1, <1>4, <1>6 DEF NewEvent
<1>8. PICK t \in Tables(Leases) : t = doc[p].leases
  BY <1>1 DEF Documents
<1>9. PICK t1 \in Tables(Leases) : t1 = Put(t, n, lease)
  BY <1>3, PutLease
<1>10. d \in Documents /\ d.leases = t1 /\ d.revisions = doc[p].revisions
  <2>1. d = [doc[p] EXCEPT !.leases = t1]
    BY <1>2, <1>4, <1>8, <1>9 DEF NewId
  <2>2. QED
    BY <1>1, <2>1, DocumentWithLeases
<1>11. PICK s \in Tables(Leases) : s = view[p].leases
  BY <1>1, ViewParts
<1>12. PICK s1 \in Tables(Leases) : s1 = Put(s, n, lease)
  BY <1>3, PutLease
<1>13. PICK v1 : v1 = [view[p] EXCEPT !.leases = s1]
  OBVIOUS
<1>14. /\ v1 \in Views /\ v1.leases = s1 /\ v1.places = view[p].places
       /\ v1.revisions = view[p].revisions
  BY <1>1, <1>13, ViewWithLeases
<1>15. HeadId(doc[p]) \in Optional
       /\ (HeadId(doc[p]) = None \/ HasRevision(doc[p], HeadId(doc[p])[1]))
  <2>1. PICK b \in Nat : \A q \in Peer : DatedBy(b, q)
    BY <1>1, DraftsAre
  <2>2. PICK c \in Nat : b <= c /\ issued <= c
    <3>1. CASE b <= issued
      BY <1>1, <3>1
    <3>2. CASE ~(b <= issued)
      BY <1>1, <3>2
    <3>3. QED
      BY <3>1, <3>2
  <2>3. doc[p].revisions \subseteq Revisions
    BY <1>1 DEF Documents
  <2>4. ASSUME NEW r \in doc[p].revisions
        PROVE  /\ r.id <= c /\ r.stamp <= c /\ r.author <= c
               /\ (r.parent # None => r.parent[1] < r.id)
    <3>1. Dated(r, b)
      BY <2>1 DEF DatedBy
    <3>2. r.id \in Nat /\ r.stamp \in Nat /\ r.author \in Nat
      BY <2>3, ConstantsAssumption DEF Revisions
    <3>3. r.id <= c /\ r.stamp <= c /\ r.author <= c
      BY <1>1, <2>1, <2>2, <3>1, <3>2 DEF Dated, Ids
    <3>4. QED
      BY <3>1, <3>3 DEF Dated
  <2>5. PICK d0 : d0 = doc[p]
    OBVIOUS
  <2>6. HeadId(d0) \in Optional /\ (HeadId(d0) = None \/ HasRevision(d0, HeadId(d0)[1]))
    BY <2>2, <2>3, <2>4, <2>5, HeadIsThere
  <2>7. QED
    BY <2>5, <2>6
<1>16. \/ /\ Done(p, e, v1, d)
          /\ editor' = [editor EXCEPT ![p] = [parent |-> HeadId(doc[p]), saved |-> FALSE]]
       \/ Fails(p, view[p], d) /\ editor' = [editor EXCEPT ![p] = editor[p]]
       \/ CutOff(p, e)
  BY <1>2, <1>4, <1>5, <1>11, <1>12, <1>13, Publishing DEF NewId
<1>17. CASE CutOff(p, e)
  <2>1. /\ ~PublishedWhole' /\ \A q \in Peer : TablesOf(q)' \subseteq TablesOf(q)
        /\ \A q \in Peer : log'[q] \subseteq Events
        /\ \A q \in Peer : \A f \in log'[q] : f \in log[q] \/ f = e
    BY <1>1, <1>7, <1>17, CutOffTables
  <2>2. Turns'
    BY <1>1, <1>3, <1>4, <1>6, <2>1, TurnsOpened
  <2>3. QED
    BY <1>1, <1>6, <1>7, <1>17, <2>2, CutOffKeeps
<1>18. CASE ~CutOff(p, e)
  <2>1. /\ editor' \in [Peer -> {None} \cup Editors]
        /\ \A q \in Peer : \/ editor'[q] \in {None, editor[q]}
                           \/ editor'[q].parent = None
                           \/ HasRevision(doc[q], editor'[q].parent[1])
    <3>1. editor \in [Peer -> {None} \cup Editors]
      BY <1>1 DEF Typed
    <3>2. PICK new : new = [parent |-> HeadId(doc[p]), saved |-> FALSE]
      OBVIOUS
    <3>3. new \in Editors /\ (new.parent = None \/ HasRevision(doc[p], new.parent[1]))
      BY <1>15, <3>2 DEF Editors
    <3>4. CASE editor' = [editor EXCEPT ![p] = editor[p]]
      BY <3>1, <3>4
    <3>5. CASE editor' = [editor EXCEPT ![p] = new]
      BY <3>1, <3>3, <3>5
    <3>6. QED
      BY <1>16, <1>18, <3>2, <3>4, <3>5
  <2>2. PICK v \in Views :
          /\ \/ v = v1 /\ Done(p, e, v, d)
             \/ v = view[p] /\ Fails(p, v, d)
    BY <1>1, <1>14, <1>16, <1>18
  <2>3. /\ v.places = view[p].places /\ v.revisions = view[p].revisions
        /\ v.leases = s1 \/ v.leases = s
    BY <1>11, <1>14, <2>2
  <2>4. /\ Changes(p, e, v, d) /\ past'.unused = past.unused
        /\ past.failed \subseteq past'.failed
        /\ (past'.apart <=> past.apart \/ ~InTouch(p))
        /\ Typed' /\ Logs' /\ Works' /\ Lists' /\ Converging' /\ Chats'
    BY <1>1, <1>6, <1>7, <1>10, <2>1, <2>2, <2>3, DocumentCommand
  <2>5. Drafts'
    BY <1>1, <1>6, <1>10, <2>1, <2>3, <2>4, OffRevisions
  <2>6. ConnectedTakeTurns'
    <3>1. \A q \in Peer : q # p => doc'[q] = doc[q]
      BY <1>1, <2>4, ChangesAre
    <3>2. past.failed \subseteq past'.failed
      BY <2>4 DEF Changes
    <3>3. PublishedWhole' => PublishedWhole
      BY <1>1, <2>4, ChangesAre
    <3>4. QED
      BY <1>1, <2>4, <3>1, <3>2, <3>3, TurnsTaken
  <2>7. Turns'
    <3>1. ASSUME NEW q \in Peer, NEW u \in TablesOf(q)'
          PROVE  \/ u \in TablesOf(q)
                 \/ q = p /\ \E w \in TablesOf(p) : u = Put(w, issued + 1, lease)
      <4>1. CASE q # p
        <5>1. view'[q] = view[q] /\ doc'[q] = doc[q] /\ row'[q] = row[q]
          BY <1>1, <2>4, <4>1, ChangesAre
        <5>2. QED
          BY <3>1, <5>1 DEF TablesOf
      <4>2. CASE q = p
        <5>1. view'[p] = v /\ doc'[p] = d /\ (row'[p] = v \/ row'[p] = row[p])
          BY <1>1, <2>4, ChangesAre
        <5>2. u \in {s, s1, t1, row[p].leases}
          BY <1>10, <2>3, <3>1, <4>2, <5>1 DEF TablesOf
        <5>3. s \in TablesOf(p) /\ t \in TablesOf(p) /\ row[p].leases \in TablesOf(p)
          BY <1>8, <1>11 DEF TablesOf
        <5>4. s1 = Put(s, issued + 1, lease) /\ t1 = Put(t, issued + 1, lease)
          BY <1>4, <1>9, <1>12
        <5>5. QED
          BY <4>2, <5>2, <5>3, <5>4
      <4>3. QED
        BY <4>1, <4>2
    <3>2. \A q \in Peer : \A f \in log'[q] :
             \/ f \in log[q]
             \/ f.kind = "lease" /\ f.id = issued + 1 /\ f.body = lease /\ f.sender = p
      BY <1>1, <1>4, <1>6, <2>4, ChangesAre
    <3>3. \A q \in Peer : log'[q] \subseteq Events
      BY <1>1, <2>4, ChangesAre
    <3>4. PublishedWhole' => PublishedWhole
      BY <1>1, <2>4, ChangesAre
    <3>5. QED
      BY <1>1, <1>3, <3>1, <3>2, <3>3, <3>4, TurnsOpened
  <2>8. Knowing'
    <3>1. ASSUME p \notin past'.failed, Knows(p) PROVE Knows(p)'
      <4>1. Done(p, e, v1, d) /\ v = v1
        BY <1>1, <1>7, <1>10, <2>2, <3>1, Refused
      <4>2. view'[p] = v1 /\ doc'[p] = d
        BY <1>1, <2>4, <4>1, ChangesAre
      <4>3. Presented(p)' = Presented(p) \cup {e} /\ \A f \in Presented(p) : f.id # e.id
        BY <1>1, <1>7, <1>10, <1>14, <4>1, DonePresents
      <4>4. e.body.till = e.body.from + Duration
        BY <1>3, <1>6
      <4>5. /\ doc'[p].leases = Put(doc[p].leases, e.id, e.body)
            /\ view'[p].leases = Put(view[p].leases, e.id, e.body)
        BY <1>6, <1>8, <1>9, <1>10, <1>11, <1>12, <1>14, <4>2
      <4>6. QED
        BY <1>1, <1>6, <3>1, <4>3, <4>4, <4>5, KnowsPut
    <3>2. past.failed \subseteq past'.failed
      BY <2>4 DEF Changes
    <3>3. \A q \in Peer : q # p =>
             view'[q] = view[q] /\ doc'[q] = doc[q] /\ Presented(q)' = Presented(q)
      BY <1>1, <2>4, ChangesAre, PresentedAfter
    <3>4. PublishedWhole' => PublishedWhole
      BY <1>1, <2>4, ChangesAre
    <3>5. QED
      BY <1>1, <3>1, <3>2, <3>3, <3>4, KnowingLearns
  <2>9. Durable'
    BY <1>1, <2>4, <2>5, <2>8, DurableChanged
  <2>10. QED
    BY <2>4, <2>5, <2>6, <2>7, <2>8, <2>9 DEF Inv
<1>19. QED
  BY <1>17, <1>18

LEMMA SaveDocumentKeeps ==
  ASSUME Inv, NEW p \in Peer, SaveDocument(p)
  PROVE  Inv'
<1>1. /\ Typed /\ Logs /\ Lists /\ Durable /\ Drafts /\ Turns /\ Knowing /\ ConnectedTakeTurns
      /\ topic # "chats" /\ Commands(p) /\ issued \in Nat /\ issued' = issued + 1
      /\ view[p] \in Views /\ doc[p] \in Documents /\ editor \in [Peer -> {None} \cup Editors]
      /\ editor[p] # None
  BY DEF Inv, SaveDocument, Commands, Typed, Logs
<1>2. editor[p] \in Editors /\ editor[p].parent \in Optional
  BY <1>1 DEF Editors
<1>3. PICK r, d :
        /\ r = Revision(p, editor[p].parent)
        /\ d = Inserted(doc[p], r)
        /\ \/ Publishes(p, Event(p, "revision", r),
                        [view[p] EXCEPT !.revisions = Append(@, r)],
                        d, [editor[p] EXCEPT !.saved = TRUE])
           \/ PublishFails(p, view[p], d, editor[p])
  BY DEF SaveDocument
<1>4. PICK n \in Nat : n = issued + 1
  BY <1>1
<1>5. r \in Revisions /\ r.id = n /\ r.parent = editor[p].parent
  <2>1. PICK time \in Nat : time = Clock(p)
    BY <1>1, ClockIs
  <2>2. PICK parent \in Optional : parent = editor[p].parent
    BY <1>2
  <2>3. r = [id |-> n, author |-> p, stamp |-> time, parent |-> parent]
    BY <1>3, <1>4, <2>1, <2>2 DEF Revision, NewId
  <2>4. QED
    BY <2>2, <2>3 DEF Revisions
<1>6. PICK e : e = Event(p, "revision", r)
  OBVIOUS
<1>7. e \in Events /\ e.id = n /\ e.sender = p /\ e.kind = "revision" /\ e.body = r
  BY <1>1, <1>4, <1>5, <1>6, NewEvents
<1>8. NewEvent(p, e)
  BY <1>1, <1>4, <1>5, <1>7 DEF NewEvent
<1>9. d \in Documents /\ d.leases = doc[p].leases
  BY <1>1, <1>3, <1>5, DocumentWithRevision
<1>10. PICK list \in Seq(Revisions) : list = Append(view[p].revisions, r)
  BY <1>1, <1>5, ViewParts, Appended
<1>11. PICK v1 : v1 = [view[p] EXCEPT !.revisions = list]
  OBVIOUS
<1>12. /\ v1 \in Views /\ v1.revisions = list /\ v1.places = view[p].places
       /\ v1.leases = view[p].leases
  BY <1>1, <1>11, ViewWithRevisions
<1>13. \/ /\ Done(p, e, v1, d)
          /\ editor' = [editor EXCEPT ![p] = [editor[p] EXCEPT !.saved = TRUE]]
       \/ Fails(p, view[p], d) /\ editor' = [editor EXCEPT ![p] = editor[p]]
       \/ CutOff(p, e)
  BY <1>3, <1>6, <1>10, <1>11, Publishing
<1>14. r.parent # None => r.parent[1] < r.id
  <2>1. ASSUME r.parent # None PROVE r.parent[1] < r.id
    <3>1. HasRevision(doc[p], r.parent[1])
      BY <1>1, <1>5, <2>1 DEF Drafts
    <3>2. PICK s \in doc[p].revisions : s.id = r.parent[1]
      BY <3>1 DEF HasRevision
    <3>3. s.id \in Ids
      BY <1>1 DEF Drafts, Dated
    <3>4. QED
      BY <1>1, <1>4, <1>5, <3>2, <3>3 DEF Ids
  <2>2. QED
    BY <2>1
<1>15. CASE CutOff(p, e)
  BY <1>1, <1>5, <1>7, <1>8, <1>14, <1>15, CutOffKeeps
<1>16. CASE ~CutOff(p, e)
  <2>1. /\ editor' \in [Peer -> {None} \cup Editors]
        /\ \A q \in Peer : \/ editor'[q] \in {None, editor[q]}
                           \/ editor[q] # None /\ editor'[q].parent = editor[q].parent
    <3>1. CASE editor' = [editor EXCEPT ![p] = editor[p]]
      BY <1>1, <3>1
    <3>2. CASE editor' = [editor EXCEPT ![p] = [editor[p] EXCEPT !.saved = TRUE]]
      <4>1. PICK new : new = [editor[p] EXCEPT !.saved = TRUE]
        OBVIOUS
      <4>2. new \in Editors /\ new.parent = editor[p].parent
        BY <1>2, <4>1 DEF Editors
      <4>3. editor' = [editor EXCEPT ![p] = new]
        BY <3>2, <4>1
      <4>4. QED
        BY <1>1, <4>2, <4>3
    <3>3. QED
      BY <1>13, <1>16, <3>1, <3>2
  <2>2. PICK v \in Views :
          \/ v = v1 /\ Done(p, e, v, d)
          \/ v = view[p] /\ Fails(p, v, d)
    BY <1>1, <1>12, <1>13, <1>16
  <2>3. v.places = view[p].places /\ v.leases = view[p].leases
    BY <1>12, <2>2
  <2>4. /\ Changes(p, e, v, d) /\ past'.unused = past.unused
        /\ Typed' /\ Logs' /\ Works' /\ Lists' /\ Converging' /\ Chats'
    BY <1>1, <1>7, <1>8, <1>9, <2>1, <2>2, <2>3, DocumentCommand
  <2>5. Turns' /\ Knowing' /\ ConnectedTakeTurns'
    BY <1>1, <1>7, <1>9, <2>3, <2>4, OffLeases
  <2>6. Drafts'
    <3>1. HasParent(doc[p], r)
      BY <1>1, <1>5 DEF Drafts, HasParent
    <3>2. r.id \in Ids' /\ issued' \in Nat /\ issued <= issued'
      BY <1>1, <1>4, <1>5 DEF Ids
    <3>3. /\ running' = running /\ p \in running /\ past.failed \subseteq past'.failed
          /\ doc' = [doc EXCEPT ![p] = Inserted(@, r)]
      BY <1>3, <2>4 DEF Changes
    <3>4. /\ \A q \in Peer : q # p =>
               row'[q].revisions = row[q].revisions /\ view'[q].revisions = view[q].revisions
          /\ \A q \in Peer : \A f \in log[q] : f \in past'.unused[q] <=> f \in past.unused[q]
      BY <1>1, <2>4, ChangesAre
    <3>5. CASE v = v1 /\ Done(p, e, v, d)
      <4>1. log' = [log EXCEPT ![p] = @ \cup {e}] /\ row' = [row EXCEPT ![p] = v1]
        BY <1>1, <1>8, <1>9, <1>12, <3>5, Published
      <4>2. view'[p] = v1 /\ row'[p] = v1
        BY <1>1, <2>4, <3>5, <4>1, ChangesAre DEF Typed
      <4>3. e \notin past'.unused[p]
        <5>1. \A f \in past.unused[p] : f.id \in Ids
          BY <1>1 DEF Logs, Named
        <5>2. e.id \notin Ids
          BY <1>1, <1>4, <1>7 DEF Ids
        <5>3. QED
          BY <2>4, <5>1, <5>2
      <4>4. Shares(p, e)
        BY <1>7, <1>10, <1>12, <4>1, <4>2, <4>3 DEF Shares
      <4>5. \E f \in Events : f.body = r /\ Shares(p, f)
        BY <1>7, <4>4
      <4>6. QED
        BY <1>1, <1>5, <2>1, <1>14, <3>1, <3>2, <3>3, <3>4, <4>5, DraftsAdded
    <3>6. CASE v = view[p] /\ Fails(p, v, d)
      <4>1. UNCHANGED <<log, row>> /\ p \in past'.failed
        BY <1>1, <1>8, <1>9, <3>6, Refused
      <4>2. view' = view
        BY <1>1, <2>4, <3>6 DEF Changes, Typed
      <4>3. QED
        BY <1>1, <1>5, <2>1, <1>14, <3>1, <3>2, <3>3, <3>4, <4>1, <4>2, DraftsAdded
    <3>7. QED
      BY <2>2, <3>5, <3>6
  <2>7. Durable'
    BY <1>1, <2>4, <2>5, <2>6, DurableChanged
  <2>8. QED
    BY <2>4, <2>5, <2>6, <2>7 DEF Inv
<1>17. QED
  BY <1>15, <1>16

(* The release of lease l with which an editor is closed.                    *)
Closes(p, l) ==
  \E v \in {[view[p] EXCEPT !.leases = IF Has(@, l) THEN Released(@, l, Clock(p)) ELSE @]},
     d \in {[doc[p] EXCEPT !.leases = Released(@, l, Least(@[l].till, Clock(p)))]} :
    \/ Publishes(p, Event(p, "release", [lease |-> l, time |-> Clock(p)]), v, d, None)
    \/ PublishFails(p, v, d, None)

LEMMA CloseEditorReleases ==
  ASSUME Inv, NEW p \in Peer, Commands(p), topic # "chats",
         NEW l \in ActiveLease(doc[p], Clock(p)), doc[p].leases[l].holder = p, Closes(p, l)
  PROVE  Inv'
<1>0. PICK v, d :
        /\ v = [view[p] EXCEPT !.leases = IF Has(@, l) THEN Released(@, l, Clock(p)) ELSE @]
        /\ d = [doc[p] EXCEPT !.leases = Released(@, l, Least(@[l].till, Clock(p)))]
        /\ \/ Publishes(p, Event(p, "release", [lease |-> l, time |-> Clock(p)]), v, d, None)
           \/ PublishFails(p, v, d, None)
  BY DEF Closes
<1>1. /\ Typed /\ Logs /\ Lists /\ Durable /\ Drafts /\ Turns /\ Knowing /\ ConnectedTakeTurns
      /\ issued \in Nat /\ issued' = issued + 1
      /\ view[p] \in Views /\ doc[p] \in Documents /\ UNCHANGED <<skew, now>>
      /\ editor \in [Peer -> {None} \cup Editors]
  BY DEF Inv, Commands, Typed
<1>2. PICK time \in Nat : time = Clock(p)
  BY <1>1, ClockIs
<1>3. PICK t \in Tables(Leases) : t = doc[p].leases
  BY <1>1 DEF Documents
<1>4. PICK s \in Tables(Leases) : s = view[p].leases
  BY <1>1, ViewParts
<1>5. l \in Active(doc[p].leases, Clock(p))
  BY DEF ActiveLease
<1>6. l \in DOMAIN t /\ l \in Nat /\ t[l] \in Leases /\ t[l].till \in Nat
  <2>1. l \in DOMAIN t
    BY <1>3, <1>5 DEF Active
  <2>2. l \in Nat /\ t[l] \in Leases
    BY <2>1, TableFacts
  <2>3. QED
    BY <2>1, <2>2 DEF Leases
<1>7. PICK n \in Nat : n = Least(t[l].till, time) /\ n <= time /\ n <= t[l].till
  BY <1>6 DEF Least
<1>8. PICK t1 \in Tables(Leases) : t1 = Released(t, l, n)
  BY <1>6, ReleasedFacts
<1>9. PICK s1 \in Tables(Leases) : s1 = IF l \in DOMAIN s THEN Released(s, l, time) ELSE s
  BY ReleasedFacts
<1>10. /\ d \in Documents /\ d.leases = t1 /\ d.revisions = doc[p].revisions
  <2>1. d = [doc[p] EXCEPT !.leases = t1]
    BY <1>0, <1>2, <1>3, <1>7, <1>8
  <2>2. QED
    BY <1>1, <2>1, DocumentWithLeases
<1>11. /\ v \in Views /\ v.leases = s1 /\ v.places = view[p].places
       /\ v.revisions = view[p].revisions
  <2>1. v = [view[p] EXCEPT !.leases = s1]
    BY <1>0, <1>2, <1>4, <1>9 DEF Has
  <2>2. QED
    BY <1>1, <2>1, ViewWithLeases
<1>12. PICK body \in Releases : body = [lease |-> l, time |-> time]
  BY <1>6 DEF Releases
<1>13. body.lease = l /\ body.time = time
  BY <1>12
<1>14. PICK e : e = Event(p, "release", body)
  OBVIOUS
<1>15. e \in Events /\ e.id = issued + 1 /\ e.sender = p /\ e.kind = "release" /\ e.body = body
  BY <1>1, <1>14, NewEvents
<1>16. NewEvent(p, e)
  BY <1>15 DEF NewEvent
<1>17. \/ (Done(p, e, v, d) \/ Fails(p, v, d)) /\ editor' = [editor EXCEPT ![p] = None]
       \/ CutOff(p, e)
  BY <1>0, <1>2, <1>12, <1>14, Publishing
<1>18. CASE CutOff(p, e)
  <2>1. /\ ~PublishedWhole' /\ \A q \in Peer : TablesOf(q)' \subseteq TablesOf(q)
        /\ \A q \in Peer : log'[q] \subseteq Events
        /\ \A q \in Peer : \A f \in log'[q] : f \in log[q] \/ f = e
    BY <1>1, <1>16, <1>18, CutOffTables
  <2>2. e.body.lease = l /\ e.body.time = Clock(p)
    BY <1>2, <1>13, <1>15
  <2>3. Turns'
    BY <1>1, <1>5, <1>15, <2>1, <2>2, TurnsClosed
  <2>4. QED
    BY <1>1, <1>15, <1>16, <1>18, <2>3, CutOffKeeps
<1>19. CASE ~CutOff(p, e)
  <2>1. /\ editor' \in [Peer -> {None} \cup Editors]
        /\ \A q \in Peer : editor'[q] \in {None, editor[q]}
    BY <1>1, <1>17, <1>19
  <2>2. /\ Changes(p, e, v, d) /\ past'.unused = past.unused
        /\ past.failed \subseteq past'.failed
        /\ Typed' /\ Logs' /\ Works' /\ Lists' /\ Converging' /\ Chats'
    BY <1>1, <1>10, <1>11, <1>15, <1>16, <1>17, <2>1, <1>19, DocumentCommand
  <2>3. Drafts'
    BY <1>1, <1>10, <1>11, <1>15, <2>1, <2>2, OffRevisions
  <2>4. /\ view'[p] = v /\ doc'[p] = d /\ (row'[p] = v \/ row'[p] = row[p])
        /\ \A q \in Peer : q # p => /\ view'[q] = view[q] /\ doc'[q] = doc[q]
                                    /\ row'[q] = row[q] /\ log'[q] = log[q]
                                    /\ Presented(q)' = Presented(q)
        /\ past.failed \subseteq past'.failed /\ (past.apart => past'.apart)
        /\ (PublishedWhole' => PublishedWhole)
    <3>1. past.failed \subseteq past'.failed /\ (past.apart => past'.apart)
      BY <2>2 DEF Changes
    <3>2. QED
      BY <1>1, <2>2, <3>1, ChangesAre, PresentedAfter
  <2>5. Turns'
    <3>1. ASSUME NEW q \in Peer, NEW u \in TablesOf(q)'
          PROVE  \/ u \in TablesOf(q)
                 \/ /\ q = p
                    /\ \E w \in TablesOf(p) : \E m \in Nat :
                         l \in DOMAIN w /\ m <= Clock(p) /\ u = Released(w, l, m)
      <4>1. CASE q # p
        BY <2>4, <3>1, <4>1 DEF TablesOf
      <4>2. CASE q = p
        <5>1. u \in {s1, t1, row[p].leases}
          BY <1>10, <1>11, <2>4, <3>1, <4>2 DEF TablesOf
        <5>2. s \in TablesOf(p) /\ t \in TablesOf(p) /\ row[p].leases \in TablesOf(p)
          BY <1>3, <1>4 DEF TablesOf
        <5>3. time <= Clock(p) /\ n <= Clock(p)
          BY <1>2, <1>7
        <5>4. QED
          BY <1>6, <1>8, <1>9, <4>2, <5>1, <5>2, <5>3
      <4>3. QED
        BY <4>1, <4>2
    <3>2. \A q \in Peer : \A f \in log'[q] : f \in log[q] \/ f = e
      BY <1>1, <2>2, ChangesAre
    <3>3. (\A q \in Peer : log'[q] = log[q]) \/ (\A u \in TablesOf(p)' : Ended(u, e))
      <4>1. CASE Fails(p, v, d)
        BY <1>1, <1>10, <1>11, <1>16, <4>1, Refused
      <4>2. CASE Done(p, e, v, d)
        <5>1. row'[p] = v
          BY <1>1, <1>10, <1>11, <1>16, <4>2, Published DEF Typed
        <5>2. TablesOf(p)' = {s1, t1}
          BY <1>10, <1>11, <2>4, <5>1 DEF TablesOf
        <5>3. t1[l].till <= time
          BY <1>6, <1>7, <1>8, ReleasedFacts
        <5>4. l \in DOMAIN s1 => s1[l].till <= time
          <6>1. CASE l \in DOMAIN s
            <7>1. s1[l].till = time
              BY <1>9, <6>1, ReleasedFacts
            <7>2. QED
              BY <7>1
          <6>2. QED
            BY <1>9, <6>1
        <5>5. Ended(s1, e) /\ Ended(t1, e)
          BY <1>13, <1>15, <5>3, <5>4 DEF Ended
        <5>6. QED
          BY <5>2, <5>5
      <4>3. QED
        BY <1>17, <1>19, <4>1, <4>2
    <3>4. e.body.lease = l /\ e.body.time = Clock(p)
      BY <1>2, <1>13, <1>15
    <3>5. QED
      BY <1>1, <1>5, <1>15, <2>4, <3>1, <3>2, <3>3, <3>4, TurnsClosed
  <2>6. Knowing'
    <3>1. ASSUME PublishedWhole', p \notin past'.failed, Knows(p) PROVE Knows(p)'
      <4>1. Done(p, e, v, d)
        BY <1>1, <1>10, <1>11, <1>16, <1>17, <1>19, <3>1, Refused
      <4>2. Presented(p)' = Presented(p) \cup {e}
        BY <1>1, <1>10, <1>11, <1>16, <4>1, DonePresents
      <4>3. PublishedWhole
        BY <2>4, <3>1
      <4>4. /\ \A f \in Presented(p) : f.kind = "release" => f.body.lease # l
            /\ time < doc[p].leases[l].from + Duration
        BY <1>1, <1>2, <1>5, <4>3, NotReleased DEF Presented
      <4>5. doc'[p].leases = Released(doc[p].leases, l, Least(doc[p].leases[l].till, e.body.time))
        BY <1>3, <1>7, <1>8, <1>10, <1>13, <1>15, <2>4
      <4>6. l \in DOMAIN view[p].leases =>
              view'[p].leases = Released(view[p].leases, l, e.body.time)
        BY <1>4, <1>9, <1>11, <1>13, <1>15, <2>4
      <4>7. l \in DOMAIN doc[p].leases /\ e.body.lease = l
            /\ e.body.time < doc[p].leases[l].from + Duration
        BY <1>3, <1>6, <1>13, <1>15, <4>4
      <4>8. QED
        BY <1>1, <1>15, <3>1, <4>2, <4>4, <4>5, <4>6, <4>7, KnowsReleased
    <3>2. QED
      BY <1>1, <2>4, <3>1, KnowingLearns
  <2>7. ConnectedTakeTurns'
    <3>1. Together' => Together
      BY <1>1, <2>4, TogetherBefore
    <3>2. ASSUME NEW q \in Peer, Holds(q)' PROVE Holds(q)
      <4>1. Clock(q)' = Clock(q)
        BY <1>1 DEF Clock
      <4>2. CASE q = p
        <5>1. HoldsIn(p, t1, time)
          BY <1>2, <1>10, <2>4, <3>2, <4>1, <4>2, HoldsIs
        <5>2. HoldsIn(p, t, time)
          BY <1>6, <1>7, <1>8, <5>1, HoldsReleased
        <5>3. QED
          BY <1>2, <1>3, <4>2, <5>2, HoldsIs
      <4>3. CASE q # p
        BY <2>4, <3>2, <4>1, <4>3, HoldsIs
      <4>4. QED
        BY <4>2, <4>3
    <3>3. QED
      BY <1>1, <3>1, <3>2, TurnsKept
  <2>8. Durable'
    BY <1>1, <1>10, <1>11, <2>2, <2>3, <2>6, DurableChanged
  <2>9. QED
    BY <2>2, <2>3, <2>5, <2>6, <2>7, <2>8 DEF Inv
<1>20. QED
  BY <1>17, <1>18, <1>19

LEMMA CloseEditorKeeps ==
  ASSUME Inv, NEW p \in Peer, CloseEditor(p)
  PROVE  Inv'
<1>1. topic # "chats" /\ Typed
  BY DEF Inv, Logs, CloseEditor
<1>2. PICK own :
        /\ own = {l \in ActiveLease(doc[p], Clock(p)) : doc[p].leases[l].holder = p}
        /\ IF own = {}
           THEN /\ editor' = [editor EXCEPT ![p] = None]
                /\ UNCHANGED <<topic, skew, now, issued, log, view, doc, row, running, work, past>>
           ELSE Commands(p) /\ \E l \in own : Closes(p, l)
  BY DEF CloseEditor, Closes
<1>3. CASE own = {}
  <2>1. now \in 0..MaxTime /\ MaxTime \in Nat /\ row \in [Peer -> Views] /\ past \in Histories
    BY <1>1, ConstantsAssumption DEF Typed
  <2>2. editor' \in [Peer -> {None} \cup Editors] /\ \A q \in Peer : editor'[q] \in {None, editor[q]}
    BY <1>1, <1>2, <1>3 DEF Typed
  <2>3. Quiet
    BY <1>2, <1>3, <2>1, <2>2 DEF Quiet
  <2>4. QED
    BY <2>3, QuietKeeps
<1>4. CASE own # {}
  <2>1. PICK l \in own : Closes(p, l)
    BY <1>2, <1>4
  <2>2. Commands(p) /\ l \in ActiveLease(doc[p], Clock(p)) /\ doc[p].leases[l].holder = p
    BY <1>2, <1>4
  <2>3. QED
    BY <1>1, <2>1, <2>2, CloseEditorReleases
<1>5. QED
  BY <1>3, <1>4

-----------------------------------------------------------------------------
(* Events of others *)

(* A device takes event e of a batch of which rest is left, or refuses it.   *)
Arrives(p, e, rest) ==
  /\ p \in running /\ e \notin log[p] /\ (\E q \in Peer : e \in log[q])
  /\ \A f \in rest : f \notin log[p] /\ f # e /\ \E q \in Peer : f \in log[q]
  /\ log' = [log EXCEPT ![p] = @ \cup {e}]
  /\ UNCHANGED <<topic, skew, now, issued>>

Gains(p, e) ==
  \E rest : Arrives(p, e, rest) /\ (Takes(p, e, rest) \/ Refuses(p, e))

LEMMA GainedEvent ==
  ASSUME Typed, Logs, NEW p \in Peer, NEW e, Gains(p, e)
  PROVE  /\ e \in Events /\ Named(e) /\ e.kind \in Kinds
         /\ e \notin log[p] /\ e \notin past.unused[p] /\ \E q \in Peer : e \in log[q]
<1>1. e \notin log[p] /\ \E q \in Peer : e \in log[q]
  BY DEF Gains, Arrives
<1>2. e \in Events /\ Named(e)
  BY <1>1 DEF Typed, Logs
<1>3. e.kind \in Kinds
  BY <1>2 DEF Events, Made, Kinds
<1>4. e \notin past.unused[p]
  BY <1>1 DEF Logs
<1>5. QED
  BY <1>1, <1>2, <1>3, <1>4

Materializes(p, e, v, d, used) ==
  /\ v \in Views /\ d \in Documents /\ used \in BOOLEAN
  /\ Materialized(view[p], doc[p], e) = [view |-> v, doc |-> d, used |-> used]
  /\ ~used => e.kind \in {"deletion", "revision", "release"} /\ v = view[p] /\ d = doc[p]

(* What a device does with the event.                                        *)
Outcome(p, e, v, d, used, left) ==
  /\ view' = [view EXCEPT ![p] = v] /\ doc' = [doc EXCEPT ![p] = d]
  /\ work' = [work EXCEPT ![p] = left]
  /\ UNCHANGED <<editor, running>>
  /\ past' \in Histories /\ past'.failed = past.failed /\ past'.apart = past.apart
  /\ past'.faults = past.faults
  /\ past'.unused = IF used THEN past.unused ELSE [past.unused EXCEPT ![p] = @ \cup {e}]
  /\ \A q \in Peer : q # p => past'.unsaved[q] = past.unsaved[q]
  /\ \A q \in Peer : q # p => (q \in past'.refused <=> q \in past.refused)
  /\ used => past'.refused \subseteq past.refused
  /\ \/ row' = [row EXCEPT ![p] = v] /\ past'.unsaved[p] = {}
     \/ /\ row' = row
        /\ past'.unsaved[p] = IF used THEN past.unsaved[p] \cup {e} ELSE past.unsaved[p]
        /\ past'.unsaved[p] # {} => left # {} \/ p \in past'.refused

LEMMA TakesOutcome ==
  ASSUME Typed, NEW p \in Peer, NEW e \in Events, NEW rest, Takes(p, e, rest),
         NEW v, NEW d, NEW used, Materializes(p, e, v, d, used)
  PROVE  Outcome(p, e, v, d, used, rest)
<1>1. /\ past \in Histories /\ past.unused \in [Peer -> SUBSET Events]
      /\ past.unsaved \in [Peer -> SUBSET Events] /\ past.refused \in SUBSET Peer
  BY DEF Typed, Histories
<1>2. PICK unused \in [Peer -> SUBSET Events] :
        unused = IF used THEN past.unused ELSE [past.unused EXCEPT ![p] = @ \cup {e}]
  BY <1>1
<1>3. PICK unsaved \in [Peer -> SUBSET Events] :
        unsaved = IF used THEN [past.unsaved EXCEPT ![p] = @ \cup {e}] ELSE past.unsaved
  BY <1>1
<1>4. PICK h : h = [past EXCEPT !.unused = unused, !.unsaved = unsaved]
  OBVIOUS
<1>5. /\ h \in Histories /\ h.unused = unused /\ h.unsaved = unsaved /\ h.refused = past.refused
      /\ h.failed = past.failed /\ h.apart = past.apart /\ h.faults = past.faults
  BY <1>1, <1>4 DEF Histories
<1>6. h = IF used THEN [past EXCEPT !.unsaved[p] = @ \cup {e}]
          ELSE [past EXCEPT !.unused[p] = @ \cup {e}]
  BY <1>1, <1>2, <1>3, <1>4 DEF Histories
<1>7. PICK result :
        /\ result = [view |-> v, doc |-> d, used |-> used]
        /\ result = Materialized(view[p], doc[p], e)
  BY DEF Materializes
<1>8. result.view = v /\ result.doc = d /\ result.used = used
  BY <1>7
<1>9. /\ work' = [work EXCEPT ![p] = rest] /\ editor' = editor
      /\ IF rest = {} THEN Saves(p, v, d, h)
         ELSE /\ view' = [view EXCEPT ![p] = v] /\ doc' = [doc EXCEPT ![p] = d]
              /\ past' = h /\ UNCHANGED <<row, running>>
  BY <1>6, <1>7, <1>8 DEF Takes
<1>10. CASE rest = {}
  <2>1. PICK none \in [Peer -> SUBSET Events] : none = [unsaved EXCEPT ![p] = {}]
    OBVIOUS
  <2>2. past' = [h EXCEPT !.unsaved = none, !.refused = past.refused \ {p}]
    BY <1>5, <1>9, <1>10, <2>1 DEF Saves, Histories
  <2>3. /\ past' \in Histories /\ past'.failed = past.failed /\ past'.apart = past.apart
        /\ past'.faults = past.faults /\ past'.unused = unused
        /\ past'.unsaved = none /\ past'.refused = past.refused \ {p}
    BY <1>1, <1>5, <2>1, <2>2 DEF Histories
  <2>4. none[p] = {} /\ \A q \in Peer : q # p => none[q] = past.unsaved[q]
    BY <1>1, <1>3, <2>1
  <2>5. /\ view' = [view EXCEPT ![p] = v] /\ doc' = [doc EXCEPT ![p] = d]
        /\ row' = [row EXCEPT ![p] = v] /\ running' = running
    BY <1>9, <1>10 DEF Saves
  <2>6. QED
    BY <1>2, <1>9, <2>3, <2>4, <2>5 DEF Outcome
<1>11. CASE rest # {}
  <2>1. /\ view' = [view EXCEPT ![p] = v] /\ doc' = [doc EXCEPT ![p] = d]
        /\ past' = h /\ row' = row /\ running' = running
    BY <1>9, <1>11
  <2>2. /\ unsaved[p] = IF used THEN past.unsaved[p] \cup {e} ELSE past.unsaved[p]
        /\ \A q \in Peer : q # p => unsaved[q] = past.unsaved[q]
    BY <1>1, <1>3
  <2>3. QED
    BY <1>2, <1>5, <1>9, <1>11, <2>1, <2>2 DEF Outcome
<1>12. QED
  BY <1>10, <1>11

LEMMA RefusesOutcome ==
  ASSUME Typed, NEW p \in Peer, NEW e \in Events, Refuses(p, e),
         NEW v, NEW d, NEW used, Materializes(p, e, v, d, used)
  PROVE  ~used /\ Outcome(p, e, v, d, used, {})
<1>1. /\ past \in Histories /\ past.unused \in [Peer -> SUBSET Events]
      /\ past.refused \in SUBSET Peer
  BY DEF Typed, Histories
<1>2. ~used
  BY DEF Refuses, Materializes
<1>3. v = view[p] /\ d = doc[p]
  BY <1>2 DEF Materializes
<1>4. view' = [view EXCEPT ![p] = v] /\ doc' = [doc EXCEPT ![p] = d]
  BY <1>3 DEF Refuses, Typed
<1>5. PICK unused \in [Peer -> SUBSET Events] : unused = [past.unused EXCEPT ![p] = @ \cup {e}]
  BY <1>1
<1>6. PICK refused \in SUBSET Peer :
        refused = IF past.unsaved[p] = {} THEN past.refused ELSE past.refused \cup {p}
  BY <1>1
<1>7. past' = [past EXCEPT !.unused = unused, !.refused = refused]
  BY <1>1, <1>5, <1>6 DEF Refuses, Histories
<1>8. /\ past' \in Histories /\ past'.failed = past.failed /\ past'.apart = past.apart
      /\ past'.faults = past.faults /\ past'.unused = unused
      /\ past'.unsaved = past.unsaved /\ past'.refused = refused
  BY <1>1, <1>7 DEF Histories
<1>9. \A q \in Peer : q # p => (q \in refused <=> q \in past.refused)
  BY <1>6
<1>10. past.unsaved[p] # {} => p \in refused
  BY <1>6
<1>11. work' = [work EXCEPT ![p] = {}] /\ UNCHANGED <<row, running, editor>>
  BY DEF Refuses
<1>12. QED
  BY <1>2, <1>4, <1>5, <1>8, <1>9, <1>10, <1>11 DEF Outcome

LEMMA Received ==
  ASSUME Typed, Logs, Works, NEW p \in Peer, NEW e, Gains(p, e),
         NEW v, NEW d, NEW used, Materializes(p, e, v, d, used)
  PROVE  /\ Stores(p, e) /\ Changes(p, e, v, d)
         /\ Typed' /\ Logs' /\ Works' /\ UNCHANGED <<topic, issued, editor>>
         /\ past'.failed = past.failed /\ past'.faults = past.faults
         /\ used => past'.unused = past.unused /\ past'.refused \subseteq past.refused
         /\ ~used => e \in past'.unused[p]
<1>1. /\ e \in Events /\ e \notin log[p] /\ e \notin past.unused[p]
      /\ \E q \in Peer : e \in log[q]
  BY GainedEvent
<1>2. PICK rest : Arrives(p, e, rest) /\ (Takes(p, e, rest) \/ Refuses(p, e))
  BY DEF Gains
<1>3. PICK left \in SUBSET rest : Outcome(p, e, v, d, used, left)
  BY <1>1, <1>2, TakesOutcome, RefusesOutcome
<1>4. /\ log \in [Peer -> SUBSET Events] /\ past.unused \in [Peer -> SUBSET Events]
      /\ past.unsaved \in [Peer -> SUBSET Events] /\ work \in [Peer -> SUBSET Events]
      /\ issued \in 0..MaxEvents /\ issued \in Nat
  BY DEF Typed, Histories
<1>5. /\ p \in running /\ log' = [log EXCEPT ![p] = @ \cup {e}]
      /\ UNCHANGED <<topic, skew, now, issued, running, editor>>
  BY <1>2, <1>3 DEF Arrives, Outcome
<1>6. /\ log'[p] = log[p] \cup {e} /\ \A q \in Peer : q # p => log'[q] = log[q]
  BY <1>4, <1>5
<1>7. past'.unused = past.unused \/ past'.unused = [past.unused EXCEPT ![p] = @ \cup {e}]
  BY <1>3 DEF Outcome
<1>8. /\ used => past'.unused = past.unused
      /\ ~used => past'.unused[p] = past.unused[p] \cup {e}
      /\ \A q \in Peer : q # p => past'.unused[q] = past.unused[q]
  BY <1>3, <1>4 DEF Outcome
<1>9. Stores(p, e)
  <2>1. past'.failed = past.failed /\ past'.apart = past.apart
    BY <1>3 DEF Outcome
  <2>2. QED
    BY <1>1, <1>5, <1>7, <2>1 DEF Stores
<1>10. \/ row' = [row EXCEPT ![p] = v] /\ past'.unsaved[p] = {}
       \/ /\ row' = row /\ Safe(p)' = Safe(p)
          /\ p \notin past'.failed /\ past'.unsaved[p] = {} => v = view[p] /\ past.unsaved[p] = {}
  <2>1. CASE row' = [row EXCEPT ![p] = v] /\ past'.unsaved[p] = {}
    BY <2>1
  <2>2. CASE /\ row' = row
             /\ past'.unsaved[p] = IF used THEN past.unsaved[p] \cup {e} ELSE past.unsaved[p]
    <3>1. CASE used
      <4>1. past'.unsaved[p] = past.unsaved[p] \cup {e} /\ past'.unused[p] = past.unused[p]
        BY <1>8, <2>2, <3>1
      <4>2. Safe(p)' = Safe(p)
        BY <1>1, <1>6, <4>1 DEF Safe, Presented
      <4>3. QED
        BY <2>2, <4>1, <4>2
    <3>2. CASE ~used
      <4>1. /\ past'.unsaved[p] = past.unsaved[p]
            /\ past'.unused[p] = past.unused[p] \cup {e}
        BY <1>8, <2>2, <3>2
      <4>2. Safe(p)' = Safe(p)
        BY <1>1, <1>6, <4>1 DEF Safe, Presented
      <4>3. v = view[p]
        BY <3>2 DEF Materializes
      <4>4. QED
        BY <2>2, <4>1, <4>2, <4>3
    <3>3. QED
      BY <3>1, <3>2
  <2>3. QED
    BY <1>3, <2>1, <2>2 DEF Outcome
<1>11. Changes(p, e, v, d)
  <2>1. v \in Views /\ d \in Documents
    BY DEF Materializes
  <2>2. /\ view' = [view EXCEPT ![p] = v] /\ doc' = [doc EXCEPT ![p] = d]
        /\ past' \in Histories /\ past'.failed = past.failed /\ past'.apart = past.apart
        /\ \A q \in Peer : q # p => past'.unsaved[q] = past.unsaved[q]
    BY <1>3 DEF Outcome
  <2>3. issued' \in 0..MaxEvents /\ issued <= issued'
    BY <1>4, <1>5
  <2>4. QED
    BY <1>1, <1>5, <1>7, <1>10, <2>1, <2>2, <2>3 DEF Changes
<1>12. \A f \in left : /\ f \in Events /\ f \notin log'[p] /\ \E q \in Peer : f \in log[q]
  BY <1>2, <1>4, <1>6 DEF Arrives
<1>13. Typed'
  <2>1. editor' \in [Peer -> {None} \cup Editors]
    BY <1>5 DEF Typed
  <2>2. left \in SUBSET Events
    BY <1>12
  <2>3. work' \in [Peer -> SUBSET Events]
    BY <1>3, <1>4, <2>2 DEF Outcome
  <2>4. QED
    BY <1>11, <2>1, <2>3, TypedAfter
<1>14. Logs'
  <2>1. \A q \in Peer : past'.unused[q] \subseteq log'[q]
    BY <1>6, <1>8 DEF Logs
  <2>2. \A q \in Peer : editor'[q] # None => topic # "chats"
    BY <1>5 DEF Logs
  <2>3. QED
    BY <1>1, <1>5, <2>1, <2>2, LogsTaken
<1>15. Works'
  <2>1. \A q \in Peer : q # p => /\ log'[q] = log[q] /\ work'[q] = work[q]
                                 /\ past'.unsaved[q] = past.unsaved[q]
                                 /\ (q \in past.refused => q \in past'.refused)
    BY <1>3, <1>4, <1>6 DEF Outcome
  <2>2. \A q \in Peer : q # p => Presented(q)' = Presented(q)
    BY <1>11, PresentedAfter
  <2>3. work'[p] = left
    BY <1>3, <1>4 DEF Outcome
  <2>4. /\ past'.unsaved[p] \subseteq past.unsaved[p] \cup {e}
        /\ ~used => past'.unsaved[p] \subseteq past.unsaved[p]
        /\ past'.unsaved[p] # {} => left # {} \/ p \in past'.refused
    BY <1>3 DEF Outcome
  <2>5. past.unsaved[p] \subseteq Presented(p) /\ \A f \in past.unsaved[p] : f.sender # p
    BY DEF Works
  <2>6. past'.unsaved[p] \subseteq Presented(p)'
    <3>1. CASE used
      <4>1. Presented(p)' = Presented(p) \cup {e}
        BY <1>1, <1>6, <1>8, <3>1 DEF Presented
      <4>2. QED
        BY <2>4, <2>5, <4>1
    <3>2. CASE ~used
      <4>1. Presented(p)' = Presented(p)
        BY <1>1, <1>6, <1>8, <3>2 DEF Presented
      <4>2. QED
        BY <2>4, <2>5, <3>2, <4>1
    <3>3. QED
      BY <3>1, <3>2
  <2>7. e.sender # p
    BY <1>9, TakenEvent
  <2>8. \A f \in past'.unsaved[p] : f.sender # p
    BY <2>4, <2>5, <2>7
  <2>9. \A q \in Peer : log[q] \subseteq log'[q]
    BY <1>6
  <2>10. past'.unsaved[p] # {} => work'[p] # {} \/ p \in past'.refused
    BY <2>3, <2>4
  <2>11. \A f \in work'[p] : f \notin log'[p] /\ \E q \in Peer : f \in log[q]
    BY <1>12, <2>3
  <2>12. QED
    BY <2>1, <2>2, <2>6, <2>8, <2>9, <2>10, <2>11, WorksAfter
<1>16. /\ past'.failed = past.failed /\ past'.faults = past.faults
       /\ used => past'.refused \subseteq past.refused
  BY <1>3 DEF Outcome
<1>17. ~used => e \in past'.unused[p]
  BY <1>8
<1>18. QED
  BY <1>5, <1>8, <1>9, <1>11, <1>13, <1>14, <1>15, <1>16, <1>17

(* An event of a place changes what its device presents of that place, and   *)
(* of no other.                                                              *)
Touches(p, v, x) ==
  \A y : y # x => /\ Has(v.places, y) <=> Has(view[p].places, y)
                  /\ Has(view[p].places, y) => v.places[y] = view[p].places[y]

Fitting(p, e, v, x) == Presents(p, x) => Fits(v.places, x, Taken(p, x) \cup {e})

LEMMA PlaceGained ==
  ASSUME Inv, NEW p \in Peer, NEW e, Gains(p, e), e.kind \in {"place", "deletion"},
         NEW v, NEW used, Materializes(p, e, v, doc[p], used),
         v.revisions = view[p].revisions, v.leases = view[p].leases, Listed(v.places),
         NEW x \in Nat, e.body.id = x,
         Touches(p, v, x), used => Fitting(p, e, v, x)
  PROVE  Inv'
<1>1. Typed /\ Logs /\ Works /\ Lists /\ Converging /\ Durable
  BY DEF Inv
<1>2. /\ e \in Events /\ Named(e) /\ topic # "chats"
  BY <1>1, GainedEvent DEF Named
<1>3. /\ Stores(p, e) /\ Changes(p, e, v, doc[p])
      /\ Typed' /\ Logs' /\ Works' /\ UNCHANGED <<topic, issued, editor>>
      /\ past'.failed = past.failed /\ (used => past'.unused = past.unused)
      /\ (~used => e \in past'.unused[p])
  BY <1>1, Received
<1>4. Drafts' /\ Turns' /\ Knowing' /\ ConnectedTakeTurns'
  BY <1>3, OffDocument DEF Inv
<1>5. Chats'
  BY <1>2, <1>3, ChatsElsewhere
<1>6. Lists'
  <2>1. issued' \in Nat /\ issued <= issued' /\ issued' = issued
    BY <1>1, <1>3 DEF Typed
  <2>2. Listed(v.places)'
    BY <2>1 DEF Listed, Ids
  <2>3. v \in Views /\ view' = [view EXCEPT ![p] = v] /\ (row' = row \/ row' = [row EXCEPT ![p] = v])
    BY <1>3 DEF Changes
  <2>4. QED
    BY <1>1, <2>1, <2>2, <2>3, ListsAfter
<1>7. /\ \A q \in Peer : q # p => view'[q].places = view[q].places
      /\ view'[p] = v
      /\ \A q \in Peer : log[q] \subseteq log'[q]
      /\ \A q \in Peer : \A f \in log'[q] : f \in log[q] \/ (q = p /\ f = e)
      /\ \A q \in Peer : \A f \in log[q] : f \in past'.unused[q] <=> f \in past.unused[q]
      /\ issued' \in Nat /\ issued <= issued' /\ past.failed \subseteq past'.failed
  BY <1>1, <1>3, ChangesAre
<1>8. Converging'
  <2>1. CASE used
    <3>1. Gets(p, e, x)
      BY <1>2, <1>3, <1>7, <2>1 DEF Stores, Gets, Changes
    <3>2. ASSUME NEW y, y # x
          PROVE  (Has(view'[p].places, y) <=> Has(view[p].places, y))
                 /\ (Has(view[p].places, y) => view'[p].places[y] = view[p].places[y])
      BY <1>7, <3>2 DEF Touches
    <3>3. Presents(p, x) => Fits(view'[p].places, x, Taken(p, x) \cup {e})
      BY <1>7, <2>1 DEF Fitting
    <3>4. QED
      BY <1>1, <1>7, <3>1, <3>2, <3>3, ConvergingEdited
  <2>2. CASE ~used
    <3>1. \A q \in Peer : view'[q].places = view[q].places
      BY <1>7, <2>2 DEF Materializes
    <3>2. \A q \in Peer : \A f \in log'[q] :
            f \in log[q] \/ f.kind \notin {"place", "deletion"} \/ f \in past'.unused[q]
      BY <1>3, <1>7, <2>2
    <3>3. QED
      BY <1>1, <1>7, <3>1, <3>2, ConvergingStays
  <2>3. QED
    BY <2>1, <2>2 DEF Materializes
<1>9. Durable'
  BY <1>1, <1>3, <1>4, <1>5, <1>8, DurableChanged
<1>10. QED
  BY <1>3, <1>4, <1>5, <1>6, <1>8, <1>9 DEF Inv

(* The value of a place becomes that of a deletion.                          *)
DeletedTo(v, x, stamp, w, u) ==
  /\ w = [v EXCEPT !.places[x].value.deleted = TRUE,
                   !.places[x].value.stamp = stamp]
  /\ w.places = u /\ w.chats = v.chats /\ w.revisions = v.revisions /\ w.leases = v.leases
  /\ DOMAIN u = DOMAIN v.places
  /\ \A y \in DOMAIN u : y # x => u[y] = v.places[y]
  /\ u[x].id = v.places[x].id /\ u[x].value.edit = v.places[x].value.edit
  /\ u[x].value.stamp = stamp /\ u[x].value.deleted

LEMMA DeletedValue ==
  ASSUME NEW v \in Views, NEW x \in DOMAIN v.places, NEW stamp \in Nat
  PROVE  \E w \in Views, u \in Tables(Places) : DeletedTo(v, x, stamp, w, u)
<1>1. PICK t \in Tables(Places) : t = v.places
  BY ViewParts
<1>2. PICK old \in Places : old = t[x]
  BY <1>1, TableFacts
<1>3. PICK value \in Values : value = old.value
  BY DEF Places
<1>4. PICK val \in Values : val = [value EXCEPT !.deleted = TRUE, !.stamp = stamp]
  BY DEF Values
<1>5. val.edit = value.edit /\ val.stamp = stamp /\ val.deleted
  BY <1>4 DEF Values
<1>6. PICK new \in Places : new = [old EXCEPT !.value = val]
  BY DEF Places
<1>7. new.id = old.id /\ new.value = val
  BY <1>6 DEF Places
<1>8. PICK u : u = [t EXCEPT ![x] = new]
  OBVIOUS
<1>9. DOMAIN t \in SUBSET Nat /\ t \in [DOMAIN t -> Places]
  BY <1>1, TableFacts
<1>10. u \in [DOMAIN t -> Places]
  BY <1>8, <1>9
<1>11. u \in Tables(Places)
  BY <1>9, <1>10, IsTable
<1>12. DOMAIN u = DOMAIN t /\ u[x] = new /\ \A y \in DOMAIN u : y # x => u[y] = t[y]
  BY <1>1, <1>8, <1>9, <1>10
<1>13. PICK w : w = [v EXCEPT !.places = u]
  OBVIOUS
<1>14. /\ w \in Views /\ w.places = u /\ w.chats = v.chats
       /\ w.revisions = v.revisions /\ w.leases = v.leases
  BY <1>11, <1>13, ViewWithPlaces
<1>15. w = [v EXCEPT !.places[x].value.deleted = TRUE, !.places[x].value.stamp = stamp]
  <2>1. PICK first : first = [value EXCEPT !.deleted = TRUE]
    OBVIOUS
  <2>2. PICK one : one = [old EXCEPT !.value = first]
    OBVIOUS
  <2>3. PICK table : table = [t EXCEPT ![x] = one]
    OBVIOUS
  <2>4. PICK mid : mid = [v EXCEPT !.places = table]
    OBVIOUS
  <2>5. [v EXCEPT !.places[x].value.deleted = TRUE] = mid
    BY <1>1, <1>2, <1>3, <2>1, <2>2, <2>3, <2>4
  <2>6. mid.places = table /\ table[x] = one /\ one.value = first
    BY <1>1, <1>9, <2>2, <2>3, <2>4 DEF Views, Places
  <2>7. [first EXCEPT !.stamp = stamp] = val
    BY <1>4, <2>1
  <2>8. [one EXCEPT !.value = val] = new
    BY <1>6, <2>2 DEF Places
  <2>9. [table EXCEPT ![x] = new] = u
    BY <1>8, <1>9, <2>3
  <2>10. [mid EXCEPT !.places = u] = w
    BY <1>13, <2>4 DEF Views
  <2>11. [mid EXCEPT !.places[x].value.stamp = stamp] = w
    BY <2>6, <2>7, <2>8, <2>9, <2>10
  <2>12. QED
    BY <2>5, <2>11
<1>16. DeletedTo(v, x, stamp, w, u)
  BY <1>1, <1>2, <1>3, <1>5, <1>7, <1>12, <1>14, <1>15 DEF DeletedTo
<1>17. QED
  BY <1>11, <1>14, <1>16

(* What a device presents of a place that it has.                            *)
LEMMA StampsAre ==
  ASSUME Typed, NEW p \in Peer, NEW x, Has(view[p].places, x)
  PROVE  view[p].places[x] \in Places /\ view[p].places[x].value.stamp \in Nat
<1>1. PICK t \in Tables(Places) : t = view[p].places
  BY ViewParts DEF Typed
<1>2. t[x] \in Places
  BY <1>1, TableFacts DEF Has
<1>3. QED
  BY <1>1, <1>2 DEF Places, Values

LEMMA TakenStamps ==
  ASSUME Typed, NEW p \in Peer, NEW x
  PROVE  \A f \in Taken(p, x) : f.body.value.stamp \in Nat
  BY EditsTyped DEF Taken

(* An edit that is earlier than what is presented changes nothing.           *)
LEMMA EarlierGained ==
  ASSUME Inv, NEW p \in Peer, NEW e, Gains(p, e), e.kind \in {"place", "deletion"},
         NEW x \in Nat, e.body.id = x, e.body \in Places, Has(view[p].places, x),
         e.body.value.stamp < view[p].places[x].value.stamp,
         Materialized(view[p], doc[p], e) = Effect(view[p], doc[p])
  PROVE  Inv'
<1>1. Typed /\ Lists
  BY DEF Inv
<1>2. PICK v \in Views : v = view[p]
  BY <1>1 DEF Typed
<1>3. PICK used \in BOOLEAN : used = TRUE
  OBVIOUS
<1>4. Materializes(p, e, v, doc[p], used)
  BY <1>1, <1>2, <1>3 DEF Materializes, Effect, Typed
<1>5. ASSUME Presents(p, x) PROVE Fits(v.places, x, Taken(p, x) \cup {e})
  <2>1. PICK t : t = view[p].places
    OBVIOUS
  <2>2. PICK taken : taken = Taken(p, x)
    OBVIOUS
  <2>3. Fits(t, x, taken)
    BY <1>5, <2>1, <2>2 DEF Presents
  <2>4. e.body.value.stamp \in Nat /\ \A f \in taken : f.body.value.stamp \in Nat
    BY <1>1, <2>2, TakenStamps DEF Places, Values
  <2>5. Has(t, x) /\ e.body.value.stamp < t[x].value.stamp
    BY <2>1
  <2>6. Fits(t, x, taken \cup {e})
    BY <2>3, <2>4, <2>5, FitsEarlier
  <2>7. QED
    BY <1>2, <2>1, <2>2, <2>6
<1>6. Listed(v.places)
  BY <1>1, <1>2 DEF Lists
<1>7. Touches(p, v, x)
  BY <1>2 DEF Touches
<1>8. v.revisions = view[p].revisions /\ v.leases = view[p].leases
  BY <1>2
<1>9. Fitting(p, e, v, x)
  BY <1>5 DEF Fitting
<1>10. QED
  BY <1>4, <1>6, <1>7, <1>8, <1>9, PlaceGained

(* An edit that is not is what is presented from then on.                    *)
LEMMA LatestGained ==
  ASSUME Inv, NEW p \in Peer, NEW e, Gains(p, e), e.kind \in {"place", "deletion"},
         NEW x \in Nat, e.body.id = x, e.body \in Places,
         Has(view[p].places, x) => ~(e.body.value.stamp < view[p].places[x].value.stamp),
         NEW v \in Views, Materialized(view[p], doc[p], e) = Effect(v, doc[p]),
         v.revisions = view[p].revisions, v.leases = view[p].leases, Listed(v.places),
         Touches(p, v, x), Has(v.places, x), Says(v.places[x], e.body.value)
  PROVE  Inv'
<1>1. Typed
  BY DEF Inv
<1>2. PICK used \in BOOLEAN : used = TRUE
  OBVIOUS
<1>3. Materializes(p, e, v, doc[p], used)
  BY <1>1, <1>2 DEF Materializes, Effect, Typed
<1>4. ASSUME Presents(p, x) PROVE Fits(v.places, x, Taken(p, x) \cup {e})
  <2>1. PICK t : t = view[p].places
    OBVIOUS
  <2>2. PICK taken : taken = Taken(p, x)
    OBVIOUS
  <2>3. Fits(t, x, taken)
    BY <1>4, <2>1, <2>2 DEF Presents
  <2>4. e.body.value.stamp \in Nat /\ \A f \in taken : f.body.value.stamp \in Nat
    BY <1>1, <2>2, TakenStamps DEF Places, Values
  <2>5. Has(t, x) => t[x].value.stamp <= e.body.value.stamp
    BY <1>1, <2>1, <2>4, StampsAre
  <2>6. PICK u : u = v.places
    OBVIOUS
  <2>7. Has(u, x) /\ Says(u[x], e.body.value)
    BY <2>6
  <2>8. Fits(u, x, taken \cup {e})
    BY <2>3, <2>4, <2>5, <2>7, FitsLatest
  <2>9. QED
    BY <2>2, <2>6, <2>8
<1>5. Fitting(p, e, v, x)
  BY <1>4 DEF Fitting
<1>6. QED
  BY <1>3, <1>5, PlaceGained

LEMMA PlaceTaken ==
  ASSUME Inv, NEW p \in Peer, NEW e, Gains(p, e), e.kind = "place"
  PROVE  Inv'
<1>1. Typed /\ Logs /\ Lists
  BY DEF Inv
<1>2. e \in Events /\ Named(e)
  BY <1>1, GainedEvent
<1>3. e.body \in Places
  BY <1>2 DEF Events, Made
<1>4. PICK x \in Nat : x = e.body.id
  BY <1>3 DEF Places
<1>5. x \in Ids /\ e.body.value.edit \in Ids
  BY <1>2, <1>4 DEF Named
<1>6. Materialized(view[p], doc[p], e) = OnPlace(view[p], doc[p], e.body)
  BY DEF Materialized
<1>7. CASE Has(view[p].places, x) /\ e.body.value.stamp < view[p].places[x].value.stamp
  <2>1. Materialized(view[p], doc[p], e) = Effect(view[p], doc[p])
    BY <1>4, <1>6, <1>7 DEF OnPlace
  <2>2. QED
    BY <1>3, <1>4, <1>7, <2>1, EarlierGained
<1>8. CASE ~(Has(view[p].places, x) /\ e.body.value.stamp < view[p].places[x].value.stamp)
  <2>1. PICK t \in Tables(Places) : t = view[p].places
    BY <1>1, ViewParts DEF Typed
  <2>2. PICK u \in Tables(Places) : u = Put(t, x, e.body)
    BY <1>3, PutFacts
  <2>3. DOMAIN u = DOMAIN t \cup {x} /\ u[x] = e.body /\ \A y \in DOMAIN t : y # x => u[y] = t[y]
    BY <2>2 DEF Put
  <2>4. PICK v : v = [view[p] EXCEPT !.places = u]
    OBVIOUS
  <2>5. /\ v \in Views /\ v.places = u /\ v.revisions = view[p].revisions
        /\ v.leases = view[p].leases
    BY <1>1, <2>4, ViewWithPlaces DEF Typed
  <2>6. Materialized(view[p], doc[p], e) = Effect(v, doc[p])
    BY <1>4, <1>6, <1>8, <2>1, <2>2, <2>4 DEF OnPlace
  <2>7. Listed(v.places)
    BY <1>1, <1>4, <1>5, <2>1, <2>3, <2>5 DEF Lists, Listed
  <2>8. Touches(p, v, x)
    BY <2>1, <2>3, <2>5 DEF Has, Touches
  <2>9. Has(v.places, x) /\ Says(v.places[x], e.body.value)
    BY <2>3, <2>5 DEF Has, Says
  <2>10. QED
    BY <1>3, <1>4, <1>8, <2>5, <2>6, <2>7, <2>8, <2>9, LatestGained
<1>9. QED
  BY <1>7, <1>8

LEMMA DeletionTaken ==
  ASSUME Inv, NEW p \in Peer, NEW e, Gains(p, e), e.kind = "deletion"
  PROVE  Inv'
<1>1. Typed /\ Logs /\ Lists
  BY DEF Inv
<1>2. e \in Events /\ Named(e)
  BY <1>1, GainedEvent
<1>3. e.body \in Places /\ e.body.value.deleted
  BY <1>2 DEF Events, Made, Named
<1>4. PICK x \in Nat : x = e.body.id
  BY <1>3 DEF Places
<1>5. PICK stamp \in Nat : stamp = e.body.value.stamp
  BY <1>3 DEF Places, Values
<1>6. Materialized(view[p], doc[p], e) = OnDeletion(view[p], doc[p], e.body)
  BY DEF Materialized
<1>7. CASE ~Has(view[p].places, x)
  <2>1. PICK v \in Views : v = view[p]
    BY <1>1 DEF Typed
  <2>2. PICK used \in BOOLEAN : used = FALSE
    OBVIOUS
  <2>3. Materialized(view[p], doc[p], e) = NoEffect(view[p], doc[p])
    BY <1>4, <1>6, <1>7 DEF OnDeletion
  <2>4. Materializes(p, e, v, doc[p], used)
    BY <1>1, <2>1, <2>2, <2>3 DEF Materializes, NoEffect, Typed
  <2>5. Listed(v.places)
    BY <1>1, <2>1 DEF Lists
  <2>6. Touches(p, v, x)
    BY <2>1 DEF Touches
  <2>7. v.revisions = view[p].revisions /\ v.leases = view[p].leases
    BY <2>1
  <2>8. used => Fitting(p, e, v, x)
    BY <2>2
  <2>9. QED
    BY <1>4, <2>4, <2>5, <2>6, <2>7, <2>8, PlaceGained
<1>8. CASE Has(view[p].places, x) /\ stamp < view[p].places[x].value.stamp
  <2>1. Materialized(view[p], doc[p], e) = Effect(view[p], doc[p])
    BY <1>4, <1>5, <1>6, <1>8 DEF OnDeletion
  <2>2. QED
    BY <1>3, <1>4, <1>5, <1>8, <2>1, EarlierGained
<1>9. CASE Has(view[p].places, x) /\ ~(stamp < view[p].places[x].value.stamp)
  <2>1. PICK w \in Views : w = view[p]
    BY <1>1 DEF Typed
  <2>2. x \in DOMAIN w.places
    BY <1>9, <2>1, SMTT(30) DEF Has
  <2>3. PICK v \in Views, u \in Tables(Places) :
           DeletedTo(w, x, stamp, v, u)
    BY <2>2, DeletedValue, SMTT(30)
  <2>4. Materialized(view[p], doc[p], e) = Effect(v, doc[p])
    BY <1>4, <1>5, <1>6, <1>9, <2>1, <2>3, ZenonT(40) DEF OnDeletion, DeletedTo
  <2>5. Listed(w.places)
    BY <1>1, <2>1, SMTT(30) DEF Lists
  <2>6. Listed(v.places)
    BY <2>2, <2>3, <2>5, SMTT(30) DEF Listed, DeletedTo
  <2>7. Touches(p, v, x)
    BY <2>1, <2>3, ZenonT(40) DEF Has, Touches, DeletedTo
  <2>8. Has(v.places, x)
    BY <2>2, <2>3, SMTT(30) DEF Has, DeletedTo
  <2>9. Says(v.places[x], e.body.value)
    <3>1. u \in Tables(Places) /\ x \in DOMAIN u
      BY <2>2, <2>3 DEF DeletedTo
    <3>2. u[x] \in Places
      BY <3>1, TableFacts, SMTT(30)
    <3>3. QED
      BY <1>3, <1>5, <2>3, <3>2 DEF Says, Places, Values, DeletedTo
  <2>10. v.revisions = view[p].revisions /\ v.leases = view[p].leases
    BY <2>1, <2>3, ZenonT(40) DEF DeletedTo
  <2>11. QED
    BY <1>3, <1>4, <1>5, <1>9, <2>4, <2>6, <2>7, <2>8, <2>9, <2>10, LatestGained
<1>10. QED
  BY <1>7, <1>8, <1>9

(* An event of another kind leaves places alone.                             *)
LEMMA OtherGained ==
  ASSUME Inv, NEW p \in Peer, NEW e, Gains(p, e), e.kind \notin {"place", "deletion"},
         NEW v, NEW d, NEW used, Materializes(p, e, v, d, used), v.places = view[p].places
  PROVE  /\ Stores(p, e) /\ Changes(p, e, v, d)
         /\ Typed' /\ Logs' /\ Works' /\ Lists' /\ Converging' /\ UNCHANGED <<topic, issued, editor>>
         /\ past'.failed = past.failed /\ past'.faults = past.faults
         /\ used => past'.unused = past.unused /\ past'.refused \subseteq past.refused
         /\ ~used => e \in past'.unused[p]
         /\ e.kind # "message" => Chats'
         /\ Chats' /\ Drafts' /\ Knowing' => Durable'
<1>1. Typed /\ Logs /\ Works /\ Lists /\ Converging /\ Durable
  BY DEF Inv
<1>2. /\ Stores(p, e) /\ Changes(p, e, v, d)
      /\ Typed' /\ Logs' /\ Works' /\ UNCHANGED <<topic, issued, editor>>
      /\ past'.failed = past.failed /\ past'.faults = past.faults
      /\ used => past'.unused = past.unused /\ past'.refused \subseteq past.refused
      /\ ~used => e \in past'.unused[p]
  BY <1>1, Received
<1>3. Lists' /\ Converging'
  BY <1>1, <1>2, OffPlaces
<1>4. e.kind # "message" => topic # "chats"
  BY <1>1, GainedEvent DEF Named
<1>5. e.kind # "message" => Chats'
  BY <1>2, <1>4, ChatsElsewhere
<1>6. Chats' /\ Drafts' /\ Knowing' => Durable'
  BY <1>1, <1>2, <1>3, DurableChanged
<1>7. QED
  BY <1>2, <1>3, <1>5, <1>6

(* A device presents an event that had an effect.                            *)
LEMMA OtherPresents ==
  ASSUME Typed, Logs, NEW p \in Peer, NEW e, Gains(p, e),
         NEW v, NEW d, Stores(p, e), Changes(p, e, v, d), past'.unused = past.unused
  PROVE  /\ Presented(p)' = Presented(p) \cup {e}
         /\ \A q \in Peer : q # p => Presented(q)' = Presented(q)
<1>1. e \notin past.unused[p] /\ e \notin log[p]
  BY GainedEvent
<1>2. e \notin past'.unused[p] /\ log'[p] = log[p] \cup {e}
  BY <1>1 DEF Stores, Typed
<1>3. QED
  BY <1>1, <1>2, PresentedAfter

LEMMA MessageTaken ==
  ASSUME Inv, NEW p \in Peer, NEW e, Gains(p, e), e.kind = "message"
  PROVE  Inv'
<1>1. Typed /\ Logs /\ Chats /\ view[p] \in Views /\ doc[p] \in Documents
  BY DEF Inv, Typed
<1>2. e \in Events /\ Named(e) /\ topic = "chats" /\ e.body.id = e.id /\ e.body \in Messages
  BY <1>1, GainedEvent DEF Named, Events, Made
<1>3. \A f \in log[p] : f.id # e.id
  <2>1. e \notin log[p] /\ \E q \in Peer : e \in log[q]
    BY <1>1, GainedEvent
  <2>2. QED
    BY <1>1, <2>1 DEF Logs
<1>4. ~\E k \in DOMAIN view[p].chats : view[p].chats[k].id = e.body.id
  <2>1. ASSUME NEW k \in DOMAIN view[p].chats PROVE view[p].chats[k].id # e.id
    <3>1. PICK f \in Presented(p) : view[p].chats[k].id = f.id
      BY <1>1, <1>2, ShownMessages
    <3>2. QED
      BY <1>3, <3>1 DEF Presented
  <2>2. QED
    BY <1>2, <2>1
<1>5. PICK list \in Seq(Messages) : list = Append(view[p].chats, e.body)
  BY <1>1, <1>2, ViewParts, Appended
<1>6. PICK v : v = [view[p] EXCEPT !.chats = list]
  OBVIOUS
<1>7. /\ v \in Views /\ v.chats = list /\ v.places = view[p].places
      /\ v.revisions = view[p].revisions /\ v.leases = view[p].leases
  BY <1>1, <1>6, ViewWithChats
<1>8. Materialized(view[p], doc[p], e) = Effect(v, doc[p])
  <2>1. Materialized(view[p], doc[p], e) = OnMessage(view[p], doc[p], e.body)
    BY DEF Materialized
  <2>2. QED
    BY <1>4, <1>5, <1>6, <2>1 DEF OnMessage
<1>9. PICK used \in BOOLEAN : used = TRUE
  OBVIOUS
<1>10. Materializes(p, e, v, doc[p], used)
  BY <1>1, <1>7, <1>8, <1>9 DEF Materializes, Effect
<1>11. /\ Stores(p, e) /\ Changes(p, e, v, doc[p])
       /\ Typed' /\ Logs' /\ Works' /\ Lists' /\ Converging' /\ UNCHANGED <<topic, issued, editor>>
       /\ past'.faults = past.faults /\ past'.unused = past.unused
       /\ past'.refused \subseteq past.refused
       /\ Chats' /\ Drafts' /\ Knowing' => Durable'
  BY <1>7, <1>9, <1>10, OtherGained
<1>12. Drafts' /\ Turns' /\ Knowing' /\ ConnectedTakeTurns'
  BY <1>7, <1>11, OffDocument DEF Inv
<1>13. Chats'
  <2>1. view'[p] = v /\ \A q \in Peer : q # p => view'[q] = view[q]
    BY <1>1, <1>11, ChangesAre
  <2>2. /\ Presented(p)' = Presented(p) \cup {e}
        /\ \A q \in Peer : q # p => Presented(q)' = Presented(q)
    BY <1>1, <1>11, OtherPresents
  <2>3. ASSUME NEW q \in Peer, Chatting(view[q], Presented(q))
        PROVE  Chatting(view'[q], Presented(q)')
    <3>1. CASE q = p
      <4>1. \A f \in Presented(p) : f.body.id = f.id /\ f.id # e.id
        <5>1. \A f \in log[p] : f.body.id = f.id
          BY <1>1, <1>2 DEF Logs, Named
        <5>2. QED
          BY <1>3, <5>1 DEF Presented
      <4>2. Chatting(v, Presented(p) \cup {e})
        BY <1>1, <1>2, <1>5, <1>7, <2>3, <3>1, <4>1, ChatsGain
      <4>3. view'[q] = v /\ Presented(q)' = Presented(p) \cup {e}
        BY <2>1, <2>2, <3>1
      <4>4. QED
        BY <4>2, <4>3 DEF Chatting
    <3>2. CASE q # p
      BY <2>1, <2>2, <2>3, <3>2
    <3>3. QED
      BY <3>1, <3>2
  <2>4. QED
    BY <1>1, <1>11, <2>3, ChatsAfter
<1>14. QED
  BY <1>11, <1>12, <1>13 DEF Inv

(* An event of the document that changes nothing in it.                      *)
LEMMA NothingGained ==
  ASSUME Inv, NEW p \in Peer, NEW e, Gains(p, e), e.kind \in {"revision", "lease", "release"},
         NEW used \in BOOLEAN,
         Materialized(view[p], doc[p], e) = [view |-> view[p], doc |-> doc[p], used |-> used],
         ~used => e.kind # "lease",
         used => p \in past.failed \/ (e.kind = "lease" /\ ~PublishedWhole)
  PROVE  Inv'
<1>1. Typed /\ Logs /\ Drafts /\ Turns /\ Knowing /\ ConnectedTakeTurns
  BY DEF Inv
<1>2. PICK v \in Views : v = view[p]
  BY <1>1 DEF Typed
<1>3. PICK d \in Documents : d = doc[p]
  BY <1>1 DEF Typed
<1>4. Materializes(p, e, v, d, used)
  BY <1>2, <1>3 DEF Materializes
<1>5. /\ Stores(p, e) /\ Changes(p, e, v, d)
      /\ Typed' /\ Logs' /\ Works' /\ Lists' /\ Converging' /\ UNCHANGED <<topic, issued, editor>>
      /\ past'.failed = past.failed /\ (~used => e \in past'.unused[p]) /\ Chats'
      /\ Drafts' /\ Knowing' => Durable'
  BY <1>2, <1>4, OtherGained
<1>6. PublishedWhole' => PublishedWhole
  BY <1>1, <1>5, ChangesAre
<1>7. \E a \in Peer : e \in log[a]
  BY <1>1, GainedEvent
<1>8. Drafts'
  <2>1. \A q \in Peer : editor'[q] \in {None, editor[q]}
    BY <1>5
  <2>2. e.kind = "revision" => p \in past'.failed \/ e \in past'.unused[p]
    BY <1>5
  <2>3. QED
    BY <1>1, <1>2, <1>3, <1>5, <1>7, <2>1, <2>2, OffRevisions
<1>9. Turns' /\ Knowing' /\ ConnectedTakeTurns'
  <2>1. e.kind \in {"lease", "release"} =>
           /\ \E a \in Peer : e \in log[a]
           /\ \/ p \in past'.failed \/ ~PublishedWhole'
              \/ e.kind = "release" /\ e \in past'.unused[p]
    BY <1>5, <1>6, <1>7
  <2>2. QED
    BY <1>1, <1>2, <1>3, <1>5, <2>1, OffLeases
<1>10. QED
  BY <1>5, <1>8, <1>9 DEF Inv

LEMMA RevisionTaken ==
  ASSUME Inv, NEW p \in Peer, NEW e, Gains(p, e), e.kind = "revision"
  PROVE  Inv'
<1>1. /\ Typed /\ Logs /\ Drafts /\ Turns /\ Knowing /\ ConnectedTakeTurns
      /\ view[p] \in Views /\ doc[p] \in Documents
  BY DEF Inv, Typed
<1>2. e \in Events /\ Named(e) /\ e.body.id = e.id /\ e \notin past.unused[p] /\ e.id \in Ids
      /\ e \notin log[p] /\ \E q \in Peer : e \in log[q]
  BY <1>1, GainedEvent DEF Named
<1>3. PICK r \in Revisions : r = e.body
  BY <1>2 DEF Events, Made
<1>4. Materialized(view[p], doc[p], e) = OnRevision(view[p], doc[p], r)
  BY <1>3 DEF Materialized
<1>5. CASE ~HasParent(doc[p], r)
  <2>1. PICK used \in BOOLEAN : used = FALSE
    OBVIOUS
  <2>2. Materialized(view[p], doc[p], e) = [view |-> view[p], doc |-> doc[p], used |-> used]
    BY <1>4, <1>5, <2>1 DEF OnRevision, NoEffect
  <2>3. QED
    BY <2>1, <2>2, NothingGained
<1>6. CASE HasParent(doc[p], r) /\ HasRevision(doc[p], r.id)
  <2>1. PICK used \in BOOLEAN : used = TRUE
    OBVIOUS
  <2>2. Materialized(view[p], doc[p], e) = [view |-> view[p], doc |-> doc[p], used |-> used]
    BY <1>4, <1>6, <2>1 DEF OnRevision, Effect
  <2>3. p \in past.failed
    <3>1. ASSUME p \notin past.failed PROVE FALSE
      <4>1. PICK s \in doc[p].revisions : s.id = e.id
        BY <1>2, <1>3, <1>6 DEF HasRevision
      <4>2. s \in {f.body : f \in {g \in Presented(p) : g.kind = "revision"}}
        BY <1>1, <3>1, <4>1 DEF Drafts, Loads
      <4>3. PICK f \in log[p] : f.kind = "revision" /\ s = f.body
        BY <4>2 DEF Presented
      <4>4. f.id = e.id
        BY <1>1, <4>1, <4>3 DEF Logs, Named
      <4>5. QED
        BY <1>1, <1>2, <4>3, <4>4 DEF Logs
    <3>2. QED
      BY <3>1
  <2>4. QED
    BY <2>1, <2>2, <2>3, NothingGained
<1>7. CASE HasParent(doc[p], r) /\ ~HasRevision(doc[p], r.id)
  <2>1. PICK list \in Seq(Revisions) : list = Append(view[p].revisions, r)
    BY <1>1, ViewParts, Appended
  <2>2. PICK v : v = [view[p] EXCEPT !.revisions = list]
    OBVIOUS
  <2>3. /\ v \in Views /\ v.revisions = list /\ v.places = view[p].places
        /\ v.leases = view[p].leases
    BY <1>1, <2>2, ViewWithRevisions
  <2>4. PICK d \in Documents : d = Inserted(doc[p], r) /\ d.leases = doc[p].leases
    BY <1>1, DocumentWithRevision
  <2>5. Materialized(view[p], doc[p], e) = Effect(v, d)
    BY <1>4, <1>7, <2>1, <2>2, <2>4 DEF OnRevision
  <2>6. PICK used \in BOOLEAN : used = TRUE
    OBVIOUS
  <2>7. Materializes(p, e, v, d, used)
    BY <2>3, <2>4, <2>5, <2>6 DEF Materializes, Effect
  <2>8. /\ Stores(p, e) /\ Changes(p, e, v, d)
        /\ Typed' /\ Logs' /\ Works' /\ Lists' /\ Converging' /\ UNCHANGED <<topic, issued, editor>>
        /\ past'.failed = past.failed /\ past'.unused = past.unused
        /\ Chats' /\ (Drafts' /\ Knowing' => Durable')
    BY <2>3, <2>6, <2>7, OtherGained
  <2>9. Turns' /\ Knowing' /\ ConnectedTakeTurns'
    BY <1>1, <2>3, <2>4, <2>8, OffLeases
  <2>10. Drafts'
    <3>1. r.parent # None => r.parent[1] < r.id
      BY <1>1, <1>2, <1>3 DEF Drafts, Dated
    <3>2. r.id \in Ids' /\ issued' \in Nat /\ issued <= issued'
      BY <1>1, <1>2, <1>3, <2>8 DEF Ids, Typed
    <3>3. /\ running' = running /\ p \in running /\ past.failed \subseteq past'.failed
          /\ doc' = [doc EXCEPT ![p] = Inserted(@, r)]
      BY <2>4, <2>8 DEF Changes
    <3>4. /\ \A q \in Peer : q # p =>
               row'[q].revisions = row[q].revisions /\ view'[q].revisions = view[q].revisions
          /\ \A q \in Peer : \A f \in log[q] : f \in past'.unused[q] <=> f \in past.unused[q]
      BY <1>1, <2>8, ChangesAre
    <3>5. \A q \in Peer : editor'[q] \in {None, editor[q]}
      BY <2>8
    <3>6. view'[p] = v /\ (row'[p] = v \/ row'[p] = row[p])
      BY <1>1, <2>8, ChangesAre
    <3>7. Shares(p, e)
      BY <1>2, <1>3, <2>1, <2>3, <2>8, <3>6 DEF Shares, Stores
    <3>8. \E f \in Events : f.body = r /\ Shares(p, f)
      BY <1>2, <1>3, <3>7
    <3>9. QED
      BY <1>1, <1>7, <3>1, <3>2, <3>3, <3>4, <3>5, <3>8, DraftsAdded
  <2>11. QED
    BY <2>8, <2>9, <2>10 DEF Inv
<1>8. QED
  BY <1>5, <1>6, <1>7

(* Another's lease.                                                          *)
LEMMA LeaseTaken ==
  ASSUME Inv, NEW p \in Peer, NEW e, Gains(p, e), e.kind = "lease"
  PROVE  Inv'
<1>1. /\ Typed /\ Logs /\ Drafts /\ Turns /\ Knowing /\ ConnectedTakeTurns
      /\ view[p] \in Views /\ doc[p] \in Documents
  BY DEF Inv, Typed
<1>2. e \in Events /\ e \notin log[p] /\ \E a \in Peer : e \in log[a]
  BY <1>1, GainedEvent
<1>3. PICK lease \in Leases : lease = e.body
  BY <1>2 DEF Events, Made
<1>4. PICK l \in Nat : l = e.id
  BY <1>2 DEF Events, Made
<1>5. Materialized(view[p], doc[p], e) = OnLease(view[p], doc[p], l, lease)
  BY <1>3, <1>4 DEF Materialized
<1>6. \A f \in log[p] : f.id # e.id
  BY <1>1, <1>2 DEF Logs
<1>7. CASE Has(view[p].leases, l)
  <2>1. PICK used \in BOOLEAN : used = TRUE
    OBVIOUS
  <2>2. Materialized(view[p], doc[p], e) = [view |-> view[p], doc |-> doc[p], used |-> used]
    BY <1>5, <1>7, <2>1 DEF OnLease, Effect
  <2>3. p \in past.failed \/ ~PublishedWhole
    <3>1. ASSUME p \notin past.failed, PublishedWhole PROVE FALSE
      <4>1. Knows(p)
        BY <1>1, <3>1, KnowingIs
      <4>2. l \in DOMAIN doc[p].leases
        BY <1>7, <4>1 DEF Knows, Has
      <4>3. \E f \in log[p] : f.kind = "lease" /\ f.id = l
        BY <4>1, <4>2, KnowsIds DEF Presented
      <4>4. QED
        BY <1>4, <1>6, <4>3
    <3>2. QED
      BY <3>1
  <2>4. QED
    BY <2>1, <2>2, <2>3, NothingGained
<1>8. CASE ~Has(view[p].leases, l)
  <2>1. PICK s \in Tables(Leases) : s = view[p].leases
    BY <1>1, ViewParts
  <2>2. PICK t \in Tables(Leases) : t = doc[p].leases
    BY <1>1 DEF Documents
  <2>3. PICK s1 \in Tables(Leases) : s1 = Put(s, l, lease)
    BY PutFacts
  <2>4. PICK t1 \in Tables(Leases) : t1 = Put(t, l, lease)
    BY PutFacts
  <2>5. PICK v : v = [view[p] EXCEPT !.leases = s1]
    OBVIOUS
  <2>6. v \in Views /\ v.leases = s1 /\ v.places = view[p].places
        /\ v.revisions = view[p].revisions
    BY <1>1, <2>5, ViewWithLeases
  <2>7. PICK d : d = [doc[p] EXCEPT !.leases = t1]
    OBVIOUS
  <2>8. d \in Documents /\ d.leases = t1 /\ d.revisions = doc[p].revisions
    BY <1>1, <2>7, DocumentWithLeases
  <2>9. PICK used \in BOOLEAN : used = TRUE
    OBVIOUS
  <2>10. Materializes(p, e, v, d, used)
    <3>1. OnLease(view[p], doc[p], l, lease) = Effect(v, d)
      BY <1>8, <2>1, <2>2, <2>3, <2>4, <2>5, <2>7 DEF OnLease
    <3>2. QED
      BY <1>5, <2>6, <2>8, <2>9, <3>1 DEF Materializes, Effect
  <2>11. /\ Stores(p, e) /\ Changes(p, e, v, d)
         /\ Typed' /\ Logs' /\ Works' /\ Lists' /\ Converging' /\ UNCHANGED <<topic, issued, editor>>
         /\ past'.failed = past.failed /\ past'.unused = past.unused
         /\ Chats' /\ (Drafts' /\ Knowing' => Durable')
    BY <2>6, <2>9, <2>10, OtherGained
  <2>12. Drafts'
    <3>1. \A q \in Peer : editor'[q] \in {None, editor[q]}
      BY <2>11
    <3>2. QED
      BY <1>1, <2>6, <2>8, <2>11, <3>1, OffRevisions
  <2>13. /\ view'[p] = v /\ doc'[p] = d /\ (row'[p] = v \/ row'[p] = row[p])
         /\ \A q \in Peer : q # p => /\ view'[q] = view[q] /\ doc'[q] = doc[q]
                                     /\ row'[q] = row[q] /\ log'[q] = log[q]
         /\ PublishedWhole' => PublishedWhole
    BY <1>1, <2>11, ChangesAre
  <2>14. Turns'
    <3>1. ASSUME NEW q \in Peer, NEW u \in TablesOf(q)'
          PROVE  \/ u \in TablesOf(q)
                 \/ q = p /\ \E w \in TablesOf(p) : u = Put(w, e.id, e.body)
      <4>1. CASE q # p
        BY <2>13, <3>1, <4>1 DEF TablesOf
      <4>2. CASE q = p
        <5>1. u \in {s1, t1, row[p].leases}
          BY <2>6, <2>8, <2>13, <3>1, <4>2 DEF TablesOf
        <5>2. s \in TablesOf(p) /\ t \in TablesOf(p) /\ row[p].leases \in TablesOf(p)
          BY <2>1, <2>2 DEF TablesOf
        <5>3. QED
          BY <1>3, <1>4, <2>3, <2>4, <4>2, <5>1, <5>2
      <4>3. QED
        BY <4>1, <4>2
    <3>2. QED
      BY <1>1, <2>11, <2>13, <3>1, TurnsTook
  <2>15. PICK grant \in Grants : GrantEvent(grant, e)
    <3>1. PICK grant \in Grants : Grantings(grant)
      BY <1>1 DEF Turns
    <3>2. GrantEvent(grant, e)
      BY <1>2, <3>1 DEF Grantings
    <3>3. QED
      BY <3>2
  <2>16. lease.holder = e.sender /\ lease.till = lease.from + Duration
    BY <1>3, <2>15 DEF GrantEvent
  <2>17. Knowing'
    <3>1. /\ Presented(p)' = Presented(p) \cup {e}
          /\ \A q \in Peer : q # p => Presented(q)' = Presented(q)
      BY <1>1, <2>11, OtherPresents
    <3>2. ASSUME Knows(p) PROVE Knows(p)'
      <4>1. /\ doc'[p].leases = Put(doc[p].leases, e.id, e.body)
            /\ view'[p].leases = Put(view[p].leases, e.id, e.body)
        BY <1>3, <1>4, <2>1, <2>2, <2>3, <2>4, <2>6, <2>8, <2>13
      <4>2. \A f \in Presented(p) : f.id # e.id
        BY <1>6 DEF Presented
      <4>3. e.body.till = e.body.from + Duration
        BY <1>3, <2>16
      <4>4. QED
        BY <1>1, <1>2, <3>1, <3>2, <4>1, <4>2, <4>3, KnowsPut
    <3>3. past.failed \subseteq past'.failed
      BY <2>11
    <3>4. QED
      BY <1>1, <2>13, <3>1, <3>2, <3>3, KnowingLearns
  <2>18. ConnectedTakeTurns'
    <3>1. past.failed \subseteq past'.failed /\ (past.apart => past'.apart) /\ skew' = skew
      BY <2>11 DEF Changes
    <3>2. Together' => Together
      BY <2>13, <3>1, TogetherBefore
    <3>3. ASSUME NEW q \in Peer, Holds(q)' PROVE Holds(q)
      <4>1. Clock(q)' = Clock(q)
        BY <2>11 DEF Stores, Clock
      <4>2. CASE q = p
        <5>1. lease.holder # p
          BY <1>1, <2>11, <2>16, TakenEvent
        <5>2. PICK time : time = Clock(p)
          OBVIOUS
        <5>3. HoldsIn(p, Put(t, l, lease), time)
          BY <2>4, <2>8, <2>13, <3>3, <4>1, <4>2, <5>2, HoldsIs
        <5>4. HoldsIn(p, t, time)
          BY <5>1, <5>3, HoldsPut
        <5>5. QED
          BY <2>2, <4>2, <5>2, <5>4, HoldsIs
      <4>3. CASE q # p
        BY <2>13, <3>3, <4>1, <4>3, HoldsIs
      <4>4. QED
        BY <4>2, <4>3
    <3>4. QED
      BY <1>1, <3>2, <3>3, TurnsKept
  <2>19. QED
    BY <2>11, <2>12, <2>14, <2>17, <2>18 DEF Inv
<1>9. QED
  BY <1>7, <1>8

(* Another's release.                                                        *)
LEMMA ReleaseTaken ==
  ASSUME Inv, NEW p \in Peer, NEW e, Gains(p, e), e.kind = "release"
  PROVE  Inv'
<1>1. /\ Typed /\ Logs /\ Drafts /\ Turns /\ Knowing /\ ConnectedTakeTurns
      /\ view[p] \in Views /\ doc[p] \in Documents
  BY DEF Inv, Typed
<1>2. e \in Events /\ e \notin log[p] /\ e \notin past.unused[p] /\ \E a \in Peer : e \in log[a]
  BY <1>1, GainedEvent
<1>3. e.body \in Releases
  BY <1>2 DEF Events, Made
<1>4. PICK l \in Nat, time \in Nat : l = e.body.lease /\ time = e.body.time
  BY <1>3 DEF Releases
<1>5. PICK s \in Tables(Leases) : s = view[p].leases
  BY <1>1, ViewParts
<1>6. PICK t \in Tables(Leases) : t = doc[p].leases
  BY <1>1 DEF Documents
<1>7. Materialized(view[p], doc[p], e) = OnRelease(view[p], doc[p], l, time)
  BY <1>4 DEF Materialized
<1>8. CASE l \notin DOMAIN t
  <2>1. PICK used \in BOOLEAN : used = FALSE
    OBVIOUS
  <2>2. Materialized(view[p], doc[p], e) = [view |-> view[p], doc |-> doc[p], used |-> used]
    BY <1>6, <1>7, <1>8, <2>1 DEF OnRelease, NoEffect, Has
  <2>3. QED
    BY <2>1, <2>2, NothingGained
<1>9. CASE l \in DOMAIN t
  <2>1. t[l] \in Leases
    BY <1>9, TableFacts
  <2>2. t[l].till \in Nat /\ t[l].from \in Nat
    BY <2>1 DEF Leases
  <2>3. PICK n \in Nat : n = Least(t[l].till, time) /\ n <= time /\ n <= t[l].till
    BY <2>2 DEF Least
  <2>4. PICK t1 \in Tables(Leases) : t1 = Released(t, l, n)
    BY <1>9, ReleasedFacts
  <2>5. PICK s1 \in Tables(Leases) : s1 = IF l \in DOMAIN s THEN Released(s, l, time) ELSE s
    BY ReleasedFacts
  <2>6. PICK v : v = [view[p] EXCEPT !.leases = s1]
    OBVIOUS
  <2>7. v \in Views /\ v.leases = s1 /\ v.places = view[p].places
        /\ v.revisions = view[p].revisions
    BY <1>1, <2>6, ViewWithLeases
  <2>8. PICK d : d = [doc[p] EXCEPT !.leases = t1]
    OBVIOUS
  <2>9. d \in Documents /\ d.leases = t1 /\ d.revisions = doc[p].revisions
    BY <1>1, <2>8, DocumentWithLeases
  <2>10. PICK used \in BOOLEAN : used = TRUE
    OBVIOUS
  <2>11. Materializes(p, e, v, d, used)
    <3>1. v = [view[p] EXCEPT !.leases = IF Has(@, l) THEN Released(@, l, time) ELSE @]
      BY <1>5, <2>5, <2>6 DEF Has
    <3>2. d = [doc[p] EXCEPT !.leases = Released(@, l, Least(@[l].till, time))]
      BY <1>6, <2>3, <2>4, <2>8
    <3>3. OnRelease(view[p], doc[p], l, time) = Effect(v, d)
      BY <1>6, <1>9, <3>1, <3>2 DEF OnRelease, Has
    <3>4. QED
      BY <1>7, <2>7, <2>9, <2>10, <3>3 DEF Materializes, Effect
  <2>12. /\ Stores(p, e) /\ Changes(p, e, v, d)
         /\ Typed' /\ Logs' /\ Works' /\ Lists' /\ Converging' /\ UNCHANGED <<topic, issued, editor>>
         /\ past'.failed = past.failed /\ past'.unused = past.unused
         /\ Chats' /\ (Drafts' /\ Knowing' => Durable')
    BY <2>7, <2>10, <2>11, OtherGained
  <2>13. Drafts'
    <3>1. \A q \in Peer : editor'[q] \in {None, editor[q]}
      BY <2>12
    <3>2. QED
      BY <1>1, <2>7, <2>9, <2>12, <3>1, OffRevisions
  <2>14. /\ view'[p] = v /\ doc'[p] = d /\ (row'[p] = v \/ row'[p] = row[p])
         /\ \A q \in Peer : q # p => /\ view'[q] = view[q] /\ doc'[q] = doc[q]
                                     /\ row'[q] = row[q] /\ log'[q] = log[q]
         /\ PublishedWhole' => PublishedWhole
    BY <1>1, <2>12, ChangesAre
  <2>15. Turns'
    <3>1. ASSUME NEW q \in Peer, NEW u \in TablesOf(q)'
          PROVE  \/ u \in TablesOf(q)
                 \/ /\ q = p
                    /\ \E w \in TablesOf(p) : \E m \in Nat :
                         /\ e.body.lease \in DOMAIN w /\ m <= e.body.time
                         /\ u = Released(w, e.body.lease, m)
      <4>1. CASE q # p
        BY <2>14, <3>1, <4>1 DEF TablesOf
      <4>2. CASE q = p
        <5>1. u \in {s1, t1, row[p].leases}
          BY <2>7, <2>9, <2>14, <3>1, <4>2 DEF TablesOf
        <5>2. s \in TablesOf(p) /\ t \in TablesOf(p) /\ row[p].leases \in TablesOf(p)
          BY <1>5, <1>6 DEF TablesOf
        <5>3. CASE u = t1
          BY <1>4, <1>9, <2>3, <2>4, <4>2, <5>2, <5>3
        <5>4. CASE u = s1 /\ l \in DOMAIN s
          BY <1>4, <2>5, <4>2, <5>2, <5>4
        <5>5. CASE u = s1 /\ l \notin DOMAIN s
          BY <2>5, <4>2, <5>2, <5>5
        <5>6. CASE u = row[p].leases
          BY <4>2, <5>2, <5>6
        <5>7. QED
          BY <5>1, <5>3, <5>4, <5>5, <5>6
      <4>3. QED
        BY <4>1, <4>2
    <3>2. QED
      BY <1>1, <2>12, <2>14, <3>1, TurnsEnded
  <2>16. time < t[l].from + Duration
    <3>1. PICK grant \in Grants : Grantings(grant)
      BY <1>1 DEF Turns
    <3>2. GrantEvent(grant, e)
      BY <1>2, <3>1 DEF Grantings
    <3>3. t \in TablesOf(p)
      BY <1>6 DEF TablesOf
    <3>4. Granted(grant, t)
      BY <3>1, <3>3 DEF Grantings
    <3>5. t[l].from = grant[l].from
      BY <1>9, <3>4 DEF Granted
    <3>6. time < grant[l].from + Duration
      BY <1>4, <3>2 DEF GrantEvent
    <3>7. QED
      BY <3>5, <3>6
  <2>17. Knowing'
    <3>1. /\ Presented(p)' = Presented(p) \cup {e}
          /\ \A q \in Peer : q # p => Presented(q)' = Presented(q)
      BY <1>1, <2>12, OtherPresents
    <3>2. ASSUME PublishedWhole', Knows(p) PROVE Knows(p)'
      <4>1. \A f \in Presented(p) : f.kind = "release" => f.body.lease # l
        <5>1. ASSUME NEW f \in log[p], f.kind = "release", f.body.lease = l PROVE FALSE
          <6>1. PICK a \in Peer : e \in log[a]
            BY <1>2
          <6>2. PublishedWhole
            BY <2>14, <3>2
          <6>3. f = e
            BY <1>1, <1>4, <5>1, <6>1, <6>2, SMTT(30) DEF Turns
          <6>4. QED
            BY <1>2, <5>1, <6>3
        <5>2. QED
          BY <5>1 DEF Presented
      <4>2. doc'[p].leases = Released(doc[p].leases, l, Least(doc[p].leases[l].till, e.body.time))
        BY <1>4, <1>6, <2>3, <2>4, <2>9, <2>14
      <4>3. l \in DOMAIN view[p].leases =>
              view'[p].leases = Released(view[p].leases, l, e.body.time)
        BY <1>4, <1>5, <2>5, <2>7, <2>14
      <4>4. l \in DOMAIN doc[p].leases /\ e.body.lease = l
            /\ e.body.time < doc[p].leases[l].from + Duration
        BY <1>4, <1>6, <1>9, <2>16
      <4>5. QED
        BY <1>1, <1>2, <3>1, <3>2, <4>1, <4>2, <4>3, <4>4, KnowsReleased
    <3>3. past.failed \subseteq past'.failed
      BY <2>12
    <3>4. QED
      BY <1>1, <2>14, <3>1, <3>2, <3>3, KnowingLearns
  <2>18. ConnectedTakeTurns'
    <3>1. past.failed \subseteq past'.failed /\ (past.apart => past'.apart) /\ skew' = skew
      BY <2>12 DEF Changes
    <3>2. Together' => Together
      BY <2>14, <3>1, TogetherBefore
    <3>3. ASSUME NEW q \in Peer, Holds(q)' PROVE Holds(q)
      <4>1. Clock(q)' = Clock(q)
        BY <2>12 DEF Stores, Clock
      <4>2. CASE q = p
        <5>1. PICK at \in Nat : at = Clock(p)
          BY <1>1, ClockIs
        <5>2. HoldsIn(p, Released(t, l, n), at)
          BY <2>4, <2>9, <2>14, <3>3, <4>1, <4>2, <5>1, HoldsIs
        <5>3. HoldsIn(p, t, at)
          BY <1>9, <2>3, <5>2, HoldsReleased
        <5>4. QED
          BY <1>6, <4>2, <5>1, <5>3, HoldsIs
      <4>3. CASE q # p
        BY <2>14, <3>3, <4>1, <4>3, HoldsIs
      <4>4. QED
        BY <4>2, <4>3
    <3>4. QED
      BY <1>1, <3>2, <3>3, TurnsKept
  <2>19. QED
    BY <2>12, <2>13, <2>15, <2>17, <2>18 DEF Inv
<1>10. QED
  BY <1>8, <1>9

LEMMA GainsKeeps ==
  ASSUME Inv, NEW p \in Peer, NEW e, Gains(p, e)
  PROVE  Inv'
<1>1. e.kind \in Kinds
  BY GainedEvent DEF Inv
<1>2. QED
  BY <1>1, PlaceTaken, DeletionTaken, MessageTaken, RevisionTaken, LeaseTaken, ReleaseTaken
  DEF Kinds

(* A device dies while it takes an event.                                    *)
LEMMA DiesKeeps ==
  ASSUME Inv, NEW p \in Peer, NEW e, NEW rest, Arrives(p, e, rest), DiesTaking(p, e)
  PROVE  Inv'
<1>1. /\ Typed /\ Logs /\ Works /\ Drafts /\ Turns /\ past \in Histories
      /\ issued \in 0..MaxEvents /\ issued \in Nat
  BY DEF Inv, Typed
<1>2. /\ p \in running /\ e \notin log[p] /\ (\E q \in Peer : e \in log[q])
      /\ log' = [log EXCEPT ![p] = @ \cup {e}]
      /\ UNCHANGED <<topic, skew, now, issued>>
  BY DEF Arrives
<1>3. e \in Events
  BY <1>1, <1>2 DEF Typed
<1>4. PICK h : h = Faulty(past)
  OBVIOUS
<1>5. past.faults < MaxFaults /\ work' = [work EXCEPT ![p] = {}] /\ Reloads(p, {e}, h)
  BY <1>4 DEF DiesTaking
<1>6. /\ h \in Histories /\ h.failed = past.failed /\ h.unused = past.unused
      /\ h.unsaved = past.unsaved /\ h.refused = past.refused
      /\ h.apart = past.apart /\ h.faults # 0
  BY <1>1, <1>4, <1>5, FaultyIs
<1>7. Restarts(p, {e}, h)
  <2>1. {e} \subseteq Events /\ {e} \cap log[p] = {}
    BY <1>2, <1>3
  <2>2. issued' \in 0..MaxEvents /\ issued <= issued'
    BY <1>1, <1>2
  <2>3. QED
    BY <1>2, <1>5, <1>6, <2>1, <2>2 DEF Restarts
<1>8. Logs'
  <2>1. /\ \A q \in Peer : past'.unused[q] \subseteq log'[q]
        /\ \A q \in Peer : editor'[q] # None => topic # "chats"
    BY <1>1, <1>7, RestartLogs
  <2>2. QED
    BY <1>1, <1>2, <2>1, LogsTaken
<1>9. Turns'
  BY <1>1, <1>2, <1>7, RestartTurns
<1>10. \E c \in Nat : \A f \in {e} : f.kind = "revision" => Dated(f.body, c)'
  <2>1. PICK b \in Nat : \A q \in Peer : \A f \in log[q] : f.kind = "revision" => Dated(f.body, b)
    BY <1>1 DEF Drafts
  <2>2. e.kind = "revision" => Dated(e.body, b)
    BY <1>2, <2>1
  <2>3. e.kind = "revision" => Dated(e.body, b)'
    BY <1>2, <2>2 DEF Dated, Ids
  <2>4. QED
    BY <2>3
<1>11. QED
  BY <1>7, <1>8, <1>9, <1>10, RestartsKeep

(* An event of a batch of events that are new to a device.                   *)
LEMMA ReceiveKeeps ==
  ASSUME Inv, NEW p \in running, NEW batch, Receive(p, batch),
         \A f \in batch : f \notin log[p] /\ \E q \in Peer : f \in log[q]
  PROVE  Inv'
<1>1. PICK e \in batch :
        /\ log' = [log EXCEPT ![p] = @ \cup {e}]
        /\ Takes(p, e, batch \ {e}) \/ Refuses(p, e) \/ DiesTaking(p, e)
        /\ UNCHANGED <<topic, skew, now, issued>>
  BY DEF Receive
<1>2. p \in Peer
  BY DEF Inv, Typed
<1>3. Arrives(p, e, batch \ {e})
  BY <1>1 DEF Arrives
<1>4. CASE Takes(p, e, batch \ {e}) \/ Refuses(p, e)
  <2>1. Gains(p, e)
    BY <1>3, <1>4 DEF Gains
  <2>2. QED
    BY <1>2, <2>1, GainsKeeps
<1>5. CASE DiesTaking(p, e)
  BY <1>2, <1>3, <1>5, DiesKeeps
<1>6. QED
  BY <1>1, <1>4, <1>5

-----------------------------------------------------------------------------
(* Every step *)

LEMMA InvInit ==
  ASSUME Init
  PROVE  Inv
<1>1. /\ topic \in Topics /\ skew \in [Peer -> Nat] /\ now = 0 /\ issued = 0 /\ running = Peer
      /\ \A p \in Peer : /\ log[p] = {} /\ view[p] = Empty /\ row[p] = Empty /\ doc[p] = NoDocument
                         /\ work[p] = {} /\ editor[p] = None
                         /\ past.unused[p] = {} /\ past.unsaved[p] = {}
      /\ past.failed = {} /\ past.refused = {} /\ past.faults = 0
  BY ConstantsAssumption DEF Init
<1>2. Ids = {}
  BY <1>1 DEF Ids
<1>3. /\ <<>> \in Tables(Places) /\ <<>> \in Tables(Leases) /\ DOMAIN <<>> = {}
      /\ <<>> \in Seq(Messages) /\ <<>> \in Seq(Revisions) /\ ToSet(<<>>) = {}
  <2>1. DOMAIN <<>> = {}
    BY EmptyTable
  <2>2. ToSet(<<>>) = {}
    BY <2>1 DEF ToSet
  <2>3. <<>> \in Seq(Messages) /\ <<>> \in Seq(Revisions)
    OBVIOUS
  <2>4. QED
    BY <2>1, <2>2, <2>3, EmptyTable
<1>4. /\ Empty \in Views /\ Empty.places = <<>> /\ Empty.chats = <<>>
      /\ Empty.revisions = <<>> /\ Empty.leases = <<>>
  BY <1>3 DEF Empty, NoPlaces, Views
<1>5. /\ NoDocument \in Documents /\ NoDocument.revisions = {} /\ NoDocument.leases = <<>>
  BY <1>3 DEF NoDocument, Documents
<1>6. Typed
  <2>1. /\ log \in [Peer -> SUBSET Events] /\ view \in [Peer -> Views] /\ row \in [Peer -> Views]
        /\ doc \in [Peer -> Documents] /\ editor \in [Peer -> {None} \cup Editors]
        /\ work \in [Peer -> SUBSET Events]
    BY <1>4, <1>5 DEF Init
  <2>2. now \in 0..MaxTime /\ issued \in 0..MaxEvents
    BY <1>1, ConstantsAssumption
  <2>3. past \in Histories
    <3>1. 0 \in 0..MaxFaults
      BY ConstantsAssumption
    <3>2. QED
      BY <3>1 DEF Init, Histories
  <2>4. QED
    BY <1>1, <2>1, <2>2, <2>3 DEF Typed
<1>7. Logs
  BY <1>1 DEF Logs
<1>8. Lists
  BY <1>1, <1>3, <1>4 DEF Lists, Listed
<1>9. Converging
  BY <1>2 DEF Converging
<1>10. Chats
  <2>1. IsInjective(<<>>)
    BY <1>3 DEF IsInjective
  <2>2. Chatting(Empty, {})
    BY <1>3, <1>4, <2>1 DEF Chatting
  <2>3. \A p \in Peer : Presented(p) = {}
    BY <1>1 DEF Presented
  <2>4. QED
    BY <1>1, <2>2, <2>3 DEF Chats
<1>11. Drafts
  <2>1. \A p \in Peer : DatedBy(0, p)
    BY <1>1, <1>3, <1>4, <1>5 DEF DatedBy
  <2>2. ASSUME NEW p \in Peer PROVE Drafted(p)
    <3>1. Parented(doc[p])
      BY <1>1, <1>5 DEF Parented
    <3>2. Loadable(view[p])
      BY <1>1, <1>3, <1>4 DEF Loadable
    <3>3. Applied(p) = {}
      BY <1>1, AppliedAre
    <3>4. QED
      BY <1>1, <1>3, <1>4, <1>5, <3>1, <3>2, <3>3 DEF Drafted, Keeps
  <2>3. QED
    BY <2>1, <2>2, DraftsAre
<1>12. \A p \in Peer : TablesOf(p) = {<<>>}
  BY <1>1, <1>4, <1>5 DEF TablesOf
<1>13. Turns
  <2>1. PICK grant : grant = [l \in Nat |-> [holder |-> Owner, from |-> 0]]
    OBVIOUS
  <2>2. grant \in Grants
    BY <2>1, ConstantsAssumption DEF Grants
  <2>3. Grantings(grant)
    BY <1>1, <1>3, <1>12 DEF Grantings, Granted
  <2>4. QED
    BY <1>1, <2>2, <2>3 DEF Turns
<1>14. Knowing
  <2>1. Known({}, <<>>) /\ \A p \in Peer : Presented(p) = {}
    BY <1>1, <1>3 DEF Known, Presented
  <2>2. QED
    BY <1>1, <1>4, <1>5, <2>1 DEF Knowing
<1>15. Durable
  <2>1. \A p \in Peer : Safe(p) = Presented(p) /\ row[p] = view[p]
    BY <1>1 DEF Safe
  <2>2. ASSUME NEW p \in Peer
        PROVE  /\ topic = "chats" => Chatting(row[p], Safe(p))
               /\ \A x \in Ids : Orderly(x) => Fits(row[p].places, x, Edits(x) \cap Safe(p))
               /\ p \notin past.failed => Loads(row[p], Safe(p))
               /\ PublishedWhole => Known(Safe(p), row[p].leases)
    <3>1. Safe(p) = Presented(p) /\ row[p] = view[p]
      BY <2>1
    <3>2. topic = "chats" => Chatting(row[p], Safe(p))
      BY <1>10, <3>1 DEF Chats
    <3>3. p \notin past.failed => Loads(row[p], Safe(p))
      BY <1>11, <3>1 DEF Drafts
    <3>4. PublishedWhole => Known(Safe(p), row[p].leases)
      BY <1>1, <1>14, <3>1 DEF Knowing
    <3>5. QED
      BY <1>2, <3>2, <3>3, <3>4
  <2>3. QED
    BY <2>1, <2>2 DEF Durable
<1>16. Works
  BY <1>1 DEF Works
<1>17. ConnectedTakeTurns
  <2>1. \A p \in Peer : ~Holds(p)
    BY <1>1, <1>3, <1>5 DEF Holds, Active
  <2>2. QED
    BY <2>1 DEF ConnectedTakeTurns
<1>18. QED
  BY <1>6, <1>7, <1>8, <1>9, <1>10, <1>11, <1>13, <1>14, <1>15, <1>16,
     <1>17 DEF Inv

LEMMA InvNext ==
  ASSUME Inv, [Next]_vars
  PROVE  Inv'
<1>1. CASE UNCHANGED vars
  <2>1. /\ now' = now
        /\ UNCHANGED <<topic, skew, issued, log, view, doc, row, running, work, editor, past>>
    BY <1>1 DEF vars
  <2>2. now' \in 0..MaxTime /\ now <= now'
    BY <2>1, ConstantsAssumption DEF Inv, Typed
  <2>3. Quiet
    BY <2>1, <2>2 DEF Inv, Typed, Quiet
  <2>4. QED
    BY <2>3, QuietKeeps
<1>2. CASE Advance
  BY <1>2, AdvanceKeeps
<1>3. ASSUME NEW p \in Peer,
             \/ CreatePlace(p) \/ OpenEditor(p) \/ SaveDocument(p) \/ CloseEditor(p)
             \/ Persist(p) \/ Restart(p)
      PROVE  Inv'
  BY <1>3, CreatePlaceKeeps, OpenEditorKeeps, SaveDocumentKeeps, CloseEditorKeeps, PersistKeeps,
     RestartKeeps
<1>4. ASSUME NEW p \in Peer, NEW x \in 1..issued, UpdatePlace(p, x) \/ DeletePlace(p, x)
      PROVE  Inv'
  <2>1. x \in Ids
    BY <1>4 DEF Ids
  <2>2. CASE UpdatePlace(p, x)
    BY <2>1, <2>2, EditPlaceKeeps DEF UpdatePlace
  <2>3. CASE DeletePlace(p, x)
    BY <2>1, <2>3, EditPlaceKeeps DEF DeletePlace
  <2>4. QED
    BY <1>4, <2>2, <2>3
<1>5. ASSUME NEW p \in Peer, NEW chat \in Peer \cup {Everyone}, SendMessage(p, chat)
      PROVE  Inv'
  BY <1>5, SendMessageKeeps
<1>6. ASSUME NEW p \in Peer, Continue(p)
      PROVE  Inv'
  <2>1. p \in running /\ Receive(p, work[p])
    BY <1>6 DEF Continue
  <2>2. \A f \in work[p] : f \notin log[p] /\ \E q \in Peer : f \in log[q]
    BY DEF Inv, Works
  <2>3. QED
    BY <2>1, <2>2, ReceiveKeeps
<1>7. ASSUME NEW p \in Peer, NEW q \in Peer, Push(p, q)
      PROVE  Inv'
  <2>1. PICK e \in Presented(p) \ log[q] : Receive(q, {e})
    BY <1>7 DEF Push
  <2>2. q \in running
    BY <1>7 DEF Push, Meets, Idle
  <2>3. \A f \in {e} : f \notin log[q] /\ \E a \in Peer : f \in log[a]
    BY <2>1 DEF Presented
  <2>4. QED
    BY <2>1, <2>2, <2>3, ReceiveKeeps
<1>8. ASSUME NEW p \in Peer, NEW q \in Peer, Sync(p, q)
      PROVE  Inv'
  <2>1. q \in running /\ Receive(q, log[p] \ log[q])
    BY <1>8 DEF Sync, Meets, Idle
  <2>2. \A f \in log[p] \ log[q] : f \notin log[q] /\ \E a \in Peer : f \in log[a]
    OBVIOUS
  <2>3. QED
    BY <2>1, <2>2, ReceiveKeeps
<1>9. QED
  BY <1>1, <1>2, <1>3, <1>4, <1>5, <1>6, <1>7, <1>8 DEF Next

-----------------------------------------------------------------------------
(* What follows *)

LEMMA ViewsAreRight ==
  ASSUME Inv
  PROVE  ViewsSound
<1>1. Typed /\ Logs /\ Lists /\ Chats /\ Drafts /\ Turns
  BY DEF Inv
<1>2. issued \in 0..MaxEvents /\ now \in 0..MaxTime /\ running \subseteq Peer
  BY <1>1 DEF Typed
<1>3. ASSUME NEW p \in Peer, NEW e \in log[p] PROVE e.id \in Ids /\ e.sender \in Peer
  <2>1. e \in Events /\ Named(e)
    BY <1>1, <1>3 DEF Typed, Logs
  <2>2. QED
    BY <2>1 DEF Named, Events, Made
<1>4. ASSUME NEW p \in Peer, NEW v \in {view[p], row[p]}
      PROVE  /\ DOMAIN v.places \subseteq Ids /\ DOMAIN v.leases \subseteq Ids
             /\ \A x \in DOMAIN v.places : v.places[x].value.edit \in Ids /\ v.places[x].id = x
             /\ \A k \in DOMAIN v.chats : v.chats[k].chat \in Peer \cup {Everyone}
  <2>1. v \in Views
    BY <1>1, <1>4 DEF Typed
  <2>2. Listed(v.places)
    BY <1>1, <1>4 DEF Lists
  <2>3. DOMAIN v.leases \subseteq Ids
    <3>1. PICK grant \in Grants : Grantings(grant)
      BY <1>1 DEF Turns
    <3>2. PICK t \in TablesOf(p) : t = v.leases
      BY <1>4 DEF TablesOf
    <3>3. Granted(grant, t)
      BY <3>1 DEF Grantings
    <3>4. QED
      BY <3>2, <3>3 DEF Granted
  <2>4. \A k \in DOMAIN v.chats : v.chats[k].chat \in Peer \cup {Everyone}
    <3>1. v.chats \in Seq(Messages)
      BY <2>1, ViewParts
    <3>2. \A k \in DOMAIN v.chats : v.chats[k] \in Messages
      BY <3>1
    <3>3. QED
      BY <3>2 DEF Messages
  <2>5. QED
    BY <2>2, <2>3, <2>4 DEF Listed
<1>5. ASSUME NEW p \in Peer
      PROVE  /\ ToSet(view[p].revisions) \subseteq doc[p].revisions
             /\ \A r \in doc[p].revisions : HasParent(doc[p], r)
             /\ p \notin running => ~Loadable(row[p])
  BY <1>1 DEF Drafts, Parented
<1>6. TypeOK
  BY <1>2, <1>3, <1>4, <1>5 DEF TypeOK
<1>7. MessagesOnce
  <2>1. SUFFICES ASSUME topic = "chats", NEW p \in Peer
                 PROVE  /\ IsInjective(view[p].chats)
                        /\ ToSet(view[p].chats) = {e.body : e \in Presented(p)}
                        /\ past.faults = 0 => Presented(p) = log[p]
    BY DEF MessagesOnce
  <2>2. Chatting(view[p], Presented(p)) /\ (past.faults = 0 => past.unused[p] = {})
    BY <1>1, <2>1 DEF Chats
  <2>3. past.faults = 0 => Presented(p) = log[p]
    BY <2>2 DEF Presented
  <2>4. QED
    BY <2>2, <2>3 DEF Chatting
<1>8. QED
  BY <1>6, <1>7 DEF ViewsSound

(* A document is what its parts are.                                         *)
LEMMA SameParts ==
  ASSUME NEW A, NEW B
  PROVE  \A d, g \in [revisions : A, leases : B] :
           d.revisions = g.revisions /\ d.leases = g.leases => d = g
  OBVIOUS

LEMMA PlacesAgree ==
  ASSUME Inv
  PROVE  PlacesConverge
<1>1. SUFFICES ASSUME NEW p \in Peer, NEW q \in Peer, NEW x \in Ids, Orderly(x),
                      Taken(p, x) = Taken(q, x)
               PROVE  Shown(p, x) = Shown(q, x)
  BY DEF PlacesConverge, Taken
<1>2. PICK taken : taken = Taken(p, x)
  OBVIOUS
<1>3. Fits(view[p].places, x, taken) /\ Fits(view[q].places, x, taken)
  BY <1>1, <1>2 DEF Inv, Converging, Presents
<1>4. CASE taken = {}
  BY <1>3, <1>4 DEF Fits, Shown
<1>5. CASE taken # {}
  <2>1. Has(view[p].places, x) /\ Has(view[q].places, x)
    BY <1>3, <1>5 DEF Fits
  <2>2. PICK e : LastOf(e, taken) /\ Says(view[p].places[x], e.body.value)
    BY <1>3, <2>1 DEF Fits
  <2>3. PICK f : LastOf(f, taken) /\ Says(view[q].places[x], f.body.value)
    BY <1>3, <2>1 DEF Fits
  <2>4. e \in Edits(x) /\ f \in Edits(x)
    BY <1>2, <2>2, <2>3 DEF LastOf, Taken
  <2>5. e.body.value.stamp \in Nat /\ f.body.value.stamp \in Nat
    BY <2>4, EditsTyped DEF Inv
  <2>6. e.body.value.stamp <= f.body.value.stamp /\ f.body.value.stamp <= e.body.value.stamp
    BY <2>2, <2>3 DEF LastOf
  <2>7. e = f
    <3>1. e.body.value.stamp = f.body.value.stamp
      BY <2>5, <2>6
    <3>2. QED
      BY <1>1, <2>4, <3>1 DEF Orderly, InOrder
  <2>8. QED
    BY <2>1, <2>2, <2>3, <2>7 DEF Says, Shown
<1>6. QED
  BY <1>4, <1>5

(* Devices that present the same events have the same document.              *)
LEMMA SameDocuments ==
  ASSUME Inv, NEW p \in Peer, NEW q \in Peer, Presented(p) = Presented(q), past.failed = {},
         PublishedWhole
  PROVE  doc[p] = doc[q]
<1>1. Typed /\ Logs /\ Drafts /\ Knowing /\ doc[p] \in Documents /\ doc[q] \in Documents
  BY DEF Inv, Typed
<1>2. doc[p].revisions = doc[q].revisions
  <2>1. /\ doc[p].revisions = {e.body : e \in {f \in Presented(p) : f.kind = "revision"}}
        /\ doc[q].revisions = {e.body : e \in {f \in Presented(q) : f.kind = "revision"}}
    BY <1>1 DEF Drafts, Loads
  <2>2. QED
    BY <2>1
<1>3. PICK t \in Tables(Leases) : t = doc[p].leases
  BY <1>1 DEF Documents
<1>4. PICK u \in Tables(Leases) : u = doc[q].leases
  BY <1>1 DEF Documents
<1>5. PICK events : events = Presented(p)
  OBVIOUS
<1>6. Known(events, t) /\ Known(events, u)
  BY <1>1, <1>3, <1>4, <1>5 DEF Knowing
<1>7. DOMAIN t = DOMAIN u
  <2>1. \A l \in DOMAIN t : l \in DOMAIN u
    BY <1>6 DEF Known
  <2>2. \A l \in DOMAIN u : l \in DOMAIN t
    BY <1>6 DEF Known
  <2>3. QED
    BY <2>1, <2>2
<1>8. ASSUME NEW l \in DOMAIN t PROVE t[l] = u[l]
  <2>1. t[l] \in Leases /\ u[l] \in Leases
    BY <1>7, <1>8, TableFacts
  <2>2. PICK e \in events : /\ e.kind = "lease" /\ e.id = l
                            /\ t[l].holder = e.body.holder /\ t[l].from = e.body.from
    BY <1>6, <1>8 DEF Known
  <2>3. PICK f \in events : /\ f.kind = "lease" /\ f.id = l
                            /\ u[l].holder = f.body.holder /\ u[l].from = f.body.from
    BY <1>6, <1>7, <1>8 DEF Known
  <2>4. e = f
    BY <1>1, <1>5, <2>2, <2>3 DEF Logs, Presented
  <2>5. t[l].holder = u[l].holder /\ t[l].from = u[l].from
    BY <2>2, <2>3, <2>4
  <2>6. t[l].till = u[l].till
    <3>1. CASE \E g \in events : g.kind = "release" /\ g.body.lease = l
      <4>1. PICK g \in events : g.kind = "release" /\ g.body.lease = l
        BY <3>1
      <4>2. t[l].till = g.body.time /\ u[l].till = g.body.time
        BY <1>6, <4>1 DEF Known
      <4>3. QED
        BY <4>2
    <3>2. CASE ~\E g \in events : g.kind = "release" /\ g.body.lease = l
      <4>1. t[l].till = t[l].from + Duration
        BY <1>6, <1>8, <3>2 DEF Known
      <4>2. u[l].till = u[l].from + Duration
        BY <1>6, <1>7, <1>8, <3>2 DEF Known
      <4>3. QED
        BY <2>5, <4>1, <4>2
    <3>3. QED
      BY <3>1, <3>2
  <2>7. QED
    BY <2>1, <2>5, <2>6 DEF Leases
<1>9. t = u
  BY <1>7, <1>8, SameTables
<1>10. \A d, g \in Documents : d.revisions = g.revisions /\ d.leases = g.leases => d = g
  BY SameParts DEF Documents
<1>11. QED
  BY <1>1, <1>2, <1>3, <1>4, <1>9, <1>10

LEMMA DocumentsAgree ==
  ASSUME Inv
  PROVE  DocumentsConverge
<1>1. SUFFICES ASSUME NEW p \in Peer, NEW q \in Peer, Presented(p) = Presented(q),
                      past.failed = {}, PublishedWhole
               PROVE  /\ HeadId(doc[p]) = HeadId(doc[q])
                      /\ Tips(doc[p]) = Tips(doc[q])
                      /\ \A time \in Clock(p)..MaxTime + Duration :
                           ActiveLease(doc[p], time) = ActiveLease(doc[q], time)
  BY DEF DocumentsConverge
<1>2. doc[p] = doc[q]
  BY <1>1, SameDocuments
<1>3. QED
  BY <1>2

LEMMA RestartIsSafe ==
  ASSUME Inv
  PROVE  RestartChangesNothing
<1>1. /\ Typed /\ Works /\ Drafts /\ Knowing /\ Durable
      /\ row \in [Peer -> Views] /\ doc \in [Peer -> Documents]
  BY DEF Inv, Typed
<1>2. SUFFICES ASSUME NEW p \in Peer, p \notin past.failed
               PROVE  /\ Loadable(row[p])
                      /\ work[p] = {} /\ p \notin past.refused =>
                           /\ row[p] = view[p]
                           /\ PublishedWhole => Loaded(row[p]) = doc[p]
  BY DEF RestartChangesNothing
<1>3. Loadable(row[p])
  BY <1>1, <1>2 DEF Durable, Loads
<1>4. ASSUME work[p] = {}, p \notin past.refused PROVE row[p] = view[p]
  <2>1. past.unsaved[p] = {}
    BY <1>1, <1>4 DEF Works
  <2>2. QED
    BY <1>1, <1>2, <2>1 DEF Durable
<1>5. ASSUME work[p] = {}, p \notin past.refused, PublishedWhole
      PROVE  Loaded(row[p]) = doc[p]
  <2>1. row[p] = view[p]
    BY <1>4, <1>5
  <2>2. ToSet(view[p].revisions) = doc[p].revisions
    BY <1>1, <1>2 DEF Drafts
  <2>3. view[p].leases = doc[p].leases
    BY <1>1, <1>2, <1>5 DEF Knowing
  <2>4. Loaded(row[p]) = [revisions |-> doc[p].revisions, leases |-> doc[p].leases]
    BY <2>1, <2>2, <2>3 DEF Loaded
  <2>5. doc[p] = [revisions |-> doc[p].revisions, leases |-> doc[p].leases]
    BY <1>1 DEF Documents
  <2>6. QED
    BY <2>4, <2>5
<1>6. QED
  BY <1>3, <1>4, <1>5

-----------------------------------------------------------------------------
(* Theorems *)

(* Inv is an inductive invariant of the specification.                       *)
THEOREM Invariant == Spec => []Inv
<1>1. Init => Inv
  BY InvInit
<1>2. Inv /\ [Next]_vars => Inv'
  BY InvNext
<1>3. QED
  BY <1>1, <1>2, PTL DEF Spec

(* A device presents only what was made, with the parents and stamps of its  *)
(* makers, and exactly once every message on its disk but those that it died *)
(* of before it saved the view, whatever publications fail                   *)
(* (materialize_event, publish_local, insert_remote, persist).               *)
THEOREM ViewsAreSound == Spec => []ViewsSound
<1>1. Inv => ViewsSound
  BY ViewsAreRight
<1>2. QED
  BY <1>1, Invariant, PTL

(* Devices that present the same edits of a place agree on it, in whatever   *)
(* order the edits came (the stamps that materialize_event compares), under  *)
(* the conditions that Orderly states. Edits that a device died of before it *)
(* saved the view are not among those that it presents.                      *)
THEOREM PlacesConverged == Spec => []PlacesConverge
<1>1. Inv => PlacesConverge
  BY PlacesAgree
<1>2. QED
  BY <1>1, Invariant, PTL

(* Devices that present the same events of the document present the same     *)
(* head, conflict copies and lease, in whatever order the events came        *)
(* (DocumentState), while no publication has failed or was cut off by a      *)
(* death; deaths while others' events are taken are no exception.            *)
THEOREM DocumentsConverged == Spec => []DocumentsConverge
<1>1. Inv => DocumentsConverge
  BY DocumentsAgree
<1>2. QED
  BY <1>1, Invariant, PTL

(* In normal connectivity at most one device has a lease of its own that has *)
(* not ended (acquire_document_lease). Who died of an event before it saved  *)
(* the view does not present it, and is not among those that are together.   *)
THEOREM EditorsTakeTurns == Spec => []ConnectedTakeTurns
<1>1. Inv => ConnectedTakeTurns
  BY DEF Inv
<1>2. QED
  BY <1>1, Invariant, PTL

(* A device that never failed to publish can always start again, and         *)
(* presents then what it presented before, unless it is in the middle of a   *)
(* batch or refused one after part of it had an effect. Of leases this holds *)
(* while no publication was cut off by a death (TravelCore::new, persist).   *)
THEOREM RestartKeepsViews == Spec => []RestartChangesNothing
<1>1. Inv => RestartChangesNothing
  BY RestartIsSafe
<1>2. QED
  BY <1>1, Invariant, PTL
==============================================================================
