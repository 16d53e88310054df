----------------------- MODULE PrecisionLocateProofs -----------------------
(* Proofs about PrecisionLocate for any finite group, any number of         *)
(* requests and sessions, and any losses, absences and restarts: what a     *)
(* device knows of requests agrees with what others know, sessions are only *)
(* opened with consent, and a distance that is shown belongs to a session.  *)
EXTENDS PrecisionLocate, FiniteSetTheorems, SequenceTheorems, TLAPS

-----------------------------------------------------------------------------
(* Types. Everything that opens a session, or says that one may be opened,  *)
(* carries the id of a request that has been agreed to.                     *)
Tokens == {NoToken} \cup [of : Peer, serial : Nat]

SessionsOf(ids) == [peer : Peer, id : ids, serial : Nat, remote : Tokens]

OrdersOf(ids) ==
  [kind : {"create"}, peer : Peer, id : ids]
    \cup [kind : {"start"}, peer : Peer, id : ids, token : Tokens]
    \cup [kind : {"cancel"}, peer : Peer]

EventsOf(ids) ==
  [kind : {"token"}, id : ids, token : Tokens]
    \cup [kind : {"measurement", "ended"}, peer : Peer]
    \cup {Note}

ControlsOf(ids) ==
  [from : Peer, kind : {"request"}, id : Id, content : Request, till : Nat]
    \cup [from : Peer, kind : {"response"}, id : Id, content : {FALSE}, till : Nat]
    \cup [from : Peer, kind : {"response"}, id : ids, content : {TRUE}, till : Nat]
    \cup [from : Peer, kind : {"token"}, id : ids, content : Tokens, till : Nat]

Typed ==
  /\ now \in 0..MaxTime
  /\ held \in [Peer -> SUBSET Request]
  /\ ranging \in [Peer -> SUBSET Peer]
  /\ taps \in [Peer -> SUBSET [id : Id, accept : BOOLEAN]]
  /\ opened \in [Peer -> Nat]
  /\ agreed \in SUBSET Id
  /\ orders \in [Peer -> Seq(OrdersOf(agreed))]
  /\ events \in [Peer -> Seq(EventsOf(agreed))]
  /\ sessions \in [Peer -> SUBSET SessionsOf(agreed)]
  /\ wire \in [Peer -> SUBSET ControlsOf(agreed)]

(* More consent allows more.                                                *)
LEMMA MoreConsent ==
  ASSUME NEW ids, NEW more, ids \subseteq more
  PROVE  /\ SessionsOf(ids) \subseteq SessionsOf(more)
         /\ Seq(OrdersOf(ids)) \subseteq Seq(OrdersOf(more))
         /\ Seq(EventsOf(ids)) \subseteq Seq(EventsOf(more))
         /\ ControlsOf(ids) \subseteq ControlsOf(more)
<1>1. SessionsOf(ids) \subseteq SessionsOf(more)
  BY DEF SessionsOf
<1>2. OrdersOf(ids) \subseteq OrdersOf(more)
  BY DEF OrdersOf
<1>3. EventsOf(ids) \subseteq EventsOf(more)
  BY DEF EventsOf
<1>4. ControlsOf(ids) \subseteq ControlsOf(more)
  BY DEF ControlsOf
<1>5. QED
  BY <1>1, <1>2, <1>3, <1>4

(* Orders and events by their kind.                                         *)
LEMMA OrderForms ==
  ASSUME NEW ids, NEW o \in OrdersOf(ids)
  PROVE  /\ o.kind \in {"create", "start", "cancel"}
         /\ o.peer \in Peer
         /\ o.kind # "cancel" => o.id \in ids
         /\ o.kind = "start" => o.token \in Tokens
BY DEF OrdersOf

LEMMA ControlForms ==
  ASSUME NEW ids, NEW c \in ControlsOf(ids)
  PROVE  /\ c.from \in Peer /\ c.till \in Nat
         /\ c.kind = "request" => c.content \in Request
         /\ c.kind = "response" /\ c.content => c.id \in ids
         /\ c.kind = "response" => c.content \in BOOLEAN
         /\ c.kind = "token" => c.id \in ids /\ c.content \in Tokens
         /\ c.kind \in {"request", "response", "token"} /\ (ids \subseteq Id => c.id \in Id)
<1>1. c.from \in Peer /\ c.till \in Nat /\ c.kind \in {"request", "response", "token"}
  BY DEF ControlsOf
<1>2. CASE c.kind = "request"
  BY <1>1, <1>2 DEF ControlsOf
<1>3. CASE c.kind = "response"
  BY <1>1, <1>3 DEF ControlsOf
<1>4. CASE c.kind = "token"
  BY <1>1, <1>4 DEF ControlsOf
<1>5. ids \subseteq Id => c.id \in Id
  BY DEF ControlsOf
<1>6. QED
  BY <1>1, <1>2, <1>3, <1>4, <1>5

LEMMA EventForms ==
  ASSUME NEW ids, NEW e \in EventsOf(ids)
  PROVE  /\ e.kind = "token" => e.id \in ids /\ e.token \in Tokens
         /\ e.kind \in {"measurement", "ended"} => e.peer \in Peer
         /\ e.kind = "measurement" => e = Measurement(e.peer)
         /\ e.kind = "ended" => e = Ended(e.peer)
<1>1. CASE e \in [kind : {"token"}, id : ids, token : Tokens]
  BY <1>1
<1>2. CASE e \in [kind : {"measurement", "ended"}, peer : Peer]
  BY <1>2 DEF Measurement, Ended
<1>3. CASE e = Note
  BY <1>3 DEF Note
<1>4. QED
  BY <1>1, <1>2, <1>3 DEF EventsOf

(* What is made is of its type.                                             *)
LEMMA Makes ==
  ASSUME NEW ids, ids \subseteq Id
  PROVE  /\ \A q \in Peer, id \in ids : Create(q, id) \in OrdersOf(ids)
         /\ \A q \in Peer, id \in ids, t \in Tokens : Start(q, id, t) \in OrdersOf(ids)
         /\ \A q \in Peer : /\ Cancel(q) \in OrdersOf(ids)
                            /\ Measurement(q) \in EventsOf(ids)
                            /\ Ended(q) \in EventsOf(ids)
         /\ \A id \in ids, t \in Tokens : DiscoveryToken(id, t) \in EventsOf(ids)
         /\ Note \in EventsOf(ids)
         /\ \A p \in Peer, r \in Request, till \in Nat :
              Control(p, "request", r.id, r, till) \in ControlsOf(ids)
         /\ \A p \in Peer, id \in Id, till \in Nat :
              Control(p, "response", id, FALSE, till) \in ControlsOf(ids)
         /\ \A p \in Peer, id \in ids, till \in Nat :
              /\ Control(p, "response", id, TRUE, till) \in ControlsOf(ids)
              /\ \A t \in Tokens : Control(p, "token", id, t, till) \in ControlsOf(ids)
<1>1. \A r \in Request : r.id \in Id
  BY DEF Request
<1>2. \A q \in Peer, id \in ids : Create(q, id) \in OrdersOf(ids)
  BY DEF Create, OrdersOf
<1>3. \A q \in Peer, id \in ids, t \in Tokens : Start(q, id, t) \in OrdersOf(ids)
  BY DEF Start, OrdersOf
<1>4. \A q \in Peer : Cancel(q) \in OrdersOf(ids)
  BY DEF Cancel, OrdersOf
<1>5. \A q \in Peer : Measurement(q) \in EventsOf(ids) /\ Ended(q) \in EventsOf(ids)
  BY DEF Measurement, Ended, EventsOf
<1>6. /\ \A id \in ids, t \in Tokens : DiscoveryToken(id, t) \in EventsOf(ids)
      /\ Note \in EventsOf(ids)
  BY DEF DiscoveryToken, EventsOf
<1>7. \A p \in Peer, r \in Request, till \in Nat :
        Control(p, "request", r.id, r, till) \in ControlsOf(ids)
  BY <1>1 DEF Control, ControlsOf
<1>10. \A p \in Peer, id \in Id, till \in Nat :
         Control(p, "response", id, FALSE, till) \in ControlsOf(ids)
  BY DEF Control, ControlsOf
<1>8. \A p \in Peer, id \in ids, till \in Nat :
        /\ Control(p, "response", id, TRUE, till) \in ControlsOf(ids)
        /\ \A t \in Tokens : Control(p, "token", id, t, till) \in ControlsOf(ids)
  BY DEF Control, ControlsOf
<1>9. QED
  BY <1>2, <1>3, <1>4, <1>5, <1>6, <1>7, <1>8, <1>10

(* A finite set as a sequence: nothing is added, nothing is left out.       *)
LEMMA SequenceOf ==
  ASSUME NEW S, IsFiniteSet(S)
  PROVE  /\ SetToSeq(S) \in Seq(S)
         /\ \A x \in S : \E i \in 1..Len(SetToSeq(S)) : SetToSeq(S)[i] = x
<1>1. Cardinality(S) \in Nat /\ ExistsBijection(1..Cardinality(S), S)
  BY FS_CardinalityType
<1>2. PICK g \in Bijection(1..Cardinality(S), S) : TRUE
  BY <1>1 DEF ExistsBijection
<1>3. g \in [1..Cardinality(S) -> S] /\ IsInjective(g)
  BY <1>2 DEF Bijection, Injection
<1>4. /\ SetToSeq(S) \in [1..Cardinality(S) -> S]
      /\ IsInjective(SetToSeq(S))
  BY <1>3 DEF SetToSeq
<1>5. SetToSeq(S) \in Injection(1..Cardinality(S), S)
  BY <1>4 DEF Injection
<1>6. IsFiniteSet(1..Cardinality(S)) /\ Cardinality(1..Cardinality(S)) = Cardinality(S)
  BY <1>1, FS_Interval
<1>7. SetToSeq(S) \in Surjection(1..Cardinality(S), S)
  BY <1>5, <1>6, FS_Injection
<1>8. SetToSeq(S) \in Seq(S) /\ Len(SetToSeq(S)) = Cardinality(S)
  BY <1>1, <1>4
<1>9. QED
  BY <1>7, <1>8 DEF Surjection

(* The orders and events about a set of members.                            *)
LEMMA CancelsOf ==
  ASSUME NEW ids, ids \subseteq Id, NEW Q \in SUBSET Peer
  PROVE  SetToSeq({Cancel(q) : q \in Q}) \in Seq(OrdersOf(ids))
<1>1. IsFiniteSet(Q)
  BY ConstantsAssumption, FS_Subset
<1>2. [q \in Q |-> Cancel(q)] \in Surjection(Q, {Cancel(q) : q \in Q})
  BY DEF Surjection
<1>3. IsFiniteSet({Cancel(q) : q \in Q})
  BY <1>1, <1>2, FS_Surjection
<1>4. SetToSeq({Cancel(q) : q \in Q}) \in Seq({Cancel(q) : q \in Q})
  BY <1>3, SequenceOf
<1>5. {Cancel(q) : q \in Q} \subseteq OrdersOf(ids)
  BY Makes
<1>6. QED
  BY <1>4, <1>5

LEMMA EndsOf ==
  ASSUME NEW ids, ids \subseteq Id, NEW S \in SUBSET SessionsOf(ids)
  PROVE  LET ends == SetToSeq({Ended(s.peer) : s \in S})
         IN  /\ ends \in Seq(EventsOf(ids))
             /\ \A i \in 1..Len(ends) : ends[i].kind = "ended"
             /\ \A s \in S : \E i \in 1..Len(ends) : ends[i] = Ended(s.peer)
<1> DEFINE Q == {s.peer : s \in S}
           E == {Ended(q) : q \in Q}
<1>1. Q \subseteq Peer
  BY DEF SessionsOf
<1>2. IsFiniteSet(Q)
  BY <1>1, ConstantsAssumption, FS_Subset
<1>3. [q \in Q |-> Ended(q)] \in Surjection(Q, E)
  BY DEF Surjection
<1>4. IsFiniteSet(E)
  BY <1>2, <1>3, FS_Surjection
<1>5. E = {Ended(s.peer) : s \in S}
  OBVIOUS
<1>6. \A q \in Q : Ended(q) \in EventsOf(ids) /\ Ended(q).kind = "ended"
  BY <1>1, Makes DEF Ended
<1>7. /\ SetToSeq(E) \in Seq(E)
      /\ \A x \in E : \E i \in 1..Len(SetToSeq(E)) : SetToSeq(E)[i] = x
  BY <1>4, SequenceOf
<1>11. E \subseteq EventsOf(ids) /\ \A e \in E : e.kind = "ended"
  BY <1>6
<1> HIDE DEF Q, E
<1>8. /\ SetToSeq(E) \in Seq(EventsOf(ids))
      /\ \A i \in 1..Len(SetToSeq(E)) : SetToSeq(E)[i] \in E
  BY <1>7, <1>11
<1>9. \A s \in S : Ended(s.peer) \in E
  BY <1>5
<1>10. QED
  BY <1>5, <1>7, <1>8, <1>9, <1>11

-----------------------------------------------------------------------------
(* What never changes of a request.                                         *)
Face(r) ==
  [id |-> r.id, from |-> r.from, to |-> r.to, created |-> r.created, till |-> r.till]

Faces(requests) == {Face(r) : r \in requests}

Statuses == Open \cup {"rejected", "expired"}

Restated(r, s) == r = s \/ \E status \in Statuses : r = [s EXCEPT !.status = status]

(* Requests whose status has changed are the same requests.                 *)
LEMMA Restating ==
  ASSUME NEW old \in SUBSET Request, NEW new,
         \A r \in new : \E s \in old : Restated(r, s),
         \A s \in old : \E r \in new : Restated(r, s)
  PROVE  new \in SUBSET Request /\ Faces(new) = Faces(old)
<1>1. ASSUME NEW s \in old, NEW r, Restated(r, s)
      PROVE  r \in Request /\ Face(r) = Face(s)
  <2>1. CASE r = s
    BY <2>1
  <2>2. ASSUME NEW status \in Statuses, r = [s EXCEPT !.status = status]
        PROVE  r \in Request /\ Face(r) = Face(s)
    BY <2>2 DEF Request, Statuses, Face
  <2>3. QED
    BY <1>1, <2>1, <2>2 DEF Restated
<1>2. new \in SUBSET Request
  BY <1>1
<1>3. QED
  BY <1>1, <1>2 DEF Faces

LEMMA Expiring ==
  ASSUME NEW requests \in SUBSET Request
  PROVE  Expired(requests) \in SUBSET Request /\ Faces(Expired(requests)) = Faces(requests)
<1>1. "expired" \in Statuses
  BY DEF Statuses
<1>2. \A r \in Expired(requests) : \E s \in requests : Restated(r, s)
  BY <1>1 DEF Expired, Become, Restated
<1>3. \A s \in requests : \E r \in Expired(requests) : Restated(r, s)
  BY <1>1 DEF Expired, Become, Restated
<1>4. QED
  BY <1>2, <1>3, Restating

LEMMA Keeping ==
  ASSUME Typed, NEW p \in Peer, NEW requests \in SUBSET Request, Keep(p, requests)
  PROVE  /\ held' \in [Peer -> SUBSET Request]
         /\ Faces(held'[p]) = Faces(requests)
         /\ \A q \in Peer \ {p} : held'[q] = held[q]
<1>1. held \in [Peer -> SUBSET Request]
  BY DEF Typed
<1>2. held' = [held EXCEPT ![p] = Expired(requests)]
  BY DEF Keep
<1>3. QED
  BY <1>1, <1>2, Expiring

(* A step that only changes the status of requests.                         *)
SameFaces ==
  /\ \A p \in Peer : Faces(held'[p]) = Faces(held[p])
  /\ \A p \in Peer : \A c \in wire'[p] : c.kind = "request" => c \in wire[p]

LEMMA KeepingFaces ==
  ASSUME Typed, NEW p \in Peer, NEW requests,
         \A r \in requests : \E s \in held[p] : Restated(r, s),
         \A s \in held[p] : \E r \in requests : Restated(r, s),
         Keep(p, requests)
  PROVE  /\ held' \in [Peer -> SUBSET Request]
         /\ \A q \in Peer : Faces(held'[q]) = Faces(held[q])
<1>1. held[p] \in SUBSET Request
  BY DEF Typed
<1>2. requests \in SUBSET Request /\ Faces(requests) = Faces(held[p])
  BY <1>1, Restating
<1>3. QED
  BY <1>2, Keeping

LEMMA KeepingHeld ==
  ASSUME Typed, NEW p \in Peer, Keep(p, held[p])
  PROVE  /\ held' \in [Peer -> SUBSET Request]
         /\ \A q \in Peer : Faces(held'[q]) = Faces(held[q])
BY KeepingFaces DEF Restated

(* What is sent reaches the wires of those it is for, if not expired.       *)
LEMMA Sending ==
  ASSUME Typed, NEW letters, Send(letters), NEW ids, agreed \subseteq ids,
         \A l \in letters : l.control \in ControlsOf(ids)
  PROVE  /\ wire' \in [Peer -> SUBSET ControlsOf(ids)]
         /\ \A q \in Peer : \A c \in wire'[q] :
              c \in wire[q] \/ \E l \in letters : l.to = q /\ l.control = c
<1>1. wire \in [Peer -> SUBSET ControlsOf(ids)]
  BY MoreConsent DEF Typed
<1>2. \A q \in Peer : wire'[q] = wire[q] \cup {c.control : c \in {d \in Sent(letters) : d.to = q}}
  BY DEF Send
<1>3. \A q \in Peer : \A c \in wire'[q] :
        c \in wire[q] \/ \E l \in letters : l.to = q /\ l.control = c
  BY <1>2 DEF Sent
<1>4. wire' = [q \in Peer |-> wire'[q]]
  BY <1>2 DEF Send
<1>5. QED
  BY <1>1, <1>3, <1>4

(* One peer's commands or events are lengthened.                            *)
LEMMA Ordering ==
  ASSUME Typed, NEW p \in Peer, NEW ids, agreed \subseteq ids,
         NEW commands \in Seq(OrdersOf(ids)), Order(p, commands)
  PROVE  orders' \in [Peer -> Seq(OrdersOf(ids))]
<1>1. orders \in [Peer -> Seq(OrdersOf(ids))]
  BY MoreConsent DEF Typed
<1>2. orders[p] \o commands \in Seq(OrdersOf(ids))
  BY <1>1
<1>3. QED
  BY <1>1, <1>2 DEF Order

LEMMA OrderingNothing ==
  ASSUME Typed, NEW p \in Peer, Order(p, <<>>)
  PROVE  orders' \in [Peer -> Seq(OrdersOf(agreed))]
<1>1. orders \in [Peer -> Seq(OrdersOf(agreed))]
  BY DEF Typed
<1>2. orders[p] \o <<>> \in Seq(OrdersOf(agreed))
  BY <1>1
<1>3. QED
  BY <1>1, <1>2 DEF Order

LEMMA Telling ==
  ASSUME Typed, NEW p \in Peer, NEW es \in Seq(EventsOf(agreed)), Tell(p, es)
  PROVE  events' \in [Peer -> Seq(EventsOf(agreed))]
<1>1. events \in [Peer -> Seq(EventsOf(agreed))]
  BY DEF Typed
<1>2. events[p] \o es \in Seq(EventsOf(agreed))
  BY <1>1
<1>3. QED
  BY <1>1, <1>2 DEF Tell

LEMMA RequestForms ==
  ASSUME NEW r \in Request
  PROVE  /\ r.id \in Id /\ r.from \in Peer /\ r.to \in Peer /\ r.till \in Nat
         /\ r.status \in Statuses
         /\ \A p \in Peer : Partner(p, r) \in Peer
BY DEF Request, Statuses, Partner

-----------------------------------------------------------------------------
(* Types, action by action. But for new requests, no step changes more of   *)
(* what is known of requests than their status.                             *)
LEMMA RequestPrecisionTypes ==
  ASSUME Typed, NEW p \in Peer, NEW q \in Peer, NEW id \in Id, RequestPrecision(p, q, id)
  PROVE  /\ Typed'
         /\ \E r \in Request :
              /\ r.id = id /\ r.from = p /\ r.to = q
              /\ Faces(held'[p]) = Faces(held[p]) \cup {Face(r)}
              /\ \A m \in Peer \ {p} : held'[m] = held[m]
              /\ \A m \in Peer : \A c \in wire'[m] :
                   c \in wire[m] \/ (m = q /\ c.content = r)
<1> DEFINE r == [id |-> id, from |-> p, to |-> q, created |-> now, till |-> now + Ttl,
                 status |-> "pending"]
           c == Control(p, "request", id, r, r.till)
<1>1. r \in Request /\ r.till \in Nat
  BY ConstantsAssumption DEF Typed, Request, Open
<1>2. /\ Keep(p, held[p] \cup {r})
      /\ Send({To(q, c)})
      /\ UNCHANGED <<now, ranging, orders, events, app, shared, backend>>
  BY DEF RequestPrecision
<1>3. c \in ControlsOf(agreed) /\ c.content = r
  BY <1>1, Makes DEF Typed, Control
<1>4. r.id = id /\ r.from = p /\ r.to = q
  OBVIOUS
<1> HIDE DEF r, c
<1>5. held[p] \cup {r} \in SUBSET Request
  BY <1>1 DEF Typed
<1>6. /\ held' \in [Peer -> SUBSET Request]
      /\ Faces(held'[p]) = Faces(held[p] \cup {r})
      /\ \A m \in Peer \ {p} : held'[m] = held[m]
  BY <1>2, <1>5, Keeping
<1>7. Faces(held[p] \cup {r}) = Faces(held[p]) \cup {Face(r)}
  BY DEF Faces
<1>8. \A l \in {To(q, c)} : l.control = c /\ l.to = q
  BY DEF To
<1>9. /\ wire' \in [Peer -> SUBSET ControlsOf(agreed)]
      /\ \A m \in Peer : \A d \in wire'[m] :
           d \in wire[m] \/ \E l \in {To(q, c)} : l.to = m /\ l.control = d
  BY <1>2, <1>3, <1>8, Sending
<1>10. Typed'
  BY <1>2, <1>6, <1>9 DEF Typed, app, backend
<1>11. \A m \in Peer : \A d \in wire'[m] : d \in wire[m] \/ (m = q /\ d.content = r)
  BY <1>3, <1>8, <1>9
<1>12. QED
  BY <1>1, <1>4, <1>6, <1>7, <1>10, <1>11

(* Taking a control off the wire, with the answer that goes back at once.   *)
LEMMA OnControlWires ==
  ASSUME Typed, NEW p \in Peer, NEW control, OnControl(p, control)
  PROVE  /\ wire' \in [Peer -> SUBSET ControlsOf(agreed)]
         /\ \A q \in Peer : \A c \in wire'[q] : c.kind = "request" => c \in wire[q]
<1>1. control \in wire[p] /\ wire[p] \in SUBSET ControlsOf(agreed) /\ agreed \subseteq Id
  BY DEF OnControl, Typed
<1>2. control.id \in Id /\ control.till \in Nat /\ control \in ControlsOf(agreed)
  BY <1>1, ControlForms
<1>3. \A l \in Refusal(p, control) :
        l.control \in ControlsOf(agreed) /\ l.control.kind = "response"
  <2> DEFINE c == Control(p, "response", control.id, FALSE, control.till)
  <2>1. c \in ControlsOf(agreed) /\ c.kind = "response"
    BY <1>1, <1>2, Makes DEF Control
  <2>2. \A l \in Refusal(p, control) : l = To(control.from, c)
    BY DEF Refusal
  <2> HIDE DEF c
  <2>3. To(control.from, c).control = c
    BY DEF To
  <2>4. QED
    BY <2>1, <2>2, <2>3
<1>4. PICK answer \in {IF now > control.till THEN {} ELSE Refusal(p, control)} :
        wire' = [q \in Peer |-> (wire[q] \ (IF q = p THEN {control} ELSE {}))
                                \cup {c.control : c \in {d \in Sent(answer) : d.to = q}}]
  BY DEF OnControl
<1>5. \A l \in Sent(answer) :
        l.control \in ControlsOf(agreed) /\ l.control.kind = "response"
  BY <1>3, <1>4 DEF Sent
<1>6. \A q \in Peer : \A c \in wire'[q] :
        c \in wire[q] \/ (c \in ControlsOf(agreed) /\ c.kind = "response")
  BY <1>4, <1>5
<1>7. wire \in [Peer -> SUBSET ControlsOf(agreed)]
  BY DEF Typed
<1>8. \A q \in Peer : wire'[q] \in SUBSET ControlsOf(agreed)
  BY <1>6, <1>7
<1>9. wire' = [q \in Peer |-> wire'[q]]
  BY <1>4
<1>10. QED
  BY <1>6, <1>8, <1>9

(* Requests taken in: none, or the one of the control.                      *)
Learns(p, control) ==
  \/ \A q \in Peer : Faces(held'[q]) = Faces(held[q])
  \/ /\ control.kind = "request"
     /\ Faces(held'[p]) = Faces(held[p]) \cup {Face(control.content)}
     /\ \A q \in Peer \ {p} : held'[q] = held[q]

LEMMA OnRequestTypes ==
  ASSUME Typed, NEW p \in Peer, NEW control \in ControlsOf(agreed), OnRequest(p, control)
  PROVE  held' \in [Peer -> SUBSET Request] /\ Learns(p, control)
<1> DEFINE r == control.content
<1>1. control.kind = "request" /\ r \in Request
  BY ControlForms DEF OnRequest
<1>2. CASE Keep(p, held[p])
  BY <1>2, KeepingHeld DEF Learns
<1>3. CASE r.id \notin {h.id : h \in held[p]}
  <2> DEFINE refused == p \in paused \/ r.created - cooldown[p][r.from] < Cooldown
             s == [r EXCEPT !.status = IF refused THEN "rejected" ELSE @]
  <2>1. Keep(p, held[p] \cup {s})
    BY <1>3 DEF OnRequest
  <2>2. s \in Request /\ Face(s) = Face(r)
    BY <1>1 DEF Request, Face
  <2> HIDE DEF s
  <2>3. held[p] \cup {s} \in SUBSET Request
    BY <2>2 DEF Typed
  <2>4. /\ held' \in [Peer -> SUBSET Request]
        /\ Faces(held'[p]) = Faces(held[p] \cup {s})
        /\ \A q \in Peer \ {p} : held'[q] = held[q]
    BY <2>1, <2>3, Keeping
  <2>5. Faces(held[p] \cup {s}) = Faces(held[p]) \cup {Face(r)}
    BY <2>2 DEF Faces
  <2>6. QED
    BY <1>1, <2>4, <2>5 DEF Learns
<1>4. QED
  BY <1>2, <1>3 DEF OnRequest

LEMMA OnResponseTypes ==
  ASSUME Typed, NEW p \in Peer, NEW control \in ControlsOf(agreed), OnResponse(p, control)
  PROVE  /\ held' \in [Peer -> SUBSET Request] /\ Learns(p, control)
         /\ orders' \in [Peer -> Seq(OrdersOf(agreed))]
<1> DEFINE answer == IF control.content THEN "accepted" ELSE "rejected"
           requests == Become(held[p], LAMBDA r : r.id = control.id, answer)
<1>1. answer \in Statuses
  BY DEF Statuses, Open
<1> HIDE DEF answer
<1>2. /\ \A r \in requests : \E s \in held[p] : Restated(r, s)
      /\ \A s \in held[p] : \E r \in requests : Restated(r, s)
  BY <1>1 DEF Become, Restated
<1>3. Keep(p, requests)
  BY DEF OnResponse, answer
<1> HIDE DEF requests
<1>4. held' \in [Peer -> SUBSET Request] /\ Learns(p, control)
  BY <1>2, <1>3, KeepingFaces DEF Learns
<1>5. ASSUME Opens(p, control.content)
      PROVE  <<Create(control.from, control.id)>> \in Seq(OrdersOf(agreed))
  <2>1. control.from \in Peer /\ control.id \in agreed
    BY <1>5, ControlForms DEF Opens, OnResponse
  <2>2. Create(control.from, control.id) \in OrdersOf(agreed)
    BY <2>1, Makes DEF Typed
  <2>3. QED
    BY <2>2
<1>6. orders' \in [Peer -> Seq(OrdersOf(agreed))]
  <2>1. CASE Opens(p, control.content)
    <3>1. Order(p, <<Create(control.from, control.id)>>)
      BY <2>1 DEF OnResponse
    <3>2. QED
      BY <1>5, <2>1, <3>1, Ordering
  <2>2. CASE ~Opens(p, control.content)
    <3>1. Order(p, <<>>)
      BY <2>2 DEF OnResponse
    <3>2. QED
      BY <3>1, OrderingNothing
  <2>3. QED
    BY <2>1, <2>2
<1>7. QED
  BY <1>4, <1>6

LEMMA OnTokenTypes ==
  ASSUME Typed, NEW p \in Peer, NEW control \in ControlsOf(agreed), OnToken(p, control)
  PROVE  /\ held' \in [Peer -> SUBSET Request] /\ Learns(p, control)
         /\ orders' \in [Peer -> Seq(OrdersOf(agreed))]
<1>1. held' \in [Peer -> SUBSET Request] /\ Learns(p, control)
  BY KeepingHeld DEF OnToken, Learns
<1>2. Start(control.from, control.id, control.content) \in OrdersOf(agreed)
  BY ControlForms, Makes DEF OnToken, Typed
<1>3. orders' \in [Peer -> Seq(OrdersOf(agreed))]
  <2>1. CASE p \in front
    <3>1. Order(p, <<Start(control.from, control.id, control.content)>>)
      BY <2>1 DEF OnToken
    <3>2. QED
      BY <1>2, <3>1, Ordering
  <2>2. CASE p \notin front
    <3>1. Order(p, <<>>)
      BY <2>2 DEF OnToken
    <3>2. QED
      BY <3>1, OrderingNothing
  <2>3. QED
    BY <2>1, <2>2
<1>4. QED
  BY <1>1, <1>3

LEMMA OnControlTypes ==
  ASSUME Typed, NEW p \in Peer, NEW control, OnControl(p, control)
  PROVE  Typed' /\ Learns(p, control)
<1>1. control \in ControlsOf(agreed)
  BY DEF OnControl, Typed
<1>2. UNCHANGED <<now, events, app, backend, ranging>>
  BY DEF OnControl, OnRequest, OnResponse, OnToken
<1>3. wire' \in [Peer -> SUBSET ControlsOf(agreed)]
  BY OnControlWires
<1>4. /\ held' \in [Peer -> SUBSET Request] /\ Learns(p, control)
      /\ orders' \in [Peer -> Seq(OrdersOf(agreed))]
  <2>1. CASE Keep(p, held[p]) /\ UNCHANGED orders
    BY <2>1, KeepingHeld DEF Learns, Typed
  <2>2. CASE OnRequest(p, control)
    BY <1>1, <2>2, OnRequestTypes DEF OnRequest, Typed
  <2>3. CASE OnResponse(p, control) \/ OnToken(p, control)
    BY <1>1, <2>3, OnResponseTypes, OnTokenTypes
  <2>4. QED
    BY <2>1, <2>2, <2>3 DEF OnControl
<1>5. QED
  BY <1>2, <1>3, <1>4 DEF Typed, app, backend

LEMMA TapTypes ==
  ASSUME Typed, NEW p \in Peer, NEW r \in held[p], NEW accept \in BOOLEAN, Tap(p, r, accept)
  PROVE  Typed' /\ SameFaces
<1>1. [id |-> r.id, accept |-> accept] \in [id : Id, accept : BOOLEAN]
  BY RequestForms DEF Typed
<1>2. taps' \in [Peer -> SUBSET [id : Id, accept : BOOLEAN]]
  BY <1>1 DEF Tap, Typed
<1>3. UNCHANGED <<now, held, ranging, opened, agreed, orders, events, sessions, wire>>
  BY DEF Tap, radio, backend
<1>4. QED
  BY <1>2, <1>3 DEF Typed, SameFaces

LEMMA RespondPrecisionTypes ==
  ASSUME Typed, NEW p \in Peer, NEW t, RespondPrecision(p, t)
  PROVE  Typed' /\ SameFaces
<1>1. t \in [id : Id, accept : BOOLEAN]
  BY DEF RespondPrecision, Typed
<1>2. /\ taps' \in [Peer -> SUBSET [id : Id, accept : BOOLEAN]]
      /\ UNCHANGED <<now, ranging, events, sessions, opened>>
  BY DEF RespondPrecision, Typed, backend
<1>3. PICK r \in {h \in held[p] : h.id = t.id} :
        IF now >= r.till
        THEN /\ Keep(p, Become(held[p], LAMBDA h : h.id = t.id, "expired"))
             /\ UNCHANGED <<wire, orders, agreed>>
        ELSE /\ Keep(p, Become(held[p], LAMBDA h : h.id = t.id,
                               IF t.accept THEN "accepted" ELSE "rejected"))
             /\ Order(p, IF t.accept THEN <<Create(Partner(p, r), r.id)>> ELSE <<>>)
             /\ Send({To(Partner(p, r), Control(p, "response", r.id, t.accept, r.till))})
             /\ agreed' = IF t.accept THEN agreed \cup {r.id} ELSE agreed
  BY DEF RespondPrecision
<1>4. r \in Request /\ r.id \in Id /\ r.till \in Nat /\ Partner(p, r) \in Peer
  BY RequestForms DEF Typed
<1>5. SUFFICES
        /\ held' \in [Peer -> SUBSET Request]
        /\ \A q \in Peer : Faces(held'[q]) = Faces(held[q])
        /\ agreed' \in SUBSET Id /\ agreed \subseteq agreed'
        /\ orders' \in [Peer -> Seq(OrdersOf(agreed'))]
        /\ wire' \in [Peer -> SUBSET ControlsOf(agreed')]
        /\ \A q \in Peer : \A c \in wire'[q] : c.kind = "request" => c \in wire[q]
  <2>1. /\ Seq(EventsOf(agreed)) \subseteq Seq(EventsOf(agreed'))
        /\ SessionsOf(agreed) \subseteq SessionsOf(agreed')
    BY <1>5, MoreConsent
  <2>2. QED
    BY <1>2, <1>5, <2>1 DEF Typed, SameFaces
<1>6. ASSUME NEW status \in Statuses,
             Keep(p, Become(held[p], LAMBDA h : h.id = t.id, status))
      PROVE  /\ held' \in [Peer -> SUBSET Request]
             /\ \A m \in Peer : Faces(held'[m]) = Faces(held[m])
  <2> DEFINE requests == Become(held[p], LAMBDA h : h.id = t.id, status)
  <2>1. /\ \A h \in requests : \E s \in held[p] : Restated(h, s)
        /\ \A s \in held[p] : \E h \in requests : Restated(h, s)
    BY <1>6 DEF Become, Restated
  <2>2. Keep(p, requests)
    BY <1>6
  <2> HIDE DEF requests
  <2>3. QED
    BY <2>1, <2>2, KeepingFaces
<1>7. {"expired", "accepted", "rejected"} \subseteq Statuses
  BY DEF Statuses, Open
<1>8. CASE now >= r.till
  BY <1>3, <1>6, <1>7, <1>8 DEF Typed
<1>9. ASSUME now < r.till, t.accept
      PROVE  /\ agreed' = agreed \cup {r.id}
             /\ orders' \in [Peer -> Seq(OrdersOf(agreed'))]
  <2>1. agreed' = agreed \cup {r.id} /\ Order(p, <<Create(Partner(p, r), r.id)>>)
    BY <1>3, <1>4, <1>9 DEF Typed
  <2>2. Create(Partner(p, r), r.id) \in OrdersOf(agreed')
    <3>1. agreed' \subseteq Id /\ r.id \in agreed'
      BY <1>4, <2>1 DEF Typed
    <3>2. QED
      BY <1>4, <3>1, Makes
  <2>3. <<Create(Partner(p, r), r.id)>> \in Seq(OrdersOf(agreed'))
    BY <2>2
  <2>4. QED
    BY <2>1, <2>3, Ordering
<1>10. ASSUME now < r.till, ~t.accept
       PROVE  agreed' = agreed /\ orders' \in [Peer -> Seq(OrdersOf(agreed'))]
  <2>1. agreed' = agreed /\ Order(p, <<>>)
    BY <1>3, <1>4, <1>10 DEF Typed
  <2>2. QED
    BY <2>1, OrderingNothing
<1>11. CASE now < r.till
  <2>1. agreed' \in SUBSET Id /\ agreed \subseteq agreed' /\ (t.accept => r.id \in agreed')
        /\ orders' \in [Peer -> Seq(OrdersOf(agreed'))]
    BY <1>4, <1>9, <1>10, <1>11 DEF Typed
  <2> DEFINE c == Control(p, "response", r.id, t.accept, r.till)
  <2>2. c \in ControlsOf(agreed') /\ c.kind = "response"
    <3>1. CASE t.accept
      BY <1>1, <1>4, <2>1, <3>1, Makes DEF Control
    <3>2. CASE ~t.accept
      BY <1>1, <1>4, <2>1, <3>2, Makes DEF Control
    <3>3. QED
      BY <3>1, <3>2
  <2>3. Send({To(Partner(p, r), c)})
    BY <1>3, <1>4, <1>11 DEF Typed
  <2> HIDE DEF c
  <2>4. \A l \in {To(Partner(p, r), c)} : l.control = c
    BY DEF To
  <2>5. /\ wire' \in [Peer -> SUBSET ControlsOf(agreed')]
        /\ \A q \in Peer : \A d \in wire'[q] :
             d \in wire[q] \/ \E l \in {To(Partner(p, r), c)} : l.to = q /\ l.control = d
    BY <2>1, <2>2, <2>3, <2>4, Sending
  <2>6. \A q \in Peer : \A d \in wire'[q] : d.kind = "request" => d \in wire[q]
    BY <2>2, <2>4, <2>5
  <2>7. Keep(p, Become(held[p], LAMBDA h : h.id = t.id,
                       IF t.accept THEN "accepted" ELSE "rejected"))
    BY <1>3, <1>4, <1>11 DEF Typed
  <2>8. /\ held' \in [Peer -> SUBSET Request]
        /\ \A m \in Peer : Faces(held'[m]) = Faces(held[m])
    BY <1>6, <1>7, <2>7
  <2>9. QED
    BY <2>1, <2>5, <2>6, <2>8
<1>12. QED
  BY <1>4, <1>8, <1>11 DEF Typed

(* The oldest event is taken off.                                           *)
LEMMA OnRangingTakes ==
  ASSUME Typed, NEW p \in Peer, OnRanging(p)
  PROVE  /\ Head(events[p]) \in EventsOf(agreed)
         /\ events' = [events EXCEPT ![p] = Tail(@)]
         /\ events' \in [Peer -> Seq(EventsOf(agreed))]
<1>1. events[p] \in Seq(EventsOf(agreed)) /\ events[p] # <<>>
  BY DEF Typed, OnRanging
<1>2. Head(events[p]) \in EventsOf(agreed) /\ Tail(events[p]) \in Seq(EventsOf(agreed))
  BY <1>1
<1>3. QED
  BY <1>2 DEF OnRanging, Typed

LEMMA OnRangingTypes ==
  ASSUME Typed, NEW p \in Peer, OnRanging(p)
  PROVE  Typed' /\ SameFaces
<1> DEFINE e == Head(events[p])
<1>1. e \in EventsOf(agreed) /\ events' \in [Peer -> Seq(EventsOf(agreed))]
  BY OnRangingTakes
<1>2. UNCHANGED <<now, orders, app, shared, backend>>
  BY DEF OnRanging
<1> USE DEF app, backend
<1>3. CASE OnDiscoveryToken(p, e)
  <2>1. /\ held' \in [Peer -> SUBSET Request]
        /\ \A q \in Peer : Faces(held'[q]) = Faces(held[q])
    BY <1>3, KeepingHeld DEF OnDiscoveryToken
  <2> DEFINE letters == {To(Partner(p, r), Control(p, "token", r.id, e.token, r.till)) :
                           r \in {h \in held[p] : h.id = e.id}}
  <2>2. \A r \in {h \in held[p] : h.id = e.id} :
          LET c == Control(p, "token", r.id, e.token, r.till)
          IN  /\ c \in ControlsOf(agreed) /\ c.kind = "token"
              /\ To(Partner(p, r), c).control = c
    <3>1. e.id \in agreed /\ e.token \in Tokens /\ agreed \subseteq Id
      BY <1>1, <1>3, EventForms DEF Typed, OnDiscoveryToken
    <3>2. TAKE r \in {h \in held[p] : h.id = e.id}
    <3> DEFINE c == Control(p, "token", r.id, e.token, r.till)
    <3>3. r.id \in agreed /\ r.till \in Nat
      BY <3>1, RequestForms DEF Typed
    <3>4. c \in ControlsOf(agreed)
      BY <3>1, <3>3, Makes
    <3>5. c.kind = "token"
      BY DEF Control
    <3> HIDE DEF c
    <3>6. To(Partner(p, r), c).control = c
      BY DEF To
    <3>7. QED
      BY <3>4, <3>5, <3>6 DEF c
  <2>3. \A l \in letters : l.control \in ControlsOf(agreed) /\ l.control.kind = "token"
    BY <2>2
  <2>4. Send(letters)
    BY <1>3 DEF OnDiscoveryToken
  <2> HIDE DEF letters
  <2>5. /\ wire' \in [Peer -> SUBSET ControlsOf(agreed)]
        /\ \A q \in Peer : \A c \in wire'[q] :
             c \in wire[q] \/ \E l \in letters : l.to = q /\ l.control = c
    BY <2>3, <2>4, Sending
  <2>6. \A q \in Peer : \A c \in wire'[q] : c.kind = "request" => c \in wire[q]
    BY <2>3, <2>5
  <2>7. QED
    BY <1>1, <1>2, <1>3, <2>1, <2>5, <2>6 DEF Typed, SameFaces, OnDiscoveryToken
<1>4. CASE OnMeasurement(p, e)
  <2> DEFINE requests == Become(held[p], LAMBDA r : e.peer \in {r.from, r.to}, "active")
  <2>1. "active" \in Statuses
    BY DEF Statuses, Open
  <2>2. /\ \A h \in requests : \E s \in held[p] : Restated(h, s)
        /\ \A s \in held[p] : \E h \in requests : Restated(h, s)
    BY <2>1 DEF Become, Restated
  <2>3. Keep(p, requests)
    BY <1>4 DEF OnMeasurement
  <2> HIDE DEF requests
  <2>4. /\ held' \in [Peer -> SUBSET Request]
        /\ \A q \in Peer : Faces(held'[q]) = Faces(held[q])
    BY <2>2, <2>3, KeepingFaces
  <2>5. e.peer \in Peer
    BY <1>1, <1>4, EventForms DEF OnMeasurement
  <2>6. ranging' = [ranging EXCEPT ![p] = @ \cup {e.peer}] /\ UNCHANGED wire
    BY <1>4 DEF OnMeasurement
  <2>7. QED
    BY <1>1, <1>2, <2>4, <2>5, <2>6 DEF Typed, SameFaces
<1>5. CASE OnEnded(p, e) \/ OnNote(p, e)
  <2>1. /\ held' \in [Peer -> SUBSET Request]
        /\ \A q \in Peer : Faces(held'[q]) = Faces(held[q])
    BY <1>5, KeepingHeld DEF OnEnded, OnNote
  <2>2. PICK gone : ranging' = [ranging EXCEPT ![p] = @ \ gone]
    <3>1. CASE OnEnded(p, e)
      BY <3>1 DEF OnEnded
    <3>2. CASE OnNote(p, e)
      <4>1. ranging' = [ranging EXCEPT ![p] = @ \ {}]
        BY <3>2 DEF OnNote, Typed
      <4>2. QED
        BY <4>1
    <3>3. QED
      BY <1>5, <3>1, <3>2
  <2>3. ranging' \in [Peer -> SUBSET Peer]
    BY <2>2 DEF Typed
  <2>4. UNCHANGED wire
    BY <1>5 DEF OnEnded, OnNote
  <2>5. QED
    BY <1>1, <1>2, <2>1, <2>3, <2>4 DEF Typed, SameFaces
<1>6. QED
  BY <1>3, <1>4, <1>5 DEF OnRanging

LEMMA CallOffTypes ==
  ASSUME Typed, NEW p \in Peer, CallOff(p)
  PROVE  /\ ranging' \in [Peer -> SUBSET Peer]
         /\ orders' \in [Peer -> Seq(OrdersOf(agreed))]
<1>1. SetToSeq({Cancel(q) : q \in ranging[p]}) \in Seq(OrdersOf(agreed))
  BY CancelsOf DEF Typed
<1>2. QED
  BY <1>1, Ordering DEF CallOff, Typed

LEMMA SetForegroundTypes ==
  ASSUME Typed, NEW p \in Peer, SetForeground(p)
  PROVE  Typed' /\ SameFaces
<1>1. UNCHANGED <<radio, taps, agreed, events, backend>>
  BY DEF SetForeground
<1> USE DEF radio, backend
<1>2. CASE Keep(p, held[p]) /\ UNCHANGED <<orders, ranging>>
  BY <1>1, <1>2, KeepingHeld DEF Typed, SameFaces
<1>3. CASE /\ Keep(p, Become(held[p], LAMBDA r : r.status = "active", "accepted"))
           /\ CallOff(p)
  <2> DEFINE requests == Become(held[p], LAMBDA r : r.status = "active", "accepted")
  <2>1. "accepted" \in Statuses
    BY DEF Statuses, Open
  <2>2. /\ \A h \in requests : \E s \in held[p] : Restated(h, s)
        /\ \A s \in held[p] : \E h \in requests : Restated(h, s)
    BY <2>1 DEF Become, Restated
  <2>3. Keep(p, requests)
    BY <1>3
  <2> HIDE DEF requests
  <2>4. QED
    BY <1>1, <1>3, <2>2, <2>3, KeepingFaces, CallOffTypes DEF Typed, SameFaces
<1>4. QED
  BY <1>2, <1>3 DEF SetForeground

LEMMA SetSharingPausedTypes ==
  ASSUME Typed, NEW p \in Peer, SetSharingPaused(p)
  PROVE  Typed' /\ SameFaces
<1>1. UNCHANGED <<now, app, events, backend>>
  BY DEF SetSharingPaused
<1> USE DEF app, backend
<1>2. CASE p \in paused
  <2>1. Keep(p, held[p]) /\ UNCHANGED <<wire, orders, ranging>>
    BY <1>2 DEF SetSharingPaused
  <2>2. QED
    BY <1>1, <2>1, KeepingHeld DEF Typed, SameFaces
<1>3. CASE p \notin paused
  <2> DEFINE asked == {r \in held[p] : r.to = p /\ r.status \in Open}
             requests == Become(held[p], LAMBDA r : r \in asked, "rejected")
             letters == {To(r.from, Control(p, "response", r.id, FALSE, r.till)) : r \in asked}
  <2>1. Keep(p, requests) /\ Send(letters) /\ CallOff(p)
    BY <1>3 DEF SetSharingPaused
  <2>2. "rejected" \in Statuses
    BY DEF Statuses
  <2>3. /\ \A h \in requests : \E s \in held[p] : Restated(h, s)
        /\ \A s \in held[p] : \E h \in requests : Restated(h, s)
    BY <2>2 DEF Become, Restated
  <2>4. \A r \in asked :
          LET c == Control(p, "response", r.id, FALSE, r.till)
          IN  /\ c \in ControlsOf(agreed) /\ c.kind = "response"
              /\ To(r.from, c).control = c
    <3>1. TAKE r \in asked
    <3> DEFINE c == Control(p, "response", r.id, FALSE, r.till)
    <3>2. r.id \in Id /\ r.till \in Nat /\ agreed \subseteq Id
      BY RequestForms DEF Typed
    <3>3. c \in ControlsOf(agreed)
      BY <3>2, Makes
    <3>4. c.kind = "response"
      BY DEF Control
    <3> HIDE DEF c
    <3>5. To(r.from, c).control = c
      BY DEF To
    <3>6. QED
      BY <3>3, <3>4, <3>5 DEF c
  <2>5. \A l \in letters : l.control \in ControlsOf(agreed) /\ l.control.kind = "response"
    BY <2>4
  <2> HIDE DEF letters, requests
  <2>6. /\ wire' \in [Peer -> SUBSET ControlsOf(agreed)]
        /\ \A q \in Peer : \A c \in wire'[q] :
             c \in wire[q] \/ \E l \in letters : l.to = q /\ l.control = c
    BY <2>1, <2>5, Sending
  <2>7. \A q \in Peer : \A c \in wire'[q] : c.kind = "request" => c \in wire[q]
    BY <2>5, <2>6
  <2>8. /\ held' \in [Peer -> SUBSET Request]
        /\ \A q \in Peer : Faces(held'[q]) = Faces(held[q])
    BY <2>1, <2>3, KeepingFaces
  <2>9. QED
    BY <1>1, <2>1, <2>6, <2>7, <2>8, CallOffTypes DEF Typed, SameFaces
<1>4. QED
  BY <1>2, <1>3

LEMMA LeaveTypes ==
  ASSUME Typed, NEW p \in Peer, Leave(p)
  PROVE  Typed' /\ SameFaces
<1>1. UNCHANGED <<radio, held, ranging, taps, agreed, orders, opened>>
  BY DEF Leave
<1>2. CASE UNCHANGED <<awake, sessions, events>>
  BY <1>1, <1>2 DEF Typed, SameFaces, radio
<1>3. CASE /\ sessions' = [sessions EXCEPT ![p] = {}]
           /\ events' = [events EXCEPT ![p] = @ \o SetToSeq({Ended(s.peer) : s \in sessions[p]})]
  <2>1. SetToSeq({Ended(s.peer) : s \in sessions[p]}) \in Seq(EventsOf(agreed))
    BY EndsOf DEF Typed
  <2>2. events' \in [Peer -> Seq(EventsOf(agreed))]
    BY <1>3, <2>1, Telling DEF Tell
  <2>3. sessions' \in [Peer -> SUBSET SessionsOf(agreed)]
    BY <1>3 DEF Typed
  <2>4. QED
    BY <1>1, <2>2, <2>3 DEF Typed, SameFaces, radio
<1>4. QED
  BY <1>2, <1>3 DEF Leave

LEMMA ReturnLoseAdvanceTypes ==
  ASSUME Typed,
         \/ \E p \in Peer : Return(p)
         \/ \E p \in Peer : \E control \in wire[p] : Lose(p, control)
         \/ Advance
  PROVE  Typed' /\ SameFaces
<1>1. UNCHANGED <<held, ranging, taps, opened, agreed, orders, events, sessions>>
  BY DEF Return, Lose, Advance, app, shared, backend
<1>2. now' \in 0..MaxTime
  <2>1. now' = now \/ (now < MaxTime /\ now' = now + 1)
    <3>1. \A p \in Peer : Return(p) => now' = now
      BY DEF Return, radio
    <3>2. \A p \in Peer : \A control \in wire[p] : Lose(p, control) => now' = now
      BY DEF Lose
    <3>3. Advance => now < MaxTime /\ now' = now + 1
      BY DEF Advance
    <3>4. QED
      BY <3>1, <3>2, <3>3
  <2>2. now \in 0..MaxTime /\ MaxTime \in Nat
    BY ConstantsAssumption DEF Typed
  <2>3. QED
    BY <2>1, <2>2
<1>3. \A p \in Peer : wire'[p] \subseteq wire[p]
  BY DEF Typed, Return, Lose, Advance, radio
<1>4. wire' \in [Peer -> SUBSET ControlsOf(agreed)]
  BY ZenonT(40) DEF Typed, Return, Lose, Advance, radio
<1>5. QED
  BY <1>1, <1>2, <1>3, <1>4 DEF Typed, SameFaces

LEMMA RestartTypes ==
  ASSUME Typed, NEW p \in Peer, Restart(p)
  PROVE  Typed' /\ SameFaces
<1>1. /\ sessions' = [sessions EXCEPT ![p] = {}]
      /\ orders' = [orders EXCEPT ![p] = <<>>]
      /\ events' = [events EXCEPT ![p] = <<>>]
      /\ taps' = [taps EXCEPT ![p] = {}]
      /\ wire' = [wire EXCEPT ![p] = {}]
      /\ UNCHANGED <<now, held, ranging, opened, agreed>>
  BY DEF Restart
<1>2. orders' \in [Peer -> Seq(OrdersOf(agreed))] /\ events' \in [Peer -> Seq(EventsOf(agreed))]
  BY <1>1 DEF Typed
<1>3. /\ sessions' \in [Peer -> SUBSET SessionsOf(agreed)]
      /\ wire' \in [Peer -> SUBSET ControlsOf(agreed)]
      /\ taps' \in [Peer -> SUBSET [id : Id, accept : BOOLEAN]]
  BY <1>1 DEF Typed
<1>4. \A q \in Peer : wire'[q] \subseteq wire[q]
  BY <1>1 DEF Typed
<1>5. QED
  BY <1>1, <1>2, <1>3, <1>4 DEF Typed, SameFaces

(* The backend opens sessions of the requests it is ordered to.             *)
LEMMA BegunTypes ==
  ASSUME Typed, NEW p \in Peer, NEW q \in Peer, NEW id \in agreed
  PROVE  /\ Begun(p, q, id) \in SUBSET SessionsOf(agreed)
         /\ \E s \in Begun(p, q, id) : s.peer = q
         /\ TokenOf(p, q, id) \in EventsOf(agreed)
<1> DEFINE s0 == [peer |-> q, id |-> id, serial |-> opened[p] + 1, remote |-> NoToken]
<1>1. s0 \in SessionsOf(agreed) /\ s0.peer = q
  BY DEF Typed, SessionsOf, Tokens
<1>2. sessions[p] \in SUBSET SessionsOf(agreed)
  BY DEF Typed
<1> HIDE DEF s0
<1>3. Begun(p, q, id) \in SUBSET SessionsOf(agreed)
  BY <1>1, <1>2 DEF Begun, s0
<1>4. \E s \in Begun(p, q, id) : s.peer = q
  <2>1. CASE Known(p, q, id) # {}
    BY <2>1 DEF Begun, Known, With
  <2>2. CASE Known(p, q, id) = {}
    BY <1>1, <2>2 DEF Begun, s0
  <2>3. QED
    BY <2>1, <2>2
<1> DEFINE s == CHOOSE s \in Begun(p, q, id) : s.peer = q
<1>5. s \in SessionsOf(agreed)
  BY <1>3, <1>4
<1>6. Token(p, s.serial) \in Tokens
  BY <1>5 DEF SessionsOf, Tokens, Token
<1>7. TokenOf(p, q, id) \in EventsOf(agreed)
  BY <1>6, Makes DEF TokenOf, Typed
<1>8. QED
  BY <1>3, <1>4, <1>7

LEMMA CarryTakes ==
  ASSUME Typed, NEW p \in Peer, Carry(p)
  PROVE  /\ Head(orders[p]) \in OrdersOf(agreed)
         /\ orders' \in [Peer -> Seq(OrdersOf(agreed))]
<1>1. orders[p] \in Seq(OrdersOf(agreed)) /\ orders[p] # <<>>
  BY DEF Typed, Carry
<1>2. Head(orders[p]) \in OrdersOf(agreed) /\ Tail(orders[p]) \in Seq(OrdersOf(agreed))
  BY <1>1
<1>3. QED
  BY <1>2 DEF Carry, Typed

LEMMA CarryTypes ==
  ASSUME Typed, NEW p \in Peer, Carry(p)
  PROVE  Typed' /\ SameFaces
<1> DEFINE o == Head(orders[p])
<1>1. o \in OrdersOf(agreed) /\ orders' \in [Peer -> Seq(OrdersOf(agreed))]
  BY CarryTakes
<1>2. UNCHANGED <<radio, held, ranging, app>>
  BY DEF Carry
<1>3. SUFFICES /\ events' \in [Peer -> Seq(EventsOf(agreed))]
               /\ sessions' \in [Peer -> SUBSET SessionsOf(agreed)]
               /\ opened' \in [Peer -> Nat]
  BY <1>1, <1>2, <1>3 DEF Typed, SameFaces, radio, app
<1>4. Note \in EventsOf(agreed)
  BY DEF EventsOf
<1>5. CASE o.kind # "cancel" /\ p \notin awake
  <2>1. Tell(p, <<Note>>) /\ UNCHANGED <<sessions, opened>>
    BY <1>5 DEF Carry
  <2>2. <<Note>> \in Seq(EventsOf(agreed))
    BY <1>4
  <2>3. QED
    BY <2>1, <2>2, Telling DEF Typed
<1>6. CASE o.kind = "cancel"
  <2>1. /\ sessions' = [sessions EXCEPT ![p] = @ \ With(p, o.peer)]
        /\ Tell(p, <<Ended(o.peer)>>) /\ UNCHANGED opened
    BY <1>6 DEF Carry
  <2>2. Ended(o.peer) \in EventsOf(agreed)
    BY <1>1, OrderForms, Makes DEF Typed
  <2>3. <<Ended(o.peer)>> \in Seq(EventsOf(agreed))
    BY <2>2
  <2>4. QED
    BY <2>1, <2>3, Telling DEF Typed
<1>7. CASE o.kind \in {"create", "start"} /\ p \in awake
  <2>1. o.peer \in Peer /\ o.id \in agreed
    BY <1>1, <1>7, OrderForms
  <2>2. /\ Begun(p, o.peer, o.id) \in SUBSET SessionsOf(agreed)
        /\ TokenOf(p, o.peer, o.id) \in EventsOf(agreed)
    BY <2>1, BegunTypes
  <2>3. Begin(p, o.peer, o.id)
    BY <1>7 DEF Carry
  <2>4. opened' \in [Peer -> Nat]
    BY <2>3 DEF Begin, Typed
  <2>5. CASE o.kind = "create"
    <3>1. /\ sessions' = [sessions EXCEPT ![p] = Begun(p, o.peer, o.id)]
          /\ Tell(p, <<TokenOf(p, o.peer, o.id)>>)
      BY <1>7, <2>5 DEF Carry
    <3>2. <<TokenOf(p, o.peer, o.id)>> \in Seq(EventsOf(agreed))
      BY <2>2
    <3>3. QED
      BY <2>2, <2>4, <3>1, <3>2, Telling DEF Typed
  <2>6. CASE o.kind = "start"
    <3> DEFINE B == Begun(p, o.peer, o.id)
               paired == {IF s.peer = o.peer THEN [s EXCEPT !.remote = o.token] ELSE s : s \in B}
    <3>1. /\ sessions' = [sessions EXCEPT ![p] = paired]
          /\ Tell(p, IF Known(p, o.peer, o.id) = {} THEN <<TokenOf(p, o.peer, o.id), Note>>
                     ELSE <<Note>>)
      BY <1>7, <2>6 DEF Carry
    <3>2. o.token \in Tokens
      BY <1>1, <2>6, OrderForms
    <3>3. \A s \in B : [s EXCEPT !.remote = o.token] \in SessionsOf(agreed)
      BY <2>2, <3>2 DEF SessionsOf
    <3> HIDE DEF B
    <3>4. paired \in SUBSET SessionsOf(agreed)
      BY <2>2, <3>3 DEF B
    <3>5. /\ <<TokenOf(p, o.peer, o.id), Note>> \in Seq(EventsOf(agreed))
          /\ <<Note>> \in Seq(EventsOf(agreed))
      BY <1>4, <2>2
    <3> HIDE DEF paired, o
    <3>6. events' \in [Peer -> Seq(EventsOf(agreed))]
      <4>1. CASE Known(p, o.peer, o.id) = {}
        BY <3>1, <3>5, <4>1, Telling
      <4>2. CASE Known(p, o.peer, o.id) # {}
        BY <3>1, <3>5, <4>2, Telling
      <4>3. QED
        BY <4>1, <4>2
    <3>7. QED
      BY <2>4, <3>1, <3>4, <3>6 DEF Typed
  <2>7. QED
    BY <1>7, <2>5, <2>6
<1>8. QED
  BY <1>1, <1>5, <1>6, <1>7, OrderForms

LEMMA MeasureTypes ==
  ASSUME Typed, NEW p \in Peer, NEW s \in sessions[p], Measure(p, s)
  PROVE  Typed' /\ SameFaces
<1>1. s.peer \in Peer
  BY DEF Typed, SessionsOf
<1>2. Measurement(s.peer) \in EventsOf(agreed)
  BY <1>1, Makes DEF Typed
<1>3. <<Measurement(s.peer)>> \in Seq(EventsOf(agreed)) /\ Tell(p, <<Measurement(s.peer)>>)
  BY <1>2 DEF Measure
<1>4. events' \in [Peer -> Seq(EventsOf(agreed))]
  BY <1>3, Telling
<1>5. UNCHANGED <<radio, held, ranging, app, orders, backend>>
  BY DEF Measure
<1>6. QED
  BY <1>4, <1>5 DEF Typed, SameFaces, radio, app, backend

LEMMA InvalidateTypes ==
  ASSUME Typed, NEW p \in Peer, NEW s \in sessions[p], Invalidate(p, s)
  PROVE  Typed' /\ SameFaces
<1>1. <<Note>> \in Seq(EventsOf(agreed)) /\ Tell(p, <<Note>>)
  BY DEF Invalidate, EventsOf
<1>2. events' \in [Peer -> Seq(EventsOf(agreed))]
  BY <1>1, Telling
<1>3. UNCHANGED <<radio, held, ranging, app, orders, opened>>
  BY DEF Invalidate
<1>4. sessions' \in [Peer -> SUBSET SessionsOf(agreed)]
  BY DEF Invalidate, Typed
<1>5. QED
  BY <1>2, <1>3, <1>4 DEF Typed, SameFaces, radio, app

LEMMA InitTypes ==
  ASSUME Init
  PROVE  Typed
<1>1. <<>> \in Seq(OrdersOf(agreed)) /\ <<>> \in Seq(EventsOf(agreed))
  OBVIOUS
<1>2. now \in 0..MaxTime
  BY ConstantsAssumption DEF Init
<1>3. QED
  BY <1>1, <1>2 DEF Init, Typed

(* All steps, by what they do to what is known of requests.                 *)
Steps ==
  \/ \E p, q \in Peer, id \in Id : RequestPrecision(p, q, id)
  \/ \E p \in Peer : \E control \in wire[p] : OnControl(p, control)

LEMMA TypedSteps ==
  ASSUME Typed, Next
  PROVE  Typed' /\ (SameFaces \/ Steps)
<1>1. CASE Progress
  BY <1>1, OnControlTypes, RespondPrecisionTypes, OnRangingTypes, SetForegroundTypes, CarryTypes
     DEF Progress, Steps
<1>2. CASE Advance
  BY <1>2, ReturnLoseAdvanceTypes
<1>3. ASSUME NEW p \in Peer,
             \/ \E q \in Peer, id \in Id : RequestPrecision(p, q, id)
             \/ \E r \in held[p], accept \in BOOLEAN : Tap(p, r, accept)
      PROVE  Typed' /\ (SameFaces \/ Steps)
  BY <1>3, RequestPrecisionTypes, TapTypes DEF Steps
<1>4. ASSUME NEW p \in Peer,
             \/ \E s \in sessions[p] : Measure(p, s) \/ Invalidate(p, s)
             \/ \E control \in wire[p] : Lose(p, control)
             \/ SetSharingPaused(p) \/ Leave(p) \/ Return(p) \/ Restart(p)
      PROVE  Typed' /\ SameFaces
  BY <1>4, MeasureTypes, InvalidateTypes, ReturnLoseAdvanceTypes, SetSharingPausedTypes,
     LeaveTypes, RestartTypes
<1>5. QED
  BY <1>1, <1>2, <1>3, <1>4 DEF Next

-----------------------------------------------------------------------------
(* What devices know of a request agrees: a request on the wire is held by  *)
(* the one who made it, and goes to the one it asks.                        *)
AllFaces == UNION {Faces(held[p]) : p \in Peer}

Consistent ==
  /\ \A f, g \in AllFaces : f.id = g.id => f = g
  /\ \A p \in Peer : \A f \in Faces(held[p]) : p \in {f.from, f.to}
  /\ \A p \in Peer : \A c \in wire[p] :
       c.kind = "request" => c.content.to = p /\ Face(c.content) \in AllFaces

LEMMA SameFacesConsistent ==
  ASSUME Consistent, SameFaces
  PROVE  Consistent'
<1>1. AllFaces' = AllFaces
  BY DEF AllFaces, SameFaces
<1>2. \A p \in Peer : \A f \in Faces(held'[p]) : p \in {f.from, f.to}
  BY DEF Consistent, SameFaces
<1>3. \A p \in Peer : \A c \in wire'[p] :
        c.kind = "request" => c.content.to = p /\ Face(c.content) \in AllFaces
  BY DEF Consistent, SameFaces
<1>4. QED
  BY <1>1, <1>2, <1>3 DEF Consistent

LEMMA RequestPrecisionConsistent ==
  ASSUME Typed, Consistent, NEW p \in Peer, NEW q \in Peer, NEW id \in Id,
         RequestPrecision(p, q, id)
  PROVE  Consistent'
<1>1. PICK r \in Request :
        /\ r.id = id /\ r.from = p /\ r.to = q
        /\ Faces(held'[p]) = Faces(held[p]) \cup {Face(r)}
        /\ \A m \in Peer \ {p} : held'[m] = held[m]
        /\ \A m \in Peer : \A c \in wire'[m] : c \in wire[m] \/ (m = q /\ c.content = r)
  BY RequestPrecisionTypes
<1>2. AllFaces' = AllFaces \cup {Face(r)}
  BY <1>1 DEF AllFaces
<1>3. \A f \in AllFaces : f.id # id
  <2>1. id \notin Ids
    BY DEF RequestPrecision
  <2>2. QED
    BY <2>1 DEF AllFaces, Faces, Face, Ids, Requests
<1>4. Face(r).id = id /\ Face(r).from = p
  BY <1>1 DEF Face
<1>5. \A f, g \in AllFaces' : f.id = g.id => f = g
  BY <1>2, <1>3, <1>4 DEF Consistent
<1>6. \A m \in Peer : \A f \in Faces(held'[m]) : m \in {f.from, f.to}
  BY <1>1, <1>4 DEF Consistent
<1>7. \A m \in Peer : \A c \in wire'[m] :
        c.kind = "request" => c.content.to = m /\ Face(c.content) \in AllFaces'
  BY <1>1, <1>2 DEF Consistent
<1>8. QED
  BY <1>5, <1>6, <1>7 DEF Consistent

LEMMA OnControlConsistent ==
  ASSUME Typed, Consistent, NEW p \in Peer, NEW control \in wire[p], OnControl(p, control)
  PROVE  Consistent'
<1>1. /\ Learns(p, control)
      /\ \A q \in Peer : \A c \in wire'[q] : c.kind = "request" => c \in wire[q]
  BY OnControlTypes, OnControlWires
<1>2. CASE \A q \in Peer : Faces(held'[q]) = Faces(held[q])
  BY <1>1, <1>2, SameFacesConsistent DEF SameFaces
<1>3. CASE /\ control.kind = "request"
           /\ Faces(held'[p]) = Faces(held[p]) \cup {Face(control.content)}
           /\ \A q \in Peer \ {p} : held'[q] = held[q]
  <2>1. control.content.to = p /\ Face(control.content) \in AllFaces
    BY <1>3 DEF Consistent
  <2>2. AllFaces' = AllFaces
    BY <1>3, <2>1 DEF AllFaces
  <2>3. Face(control.content).to = p
    BY <2>1 DEF Face
  <2>4. \A q \in Peer : \A f \in Faces(held'[q]) : q \in {f.from, f.to}
    BY <1>3, <2>3 DEF Consistent
  <2>5. \A q \in Peer : \A c \in wire'[q] :
          c.kind = "request" => c.content.to = q /\ Face(c.content) \in AllFaces
    BY <1>1 DEF Consistent
  <2>6. QED
    BY <2>2, <2>4, <2>5 DEF Consistent
<1>4. QED
  BY <1>1, <1>2, <1>3 DEF Learns

LEMMA InitConsistent ==
  ASSUME Init
  PROVE  Consistent
<1>1. \A p \in Peer : Faces(held[p]) = {} /\ wire[p] = {}
  BY DEF Init, Faces
<1>2. QED
  BY <1>1 DEF Consistent, AllFaces

-----------------------------------------------------------------------------
(* The backend: one session for each member, and none while the app is away. *)
Single ==
  /\ \A p \in Peer : \A s, t \in sessions[p] : s.peer = t.peer => s = t
  /\ \A p \in Peer : p \notin awake => sessions[p] = {}

(* What the events on their way to the core say of a member: no measurement,  *)
(* or none after an end.                                                     *)
Unmeasured(es, q) == \A i \in 1..Len(es) : es[i] # Measurement(q)

Told(es, q) ==
  \E i \in 1..Len(es) :
    es[i] = Ended(q) /\ \A j \in 1..Len(es) : j > i => es[j] # Measurement(q)

(* A distance that is shown, or on its way, is of a session, or its end is   *)
(* on its way too.                                                          *)
Settled(p, q) ==
  \/ With(p, q) # {}
  \/ <<p, q>> \in past.cut
  \/ Told(events[p], q)
  \/ (q \notin ranging[p] /\ Unmeasured(events[p], q))

BackendInv ==
  /\ Single
  /\ "cut" \in DOMAIN past
  /\ \A p, q \in Peer : Settled(p, q)

LEMMA Unmeasuring ==
  ASSUME NEW ids, NEW es \in Seq(EventsOf(ids)), NEW more \in Seq(EventsOf(ids)), NEW q,
         Unmeasured(more, q)
  PROVE  /\ Unmeasured(es, q) => Unmeasured(es \o more, q)
         /\ Told(es, q) => Told(es \o more, q)
         /\ (\E i \in 1..Len(more) : more[i] = Ended(q)) => Told(es \o more, q)
<1>1. /\ Len(es) \in Nat /\ Len(more) \in Nat
      /\ Len(es \o more) = Len(es) + Len(more)
      /\ \A i \in 1..Len(es) : (es \o more)[i] = es[i]
      /\ \A i \in 1..Len(more) : (es \o more)[Len(es) + i] = more[i]
      /\ \A i \in 1..Len(es \o more) :
           i \in 1..Len(es) \/ (i - Len(es) \in 1..Len(more) /\ i = Len(es) + (i - Len(es)))
  OBVIOUS
<1>2. \A i \in 1..Len(es \o more) :
        i \notin 1..Len(es) => (es \o more)[i] # Measurement(q)
  BY <1>1 DEF Unmeasured
<1>3. Unmeasured(es, q) => Unmeasured(es \o more, q)
  BY <1>1, <1>2 DEF Unmeasured
<1>4. ASSUME Told(es, q)
      PROVE  Told(es \o more, q)
  BY <1>1, <1>2, <1>4 DEF Told
<1>5. ASSUME NEW i \in 1..Len(more), more[i] = Ended(q)
      PROVE  Told(es \o more, q)
  <2>1. Len(es) + i \in 1..Len(es \o more) /\ (es \o more)[Len(es) + i] = Ended(q)
    BY <1>1, <1>5
  <2>2. \A j \in 1..Len(es \o more) : j > Len(es) + i => (es \o more)[j] # Measurement(q)
    BY <1>1, <1>2
  <2>3. QED
    BY <2>1, <2>2 DEF Told
<1>6. QED
  BY <1>3, <1>4, <1>5

LEMMA Taking ==
  ASSUME NEW ids, NEW es \in Seq(EventsOf(ids)), es # <<>>, NEW q
  PROVE  /\ Unmeasured(es, q) => Unmeasured(Tail(es), q) /\ Head(es) # Measurement(q)
         /\ Told(es, q) => \/ Told(Tail(es), q)
                          \/ (Head(es) = Ended(q) /\ Unmeasured(Tail(es), q))
<1>1. /\ Len(es) \in Nat \ {0} /\ Head(es) = es[1]
      /\ Len(Tail(es)) = Len(es) - 1
      /\ \A i \in 1..Len(Tail(es)) : Tail(es)[i] = es[i + 1] /\ i + 1 \in 1..Len(es)
      /\ \A i \in 1..Len(es) : i # 1 => i - 1 \in 1..Len(Tail(es)) /\ Tail(es)[i - 1] = es[i]
  OBVIOUS
<1>2. Unmeasured(es, q) => Unmeasured(Tail(es), q) /\ Head(es) # Measurement(q)
  BY <1>1 DEF Unmeasured
<1>3. ASSUME NEW i \in 1..Len(es), es[i] = Ended(q),
             \A j \in 1..Len(es) : j > i => es[j] # Measurement(q)
      PROVE  \/ Told(Tail(es), q)
             \/ (Head(es) = Ended(q) /\ Unmeasured(Tail(es), q))
  <2>1. CASE i = 1
    BY <1>1, <1>3, <2>1 DEF Unmeasured
  <2>2. CASE i # 1
    <3>1. i - 1 \in 1..Len(Tail(es)) /\ Tail(es)[i - 1] = Ended(q)
      BY <1>1, <1>3, <2>2
    <3>2. \A j \in 1..Len(Tail(es)) : j > i - 1 => Tail(es)[j] # Measurement(q)
      BY <1>1, <1>3
    <3>3. QED
      BY <3>1, <3>2 DEF Told
  <2>3. QED
    BY <2>1, <2>2
<1>4. QED
  BY <1>2, <1>3 DEF Told

(* Nothing happens to sessions and events, and no more distances are shown. *)
LEMMA Quiet ==
  ASSUME BackendInv, UNCHANGED <<events, sessions>>, awake \subseteq awake',
         \A p \in Peer : ranging'[p] \subseteq ranging[p],
         past.cut \subseteq past'.cut, "cut" \in DOMAIN past'
  PROVE  BackendInv'
<1>1. Single'
  BY DEF BackendInv, Single
<1>2. \A p, q \in Peer : Settled(p, q)'
  BY DEF BackendInv, Settled, With
<1>3. QED
  BY <1>1, <1>2 DEF BackendInv

LEMMA CutKept ==
  ASSUME BackendInv, UNCHANGED past
  PROVE  past.cut \subseteq past'.cut /\ "cut" \in DOMAIN past'
BY DEF BackendInv

LEMMA FaultCuts ==
  ASSUME NEW ids, NEW cut, Fault(ids, cut)
  PROVE  /\ past'.cut = past.cut \cup cut
         /\ "cut" \in DOMAIN past'
BY DEF Fault

LEMMA QuietSteps ==
  ASSUME Typed, BackendInv, NEW p \in Peer,
         \/ \E q \in Peer, id \in Id : RequestPrecision(p, q, id)
         \/ \E control : OnControl(p, control)
         \/ \E r, accept : Tap(p, r, accept)
         \/ \E t : RespondPrecision(p, t)
         \/ SetForeground(p)
         \/ SetSharingPaused(p)
         \/ Return(p)
         \/ \E control : Lose(p, control)
  PROVE  BackendInv'
<1>1. ASSUME NEW q \in Peer, NEW id \in Id, RequestPrecision(p, q, id)
      PROVE  BackendInv'
  <2>1. UNCHANGED <<events, sessions, awake, ranging>>
    BY <1>1 DEF RequestPrecision, backend
  <2>2. past.cut \subseteq past'.cut /\ "cut" \in DOMAIN past'
    BY <1>1 DEF RequestPrecision, BackendInv
  <2>3. QED
    BY <2>1, <2>2, Quiet
<1>2. ASSUME NEW control, OnControl(p, control)
      PROVE  BackendInv'
  <2>1. UNCHANGED <<events, sessions, awake, ranging, past>>
    BY <1>2 DEF OnControl, OnRequest, OnResponse, OnToken, backend
  <2>2. QED
    BY <2>1, CutKept, Quiet
<1>3. ASSUME NEW r, NEW accept, Tap(p, r, accept)
      PROVE  BackendInv'
  <2>1. UNCHANGED <<events, sessions, awake, ranging, past>>
    BY <1>3 DEF Tap, backend
  <2>2. QED
    BY <2>1, CutKept, Quiet
<1>4. ASSUME NEW t, RespondPrecision(p, t)
      PROVE  BackendInv'
  <2>1. UNCHANGED <<events, sessions, awake, ranging, past>>
    BY <1>4 DEF RespondPrecision, backend
  <2>2. QED
    BY <2>1, CutKept, Quiet
<1>5. CallOff(p) => \A q \in Peer : ranging'[q] \subseteq ranging[q]
  BY DEF CallOff, Typed
<1>6. ASSUME SetForeground(p)
      PROVE  BackendInv'
  <2>1. UNCHANGED <<events, sessions, awake, past>> /\ (UNCHANGED ranging \/ CallOff(p))
    BY <1>6 DEF SetForeground, backend
  <2>2. \A q \in Peer : ranging'[q] \subseteq ranging[q]
    BY <1>5, <2>1
  <2>3. QED
    BY <2>1, <2>2, CutKept, Quiet
<1>7. ASSUME SetSharingPaused(p)
      PROVE  BackendInv'
  <2>1. /\ UNCHANGED <<events, sessions, awake>> /\ (UNCHANGED ranging \/ CallOff(p))
        /\ Fault(Ids, {})
    BY <1>7 DEF SetSharingPaused, backend
  <2>2. \A q \in Peer : ranging'[q] \subseteq ranging[q]
    BY <1>5, <2>1
  <2>3. QED
    BY <2>1, <2>2, FaultCuts, Quiet
<1>8. ASSUME Return(p)
      PROVE  BackendInv'
  <2>1. UNCHANGED <<events, sessions, ranging, past>> /\ awake \subseteq awake'
    BY <1>8 DEF Return
  <2>2. QED
    BY <2>1, CutKept, Quiet
<1>9. ASSUME NEW control, Lose(p, control)
      PROVE  BackendInv'
  <2>1. UNCHANGED <<events, sessions, awake, ranging>> /\ Fault({control.id}, {})
    BY <1>9 DEF Lose, backend
  <2>2. QED
    BY <2>1, FaultCuts, Quiet
<1>10. QED
  BY <1>1, <1>2, <1>3, <1>4, <1>6, <1>7, <1>8, <1>9

LEMMA AdvanceSettles ==
  ASSUME BackendInv, Advance
  PROVE  BackendInv'
<1>1. UNCHANGED <<events, sessions, awake, ranging>>
  BY DEF Advance, backend
<1>2. past.cut \subseteq past'.cut /\ "cut" \in DOMAIN past'
  BY DEF Advance, BackendInv
<1>3. QED
  BY <1>1, <1>2, Quiet

(* An event reaches the core: what it says is then shown.                   *)
LEMMA OnRangingSettles ==
  ASSUME Typed, BackendInv, NEW p \in Peer, OnRanging(p)
  PROVE  BackendInv'
<1> DEFINE e == Head(events[p])
<1>1. /\ events[p] \in Seq(EventsOf(agreed)) /\ events[p] # <<>> /\ e \in EventsOf(agreed)
      /\ events' = [events EXCEPT ![p] = Tail(@)]
  BY OnRangingTakes DEF Typed, OnRanging
<1>2. UNCHANGED <<sessions, awake, past>>
  BY DEF OnRanging, backend
<1>3. Single' /\ "cut" \in DOMAIN past'
  BY <1>2 DEF BackendInv, Single
<1>4. ranging \in [Peer -> SUBSET Peer] /\ events \in [Peer -> Seq(EventsOf(agreed))]
  BY DEF Typed
<1>5. \A m \in Peer \ {p} : ranging'[m] = ranging[m] /\ events'[m] = events[m]
  BY <1>1, <1>4 DEF OnRanging, OnDiscoveryToken, OnMeasurement, OnEnded, OnNote
<1>6. ASSUME NEW q \in Peer
      PROVE  /\ Head(events[p]) = Ended(q) => q \notin ranging'[p]
             /\ Head(events[p]) # Measurement(q) /\ q \notin ranging[p] => q \notin ranging'[p]
  <2>1. CASE OnDiscoveryToken(p, e)
    BY <2>1 DEF OnDiscoveryToken, Ended
  <2>2. CASE OnMeasurement(p, e)
    <3>1. e.kind = "measurement" /\ ranging' = [ranging EXCEPT ![p] = @ \cup {e.peer}]
      BY <2>2 DEF OnMeasurement
    <3>2. e = Measurement(e.peer)
      BY <1>1, <3>1, EventForms
    <3>3. e # Ended(q)
      BY <3>1 DEF Ended
    <3> HIDE DEF e
    <3>4. QED
      BY <1>4, <3>1, <3>2, <3>3 DEF e
  <2>3. CASE OnEnded(p, e)
    <3>1. ranging' = [ranging EXCEPT ![p] = @ \ {e.peer}]
      BY <2>3 DEF OnEnded
    <3>2. e = Ended(q) => e.peer = q
      BY DEF Ended
    <3> HIDE DEF e
    <3>3. QED
      BY <1>4, <3>1, <3>2 DEF e
  <2>4. CASE OnNote(p, e)
    <3>1. Note.kind # Ended(q).kind
      BY DEF Note, Ended
    <3>2. e = Note /\ UNCHANGED ranging
      BY <2>4 DEF OnNote
    <3>3. QED
      BY <3>1, <3>2
  <2>5. QED
    BY <2>1, <2>2, <2>3, <2>4 DEF OnRanging
<1>7. ASSUME NEW q \in Peer
      PROVE  Settled(p, q)'
  <2>1. events'[p] = Tail(events[p])
    BY <1>1, <1>4
  <2>2. With(p, q)' = With(p, q) /\ past'.cut = past.cut
    BY <1>2 DEF With
  <2>3. Settled(p, q)
    BY DEF BackendInv
  <2>4. CASE Told(events[p], q)
    BY <1>1, <1>6, <2>1, <2>4, Taking DEF Settled
  <2>5. CASE q \notin ranging[p] /\ Unmeasured(events[p], q)
    BY <1>1, <1>6, <2>1, <2>5, Taking DEF Settled
  <2>6. QED
    BY <2>2, <2>3, <2>4, <2>5 DEF Settled
<1>8. ASSUME NEW m \in Peer \ {p}, NEW q \in Peer
      PROVE  Settled(m, q)'
  BY <1>2, <1>5 DEF BackendInv, Settled, With
<1>9. QED
  BY <1>3, <1>7, <1>8 DEF BackendInv

(* Events are added, none of them a measurement of a member that has no      *)
(* session any more, and those that lost their session are told about.      *)
LEMMA Adding ==
  ASSUME Typed, BackendInv, Single', NEW p \in Peer, NEW more \in Seq(EventsOf(agreed)),
         Tell(p, more), UNCHANGED ranging,
         \A m \in Peer \ {p} : sessions'[m] = sessions[m],
         past.cut \subseteq past'.cut, "cut" \in DOMAIN past',
         \A q \in Peer : With(p, q)' # {} \/ Unmeasured(more, q),
         \A q \in Peer :
           With(p, q) # {} => \/ With(p, q)' # {}
                             \/ <<p, q>> \in past'.cut
                             \/ \E i \in 1..Len(more) : more[i] = Ended(q)
  PROVE  BackendInv'
<1>1. events \in [Peer -> Seq(EventsOf(agreed))] /\ events' = [events EXCEPT ![p] = @ \o more]
  BY DEF Typed, Tell
<1>2. ASSUME NEW q \in Peer
      PROVE  Settled(p, q)'
  <2>1. events'[p] = events[p] \o more /\ events[p] \in Seq(EventsOf(agreed))
    BY <1>1
  <2>2. CASE With(p, q)' # {}
    BY <2>2 DEF Settled
  <2>3. CASE With(p, q)' = {}
    <3>1. /\ Unmeasured(events[p], q) => Unmeasured(events'[p], q)
          /\ Told(events[p], q) => Told(events'[p], q)
          /\ (\E i \in 1..Len(more) : more[i] = Ended(q)) => Told(events'[p], q)
      BY <2>1, <2>3, Unmeasuring
    <3>2. Settled(p, q)
      BY DEF BackendInv
    <3>3. QED
      BY <2>3, <3>1, <3>2 DEF Settled
  <2>4. QED
    BY <2>2, <2>3
<1>3. ASSUME NEW m \in Peer \ {p}, NEW q \in Peer
      PROVE  Settled(m, q)'
  <2>1. events'[m] = events[m] /\ sessions'[m] = sessions[m] /\ ranging'[m] = ranging[m]
    BY <1>1
  <2>2. QED
    BY <2>1 DEF BackendInv, Settled, With
<1>4. QED
  BY <1>2, <1>3 DEF BackendInv

LEMMA LeaveSettles ==
  ASSUME Typed, BackendInv, NEW p \in Peer, Leave(p)
  PROVE  BackendInv'
<1>1. past.cut \subseteq past'.cut /\ "cut" \in DOMAIN past'
  BY FaultCuts DEF Leave
<1>2. UNCHANGED ranging
  BY DEF Leave
<1>3. CASE UNCHANGED <<awake, sessions, events>>
  BY <1>1, <1>2, <1>3, Quiet
<1>4. CASE /\ awake' = awake \ {p}
           /\ sessions' = [sessions EXCEPT ![p] = {}]
           /\ events' = [events EXCEPT ![p] = @ \o SetToSeq({Ended(s.peer) : s \in sessions[p]})]
  <2> DEFINE ends == SetToSeq({Ended(s.peer) : s \in sessions[p]})
  <2>1. /\ ends \in Seq(EventsOf(agreed))
        /\ \A i \in 1..Len(ends) : ends[i].kind = "ended"
        /\ \A s \in sessions[p] : \E i \in 1..Len(ends) : ends[i] = Ended(s.peer)
    BY EndsOf, ZenonT(40) DEF Typed
  <2>2. Tell(p, ends)
    BY <1>4 DEF Tell
  <2> HIDE DEF ends
  <2>3. sessions'[p] = {} /\ \A m \in Peer \ {p} : sessions'[m] = sessions[m]
    BY <1>4 DEF Typed
  <2>4. Single'
    BY <1>4, <2>3 DEF BackendInv, Single
  <2>5. \A q \in Peer : Unmeasured(ends, q)
    BY <2>1 DEF Unmeasured, Measurement
  <2>6. \A q \in Peer : With(p, q) # {} => \E i \in 1..Len(ends) : ends[i] = Ended(q)
    BY <2>1 DEF With
  <2>7. QED
    BY <1>1, <1>2, <2>1, <2>2, <2>3, <2>4, <2>5, <2>6, Adding
<1>5. QED
  BY <1>3, <1>4 DEF Leave

LEMMA RestartSettles ==
  ASSUME Typed, BackendInv, NEW p \in Peer, Restart(p)
  PROVE  BackendInv'
<1>1. /\ sessions' = [sessions EXCEPT ![p] = {}]
      /\ events' = [events EXCEPT ![p] = <<>>]
      /\ UNCHANGED ranging
      /\ Fault(Ids, {<<p, s.peer>> : s \in sessions[p]} \cup {<<p, q>> : q \in ranging[p]})
      /\ awake' = awake \cup {p} \/ awake' = awake \ {p}
  BY DEF Restart
<1>2. /\ past'.cut = past.cut \cup {<<p, s.peer>> : s \in sessions[p]}
                                 \cup {<<p, q>> : q \in ranging[p]}
      /\ "cut" \in DOMAIN past'
  BY <1>1, FaultCuts
<1>3. /\ sessions'[p] = {} /\ \A m \in Peer \ {p} : sessions'[m] = sessions[m]
      /\ events'[p] = <<>> /\ \A m \in Peer \ {p} : events'[m] = events[m]
  BY <1>1 DEF Typed
<1>4. Single'
  BY <1>1, <1>3 DEF BackendInv, Single
<1>5. ASSUME NEW q \in Peer
      PROVE  Settled(p, q)'
  <2>1. CASE q \in ranging[p]
    BY <1>2, <2>1 DEF Settled
  <2>2. CASE q \notin ranging[p]
    <3>1. Unmeasured(events'[p], q)
      BY <1>3 DEF Unmeasured
    <3>2. QED
      BY <1>1, <2>2, <3>1 DEF Settled
  <2>3. QED
    BY <2>1, <2>2
<1>6. ASSUME NEW m \in Peer \ {p}, NEW q \in Peer
      PROVE  Settled(m, q)'
  BY <1>1, <1>2, <1>3 DEF BackendInv, Settled, With
<1>7. QED
  BY <1>2, <1>4, <1>5, <1>6 DEF BackendInv

(* What Carry and Invalidate tell the core is no measurement.               *)
LEMMA Silent ==
  ASSUME NEW p, NEW m, NEW id, NEW q
  PROVE  /\ Unmeasured(<<Note>>, q)
         /\ Unmeasured(<<Ended(m)>>, q)
         /\ Unmeasured(<<TokenOf(p, m, id)>>, q)
         /\ Unmeasured(<<TokenOf(p, m, id), Note>>, q)
<1>1. Note # Measurement(q)
  <2>1. Note.kind # Measurement(q).kind
    BY DEF Note, Measurement
  <2>2. QED
    BY <2>1
<1>2. Ended(m) # Measurement(q)
  <2>1. Ended(m).kind # Measurement(q).kind
    BY DEF Ended, Measurement
  <2>2. QED
    BY <2>1
<1>3. TokenOf(p, m, id) # Measurement(q)
  <2>1. TokenOf(p, m, id).kind # Measurement(q).kind
    BY DEF TokenOf, DiscoveryToken, Measurement
  <2>2. QED
    BY <2>1
<1>4. QED
  BY <1>1, <1>2, <1>3 DEF Unmeasured

LEMMA BegunSingle ==
  ASSUME Typed, Single, NEW p \in Peer, NEW q \in Peer, NEW id \in agreed
  PROVE  /\ \A s, t \in Begun(p, q, id) : s.peer = t.peer => s = t
         /\ \A m \in Peer : With(p, m) # {} => \E s \in Begun(p, q, id) : s.peer = m
<1>1. CASE Known(p, q, id) # {}
  BY <1>1 DEF Begun, Single, With
<1>2. CASE Known(p, q, id) = {}
  <2> DEFINE s0 == [peer |-> q, id |-> id, serial |-> opened[p] + 1, remote |-> NoToken]
             rest == sessions[p] \ With(p, q)
  <2>1. Begun(p, q, id) = rest \cup {s0}
    BY <1>2 DEF Begun
  <2>2. s0.peer = q /\ \A s \in rest : s.peer # q
    BY DEF With
  <2>3. \A s, t \in rest : s.peer = t.peer => s = t
    BY DEF Single
  <2>4. \A m \in Peer \ {q} : With(p, m) # {} => \E s \in rest : s.peer = m
    BY DEF With
  <2> HIDE DEF s0, rest
  <2>5. QED
    BY <2>1, <2>2, <2>3, <2>4
<1>3. QED
  BY <1>1, <1>2

(* A session is begun: the others stay as they are.                         *)
LEMMA Beginning ==
  ASSUME Typed, BackendInv, NEW p \in awake, p \in Peer, UNCHANGED <<ranging, awake, past>>,
         NEW new, sessions' = [sessions EXCEPT ![p] = new],
         \A s, t \in new : s.peer = t.peer => s = t,
         \A m \in Peer : With(p, m) # {} => \E s \in new : s.peer = m,
         NEW more \in Seq(EventsOf(agreed)), Tell(p, more),
         \A q \in Peer : Unmeasured(more, q)
  PROVE  BackendInv'
<1>1. past.cut \subseteq past'.cut /\ "cut" \in DOMAIN past'
  BY CutKept
<1>2. sessions'[p] = new /\ \A m \in Peer \ {p} : sessions'[m] = sessions[m]
  BY DEF Typed
<1>3. Single'
  BY <1>2 DEF BackendInv, Single
<1>4. \A m \in Peer : With(p, m) # {} => With(p, m)' # {}
  BY <1>2 DEF With
<1>5. QED
  BY <1>1, <1>2, <1>3, <1>4, Adding

LEMMA CarrySettles ==
  ASSUME Typed, BackendInv, NEW p \in Peer, Carry(p)
  PROVE  BackendInv'
<1> DEFINE o == Head(orders[p])
<1>1. o \in OrdersOf(agreed) /\ o.peer \in Peer
  BY CarryTakes, OrderForms
<1>2. UNCHANGED <<ranging, awake, past>>
  BY DEF Carry
<1>3. past.cut \subseteq past'.cut /\ "cut" \in DOMAIN past'
  BY <1>2, CutKept
<1>4. Note \in EventsOf(agreed) /\ agreed \subseteq Id
  BY DEF EventsOf, Typed
<1>5. CASE o.kind # "cancel" /\ p \notin awake
  <2>1. Tell(p, <<Note>>) /\ UNCHANGED sessions
    BY <1>5 DEF Carry
  <2>2. Single' /\ \A q \in Peer : With(p, q)' = With(p, q)
    BY <1>2, <2>1 DEF BackendInv, Single, With
  <2>3. <<Note>> \in Seq(EventsOf(agreed))
    BY <1>4
  <2>4. \A q \in Peer : Unmeasured(<<Note>>, q)
    BY Silent
  <2>5. QED
    BY <1>2, <1>3, <2>1, <2>2, <2>3, <2>4, Adding
<1>6. CASE o.kind = "cancel"
  <2>1. /\ sessions' = [sessions EXCEPT ![p] = @ \ With(p, o.peer)]
        /\ Tell(p, <<Ended(o.peer)>>)
    BY <1>6 DEF Carry
  <2>2. <<Ended(o.peer)>> \in Seq(EventsOf(agreed))
    <3>1. Ended(o.peer) \in EventsOf(agreed)
      BY <1>1, <1>4, Makes
    <3>2. QED
      BY <3>1
  <2>3. /\ sessions'[p] = sessions[p] \ With(p, o.peer)
        /\ \A m \in Peer \ {p} : sessions'[m] = sessions[m]
    BY <2>1 DEF Typed
  <2> HIDE DEF o
  <2>4. Single'
    BY <1>2, <2>3 DEF BackendInv, Single
  <2>5. \A q \in Peer : q # o.peer /\ With(p, q) # {} => With(p, q)' # {}
    BY <2>3 DEF With
  <2>6. \E i \in 1..Len(<<Ended(o.peer)>>) : <<Ended(o.peer)>>[i] = Ended(o.peer)
    OBVIOUS
  <2>7. \A q \in Peer : Unmeasured(<<Ended(o.peer)>>, q)
    BY Silent
  <2>8. QED
    BY <1>2, <1>3, <2>1, <2>2, <2>3, <2>4, <2>5, <2>6, <2>7, Adding
<1>7. CASE o.kind \in {"create", "start"} /\ p \in awake
  <2> DEFINE B == Begun(p, o.peer, o.id)
             token == TokenOf(p, o.peer, o.id)
  <2>1. o.id \in agreed
    BY <1>1, <1>7, OrderForms
  <2>2. /\ B \in SUBSET SessionsOf(agreed) /\ token \in EventsOf(agreed)
        /\ \A s, t \in B : s.peer = t.peer => s = t
        /\ \A m \in Peer : With(p, m) # {} => \E s \in B : s.peer = m
    BY <1>1, <2>1, BegunTypes, BegunSingle DEF BackendInv
  <2>7. \A q \in Peer : /\ Unmeasured(<<token>>, q) /\ Unmeasured(<<Note>>, q)
                        /\ Unmeasured(<<token, Note>>, q)
    BY Silent
  <2> HIDE DEF token
  <2>3. /\ <<token>> \in Seq(EventsOf(agreed))
        /\ <<Note>> \in Seq(EventsOf(agreed))
        /\ <<token, Note>> \in Seq(EventsOf(agreed))
    BY <1>4, <2>2
  <2>4. CASE o.kind = "create"
    <3>1. sessions' = [sessions EXCEPT ![p] = B] /\ Tell(p, <<token>>)
      BY <1>7, <2>4 DEF Carry, token
    <3> HIDE DEF B
    <3>2. QED
      BY <1>2, <1>7, <2>2, <2>3, <2>7, <3>1, Beginning
  <2>5. CASE o.kind = "start"
    <3> DEFINE Pair(s) == IF s.peer = o.peer THEN [s EXCEPT !.remote = o.token] ELSE s
               paired == {Pair(s) : s \in B}
    <3>1. /\ sessions' = [sessions EXCEPT ![p] = paired]
          /\ Tell(p, IF Known(p, o.peer, o.id) = {} THEN <<token, Note>> ELSE <<Note>>)
      BY <1>7, <2>5 DEF Carry, token
    <3> HIDE DEF o, paired
    <3>2. PICK more \in Seq(EventsOf(agreed)) :
            events' = [events EXCEPT ![p] = @ \o more] /\ \A q \in Peer : Unmeasured(more, q)
      <4>1. CASE Known(p, o.peer, o.id) = {}
        BY <2>3, <2>7, <3>1, <4>1 DEF Tell
      <4>2. CASE Known(p, o.peer, o.id) # {}
        BY <2>3, <2>7, <3>1, <4>2 DEF Tell
      <4>3. QED
        BY <4>1, <4>2
    <3>3. \A s \in B : Pair(s).peer = s.peer
      BY <2>2 DEF SessionsOf
    <3> HIDE DEF B, Pair
    <3>4. \A s, t \in paired : s.peer = t.peer => s = t
      BY <2>2, <3>3 DEF paired
    <3>5. \A m \in Peer : With(p, m) # {} => \E s \in paired : s.peer = m
      BY <2>2, <3>3 DEF paired
    <3>6. Tell(p, more)
      BY <3>2 DEF Tell
    <3>7. QED
      BY <1>2, <1>7, <3>1, <3>2, <3>4, <3>5, <3>6, Beginning
  <2>6. QED
    BY <1>7, <2>4, <2>5
<1>8. QED
  BY <1>1, <1>5, <1>6, <1>7, OrderForms

LEMMA MeasureSettles ==
  ASSUME Typed, BackendInv, NEW p \in Peer, NEW s \in sessions[p], Measure(p, s)
  PROVE  BackendInv'
<1> DEFINE more == <<Measurement(s.peer)>>
<1>1. Tell(p, more) /\ UNCHANGED <<ranging, sessions, awake, past>>
  BY DEF Measure, backend
<1>2. s.peer \in Peer
  BY DEF Typed, SessionsOf
<1>3. more \in Seq(EventsOf(agreed))
  <2>1. Measurement(s.peer) \in EventsOf(agreed)
    BY <1>2, Makes DEF Typed
  <2>2. QED
    BY <2>1
<1>4. \A q \in Peer : q # s.peer => Unmeasured(more, q)
  BY DEF Unmeasured, Measurement
<1>5. Single' /\ \A q \in Peer : With(p, q)' = With(p, q)
  BY <1>1 DEF BackendInv, Single, With
<1>6. With(p, s.peer)' # {}
  <2>1. s \in With(p, s.peer)
    BY DEF With
  <2>2. QED
    BY <1>2, <1>5, <2>1
<1>7. past.cut \subseteq past'.cut /\ "cut" \in DOMAIN past'
  BY <1>1, CutKept
<1> HIDE DEF more
<1>8. QED
  BY <1>1, <1>3, <1>4, <1>5, <1>6, <1>7, Adding

LEMMA InvalidateSettles ==
  ASSUME Typed, BackendInv, NEW p \in Peer, NEW s \in sessions[p], Invalidate(p, s)
  PROVE  BackendInv'
<1>1. /\ Tell(p, <<Note>>) /\ UNCHANGED <<ranging, awake>>
      /\ sessions' = [sessions EXCEPT ![p] = @ \ {s}]
      /\ Fault({s.id}, {<<p, s.peer>>})
  BY DEF Invalidate
<1>2. <<Note>> \in Seq(EventsOf(agreed))
  BY DEF EventsOf
<1>3. sessions'[p] = sessions[p] \ {s} /\ \A m \in Peer \ {p} : sessions'[m] = sessions[m]
  BY <1>1 DEF Typed
<1>4. Single'
  BY <1>1, <1>3 DEF BackendInv, Single
<1>5. past'.cut = past.cut \cup {<<p, s.peer>>} /\ "cut" \in DOMAIN past'
  BY <1>1, FaultCuts
<1>6. \A q \in Peer : q # s.peer /\ With(p, q) # {} => With(p, q)' # {}
  BY <1>3 DEF With
<1>7. \A q \in Peer : Unmeasured(<<Note>>, q)
  BY Silent
<1>8. QED
  BY <1>1, <1>2, <1>3, <1>4, <1>5, <1>6, <1>7, Adding

LEMMA InitSettles ==
  ASSUME Init
  PROVE  BackendInv
BY DEF Init, BackendInv, Single, Settled, With, Unmeasured

-----------------------------------------------------------------------------
Inv == Typed /\ Consistent /\ BackendInv

(* The inductive invariant of precise ranging.                              *)
THEOREM Invariant == Spec => []Inv
<1>1. Init => Inv
  BY InitTypes, InitConsistent, InitSettles DEF Inv
<1>2. ASSUME Inv, Next
      PROVE  Inv'
  <2>1. Typed' /\ (SameFaces \/ Steps)
    BY <1>2, TypedSteps DEF Inv
  <2>2. Consistent'
    <3>1. CASE SameFaces
      BY <1>2, <3>1, SameFacesConsistent DEF Inv
    <3>2. CASE Steps
      BY <1>2, <3>2, RequestPrecisionConsistent, OnControlConsistent DEF Inv, Steps
    <3>3. QED
      BY <2>1, <3>1, <3>2
  <2>3. BackendInv'
    <3>1. CASE Progress
      BY <1>2, <3>1, QuietSteps, OnRangingSettles, CarrySettles DEF Inv, Progress
    <3>2. CASE Advance
      BY <1>2, <3>2, AdvanceSettles DEF Inv
    <3>3. ASSUME NEW p \in Peer,
                 \/ \E q \in Peer, id \in Id : RequestPrecision(p, q, id)
                 \/ \E r \in held[p], accept \in BOOLEAN : Tap(p, r, accept)
                 \/ \E control \in wire[p] : Lose(p, control)
                 \/ SetSharingPaused(p) \/ Return(p)
          PROVE  BackendInv'
      BY <1>2, <3>3, QuietSteps DEF Inv
    <3>4. ASSUME NEW p \in Peer,
                 \/ \E s \in sessions[p] : Measure(p, s) \/ Invalidate(p, s)
                 \/ Leave(p) \/ Restart(p)
          PROVE  BackendInv'
      BY <1>2, <3>4, MeasureSettles, InvalidateSettles, LeaveSettles, RestartSettles DEF Inv
    <3>5. QED
      BY <1>2, <3>1, <3>2, <3>3, <3>4 DEF Next
  <2>4. QED
    BY <2>1, <2>2, <2>3 DEF Inv
<1>3. Inv /\ UNCHANGED vars => Inv'
  BY DEF Inv, Typed, Consistent, AllFaces, BackendInv, Single, Settled, With, vars
<1>4. QED
  BY <1>1, <1>2, <1>3, PTL DEF Spec

(* Ranging keeps the promises made to its users, whatever is lost, paused,  *)
(* invalidated or restarted: a session is opened only with the consent of   *)
(* the user who was asked (request_precision, respond_precision, begin),    *)
(* and when nothing more is to be told, a distance is shown only while      *)
(* there is a session it is measured by, unless the session went without an *)
(* event.                                                                   *)
THEOREM RangingIsSound == Spec => []RangingSound
<1>1. ASSUME Inv
      PROVE  TypeOK
  <2>1. now \in 0..MaxTime /\ \A p \in Peer : held[p] \subseteq Request
    BY <1>1 DEF Inv, Typed
  <2>2. \A p \in Peer : \A r \in held[p] : Face(r) \in Faces(held[p]) /\ Face(r) \in AllFaces
    BY DEF Faces, AllFaces
  <2>3. \A p \in Peer : \A r \in held[p] : p \in {r.from, r.to}
    BY <1>1, <2>2, ZenonT(40) DEF Inv, Consistent, Face
  <2>4. \A p \in Peer : \A r \in held[p], s \in Requests :
          r.id = s.id => r.from = s.from /\ r.till = s.till
    <3>1. SUFFICES ASSUME NEW p \in Peer, NEW r \in held[p], NEW s \in Requests, r.id = s.id
                   PROVE  r.from = s.from /\ r.till = s.till
      OBVIOUS
    <3>2. Face(r) \in AllFaces /\ Face(s) \in AllFaces
      BY <2>2 DEF Requests
    <3>3. Face(r).id = Face(s).id
      BY <3>1 DEF Face
    <3>4. Face(r) = Face(s)
      BY <1>1, <3>2, <3>3 DEF Inv, Consistent
    <3>5. QED
      BY <3>4 DEF Face
  <2>5. QED
    BY <1>1, <2>1, <2>3, <2>4 DEF TypeOK, Inv, BackendInv, Single
<1>2. Inv => ConsentedOnly
  BY DEF Inv, Typed, SessionsOf, ConsentedOnly
<1>3. ASSUME Inv
      PROVE  ShownHasSession
  <2>1. SUFFICES ASSUME NEW p \in Peer, NEW q \in ranging[p], events[p] = <<>>,
                        <<p, q>> \notin past.cut
                 PROVE  With(p, q) # {}
    BY DEF ShownHasSession
  <2>2. q \in Peer
    BY <1>3 DEF Inv, Typed
  <2>3. ~Told(events[p], q)
    BY <2>1 DEF Told
  <2>4. QED
    BY <1>3, <2>1, <2>2, <2>3 DEF Inv, BackendInv, Settled
<1>4. Inv => RangingSound
  BY <1>1, <1>2, <1>3 DEF RangingSound
<1>5. QED
  BY <1>4, Invariant, PTL
-----------------------------------------------------------------------------
(* The cooldown of requests. It is the time of the request that arrived     *)
(* last, so it only helps if requests arrive in the order in which they     *)
(* were made. They do, up to ties: a device asks a member again only when   *)
(* its last request to it is closed, and a request that has not arrived is  *)
(* closed by nothing but time, after which it does not arrive any more.     *)
Arrived(f) == f \in Faces(held[f.to])

(* A request is held by the device that made it.                            *)
Made == \A f \in AllFaces : f.created <= now /\ f \in Faces(held[f.from])

Lettered ==
  \A p \in Peer : \A c \in wire[p] : c.kind = "request" =>
    c.id = c.content.id /\ c.till = c.content.till /\ c.from = c.content.from

(* Only the member who was asked refuses, and only what it has been asked.  *)
Refused(id) == \E f \in AllFaces : f.id = id /\ Arrived(f)
Answered ==
  \A p \in Peer : \A c \in wire[p] : c.kind = "response" /\ ~c.content => Refused(c.id)
Tapped ==
  \A p \in Peer : \A t \in taps[p] : \E f \in Faces(held[p]) : f.id = t.id /\ f.to = p

OpenUntil(t, h) == h.status \in Open \/ t >= h.till \/ Arrived(Face(h))
StillOpen == \A p \in Peer : \A h \in held[p] : h.from = p => OpenUntil(now, h)

(* Whoever was asked later was asked by a request that is newer, or made    *)
(* when this one could not arrive any more.                                 *)
InOrder ==
  \A f, g \in AllFaces :
    f.id # g.id /\ f.from = g.from /\ f.to = g.to /\ ~Arrived(f) =>
      g.created <= f.created \/ f.till <= g.created

Remembered ==
  \A p \in Peer : \A n \in notified[p] :
    /\ n \in Request /\ n.to = p /\ Face(n) \in Faces(held[p])
    /\ ~Tied(p, n.from) => n.created <= cooldown[p][n.from]

Asking ==
  /\ Made /\ Lettered /\ Answered /\ Tapped /\ StillOpen /\ InOrder /\ Remembered
  /\ cooldown \in [Peer -> [Peer -> Int]] /\ notified \in [Peer -> SUBSET Request]
  /\ Spaced

(* What a step must leave alone for the cooldown not to be about it.        *)
Calm ==
  /\ now <= now' /\ now' \in Nat
  /\ \A p \in Peer : \A t \in taps'[p] :
       t \in taps[p] \/ \E f \in Faces(held[p]) : f.id = t.id /\ f.to = p
  /\ \A p \in Peer : \A c \in wire'[p] :
       c.kind = "response" /\ ~c.content => c \in wire[p] \/ Refused(c.id)
  /\ \A p \in Peer : \A h \in held'[p] :
       OpenUntil(now', h) \/ \E g \in held[p] : Face(g) = Face(h) /\ g.status = h.status
  /\ UNCHANGED <<cooldown, notified>> \/ \E p \in Peer : Restart(p)

LEMMA FaceForms ==
  ASSUME Typed
  PROVE  /\ \A f \in AllFaces : /\ f.id \in Id /\ f.from \in Peer /\ f.to \in Peer
                                /\ f.created \in Nat /\ f.till \in Nat
                                /\ f = [id |-> f.id, from |-> f.from, to |-> f.to,
                                        created |-> f.created, till |-> f.till]
         /\ now \in Nat
         /\ \A p \in Peer : \A h \in held[p] : Face(h) \in AllFaces /\ Face(h) \in Faces(held[p])
<1>1. now \in Nat /\ \A p \in Peer : held[p] \subseteq Request
  BY ConstantsAssumption DEF Typed
<1>2. ASSUME NEW r \in Request
      PROVE  /\ Face(r).id \in Id /\ Face(r).from \in Peer /\ Face(r).to \in Peer
             /\ Face(r).created \in Nat /\ Face(r).till \in Nat
             /\ Face(r) = [id |-> Face(r).id, from |-> Face(r).from, to |-> Face(r).to,
                           created |-> Face(r).created, till |-> Face(r).till]
  BY ConstantsAssumption DEF Request, Face
<1>3. \A f \in AllFaces : \E r \in Request : f = Face(r)
  BY <1>1 DEF AllFaces, Faces
<1>4. QED
  BY <1>1, <1>2, <1>3 DEF AllFaces, Faces

LEMMA OneFace ==
  ASSUME NEW f, NEW r, f = Face(r)
  PROVE  f.id = r.id /\ f.from = r.from /\ f.to = r.to /\ f.created = r.created /\ f.till = r.till
BY DEF Face

(* Ties are made by requests, which stay.                                   *)
LEMMA TiesStay ==
  ASSUME NEW p \in Peer, NEW q, Faces(held[p]) \subseteq Faces(held'[p]), Tied(p, q)
  PROVE  Tied(p, q)'
<1>1. PICK r \in held[p], s \in held[p] :
        r.from = q /\ s.from = q /\ r.id # s.id /\ r.till = s.created
  BY DEF Tied
<1>2. Face(r) \in Faces(held'[p]) /\ Face(s) \in Faces(held'[p])
  BY DEF Faces
<1>3. PICK r1 \in held'[p], s1 \in held'[p] : Face(r1) = Face(r) /\ Face(s1) = Face(s)
  BY <1>2 DEF Faces
<1>4. r1.from = q /\ s1.from = q /\ r1.id # s1.id /\ r1.till = s1.created
  BY <1>1, <1>3 DEF Face
<1>5. QED
  BY <1>4 DEF Tied

LEMMA RememberedKept ==
  ASSUME Asking, \A p \in Peer : Faces(held[p]) \subseteq Faces(held'[p]),
         UNCHANGED <<cooldown, notified>>
  PROVE  Remembered' /\ Spaced'
<1>1. Remembered'
  BY TiesStay, ZenonT(40) DEF Asking, Remembered, Request
<1>2. Spaced'
  <2>1. SUFFICES ASSUME NEW p \in Peer, NEW r \in notified[p], NEW s \in notified[p],
                        r.from = s.from, r.id # s.id, ~Tied(p, r.from)'
                 PROVE  r.created - s.created >= Cooldown \/ s.created - r.created >= Cooldown
    BY DEF Spaced
  <2>2. ~Tied(p, r.from)
    BY <2>1, TiesStay
  <2>3. QED
    BY <2>1, <2>2 DEF Asking, Spaced
<1>3. QED
  BY <1>1, <1>2

LEMMA CalmSteps ==
  ASSUME Typed, Typed', Asking, SameFaces, Calm
  PROVE  Asking'
<1>1. AllFaces' = AllFaces /\ \A p \in Peer : Faces(held'[p]) = Faces(held[p])
  BY DEF AllFaces, SameFaces
<1>2. \A f \in AllFaces : Arrived(f)' <=> Arrived(f)
  BY <1>1, FaceForms DEF Arrived
<1>3. Made'
  BY <1>1, FaceForms DEF Made, Asking, Calm
<1>4. Lettered'
  BY DEF Lettered, Asking, SameFaces
<1>5. Answered'
  <2>1. \A id : Refused(id) => Refused(id)'
    BY <1>1, <1>2 DEF Refused
  <2>2. QED
    BY <2>1 DEF Answered, Asking, Calm
<1>6. Tapped'
  BY <1>1 DEF Tapped, Asking, Calm
<1>7. StillOpen'
  <2> SUFFICES ASSUME NEW p \in Peer, NEW h \in held'[p], h.from = p
               PROVE  OpenUntil(now, h)'
    BY DEF StillOpen
  <2>0. CASE OpenUntil(now', h)
    <3>1. Face(h) \in AllFaces
      BY <1>1 DEF Faces, AllFaces
    <3>2. QED
      BY <1>2, <2>0, <3>1 DEF OpenUntil
  <2>1. SUFFICES ASSUME NEW g \in held[p], Face(g) = Face(h), g.status = h.status
                 PROVE  OpenUntil(now, h)'
    BY <2>0 DEF Calm
  <2>2. g.from = p /\ g.till = h.till
    BY <2>1, OneFace
  <2>3. OpenUntil(now, g)
    BY <2>2 DEF Asking, StillOpen
  <2>4. Face(g) \in AllFaces /\ now \in Nat /\ g.till \in Nat
    <3>1. Face(g) \in AllFaces /\ now \in Nat /\ Face(g).till \in Nat
      BY <2>1, FaceForms
    <3>2. QED
      BY <3>1 DEF Face
  <2>5. g.till = h.till /\ now <= now' /\ now' \in Nat
    BY <2>2 DEF Calm
  <2>6. Arrived(Face(g)) => Arrived(Face(h))'
    BY <1>2, <2>1, <2>4
  <2>7. QED
    BY <2>1, <2>3, <2>4, <2>5, <2>6 DEF OpenUntil
<1>8. InOrder'
  BY <1>1, <1>2 DEF InOrder, Asking
<1>9. /\ Remembered' /\ Spaced'
      /\ cooldown' \in [Peer -> [Peer -> Int]] /\ notified' \in [Peer -> SUBSET Request]
  <2>1. CASE UNCHANGED <<cooldown, notified>>
    BY <1>1, <2>1, RememberedKept DEF Asking
  <2>2. ASSUME NEW p \in Peer, Restart(p)
        PROVE  /\ Remembered' /\ Spaced'
               /\ cooldown' \in [Peer -> [Peer -> Int]] /\ notified' \in [Peer -> SUBSET Request]
    <3>1. /\ cooldown' = [cooldown EXCEPT ![p] = [q \in Peer |-> Never]]
          /\ notified' = [notified EXCEPT ![p] = {}]
      BY <2>2 DEF Restart
    <3>2. cooldown' \in [Peer -> [Peer -> Int]] /\ notified' \in [Peer -> SUBSET Request]
      BY <3>1 DEF Asking, Never
    <3>3. \A m \in Peer : \A n \in notified'[m] :
            m # p /\ n \in notified[m] /\ cooldown'[m] = cooldown[m]
      BY <3>1 DEF Asking
    <3>4. \A m \in Peer, q \in Peer : ~Tied(m, q)' => ~Tied(m, q)
      BY <1>1, TiesStay
    <3>5. \A m \in Peer : \A n \in notified[m] : n.from \in Peer
      BY DEF Asking, Request
    <3>6. Remembered'
      BY <1>1, <3>3, <3>4, <3>5 DEF Asking, Remembered
    <3>7. Spaced'
      BY <3>3, <3>4, <3>5 DEF Asking, Spaced
    <3>8. QED
      BY <3>2, <3>6, <3>7
  <2>3. QED
    BY <2>1, <2>2 DEF Calm
<1>10. QED
  BY <1>3, <1>4, <1>5, <1>6, <1>7, <1>8, <1>9 DEF Asking

(* What is kept is what was to be kept, or has expired.                     *)
LEMMA Kept ==
  ASSUME Typed, NEW p \in Peer, NEW requests \in SUBSET Request, Keep(p, requests), now' = now
  PROVE  /\ \A m \in Peer \ {p} : held'[m] = held[m]
         /\ \A h \in held'[p] : h \in requests \/ now' >= h.till
<1>1. held' = [held EXCEPT ![p] = Expired(requests)] /\ held \in [Peer -> SUBSET Request]
  BY DEF Keep, Typed
<1>2. ASSUME NEW h \in Expired(requests)
      PROVE  h \in requests \/ now' >= h.till
  BY <1>2 DEF Expired, Become, Request
<1>3. QED
  BY <1>1, <1>2

(* Every action that keeps still, or changes no state but to an open one    *)
(* and of what has arrived.                                                 *)
LEMMA KeepsStill ==
  ASSUME Typed, NEW p \in Peer, NEW requests \in SUBSET Request, Keep(p, requests), now' = now,
         \A h \in requests :
           OpenUntil(now, h) \/ \E g \in held[p] : Face(g) = Face(h) /\ g.status = h.status
  PROVE  \A m \in Peer : \A h \in held'[m] :
           OpenUntil(now', h) \/ \E g \in held[m] : Face(g) = Face(h) /\ g.status = h.status
BY Kept DEF OpenUntil

LEMMA QuietAsking ==
  ASSUME Typed, now' = now, UNCHANGED <<cooldown, notified>>,
         \A p \in Peer : taps'[p] \subseteq taps[p],
         \A p \in Peer : \A c \in wire'[p] : c.kind = "response" => c \in wire[p],
         held' = held \/ \E p \in Peer : Keep(p, held[p])
  PROVE  Calm
<1>1. now \in Nat /\ now <= now'
  BY FaceForms
<1>2. \A p \in Peer : \A h \in held'[p] :
        OpenUntil(now', h) \/ \E g \in held[p] : Face(g) = Face(h) /\ g.status = h.status
  BY KeepsStill DEF Typed
<1>3. QED
  BY <1>1, <1>2 DEF Calm

LEMMA CalmActions ==
  ASSUME Typed, NEW p \in Peer,
         \/ Carry(p) \/ Leave(p) \/ Return(p)
         \/ \E s \in sessions[p] : Measure(p, s) \/ Invalidate(p, s)
         \/ \E control \in wire[p] : Lose(p, control)
  PROVE  Calm
<1>1. UNCHANGED <<now, taps, cooldown, notified, held>>
  BY DEF Carry, Leave, Return, Measure, Invalidate, Lose, app, shared, radio
<1>2. \A q \in Peer : wire'[q] \subseteq wire[q]
  BY DEF Carry, Leave, Return, Measure, Invalidate, Lose, radio, Typed
<1>3. QED
  BY <1>1, <1>2, QuietAsking

LEMMA AdvanceCalm ==
  ASSUME Typed, Advance
  PROVE  Calm
<1>1. now \in Nat /\ now' = now + 1
  BY FaceForms DEF Advance
<1>2. QED
  BY <1>1 DEF Advance, Calm, app, shared

LEMMA RestartCalm ==
  ASSUME Typed, NEW p \in Peer, Restart(p)
  PROVE  Calm
<1>1. /\ now' = now /\ now \in Nat /\ held' = held
      /\ wire' = [wire EXCEPT ![p] = {}] /\ taps' = [taps EXCEPT ![p] = {}]
  BY FaceForms DEF Restart
<1>2. QED
  BY <1>1 DEF Calm, Typed

LEMMA SetForegroundCalm ==
  ASSUME Typed, NEW p \in Peer, SetForeground(p)
  PROVE  Calm
<1>1. UNCHANGED <<now, wire, taps, cooldown, notified>>
  <2>1. UNCHANGED <<radio, taps, cooldown, notified>>
    BY DEF SetForeground
  <2>2. QED
    BY <2>1 DEF radio
<1>2. CASE Keep(p, held[p]) /\ UNCHANGED <<orders, ranging>>
  BY <1>1, <1>2, QuietAsking
<1>3. CASE /\ Keep(p, Become(held[p], LAMBDA r : r.status = "active", "accepted"))
           /\ CallOff(p)
  <2> DEFINE requests == Become(held[p], LAMBDA r : r.status = "active", "accepted")
  <2>1. "accepted" \in Statuses /\ "accepted" \in Open
    BY DEF Statuses, Open
  <2>2. \A h \in requests : OpenUntil(now, h) \/ h \in held[p]
    BY <2>1 DEF Become, Typed, Request, OpenUntil
  <2>3. /\ \A h \in requests : \E s \in held[p] : Restated(h, s)
        /\ \A s \in held[p] : \E h \in requests : Restated(h, s)
    BY <2>1 DEF Become, Restated
  <2> HIDE DEF requests
  <2>4. requests \in SUBSET Request
    BY <2>3, Restating, ZenonT(40) DEF Typed
  <2>5. Keep(p, requests)
    BY <1>3 DEF requests
  <2>6. \A m \in Peer : \A h \in held'[m] :
          OpenUntil(now', h) \/ \E g \in held[m] : Face(g) = Face(h) /\ g.status = h.status
    BY <1>1, <2>2, <2>4, <2>5, KeepsStill
  <2>7. now \in Nat
    BY FaceForms
  <2>8. QED
    BY <1>1, <2>6, <2>7 DEF Calm
<1>4. QED
  BY <1>2, <1>3 DEF SetForeground

LEMMA OnRangingCalm ==
  ASSUME Typed, NEW p \in Peer, OnRanging(p)
  PROVE  Calm
<1>1. UNCHANGED <<now, taps, cooldown, notified>>
  BY DEF OnRanging, app, shared
<1>2. PICK e \in {Head(events[p])} :
        OnDiscoveryToken(p, e) \/ OnMeasurement(p, e) \/ OnEnded(p, e) \/ OnNote(p, e)
  BY DEF OnRanging
<1>3. CASE OnEnded(p, e) \/ OnNote(p, e)
  BY <1>1, <1>3, QuietAsking DEF OnEnded, OnNote
<1>4. CASE OnDiscoveryToken(p, e)
  <2> DEFINE letters == {To(Partner(p, r), Control(p, "token", r.id, e.token, r.till)) :
                           r \in {h \in held[p] : h.id = e.id}}
  <2>1. \A l \in letters : l.control.kind = "token"
    BY DEF To, Control
  <2>2. Send(letters) /\ Keep(p, held[p])
    BY <1>4 DEF OnDiscoveryToken
  <2> HIDE DEF letters
  <2>3. \A q \in Peer : \A c \in wire'[q] : c.kind = "response" => c \in wire[q]
    BY <2>1, <2>2 DEF Send, Sent
  <2>4. QED
    BY <1>1, <2>2, <2>3, QuietAsking
<1>5. CASE OnMeasurement(p, e)
  <2> DEFINE requests == Become(held[p], LAMBDA r : e.peer \in {r.from, r.to}, "active")
  <2>1. "active" \in Statuses /\ "active" \in Open
    BY DEF Statuses, Open
  <2>2. \A h \in requests : OpenUntil(now, h) \/ h \in held[p]
    BY <2>1 DEF Become, Typed, Request, OpenUntil
  <2>3. /\ \A h \in requests : \E s \in held[p] : Restated(h, s)
        /\ \A s \in held[p] : \E h \in requests : Restated(h, s)
    BY <2>1 DEF Become, Restated
  <2> HIDE DEF requests
  <2>4. requests \in SUBSET Request
    BY <2>3, Restating, ZenonT(40) DEF Typed
  <2>5. Keep(p, requests) /\ wire' = wire
    BY <1>5 DEF OnMeasurement, requests
  <2>6. \A m \in Peer : \A h \in held'[m] :
          OpenUntil(now', h) \/ \E g \in held[m] : Face(g) = Face(h) /\ g.status = h.status
    BY <1>1, <2>2, <2>4, <2>5, KeepsStill
  <2>7. now \in Nat
    BY FaceForms
  <2>8. QED
    BY <1>1, <2>5, <2>6, <2>7 DEF Calm
<1>6. QED
  BY <1>2, <1>3, <1>4, <1>5

(* The answers to requests.                                                 *)
LEMMA TapCalm ==
  ASSUME Typed, NEW p \in Peer, NEW r \in held[p], NEW accept, Tap(p, r, accept)
  PROVE  Calm
<1>1. /\ UNCHANGED <<now, wire, cooldown, notified, held>> /\ now \in Nat
      /\ taps' = [taps EXCEPT ![p] = @ \cup {[id |-> r.id, accept |-> accept]}] /\ r.to = p
  BY FaceForms DEF Tap, radio, shared
<1>2. Face(r) \in Faces(held[p]) /\ Face(r).id = r.id /\ Face(r).to = p
  BY <1>1 DEF Face, Faces
<1>3. \A m \in Peer : \A t \in taps'[m] :
        t \in taps[m] \/ \E f \in Faces(held[m]) : f.id = t.id /\ f.to = m
  BY <1>1, <1>2 DEF Typed
<1>4. QED
  BY <1>1, <1>3 DEF Calm

(* Requests that have arrived may be turned to any state.                   *)
LEMMA Turned ==
  ASSUME Typed, Consistent, NEW p \in Peer, NEW id, NEW status \in Statuses, now' = now,
         Refused(id) \/ status \in Open,
         Keep(p, Become(held[p], LAMBDA r : r.id = id, status))
  PROVE  \A m \in Peer : \A h \in held'[m] :
           OpenUntil(now', h) \/ \E g \in held[m] : Face(g) = Face(h) /\ g.status = h.status
<1> DEFINE requests == Become(held[p], LAMBDA r : r.id = id, status)
<1>1. /\ \A h \in requests : \E s \in held[p] : Restated(h, s)
      /\ \A s \in held[p] : \E h \in requests : Restated(h, s)
  BY DEF Become, Restated
<1>2. held[p] \in SUBSET Request
  BY DEF Typed
<1>3. \A h \in requests : h \in held[p] \/ (h.id = id /\ h.status = status)
  BY <1>2 DEF Become, Request
<1>4. Keep(p, requests)
  OBVIOUS
<1> HIDE DEF requests
<1>5. requests \in SUBSET Request /\ Faces(requests) = Faces(held[p])
  BY <1>1, <1>2, Restating
<1>6. ASSUME NEW h \in requests, h.id = id, Refused(id)
      PROVE  Arrived(Face(h))
  <2>1. PICK f \in AllFaces : f.id = id /\ Arrived(f)
    BY <1>6 DEF Refused
  <2>2. Face(h) \in AllFaces
    BY <1>5 DEF Faces, AllFaces
  <2>3. Face(h).id = id
    BY <1>6 DEF Face
  <2>4. QED
    BY <2>1, <2>2, <2>3 DEF Consistent
<1>7. \A h \in requests : OpenUntil(now, h) \/ h \in held[p]
  BY <1>3, <1>6 DEF OpenUntil
<1>8. QED
  BY <1>4, <1>5, <1>7, KeepsStill

LEMMA RespondPrecisionCalm ==
  ASSUME Typed, Consistent, Asking, NEW p \in Peer, NEW t \in taps[p], RespondPrecision(p, t)
  PROVE  Calm
<1>1. /\ UNCHANGED <<now, cooldown, notified>> /\ now \in Nat
      /\ taps' = [taps EXCEPT ![p] = @ \ {t}] /\ t.accept \in BOOLEAN
  BY FaceForms DEF RespondPrecision, shared, Typed
<1>2. \A m \in Peer : taps'[m] \subseteq taps[m]
  BY <1>1 DEF Typed
<1>3. Refused(t.id)
  <2>1. PICK f \in Faces(held[p]) : f.id = t.id /\ f.to = p
    BY DEF Asking, Tapped
  <2>2. QED
    BY <2>1 DEF Refused, AllFaces, Arrived
<1>4. PICK r \in held[p] :
        /\ r.id = t.id
        /\ \/ /\ Keep(p, Become(held[p], LAMBDA h : h.id = t.id, "expired"))
              /\ UNCHANGED wire
           \/ /\ Keep(p, Become(held[p], LAMBDA h : h.id = t.id,
                                 IF t.accept THEN "accepted" ELSE "rejected"))
              /\ Send({To(Partner(p, r), Control(p, "response", r.id, t.accept, r.till))})
  BY DEF RespondPrecision
<1>5. {"expired", "accepted", "rejected"} \subseteq Statuses
  BY DEF Statuses, Open
<1>6. \A m \in Peer : \A h \in held'[m] :
        OpenUntil(now', h) \/ \E g \in held[m] : Face(g) = Face(h) /\ g.status = h.status
  BY <1>1, <1>3, <1>4, <1>5, Turned
<1>7. \A m \in Peer : \A c \in wire'[m] : c \in wire[m] \/ c.id = t.id
  <2>1. Control(p, "response", r.id, t.accept, r.till).id = t.id
    BY <1>4 DEF Control
  <2>2. QED
    BY <1>4, <2>1 DEF Send, Sent, To
<1>8. QED
  BY <1>1, <1>2, <1>3, <1>6, <1>7 DEF Calm

LEMMA SetSharingPausedCalm ==
  ASSUME Typed, Consistent, NEW p \in Peer, SetSharingPaused(p)
  PROVE  Calm
<1>1. UNCHANGED <<now, taps, cooldown, notified>> /\ now \in Nat
  BY FaceForms DEF SetSharingPaused, app
<1>2. CASE Keep(p, held[p]) /\ UNCHANGED wire
  BY <1>1, <1>2, QuietAsking
<1>3. ASSUME NEW open, open = {r \in held[p] : r.to = p /\ r.status \in Open},
             Keep(p, Become(held[p], LAMBDA r : r \in open, "rejected")),
             Send({To(r.from, Control(p, "response", r.id, FALSE, r.till)) : r \in open})
      PROVE  Calm
  <2> DEFINE requests == Become(held[p], LAMBDA r : r \in open, "rejected")
             letters == {To(r.from, Control(p, "response", r.id, FALSE, r.till)) : r \in open}
  <2>1. \A r \in open : Face(r) \in AllFaces /\ Arrived(Face(r)) /\ Face(r).id = r.id
    <3>1. ASSUME NEW r \in open
          PROVE  Face(r) \in Faces(held[p]) /\ Face(r).to = p /\ Face(r).id = r.id
      BY <1>3, OneFace DEF Faces
    <3>2. QED
      BY <3>1 DEF Arrived, AllFaces
  <2>2. \A l \in letters : Refused(l.control.id)
    BY <2>1 DEF Refused, To, Control
  <2>3. \A h \in requests : h \in held[p] \/ \E r \in open : Face(h) = Face(r)
    <3>1. ASSUME NEW r \in held[p]
          PROVE  Face([r EXCEPT !.status = "rejected"]) = Face(r)
      BY DEF Face, Typed, Request
    <3>2. QED
      BY <3>1 DEF Become
  <2>4. \A h \in requests : OpenUntil(now, h) \/ h \in held[p]
    BY <2>1, <2>3 DEF OpenUntil
  <2>5. "rejected" \in Statuses
    BY DEF Statuses
  <2>6. /\ \A h \in requests : \E s \in held[p] : Restated(h, s)
        /\ \A s \in held[p] : \E h \in requests : Restated(h, s)
    BY <2>5 DEF Become, Restated
  <2>7. Keep(p, requests) /\ Send(letters)
    BY <1>3
  <2> HIDE DEF requests, letters
  <2>8. requests \in SUBSET Request
    BY <2>6, Restating, ZenonT(40) DEF Typed
  <2>9. \A m \in Peer : \A h \in held'[m] :
          OpenUntil(now', h) \/ \E g \in held[m] : Face(g) = Face(h) /\ g.status = h.status
    BY <1>1, <2>4, <2>7, <2>8, KeepsStill
  <2>10. \A m \in Peer : \A c \in wire'[m] : c \in wire[m] \/ Refused(c.id)
    BY <2>2, <2>7 DEF Send, Sent
  <2>11. QED
    BY <1>1, <2>9, <2>10 DEF Calm
<1>4. QED
  BY <1>2, <1>3 DEF SetSharingPaused

(* Controls that bring no new request.                                      *)
LEMMA OnControlCalm ==
  ASSUME Typed, Consistent, Asking, NEW p \in Peer, NEW control \in wire[p], OnControl(p, control),
         \/ now > control.till \/ control.kind # "request"
         \/ control.id \in {h.id : h \in held[p]}
  PROVE  Calm /\ \A m \in Peer : Faces(held'[m]) = Faces(held[m])
<1>1. UNCHANGED <<now, taps>> /\ now \in Nat
  BY FaceForms DEF OnControl, app
<1>2. Refusal(p, control) = {} \/ now > control.till
  BY DEF Refusal
<1>3. \A q \in Peer : wire'[q] \subseteq wire[q]
  BY <1>2 DEF OnControl, Sent
<1>4. control \in ControlsOf(agreed)
  BY DEF Typed
<1>5. CASE Keep(p, held[p]) /\ UNCHANGED <<cooldown, notified>>
  BY <1>1, <1>3, <1>5, QuietAsking, KeepingHeld
<1>6. CASE OnResponse(p, control)
  <2>1. control.content \in BOOLEAN /\ (~control.content => Refused(control.id))
    BY <1>4, <1>6, ControlForms DEF Asking, Answered, OnResponse
  <2>2. /\ Keep(p, Become(held[p], LAMBDA r : r.id = control.id,
                          IF control.content THEN "accepted" ELSE "rejected"))
        /\ UNCHANGED <<cooldown, notified>>
    BY <1>6 DEF OnResponse
  <2>3. "accepted" \in Statuses /\ "rejected" \in Statuses /\ "accepted" \in Open
    BY DEF Statuses, Open
  <2>4. \A m \in Peer : \A h \in held'[m] :
          OpenUntil(now', h) \/ \E g \in held[m] : Face(g) = Face(h) /\ g.status = h.status
    <3>1. CASE control.content
      <4>1. Keep(p, Become(held[p], LAMBDA r : r.id = control.id, "accepted"))
        BY <2>2, <3>1
      <4>2. QED
        BY <1>1, <2>3, <4>1, Turned DEF Become
    <3>2. CASE ~control.content
      <4>1. Keep(p, Become(held[p], LAMBDA r : r.id = control.id, "rejected"))
        BY <2>2, <3>2
      <4>2. QED
        BY <1>1, <2>1, <2>3, <3>2, <4>1, Turned DEF Become
    <3>3. QED
      BY <3>1, <3>2
  <2>5. \A m \in Peer : Faces(held'[m]) = Faces(held[m])
    BY <1>4, <1>6, OnResponseTypes DEF OnResponse, Learns
  <2>6. QED
    BY <1>1, <1>3, <2>2, <2>4, <2>5 DEF Calm
<1>7. CASE OnToken(p, control)
  BY <1>5, <1>7 DEF OnToken
<1>8. CASE OnRequest(p, control) /\ control.id \in {h.id : h \in held[p]}
  BY <1>5, <1>8 DEF OnRequest, Asking, Lettered
<1>9. QED
  BY <1>5, <1>6, <1>7, <1>8 DEF OnControl, OnRequest

(* A new request arrives. It sets the cooldown to its own time, which is    *)
(* not before that of any request of its member that has arrived, unless    *)
(* the two are tied.                                                        *)
LEMMA OnControlArrives ==
  ASSUME Typed, Consistent, Asking, NEW p \in Peer, NEW control \in wire[p], OnControl(p, control),
         control.kind = "request", control.id \notin {h.id : h \in held[p]}, now <= control.till
  PROVE  Asking'
<1> DEFINE r == control.content
           refused == p \in paused \/ r.created - cooldown[p][r.from] < Cooldown
           s == [r EXCEPT !.status = IF refused THEN "rejected" ELSE @]
<1>1. /\ UNCHANGED <<now, taps>> /\ now \in Nat /\ control \in ControlsOf(agreed)
      /\ \A q \in Peer : \A c \in wire'[q] : c.kind = "request" => c \in wire[q]
  BY FaceForms, OnControlWires DEF OnControl, app, Typed
<1>2. /\ r \in Request /\ control.id = r.id /\ control.till = r.till /\ control.from = r.from
      /\ r.to = p /\ Face(r) \in AllFaces
  BY <1>1, ControlForms DEF Asking, Lettered, Consistent
<1>3. /\ r.created \in Nat /\ r.till \in Nat /\ r.from \in Peer /\ r.created <= now
      /\ Face(r).id = r.id /\ Face(r).from = r.from /\ Face(r).to = p
      /\ Face(r).created = r.created /\ Face(r).till = r.till
  <2>1. /\ Face(r).id = r.id /\ Face(r).from = r.from /\ Face(r).to = p
        /\ Face(r).created = r.created /\ Face(r).till = r.till
    BY <1>2, OneFace
  <2>2. Face(r).created <= now /\ r.created \in Nat /\ r.till \in Nat /\ r.from \in Peer
    BY <1>2, ConstantsAssumption DEF Asking, Made, Request
  <2>3. QED
    BY <2>1, <2>2
<1>4. ~(now > control.till)
  BY <1>1, <1>2, <1>3
<1>5. /\ cooldown' = [cooldown EXCEPT ![p][r.from] = r.created]
      /\ Keep(p, held[p] \cup {s})
      /\ notified' = IF refused THEN notified ELSE [notified EXCEPT ![p] = @ \cup {r}]
  <2>1. OnRequest(p, control)
    BY <1>4 DEF OnControl, OnResponse, OnToken
  <2>2. QED
    BY <1>2, <2>1 DEF OnRequest, CooldownAfter
<1>6. s \in Request /\ Face(s) = Face(r)
  BY <1>2 DEF Request, Face
<1> HIDE DEF s
<1>7. held[p] \cup {s} \in SUBSET Request
  BY <1>6 DEF Typed
<1>8. /\ Faces(held'[p]) = Faces(held[p]) \cup {Face(r)}
      /\ \A q \in Peer \ {p} : held'[q] = held[q]
      /\ \A h \in held'[p] : h \in held[p] \/ h = s \/ now' >= h.till
  <2>1. Faces(held'[p]) = Faces(held[p] \cup {s})
    BY <1>5, <1>7, Keeping
  <2>2. Faces(held[p] \cup {s}) = Faces(held[p]) \cup {Face(r)}
    BY <1>6 DEF Faces
  <2>3. /\ \A q \in Peer \ {p} : held'[q] = held[q]
        /\ \A h \in held'[p] : h \in held[p] \cup {s} \/ now' >= h.till
    BY <1>1, <1>5, <1>7, Kept
  <2>4. QED
    BY <2>1, <2>2, <2>3
<1>9. /\ AllFaces' = AllFaces
      /\ \A q \in Peer : Faces(held[q]) \subseteq Faces(held'[q])
      /\ \A f \in AllFaces : Arrived(f) => Arrived(f)'
      /\ Arrived(Face(r))'
  <2>1. /\ AllFaces' = AllFaces
        /\ \A q \in Peer : Faces(held[q]) \subseteq Faces(held'[q])
    BY <1>2, <1>8 DEF AllFaces
  <2>2. QED
    BY <1>3, <1>8, <2>1, FaceForms DEF Arrived
<1>10. Made' /\ Lettered' /\ Tapped'
  <2>1. Made'
    BY <1>1, <1>9, FaceForms DEF Asking, Made
  <2>2. Lettered'
    BY <1>1 DEF Asking, Lettered
  <2>3. Tapped'
    <3>1. Tapped /\ taps' = taps
      BY <1>1 DEF Asking
    <3>2. QED
      BY <1>9, <3>1 DEF Tapped
  <2>4. QED
    BY <2>1, <2>2, <2>3
<1>11. Answered'
  <2>1. \A l \in Refusal(p, control) : l.control.id = r.id
    BY <1>2 DEF Refusal, To, Control
  <2>2. \A q \in Peer : \A c \in wire'[q] : c \in wire[q] \/ c.id = r.id
    BY <1>4, <2>1 DEF OnControl, Sent
  <2>3. Refused(r.id)' /\ \A id : Refused(id) => Refused(id)'
    BY <1>2, <1>3, <1>9 DEF Refused
  <2>4. QED
    BY <2>2, <2>3 DEF Asking, Answered
<1>12. StillOpen'
  <2>1. SUFFICES ASSUME NEW m \in Peer, NEW h \in held'[m], h.from = m
                 PROVE  OpenUntil(now, h)'
    BY DEF StillOpen
  <2>2. CASE h \in held[m]
    <3>1. Face(h) \in AllFaces
      BY <2>2, FaceForms
    <3>2. QED
      BY <1>1, <1>9, <2>1, <2>2, <3>1 DEF Asking, StillOpen, OpenUntil
  <2>3. CASE h = s
    BY <1>6, <1>9, <2>3 DEF OpenUntil
  <2>4. CASE now' >= h.till
    BY <2>4 DEF OpenUntil
  <2>5. QED
    BY <1>8, <2>2, <2>3, <2>4
<1>13. InOrder'
  BY <1>9 DEF Asking, InOrder
<1>14. \A n \in notified[p] :
         /\ n.from \in Peer /\ n.created \in Nat /\ n.id # r.id
         /\ n.from = r.from /\ ~Tied(p, r.from)' => n.created <= r.created
  <2>1. SUFFICES ASSUME NEW n \in notified[p]
                 PROVE  /\ n.from \in Peer /\ n.created \in Nat /\ n.id # r.id
                        /\ n.from = r.from /\ ~Tied(p, r.from)' => n.created <= r.created
    OBVIOUS
  <2>2. n \in Request /\ n.to = p /\ Face(n) \in Faces(held[p])
    BY DEF Asking, Remembered
  <2>3. /\ n.from \in Peer /\ n.created \in Nat /\ Face(n).id = n.id /\ Face(n).from = n.from
        /\ Face(n).to = p /\ Face(n).created = n.created
    BY <2>2, OneFace, ConstantsAssumption DEF Request
  <2>4. \A f \in Faces(held[p]) : f.id # r.id
    BY <1>2 DEF Faces, Face
  <2>5. n.id # r.id /\ ~Arrived(Face(r)) /\ Face(n) \in AllFaces
    BY <1>3, <2>2, <2>3, <2>4 DEF Arrived, AllFaces
  <2>6. ASSUME n.from = r.from, ~Tied(p, r.from)', ~(n.created <= r.created)
        PROVE  FALSE
    <3>1. r.till <= n.created
      BY <1>2, <1>3, <2>3, <2>5, <2>6 DEF Asking, InOrder
    <3>2. n.created <= now
      BY <2>3, <2>5 DEF Asking, Made
    <3>3. r.till = n.created
      BY <1>1, <1>2, <1>3, <1>4, <2>3, <3>1, <3>2
    <3>4. PICK r1 \in held'[p], n1 \in held'[p] : Face(r1) = Face(r) /\ Face(n1) = Face(n)
      BY <1>8, <2>2 DEF Faces
    <3>5. r1.from = r.from /\ n1.from = r.from /\ r1.id # n1.id /\ r1.till = n1.created
      BY <2>5, <2>6, <3>3, <3>4 DEF Face
    <3>6. QED
      BY <2>6, <3>5 DEF Tied
  <2>7. QED
    BY <2>3, <2>5, <2>6
<1>15. /\ cooldown' \in [Peer -> [Peer -> Int]] /\ notified' \in [Peer -> SUBSET Request]
       /\ cooldown'[p][r.from] = r.created
       /\ \A m, q \in Peer : <<m, q>> # <<p, r.from>> => cooldown'[m][q] = cooldown[m][q]
       /\ \A m \in Peer : \A n \in notified'[m] :
            n \in notified[m] \/ (m = p /\ n = r /\ r.created - cooldown[p][r.from] >= Cooldown)
  <2>1. /\ cooldown \in [Peer -> [Peer -> Int]] /\ notified \in [Peer -> SUBSET Request]
        /\ r.created \in Int /\ r.from \in Peer /\ r \in Request
    BY <1>2, <1>3 DEF Asking
  <2>2. cooldown[p][r.from] \in Int /\ Cooldown \in Int
    BY <2>1, ConstantsAssumption
  <2>3. \A m, q \in Peer :
          cooldown'[m][q] = IF m = p /\ q = r.from THEN r.created ELSE cooldown[m][q]
    BY <1>5, <2>1
  <2>4. cooldown' \in [Peer -> [Peer -> Int]]
    BY <1>5, <2>1
  <2>5. CASE refused
    BY <1>5, <2>1, <2>3, <2>4, <2>5
  <2>6. CASE ~refused
    <3>1. r.created - cooldown[p][r.from] >= Cooldown
      BY <2>1, <2>2, <2>6
    <3>2. notified' = [notified EXCEPT ![p] = @ \cup {r}]
      BY <1>5, <2>6
    <3>3. /\ notified' \in [Peer -> SUBSET Request]
          /\ \A m \in Peer : \A n \in notified'[m] : n \in notified[m] \/ (m = p /\ n = r)
      BY <2>1, <3>2
    <3>4. QED
      BY <2>1, <2>3, <2>4, <3>1, <3>3
  <2>7. QED
    BY <2>5, <2>6
<1> HIDE DEF refused, r
<1>16. \A m, q \in Peer : ~Tied(m, q)' => ~Tied(m, q)
  BY <1>9, TiesStay
<1>17. Remembered'
  <2>1. SUFFICES ASSUME NEW m \in Peer, NEW n \in notified'[m]
                 PROVE  /\ n \in Request /\ n.to = m /\ Face(n) \in Faces(held'[m])
                        /\ ~Tied(m, n.from)' => n.created <= cooldown'[m][n.from]
    BY DEF Remembered
  <2>2. CASE n \in notified[m]
    <3>1. n \in Request /\ n.to = m /\ Face(n) \in Faces(held'[m]) /\ n.from \in Peer
      BY <1>9, <2>2 DEF Asking, Remembered, Request
    <3>2. CASE m = p /\ n.from = r.from
      BY <1>14, <1>15, <2>2, <3>1, <3>2
    <3>3. CASE ~(m = p /\ n.from = r.from)
      BY <1>15, <1>16, <2>2, <3>1, <3>3 DEF Asking, Remembered
    <3>4. QED
      BY <3>2, <3>3, <3>1
  <2>3. CASE m = p /\ n = r
    BY <1>2, <1>3, <1>8, <1>15, <2>3
  <2>4. QED
    BY <1>15, <2>2, <2>3
<1>18. Spaced'
  <2>1. ASSUME NEW n \in notified[p], n.from = r.from, ~Tied(p, r.from)',
               r.created - cooldown[p][r.from] >= Cooldown
        PROVE  r.created - n.created >= Cooldown
    <3>1. n.created <= cooldown[p][r.from]
      BY <1>3, <1>16, <2>1 DEF Asking, Remembered
    <3>2. n.created \in Int /\ cooldown[p][r.from] \in Int /\ r.created \in Int /\ Cooldown \in Int
      BY <1>3, <1>14, ConstantsAssumption DEF Asking
    <3>3. QED
      BY <2>1, <3>1, <3>2
  <2>2. SUFFICES ASSUME NEW m \in Peer, NEW a \in notified'[m], NEW b \in notified'[m],
                        a.from = b.from, a.id # b.id, ~Tied(m, a.from)'
                 PROVE  a.created - b.created >= Cooldown \/ b.created - a.created >= Cooldown
    BY DEF Spaced
  <2>3. CASE a \in notified[m] /\ b \in notified[m]
    <3>1. a.from \in Peer
      BY <2>3 DEF Asking, Request
    <3>2. QED
      BY <1>16, <2>2, <2>3, <3>1 DEF Asking, Spaced
  <2>4. CASE a \notin notified[m] \/ b \notin notified[m]
    BY <1>15, <2>1, <2>2, <2>4
  <2>5. QED
    BY <2>3, <2>4
<1>19. QED
  BY <1>10, <1>11, <1>12, <1>13, <1>15, <1>17, <1>18 DEF Asking

(* A request is made. Whoever is asked again was asked by a request that    *)
(* has arrived, or that does not arrive any more.                           *)
LEMMA RequestPrecisionAsking ==
  ASSUME Typed, Typed', Asking, NEW p \in Peer, NEW q \in Peer, NEW id \in Id,
         RequestPrecision(p, q, id)
  PROVE  Asking'
<1> DEFINE r == [id |-> id, from |-> p, to |-> q, created |-> now, till |-> now + Ttl,
                 status |-> "pending"]
           c == Control(p, "request", id, r, r.till)
<1>1. /\ Keep(p, held[p] \cup {r}) /\ Send({To(q, c)})
      /\ UNCHANGED <<now, taps, cooldown, notified>> /\ now \in Nat
  BY FaceForms DEF RequestPrecision, app, shared
<1>2. r \in Request /\ r.status \in Open
  BY ConstantsAssumption DEF Typed, Request, Open
<1>3. /\ p # q /\ id \notin Ids
      /\ \A h \in held[p] : h.to = q => now >= h.till \/ h.status \notin Open
  <2>1. \A h \in held[p] : h.till \in Nat
    BY DEF Typed, Request
  <2>2. QED
    BY <1>1, <2>1 DEF RequestPrecision
<1>4. r.id = id /\ r.from = p /\ r.to = q /\ r.created = now /\ r.till = now + Ttl
  OBVIOUS
<1>5. c.content = r /\ c.kind = "request" /\ c.id = r.id /\ c.till = r.till /\ c.from = r.from
  BY DEF Control
<1> HIDE DEF r, c
<1>6. /\ Face(r).id = id /\ Face(r).from = p /\ Face(r).to = q /\ Face(r).created = now
      /\ Face(r).till = now + Ttl
  BY <1>4, OneFace
<1>7. held[p] \cup {r} \in SUBSET Request
  BY <1>2 DEF Typed
<1>8. /\ Faces(held'[p]) = Faces(held[p]) \cup {Face(r)}
      /\ \A m \in Peer \ {p} : held'[m] = held[m]
      /\ \A h \in held'[p] : h \in held[p] \/ h = r \/ now' >= h.till
  <2>1. Faces(held'[p]) = Faces(held[p] \cup {r})
    BY <1>1, <1>7, Keeping
  <2>2. Faces(held[p] \cup {r}) = Faces(held[p]) \cup {Face(r)}
    BY DEF Faces
  <2>3. /\ \A m \in Peer \ {p} : held'[m] = held[m]
        /\ \A h \in held'[p] : h \in held[p] \cup {r} \/ now' >= h.till
    BY <1>1, <1>7, Kept
  <2>4. QED
    BY <2>1, <2>2, <2>3
<1>9. \A f \in AllFaces : f.id # id
  BY <1>3 DEF AllFaces, Faces, Face, Ids, Requests
<1>10. /\ AllFaces' = AllFaces \cup {Face(r)}
       /\ \A m \in Peer : Faces(held[m]) \subseteq Faces(held'[m])
       /\ \A f \in AllFaces : f.to \in Peer /\ (Arrived(f)' <=> Arrived(f))
  <2>1. /\ AllFaces' = AllFaces \cup {Face(r)}
        /\ \A m \in Peer : Faces(held[m]) \subseteq Faces(held'[m])
    BY <1>8 DEF AllFaces
  <2>2. \A f \in AllFaces : f # Face(r) /\ f.to \in Peer
    BY <1>6, <1>9, FaceForms
  <2>3. QED
    BY <1>8, <2>1, <2>2 DEF Arrived
<1>11. \A m \in Peer : \A d \in wire'[m] : d \in wire[m] \/ d = c
  BY <1>1 DEF Send, Sent, To
<1>12. Made'
  <2>1. Face(r) \in Faces(held'[p]) /\ now <= now
    BY <1>1, <1>8
  <2>2. QED
    BY <1>1, <1>6, <1>10, <2>1, FaceForms DEF Asking, Made
<1>13. Lettered' /\ Tapped'
  BY <1>1, <1>5, <1>10, <1>11, ZenonT(40) DEF Asking, Lettered, Tapped
<1>14. Answered'
  <2>1. \A i : Refused(i) => Refused(i)'
    BY <1>10 DEF Refused
  <2>2. QED
    BY <1>5, <1>11, <2>1 DEF Asking, Answered
<1>15. StillOpen'
  <2>1. SUFFICES ASSUME NEW m \in Peer, NEW h \in held'[m], h.from = m
                 PROVE  OpenUntil(now, h)'
    BY DEF StillOpen
  <2>2. CASE h \in held[m]
    <3>1. Face(h) \in AllFaces
      BY <2>2, FaceForms
    <3>2. QED
      BY <1>1, <1>10, <2>1, <2>2, <3>1 DEF Asking, StillOpen, OpenUntil
  <2>3. CASE h = r \/ now' >= h.till
    BY <1>2, <2>3 DEF OpenUntil
  <2>4. QED
    BY <1>8, <2>2, <2>3
<1>16. InOrder'
  <2>1. SUFFICES ASSUME NEW f \in AllFaces', NEW g \in AllFaces', f.id # g.id, f.from = g.from,
                        f.to = g.to, ~Arrived(f)'
                 PROVE  g.created <= f.created \/ f.till <= g.created
    BY DEF InOrder
  <2>2. CASE f \in AllFaces /\ g \in AllFaces
    BY <1>10, <2>1, <2>2 DEF Asking, InOrder
  <2>3. CASE f = Face(r) /\ g \in AllFaces
    BY <1>6, <2>3 DEF Asking, Made
  <2>4. CASE f \in AllFaces /\ g = Face(r)
    <3>1. f.from = p /\ f.to = q /\ ~Arrived(f) /\ f \in Faces(held[p])
      BY <1>6, <1>10, <2>1, <2>4 DEF Asking, Made
    <3>2. PICK h \in held[p] : Face(h) = f
      BY <3>1 DEF Faces
    <3>3. h.from = p /\ h.to = q /\ h.till = f.till
      BY <3>1, <3>2, OneFace
    <3>4. now >= h.till
      BY <1>3, <3>1, <3>2, <3>3 DEF Asking, StillOpen, OpenUntil
    <3>5. f.till \in Nat
      BY <2>4, FaceForms
    <3>6. QED
      BY <1>1, <1>6, <2>4, <3>3, <3>4, <3>5
  <2>5. QED
    BY <1>10, <2>1, <2>2, <2>3, <2>4
<1>17. Remembered' /\ Spaced'
  BY <1>1, <1>10, RememberedKept
<1>18. QED
  BY <1>1, <1>12, <1>13, <1>14, <1>15, <1>16, <1>17 DEF Asking

LEMMA InitAsking ==
  ASSUME Init
  PROVE  Asking
<1>1. \A p \in Peer : held[p] = {} /\ wire[p] = {} /\ taps[p] = {} /\ notified[p] = {}
  BY DEF Init
<1>2. AllFaces = {}
  BY <1>1 DEF AllFaces, Faces
<1>3. cooldown \in [Peer -> [Peer -> Int]] /\ notified \in [Peer -> SUBSET Request]
  BY DEF Init, Never
<1>4. Made /\ Lettered /\ Answered /\ Tapped /\ StillOpen /\ InOrder /\ Remembered /\ Spaced
  BY <1>1, <1>2 DEF Made, Lettered, Answered, Tapped, StillOpen, InOrder, Remembered, Spaced
<1>5. QED
  BY <1>3, <1>4 DEF Asking

LEMMA AskingSteps ==
  ASSUME Inv, Inv', Asking, Next
  PROVE  Asking'
<1>1. Typed /\ Typed' /\ Consistent
  BY DEF Inv
<1>2. ASSUME NEW p \in Peer, NEW q \in Peer, NEW id \in Id, RequestPrecision(p, q, id)
      PROVE  Asking'
  BY <1>1, <1>2, RequestPrecisionAsking
<1>3. ASSUME NEW p \in Peer, NEW control \in wire[p], OnControl(p, control)
      PROVE  Asking'
  <2>1. CASE /\ control.kind = "request" /\ control.id \notin {h.id : h \in held[p]}
             /\ now <= control.till
    BY <1>1, <1>3, <2>1, OnControlArrives
  <2>2. CASE ~(/\ control.kind = "request" /\ control.id \notin {h.id : h \in held[p]}
               /\ now <= control.till)
    <3>1. control.till \in Nat /\ now \in Nat
      BY <1>1, FaceForms, ControlForms DEF Typed
    <3>2. Calm /\ \A m \in Peer : Faces(held'[m]) = Faces(held[m])
      BY <1>1, <1>3, <2>2, <3>1, OnControlCalm
    <3>3. \A m \in Peer : \A c \in wire'[m] : c.kind = "request" => c \in wire[m]
      BY <1>1, <1>3, OnControlWires
    <3>4. QED
      BY <1>1, <3>2, <3>3, CalmSteps DEF SameFaces
  <2>3. QED
    BY <2>1, <2>2
<1>4. CASE SameFaces
  <2>1. CASE Steps
    BY <1>2, <1>3, <2>1 DEF Steps
  <2>2. CASE ~Steps
    <3>1. Calm
      <4>1. CASE Progress
        BY <1>1, <2>2, <4>1, RespondPrecisionCalm, OnRangingCalm, SetForegroundCalm, CalmActions
           DEF Progress, Steps
      <4>2. CASE Advance
        BY <1>1, <4>2, AdvanceCalm
      <4>3. ASSUME NEW p \in Peer,
                   \/ \E r \in held[p], accept \in BOOLEAN : Tap(p, r, accept)
                   \/ \E s \in sessions[p] : Measure(p, s) \/ Invalidate(p, s)
                   \/ \E control \in wire[p] : Lose(p, control)
                   \/ SetSharingPaused(p) \/ Leave(p) \/ Return(p) \/ Restart(p)
            PROVE  Calm
        BY <1>1, <4>3, TapCalm, SetSharingPausedCalm, RestartCalm, CalmActions
      <4>4. QED
        BY <2>2, <4>1, <4>2, <4>3 DEF Next, Steps
    <3>2. QED
      BY <1>1, <1>4, <3>1, CalmSteps
  <2>3. QED
    BY <2>1, <2>2
<1>5. CASE Steps
  BY <1>2, <1>3, <1>5 DEF Steps
<1>6. QED
  BY <1>1, <1>4, <1>5, TypedSteps

(* A user is not asked twice by one member within the cooldown              *)
(* (on_authenticated_control_received), whatever is lost or overtaken,      *)
(* while the process lives, unless that member has made a request in the    *)
(* instant in which another expired.                                        *)
THEOREM RequestsAreSpaced == Spec => []Spaced
<1>1. Init => Asking
  BY InitAsking
<1>2. Inv /\ Inv' /\ Asking /\ [Next]_vars => Asking'
  <2>1. ASSUME Asking, UNCHANGED vars
        PROVE  Asking'
    BY <2>1 DEF vars, Asking, Made, Lettered, Answered, Refused, Tapped, StillOpen, OpenUntil,
       InOrder, Remembered, Spaced, Tied, Arrived, AllFaces
  <2>2. QED
    BY <2>1, AskingSteps
<1>3. Asking => Spaced
  BY DEF Asking
<1>4. QED
  BY <1>1, <1>2, <1>3, Invariant, PTL DEF Spec
=============================================================================
