--------------------------- MODULE PrecisionLocate ---------------------------
(* Precise ranging between members: the request, the consent, the exchange   *)
(* of discovery tokens, and the ranging backend with its sessions            *)
(* (travel-core, modules/ranging).                                           *)
(* Core and backend of a device talk through two queues, in order.  Controls *)
(* go over Bluetooth links that come and go, so they may be lost and may     *)
(* overtake each other (ControlCodec).  All clocks agree.                    *)
EXTENDS Integers, FiniteSets, SequencesExt

CONSTANTS
  Peer,
  Id,            \* of requests
  Ttl,           \* of requests
  Cooldown,      \* PRECISION_REQUEST_COOLDOWN_MS
  MaxTime,
  MaxSessions,   \* bound: sessions a device opens
  MaxEvents      \* bound: requests, lost controls, failed sessions, pauses, absences, restarts

ASSUME ConstantsAssumption ==
  /\ IsFiniteSet(Peer)
  /\ Ttl \in Nat \ {0} /\ Cooldown \in Nat /\ {MaxTime, MaxSessions, MaxEvents} \subseteq Nat

VARIABLES
  now,
  held,      \* pending_precision: the requests each device knows
  cooldown,  \* when each device was last asked by each other
  ranging,   \* members whose distance each device shows
  paused,    \* devices that do not share their location
  active,    \* devices whose app is active
  front,     \* devices whose core takes the app for active
  awake,     \* devices whose backend takes the app for in front
  phases,    \* changes of phase the core of each device is yet to be told
  taps,      \* answers of users the core of each device is yet to be told
  orders,    \* commands to each backend
  events,    \* events of each backend
  sessions,  \* sessions of each backend
  opened,    \* how many sessions each backend has opened
  wire,      \* controls on their way to each device
  agreed,    \* requests the user who was asked has agreed to
  notified,  \* requests each device has notified its user of since it started
  past       \* faults, requests they touched, sessions that went without an event

vars == <<now, held, cooldown, ranging, paused, active, front, awake, phases, taps, orders, events,
          sessions, opened, wire, agreed, notified, past>>

-----------------------------------------------------------------------------
Never == -1000
NoToken == [of |-> "none"]
Token(p, serial) == [of |-> p, serial |-> serial]

Create(q, id) == [kind |-> "create", peer |-> q, id |-> id]
Start(q, id, token) == [kind |-> "start", peer |-> q, id |-> id, token |-> token]
Cancel(q) == [kind |-> "cancel", peer |-> q]

DiscoveryToken(id, token) == [kind |-> "token", id |-> id, token |-> token]
Measurement(q) == [kind |-> "measurement", peer |-> q]
Ended(q) == [kind |-> "ended", peer |-> q]
Note == [kind |-> "started or failed"]

Control(p, kind, id, content, till) ==
  [from |-> p, kind |-> kind, id |-> id, content |-> content, till |-> till]

Init ==
  /\ now = 0
  /\ held = [p \in Peer |-> {}]
  /\ cooldown = [p \in Peer |-> [q \in Peer |-> Never]]
  /\ ranging = [p \in Peer |-> {}]
  /\ paused = {} /\ active = Peer /\ front = Peer /\ awake = Peer
  /\ phases = [p \in Peer |-> <<>>]
  /\ taps = [p \in Peer |-> {}]
  /\ orders = [p \in Peer |-> <<>>]
  /\ events = [p \in Peer |-> <<>>]
  /\ sessions = [p \in Peer |-> {}]
  /\ opened = [p \in Peer |-> 0]
  /\ wire = [p \in Peer |-> {}]
  /\ agreed = {}
  /\ notified = [p \in Peer |-> {}]
  /\ past = [faults |-> 0, touched |-> {}, cut |-> {}]

radio == <<now, wire>>
app == <<active, phases, taps, agreed>>
shared == <<cooldown, paused, front, notified>>
backend == <<awake, sessions, opened>>

-----------------------------------------------------------------------------
(* The core.                                                                 *)
Requests == UNION {held[p] : p \in Peer}
Ids == {r.id : r \in Requests}
Open == {"pending", "accepted", "active"}
Partner(p, r) == IF r.from = p THEN r.to ELSE r.from

Become(requests, Which(_), status) ==
  {IF Which(r) THEN [r EXCEPT !.status = status] ELSE r : r \in requests}

(* expire_precision, at the end of every command and event.                  *)
Expired(requests) ==
  Become(requests, LAMBDA r : now >= r.till /\ r.status \in {"pending", "accepted"}, "expired")

Keep(p, requests) == held' = [held EXCEPT ![p] = Expired(requests)]

(* What has expired is not sent.                                             *)
Sent(controls) == {c \in controls : c.control.till > now}
To(q, control) == [to |-> q, control |-> control]
Send(letters) ==
  wire' = [q \in Peer |-> wire[q] \cup {c.control : c \in {d \in Sent(letters) : d.to = q}}]

Order(p, commands) == orders' = [orders EXCEPT ![p] = @ \o commands]

(* What stands in the way of a session: an app away, sharing paused, and     *)
(* other requests of the same two, since a device has one session with each. *)
Ready(p) == p \in front /\ p \in awake /\ p \notin paused /\ phases[p] = <<>>

Crossing(p, q) ==
  {r.id : r \in {s \in Requests : {s.from, s.to} = {p, q} /\ s.till >= now
                                 /\ s.status # "rejected"}}

RequestPrecision(p, q, id) ==
  /\ p # q /\ id \notin Ids /\ past.faults + Cardinality(Ids) < MaxEvents
  /\ ~\E r \in held[p] : r.to = q /\ now < r.till /\ r.status \in Open
  /\ \E r \in {[id |-> id, from |-> p, to |-> q, created |-> now, till |-> now + Ttl,
                status |-> "pending"]} :
       /\ Keep(p, held[p] \cup {r})
       /\ Send({To(q, Control(p, "request", id, r, r.till))})
  /\ past' = [past EXCEPT !.touched = @ \cup Crossing(p, q)
       \cup IF Ready(p) /\ Ready(q) /\ Crossing(p, q) = {} THEN {} ELSE {id}]
  /\ UNCHANGED <<now, ranging, orders, events, app, shared, backend>>

(* Variant: only requests that are turned down start the cooldown.           *)
CooldownOfRefused(p, q, limited, created) ==
  IF limited THEN [cooldown EXCEPT ![p][q] = created] ELSE cooldown

CooldownAfter(p, q, limited, created) == [cooldown EXCEPT ![p][q] = created]

OnRequest(p, control) ==
  LET r == control.content
      limited == r.created - cooldown[p][r.from] < Cooldown
      refused == p \in paused \/ limited
  IN  /\ control.kind = "request"
      /\ IF r.id \in {h.id : h \in held[p]}
         THEN Keep(p, held[p]) /\ UNCHANGED <<cooldown, notified>>
         ELSE /\ cooldown' = CooldownAfter(p, r.from, limited, r.created)
              /\ Keep(p, held[p] \cup {[r EXCEPT !.status = IF refused THEN "rejected" ELSE @]})
              /\ notified' = IF refused THEN notified ELSE [notified EXCEPT ![p] = @ \cup {r}]
      /\ UNCHANGED <<orders, ranging>>

(* The control that goes back at once, if any.                               *)
Refusal(p, control) ==
  IF control.kind = "request" /\ control.id \notin {h.id : h \in held[p]}
     /\ (p \in paused \/ control.content.created - cooldown[p][control.from] < Cooldown)
  THEN {To(control.from, Control(p, "response", control.id, FALSE, control.till))}
  ELSE {}

(* Variant: any response makes the requester open its session.               *)
OpensAnyway(p, accepted) == p \in front

Opens(p, accepted) == accepted /\ p \in front

OnResponse(p, control) ==
  /\ control.kind = "response"
  /\ Keep(p, Become(held[p], LAMBDA r : r.id = control.id,
                    IF control.content THEN "accepted" ELSE "rejected"))
  /\ Order(p, IF Opens(p, control.content) THEN <<Create(control.from, control.id)>> ELSE <<>>)
  /\ UNCHANGED <<cooldown, notified, ranging>>

OnToken(p, control) ==
  /\ control.kind = "token"
  /\ Order(p, IF p \in front THEN <<Start(control.from, control.id, control.content)>> ELSE <<>>)
  /\ Keep(p, held[p])
  /\ UNCHANGED <<cooldown, notified, ranging>>

(* on_authenticated_control_received                                         *)
OnControl(p, control) ==
  /\ control \in wire[p]
  /\ \E answer \in {IF now > control.till THEN {} ELSE Refusal(p, control)} :
       wire' = [q \in Peer |-> (wire[q] \ (IF q = p THEN {control} ELSE {}))
                               \cup {c.control : c \in {d \in Sent(answer) : d.to = q}}]
  /\ IF now > control.till
     THEN Keep(p, held[p]) /\ UNCHANGED <<orders, cooldown, notified, ranging>>
     ELSE OnRequest(p, control) \/ OnResponse(p, control) \/ OnToken(p, control)
  /\ UNCHANGED <<now, paused, front, events, app, backend, past>>

(* The user sees a request that is pending, and answers it once; what has    *)
(* become of it by the time the core hears of it is another matter.          *)
Tap(p, r, accept) ==
  /\ r \in held[p] /\ r.to = p /\ r.status = "pending" /\ now < r.till /\ p \in active
  /\ r.id \notin agreed \cup {t.id : t \in taps[p]}
  /\ taps' = [taps EXCEPT ![p] = @ \cup {[id |-> r.id, accept |-> accept]}]
  /\ UNCHANGED <<radio, held, ranging, shared, active, phases, agreed, orders, events, backend, past>>

RespondPrecision(p, t) ==
  /\ t \in taps[p]
  /\ taps' = [taps EXCEPT ![p] = @ \ {t}]
  /\ \E r \in {h \in held[p] : h.id = t.id} :
       IF now >= r.till
       THEN /\ Keep(p, Become(held[p], LAMBDA h : h.id = t.id, "expired"))
            /\ UNCHANGED <<wire, orders, agreed>>
       ELSE /\ Keep(p, Become(held[p], LAMBDA h : h.id = t.id,
                              IF t.accept THEN "accepted" ELSE "rejected"))
            /\ Order(p, IF t.accept THEN <<Create(Partner(p, r), r.id)>> ELSE <<>>)
            /\ Send({To(Partner(p, r), Control(p, "response", r.id, t.accept, r.till))})
            /\ agreed' = IF t.accept THEN agreed \cup {r.id} ELSE agreed
  /\ UNCHANGED <<now, ranging, shared, active, phases, events, backend, past>>

OnDiscoveryToken(p, e) ==
  /\ e.kind = "token"
  /\ Send({To(Partner(p, r), Control(p, "token", r.id, e.token, r.till)) :
             r \in {h \in held[p] : h.id = e.id}})
  /\ Keep(p, held[p]) /\ UNCHANGED ranging

OnMeasurement(p, e) ==
  /\ e.kind = "measurement"
  /\ ranging' = [ranging EXCEPT ![p] = @ \cup {e.peer}]
  /\ Keep(p, Become(held[p], LAMBDA r : e.peer \in {r.from, r.to}, "active"))
  /\ UNCHANGED wire

OnEnded(p, e) ==
  /\ e.kind = "ended"
  /\ ranging' = [ranging EXCEPT ![p] = @ \ {e.peer}]
  /\ Keep(p, held[p]) /\ UNCHANGED wire

OnNote(p, e) == e = Note /\ Keep(p, held[p]) /\ UNCHANGED <<ranging, wire>>

OnRanging(p) ==
  /\ events[p] # <<>>
  /\ events' = [events EXCEPT ![p] = Tail(@)]
  /\ \E e \in {Head(events[p])} :
       OnDiscoveryToken(p, e) \/ OnMeasurement(p, e) \/ OnEnded(p, e) \/ OnNote(p, e)
  /\ UNCHANGED <<now, orders, app, shared, backend, past>>

(* What is shown is called off; what is not yet shown goes on.               *)
CallOff(p) ==
  /\ Order(p, SetToSeq({Cancel(q) : q \in ranging[p]}))
  /\ ranging' = [ranging EXCEPT ![p] = {}]

SetForeground(p) ==
  /\ phases[p] # <<>>
  /\ phases' = [phases EXCEPT ![p] = Tail(@)]
  /\ IF Head(phases[p])
     THEN front' = front \cup {p} /\ Keep(p, held[p]) /\ UNCHANGED <<orders, ranging>>
     ELSE /\ front' = front \ {p}
          /\ Keep(p, Become(held[p], LAMBDA r : r.status = "active", "accepted"))
          /\ CallOff(p)
  /\ UNCHANGED <<radio, cooldown, paused, notified, active, taps, agreed, events, backend, past>>

-----------------------------------------------------------------------------
(* Users, the system and the radio.                                          *)
Fault(ids, cut) ==
  /\ past.faults + Cardinality(Ids) < MaxEvents
  /\ past' = [faults |-> past.faults + 1, touched |-> past.touched \cup ids,
              cut |-> past.cut \cup cut]

SetSharingPaused(p) ==
  /\ Fault(Ids, {})
  /\ IF p \in paused
     THEN /\ paused' = paused \ {p} /\ Keep(p, held[p]) /\ UNCHANGED <<wire, orders, ranging>>
     ELSE \E open \in {{r \in held[p] : r.to = p /\ r.status \in Open}} :
            /\ paused' = paused \cup {p}
            /\ Keep(p, Become(held[p], LAMBDA r : r \in open, "rejected"))
            /\ Send({To(r.from, Control(p, "response", r.id, FALSE, r.till)) : r \in open})
            /\ CallOff(p)
  /\ UNCHANGED <<now, cooldown, front, notified, app, events, backend>>

(* The app becomes inactive, or goes to the background as well, where all    *)
(* sessions end.                                                             *)
Leave(p) ==
  /\ p \in active /\ Fault(Ids, {})
  /\ active' = active \ {p}
  /\ phases' = [phases EXCEPT ![p] = Append(@, FALSE)]
  /\ \/ UNCHANGED <<awake, sessions, events>>
     \/ /\ awake' = awake \ {p}
        /\ sessions' = [sessions EXCEPT ![p] = {}]
        /\ events' = [events EXCEPT ![p] = @ \o SetToSeq({Ended(s.peer) : s \in sessions[p]})]
  /\ UNCHANGED <<radio, held, ranging, shared, taps, agreed, orders, opened>>

Return(p) ==
  /\ p \notin active
  /\ active' = active \cup {p} /\ awake' = awake \cup {p}
  /\ phases' = [phases EXCEPT ![p] = Append(@, TRUE)]
  /\ UNCHANGED <<radio, held, ranging, shared, taps, agreed, orders, events, sessions, opened,
                 past>>

Lose(p, control) ==
  /\ control \in wire[p] /\ Fault({control.id}, {})
  /\ wire' = [wire EXCEPT ![p] = @ \ {control}]
  /\ UNCHANGED <<now, held, ranging, orders, events, app, shared, backend>>

Advance ==
  /\ now < MaxTime /\ now' = now + 1
  /\ past' = [past EXCEPT !.touched = @ \cup {r.id : r \in {h \in Requests : h.till <= now + 1}}]
  /\ UNCHANGED <<held, ranging, wire, orders, events, app, shared, backend>>

(* The process dies, and is started again by its user or, in the background, *)
(* by the system. The saved state says what it showed.                       *)
Restart(p) ==
  /\ Fault(Ids, {<<p, s.peer>> : s \in sessions[p]} \cup {<<p, q>> : q \in ranging[p]})
  /\ sessions' = [sessions EXCEPT ![p] = {}]
  /\ orders' = [orders EXCEPT ![p] = <<>>]
  /\ events' = [events EXCEPT ![p] = <<>>]
  /\ taps' = [taps EXCEPT ![p] = {}]
  /\ cooldown' = [cooldown EXCEPT ![p] = [q \in Peer |-> Never]]
  /\ notified' = [notified EXCEPT ![p] = {}]
  /\ wire' = [wire EXCEPT ![p] = {}]
  /\ \/ /\ active' = active \cup {p} /\ awake' = awake \cup {p}
        /\ phases' = [phases EXCEPT ![p] = <<TRUE>>]
     \/ /\ active' = active \ {p} /\ awake' = awake \ {p}
        /\ phases' = [phases EXCEPT ![p] = <<>>]
  /\ UNCHANGED <<now, held, ranging, paused, front, opened, agreed>>

-----------------------------------------------------------------------------
(* The backend.                                                              *)
With(p, q) == {s \in sessions[p] : s.peer = q}
Tell(p, es) == events' = [events EXCEPT ![p] = @ \o es]

(* Variant: a session is opened again although the request has one.          *)
KnownNever(p, q, id) == {}

Known(p, q, id) == {s \in With(p, q) : s.id = id}

(* begin: the session of a request, opened if need be in place of another's. *)
Begun(p, q, id) ==
  IF Known(p, q, id) # {} THEN sessions[p]
  ELSE (sessions[p] \ With(p, q))
       \cup {[peer |-> q, id |-> id, serial |-> opened[p] + 1, remote |-> NoToken]}

Begin(p, q, id) ==
  /\ opened[p] < MaxSessions \/ Known(p, q, id) # {}
  /\ opened' = [opened EXCEPT ![p] = IF Known(p, q, id) = {} THEN @ + 1 ELSE @]

TokenOf(p, q, id) ==
  LET s == CHOOSE s \in Begun(p, q, id) : s.peer = q
  IN  DiscoveryToken(id, Token(p, s.serial))

Carry(p) ==
  /\ orders[p] # <<>>
  /\ orders' = [orders EXCEPT ![p] = Tail(@)]
  /\ \E o \in {Head(orders[p])} :
       \/ /\ o.kind # "cancel" /\ p \notin awake
          /\ Tell(p, <<Note>>) /\ UNCHANGED <<sessions, opened>>
       \/ /\ o.kind = "create" /\ p \in awake
          /\ Begin(p, o.peer, o.id)
          /\ sessions' = [sessions EXCEPT ![p] = Begun(p, o.peer, o.id)]
          /\ Tell(p, <<TokenOf(p, o.peer, o.id)>>)
       \/ /\ o.kind = "start" /\ p \in awake
          /\ Begin(p, o.peer, o.id)
          /\ sessions' = [sessions EXCEPT ![p] =
               {IF s.peer = o.peer THEN [s EXCEPT !.remote = o.token] ELSE s :
                  s \in Begun(p, o.peer, o.id)}]
          /\ Tell(p, IF Known(p, o.peer, o.id) = {} THEN <<TokenOf(p, o.peer, o.id), Note>>
                     ELSE <<Note>>)
       \/ /\ o.kind = "cancel"
          /\ sessions' = [sessions EXCEPT ![p] = @ \ With(p, o.peer)]
          /\ Tell(p, <<Ended(o.peer)>>)
          /\ UNCHANGED opened
  /\ UNCHANGED <<radio, held, ranging, app, shared, awake, past>>

(* Two sessions that run with each other's tokens.                           *)
Mutual(p, s) ==
  \E t \in sessions[s.peer] :
    t.peer = p /\ s.remote = Token(s.peer, t.serial) /\ t.remote = Token(p, s.serial)

(* Only measurements that change something.                                  *)
Measure(p, s) ==
  /\ s \in sessions[p] /\ Mutual(p, s) /\ Measurement(s.peer) \notin ToSet(events[p])
  /\ s.peer \notin ranging[p]
     \/ \E r \in held[p] : s.peer \in {r.from, r.to} /\ r.status # "active"
  /\ Tell(p, <<Measurement(s.peer)>>)
  /\ UNCHANGED <<radio, held, ranging, app, shared, orders, backend, past>>

(* The system ends a session: the core is told of a failure, and no more.    *)
Invalidate(p, s) ==
  /\ s \in sessions[p] /\ Fault({s.id}, {<<p, s.peer>>})
  /\ sessions' = [sessions EXCEPT ![p] = @ \ {s}]
  /\ Tell(p, <<Note>>)
  /\ UNCHANGED <<radio, held, ranging, app, shared, orders, awake, opened>>

-----------------------------------------------------------------------------
Progress ==
  \E p \in Peer :
    \/ \E control \in wire[p] : OnControl(p, control)
    \/ \E t \in taps[p] : RespondPrecision(p, t)
    \/ OnRanging(p) \/ SetForeground(p) \/ Carry(p)

Next ==
  \/ Progress \/ Advance
  \/ \E p \in Peer :
       \/ \E q \in Peer, id \in Id : RequestPrecision(p, q, id)
       \/ \E r \in held[p], accept \in BOOLEAN : Tap(p, r, accept)
       \/ \E s \in sessions[p] : Measure(p, s) \/ Invalidate(p, s)
       \/ \E control \in wire[p] : Lose(p, control)
       \/ SetSharingPaused(p) \/ Leave(p) \/ Return(p) \/ Restart(p)

Spec == Init /\ [][Next]_vars

FairSpec == Spec /\ WF_vars(Progress)

-----------------------------------------------------------------------------
Request ==
  [id : Id, from : Peer, to : Peer, created : 0..MaxTime, till : Nat,
   status : Open \cup {"rejected", "expired"}]

TypeOK ==
  /\ now \in 0..MaxTime
  /\ \A p \in Peer :
       /\ held[p] \subseteq Request
       /\ \A r \in held[p] : p \in {r.from, r.to}
       /\ \A r \in held[p], s \in Requests : r.id = s.id => r.from = s.from /\ r.till = s.till
       /\ \A s, t \in sessions[p] : s.peer = t.peer => s = t
  /\ \A p \in Peer : p \notin awake => sessions[p] = {}

(* "Only when you agree": whatever is lost or overtaken, a device opens a    *)
(* session only for a request the user who was asked has agreed to.          *)
ConsentedOnly == \A p \in Peer : \A s \in sessions[p] : s.id \in agreed

(* When core and backend have nothing more to tell each other, a distance is *)
(* shown only while there is a session (no old arrow, ARCHITECTURE.md),      *)
(* unless the session went without an event.                                 *)
ShownHasSession ==
  \A p \in Peer : \A q \in ranging[p] :
    events[p] = <<>> /\ orders[p] = <<>> /\ <<p, q>> \notin past.cut => With(p, q) # {}

RangingSound == TypeOK /\ ConsentedOnly /\ ShownHasSession

(* A request was made in the instant in which the one before it expired:     *)
(* both can then arrive, the later one first.                                *)
Tied(p, q) ==
  \E r, s \in held[p] : r.from = q /\ s.from = q /\ r.id # s.id /\ r.till = s.created

(* A user is not asked twice by one member within the cooldown, as long as   *)
(* the process lives.                                                        *)
Spaced ==
  \A p \in Peer : \A r, s \in notified[p] :
    r.from = s.from /\ r.id # s.id /\ ~Tied(p, r.from) =>
      r.created - s.created >= Cooldown \/ s.created - r.created >= Cooldown

(* When the user who was asked agrees in time and nothing comes between, the *)
(* two devices finally range with each other.                                *)
SessionStarts ==
  <>[](\A r \in Requests :
         r.id \in agreed /\ r.id \notin past.touched =>
           \E s \in sessions[r.from] : s.peer = r.to /\ Mutual(r.from, s))
=============================================================================
