--------------------------- MODULE CallSignaling ---------------------------
(***************************************************************************)
(* One-to-one calls between the devices of a group, as crates/travel-core   *)
(* drives the call machine: commands of the app, events of the system call  *)
(* interface, signals carried by Bluetooth control messages, and the        *)
(* connections the peer transport reports.  A handler of the core is one    *)
(* action; what it queues for the transport is carried out later.           *)
(*                                                                          *)
(* All devices read the same clock, so every expiry means the same moment   *)
(* to everyone; the program assumes no more than roughly equal clocks.      *)
(* The transient call.signal events that are published beside the control   *)
(* messages have no effect where they arrive, and are left out.             *)
(***************************************************************************)
EXTENDS CallMachine, Sequences, SequencesExt

CONSTANTS
  InRange,      \* the pairs {p, q} of devices whose transports can connect
  MaxTime,      \* bound on time
  MaxLosses,    \* bound on control messages lost
  MaxDrops,     \* bound on connections lost while no transport is reset
  MaxHints,     \* bound on dataAvailable controls
  MaxRestarts   \* bound on restarts of the app

ASSUME RangeAssumption ==
  \A pair \in InRange : \E p, q \in Peer : p # q /\ pair = {p, q}

ASSUME BoundAssumption ==
  {MaxTime, MaxLosses, MaxDrops, MaxHints, MaxRestarts} \subseteq Nat

VARIABLES
  now,         \* the time
  placed,      \* pairs <<id, p>>: p has placed call id
  call,        \* call[p]: the state of p's call machine
  controls,    \* controls[<<p, q>>]: signals from p to q, in order
  connected,   \* connected[p]: the peers p's core has a connection to
  links,       \* the pairs {p, q} whose transports are connected
  notices,     \* notices[p]: events of p's transport its core has not seen
  orders,      \* orders[p]: SetRealtime commands p's transport has not seen
  realtime,    \* realtime[p]: p's transport runs in its realtime class
  shown,       \* shown[p]: the ids of the calls the system shows on p
  losses, drops, hints, restarts   \* how often each has happened

core      == <<placed, call, controls, orders, shown>>
transport == <<connected, links, notices, realtime>>
bounds    == <<losses, drops, hints, restarts>>
vars      == <<now, core, transport, bounds>>

Pairs == Peer \X Peer

Init ==
  /\ now = 0
  /\ placed = {}
  /\ call = [p \in Peer |-> Idle]
  /\ controls = [pair \in Pairs |-> <<>>]
  /\ connected = [p \in Peer |-> {}]
  /\ links = {}
  /\ notices = [p \in Peer |-> <<>>]
  /\ orders = [p \in Peer |-> <<>>]
  /\ realtime = [p \in Peer |-> FALSE]
  /\ shown = [p \in Peer |-> {}]
  /\ losses = 0 /\ drops = 0 /\ hints = 0 /\ restarts = 0

(* publish_call_signal: a control message good for OfferTtl.               *)
Signal(p, q, kind, id) ==
  controls' = [controls EXCEPT
    ![<<p, q>>] = Append(@, [kind |-> kind, id |-> id, until |-> now + OfferTtl])]

Order(p, on) == orders' = [orders EXCEPT ![p] = Append(@, on)]

Becomes(p, new) == call' = [call EXCEPT ![p] = new]

----------------------------------------------------------------------------
(* Commands of the app and events of the system's call interface.  Every    *)
(* command first lets time act on the call; no event does.                  *)

StartCall(p, q) ==
  /\ p # q
  /\ CanStart(Ticked(call[p], now))
  /\ \E id \in CallId \ {pair[1] : pair \in placed} :
       /\ placed' = placed \cup {<<id, p>>}
       /\ Becomes(p, Timed("outgoing", id, q, now + OfferTtl))
       /\ Signal(p, q, "offer", id)
       /\ shown' = [shown EXCEPT ![p] = @ \cup {id}]
  /\ Order(p, TRUE)
  /\ UNCHANGED <<now, transport, bounds>>

(* Variant: the transport is left in the class it was in.                   *)
AnswerQuietly(p, current) ==
  /\ CanAnswer(current, now)
  /\ Becomes(p, Untimed("connecting", current))
  /\ Signal(p, current.peer, "answer", current.id)
  /\ UNCHANGED <<now, placed, orders, shown, transport, bounds>>

(* answer_call, with current the state of the call it finds.               *)
Answer(p, current) ==
  /\ CanAnswer(current, now)
  /\ Becomes(p, Untimed("connecting", current))
  /\ Signal(p, current.peer, "answer", current.id)
  /\ Order(p, TRUE)
  /\ UNCHANGED <<now, placed, shown, transport, bounds>>

AnswerCall(p) == Answer(p, Ticked(call[p], now))

(* The user accepts a call the system shows; the core answers whatever call *)
(* it has.                                                                  *)
UserAnswered(p, id) == id \in shown[p] /\ Answer(p, call[p])

(* reject_call and end_call: the call is over on this device, and closed    *)
(* are the calls the system stops to show.                                  *)
Terminate(p, current, kind, closed) ==
  /\ Becomes(p, Ended(current))
  /\ Signal(p, current.peer, kind, current.id)
  /\ shown' = [shown EXCEPT ![p] = @ \ closed]
  /\ Order(p, FALSE)
  /\ UNCHANGED <<now, placed, transport, bounds>>

RejectCall(p) ==
  LET current == Ticked(call[p], now)
  IN  /\ current.phase = "incoming"
      /\ Terminate(p, current, "reject", {current.id})

EndCall(p) ==
  LET current == Ticked(call[p], now)
  IN  IsLive(current) /\ Terminate(p, current, "end", {current.id})

(* The user ends a call the system shows; the core ends whatever call it    *)
(* has, if any.                                                             *)
UserEnded(p, id) ==
  /\ id \in shown[p]
  /\ IF IsLive(call[p])
       THEN Terminate(p, call[p], "end", {id, call[p].id})
       ELSE /\ shown' = [shown EXCEPT ![p] = @ \ {id}]
            /\ UNCHANGED <<now, placed, call, controls, orders, transport, bounds>>

(* Any other command, or one that is refused.                              *)
OtherCommand(p) ==
  /\ TimedOut(call[p], now)
  /\ Becomes(p, Ended(call[p]))
  /\ UNCHANGED <<now, placed, controls, orders, shown, transport, bounds>>

----------------------------------------------------------------------------
(* Signals.  A control message is discarded after its time; a signal that   *)
(* does not fit the call is an error without effect.                        *)

First(q, p) == Head(controls[<<q, p>>])

Receives(p, q, kind) ==
  /\ controls[<<q, p>>] # <<>>
  /\ First(q, p).kind \in kind
  /\ now <= First(q, p).until

Taken(q, p) == [controls EXCEPT ![<<q, p>>] = Tail(@)]

(* An offer rings, displacing the device's own offer if that one loses, or  *)
(* is rejected as busy.                                                     *)
ReceiveOffer(p, q) ==
  /\ Receives(p, q, {"offer"})
  /\ LET offer == First(q, p)
     IN  /\ now < offer.until
         /\ IF AcceptsOffer(call[p], offer.id, q)
              THEN /\ Becomes(p, Timed("incoming", offer.id, q, offer.until))
                   /\ shown' = [shown EXCEPT ![p] = @ \cup {offer.id}]
                   /\ controls' = Taken(q, p)
              ELSE /\ controls' = [Taken(q, p) EXCEPT
                        ![<<p, q>>] = Append(@, [kind |-> "reject",
                                                 id |-> offer.id,
                                                 until |-> now + OfferTtl])]
                   /\ UNCHANGED <<call, shown>>
  /\ UNCHANGED <<now, placed, orders, transport, bounds>>

ReceiveAnswer(p, q) ==
  /\ Receives(p, q, {"answer"})
  /\ AcceptsAnswer(call[p], First(q, p).id)
  /\ Becomes(p, Untimed("connecting", [call[p] EXCEPT !.id = First(q, p).id]))
  /\ controls' = Taken(q, p)
  /\ Order(p, TRUE)
  /\ UNCHANGED <<now, placed, shown, transport, bounds>>

ReceiveTermination(p, q) ==
  /\ Receives(p, q, {"reject", "end"})
  /\ AcceptsTermination(call[p], First(q, p).id)
  /\ Becomes(p, Ended(call[p]))
  /\ controls' = Taken(q, p)
  /\ shown' = [shown EXCEPT ![p] = @ \ {First(q, p).id}]
  /\ Order(p, FALSE)
  /\ UNCHANGED <<now, placed, transport, bounds>>

Discard(p, q) ==
  /\ controls[<<q, p>>] # <<>>
  /\ LET signal == First(q, p)
     IN  \/ now > signal.until
         \/ signal.kind = "offer" /\ now >= signal.until
         \/ signal.kind = "answer" /\ ~AcceptsAnswer(call[p], signal.id)
         \/ /\ signal.kind \in {"reject", "end"}
            /\ ~AcceptsTermination(call[p], signal.id)
  /\ controls' = Taken(q, p)
  /\ UNCHANGED <<now, placed, call, orders, shown, transport, bounds>>

(* A control message does not get through.                                 *)
LoseSignal(p, q) ==
  /\ losses < MaxLosses
  /\ \E i \in DOMAIN controls[<<p, q>>] :
       controls' = [controls EXCEPT ![<<p, q>>] = RemoveAt(@, i)]
  /\ losses' = losses + 1
  /\ UNCHANGED <<now, placed, call, orders, shown, transport, drops, hints,
                 restarts>>

----------------------------------------------------------------------------
(* Connections *)

Notice(kind, p) == [kind |-> kind, peer |-> p]

Other(p, pair) == CHOOSE q \in pair : q # p

(* The transports of peers hear that the connections in lost are gone.     *)
Dropped(lost) ==
  [p \in Peer |->
    notices[p] \o SetToSeq({Notice("disconnected", Other(p, pair)) :
                              pair \in {l \in lost : p \in l}})]

LinkUp(pair) ==
  /\ pair \notin links
  /\ links' = links \cup {pair}
  /\ notices' = [p \in Peer |->
       IF p \in pair THEN Append(notices[p], Notice("authenticated", Other(p, pair)))
       ELSE notices[p]]
  /\ UNCHANGED <<now, core, connected, realtime, bounds>>

LinkDown(pair) ==
  /\ drops < MaxDrops
  /\ pair \in links
  /\ links' = links \ {pair}
  /\ notices' = Dropped({pair})
  /\ drops' = drops + 1
  /\ UNCHANGED <<now, core, connected, realtime, losses, hints, restarts>>

(* The transport carries out a SetRealtime: when that changes its class, it *)
(* gives up all its connections and looks for peers again.                  *)
SetRealtime(p) ==
  /\ orders[p] # <<>>
  /\ LET on   == Head(orders[p])
         lost == IF on = realtime[p] THEN {} ELSE {pair \in links : p \in pair}
     IN  /\ realtime' = [realtime EXCEPT ![p] = on]
         /\ links' = links \ lost
         /\ notices' = Dropped(lost)
  /\ orders' = [orders EXCEPT ![p] = Tail(@)]
  /\ UNCHANGED <<now, placed, call, controls, shown, connected, bounds>>

(* A dataAvailable control: the core starts discovery once more.  The       *)
(* transport gives up all its connections, but its runtime has forgotten    *)
(* them, and tells the core of none, except what another thread is telling  *)
(* it already: the core keeps connections that are gone.                    *)
OnDataAvailable(p) ==
  /\ hints < MaxHints
  /\ hints' = hints + 1
  /\ LET lost == {pair \in links : p \in pair}
         told == {SubSeq(notices[p], 1, n) : n \in {0, 1} \cap 0 .. Len(notices[p])}
     IN  /\ links' = links \ lost
         /\ \E rest \in told : notices' = [Dropped(lost) EXCEPT ![p] = rest]
  /\ UNCHANGED <<now, core, connected, realtime, losses, drops, restarts>>

(* on_transport, Authenticated: a call to this peer that waits for a        *)
(* connection goes on.                                                      *)
OnAuthenticated(p) ==
  /\ notices[p] # <<>>
  /\ LET notice == Head(notices[p])
     IN  /\ notice.kind = "authenticated"
         /\ connected' = [connected EXCEPT ![p] = @ \cup {notice.peer}]
         /\ IF IsLive(call[p]) /\ call[p].peer = notice.peer
              THEN Becomes(p, Connected(call[p], now)) ELSE UNCHANGED call
  /\ notices' = [notices EXCEPT ![p] = Tail(@)]
  /\ UNCHANGED <<now, placed, controls, orders, shown, links, realtime, bounds>>

(* on_transport, Disconnected: a call to this peer waits for a new one.    *)
OnDisconnected(p) ==
  /\ notices[p] # <<>>
  /\ LET notice == Head(notices[p])
     IN  /\ notice.kind = "disconnected"
         /\ connected' = [connected EXCEPT ![p] = @ \ {notice.peer}]
         /\ IF /\ notice.peer \in connected[p]
               /\ IsLive(call[p]) /\ call[p].peer = notice.peer
              THEN Becomes(p, Lost(call[p], now)) ELSE UNCHANGED call
  /\ notices' = [notices EXCEPT ![p] = Tail(@)]
  /\ UNCHANGED <<now, placed, controls, orders, shown, links, realtime, bounds>>

----------------------------------------------------------------------------
(* The app process dies and starts again; nothing of a call is saved.  What *)
(* is in the air to or from the device still arrives or does not.          *)
Restart(p) ==
  /\ restarts < MaxRestarts
  /\ restarts' = restarts + 1
  /\ call' = [call EXCEPT ![p] = Idle]
  /\ shown' = [shown EXCEPT ![p] = {}]
  /\ \/ UNCHANGED controls
     \/ controls' = [pair \in Pairs |->
          IF p \in {pair[1], pair[2]} THEN <<>> ELSE controls[pair]]
  /\ orders' = [orders EXCEPT ![p] = <<>>]
  /\ realtime' = [realtime EXCEPT ![p] = FALSE]
  /\ connected' = [connected EXCEPT ![p] = {}]
  /\ LET lost == {pair \in links : p \in pair}
     IN  /\ links' = links \ lost
         /\ notices' = [Dropped(lost) EXCEPT ![p] = <<>>]
  /\ UNCHANGED <<now, placed, losses, drops, hints>>

Advance ==
  /\ now < MaxTime
  /\ now' = now + 1
  /\ UNCHANGED <<core, transport, bounds>>

Deliver(p, q) ==
  \/ ReceiveOffer(p, q)
  \/ ReceiveAnswer(p, q)
  \/ ReceiveTermination(p, q)
  \/ Discard(p, q)

User(p) ==
  \/ \E q \in Peer : StartCall(p, q)
  \/ AnswerCall(p)
  \/ RejectCall(p)
  \/ EndCall(p)
  \/ OtherCommand(p)
  \/ \E id \in shown[p] : UserAnswered(p, id) \/ UserEnded(p, id)

Next ==
  \/ Advance
  \/ \E pair \in InRange : LinkUp(pair) \/ LinkDown(pair)
  \/ \E p \in Peer :
       \/ User(p)
       \/ SetRealtime(p)
       \/ OnAuthenticated(p)
       \/ OnDisconnected(p)
       \/ OnDataAvailable(p)
       \/ Restart(p)
       \/ \E q \in Peer : Deliver(p, q) \/ LoseSignal(p, q)

Spec == Init /\ [][Next]_vars

----------------------------------------------------------------------------
(* Properties *)

SignalRecord ==
  [kind : {"offer", "answer", "reject", "end"}, id : CallId, until : Nat]

(* The type of every variable of a device and of what is between devices.  *)
TypeOK ==
  /\ now \in Nat
  /\ placed \subseteq CallId \X Peer
  /\ call \in [Peer -> Call]
  /\ controls \in [Pairs -> Seq(SignalRecord)]
  /\ connected \in [Peer -> SUBSET Peer]
  /\ links \subseteq InRange
  /\ notices \in
       [Peer -> Seq([kind : {"authenticated", "disconnected"}, peer : Peer])]
  /\ orders \in [Peer -> Seq(BOOLEAN)]
  /\ realtime \in [Peer -> BOOLEAN]
  /\ shown \in [Peer -> SUBSET CallId]
  /\ {losses, drops, hints, restarts} \subseteq Nat

InCall(p, q) == call[p].phase \in Established /\ call[p].peer = q

(* A caller whose call has been answered, and whose callee is in a call     *)
(* with it, is in the same call: late answers, answers to earlier offers    *)
(* and offers that cross never connect it to another one.                   *)
AnsweredCallIsShared ==
  \A p, q \in Peer :
    InCall(p, q) /\ InCall(q, p) /\ <<call[p].id, p>> \in placed
      => call[q].id = call[p].id

(* A call is active only while its core has a connection to its peer, as    *)
(* far as it has been told: that is where it sends the audio.               *)
ActiveHasConnection ==
  \A p \in Peer :
    call[p].phase = "active" => call[p].peer \in connected[p]

(* The class the transport is in once it has seen all its orders.          *)
Wanted(p) == IF orders[p] = <<>> THEN realtime[p] ELSE Last(orders[p])

(* While a call is established its device has asked its transport for the   *)
(* realtime class, and no late termination of another call took that back.  *)
RealtimeWhileEstablished ==
  \A p \in Peer :
    call[p].phase \in Established => Wanted(p)

(* A call that one side hangs up, cancels or rejects is over on the other   *)
(* side too once that side has had the signals, if none was lost and no     *)
(* time has run out: in whatever phase the call was there, and whatever     *)
(* signals crossed.                                                         *)
HangUpReachesPeer ==
  losses = 0 /\ restarts = 0 /\ now < OfferTtl /\ now <= RetryTtl =>
    \A p, q \in Peer :
      /\ call[p].phase = "ended" /\ call[p].peer = q
      /\ controls[<<p, q>>] = <<>>
      => ~(IsLive(call[q]) /\ call[q].id = call[p].id)

============================================================================
