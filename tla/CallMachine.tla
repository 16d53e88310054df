---------------------------- MODULE CallMachine ----------------------------
(***************************************************************************)
(* CallMachine of crates/call: the state of the one call a device can be    *)
(* in, and what commands, signals, the transport and time do to it.  The    *)
(* module has no variables; CallSignaling keeps the calls.                  *)
(*                                                                          *)
(* Call ids are numbers, in the order the code compares them in; times are  *)
(* numbers too.  Why a call ended and when it began are left out: nothing   *)
(* reads them back.                                                         *)
(***************************************************************************)
EXTENDS Integers

CONSTANTS
  Peer,       \* the devices of the group
  CallId,     \* the ids calls may get
  OfferTtl,   \* how long an offer, or any other signal, is good for
  RetryTtl    \* how long a lost connection may take to come back

ASSUME CallAssumption == CallId \subseteq Nat /\ {OfferTtl, RetryTtl} \subseteq Nat

Idle == [phase |-> "idle"]

(* until is expires_at_ms of an offer, deadline_ms of a reconnection.       *)
Timed(phase, id, peer, until) ==
  [phase |-> phase, id |-> id, peer |-> peer, until |-> until]
Untimed(phase, call) == [phase |-> phase, id |-> call.id, peer |-> call.peer]

Established == {"connecting", "active", "reconnecting"}
Live == {"outgoing", "incoming"} \cup Established

Call ==
  {Idle}
    \cup [phase : {"outgoing", "incoming", "reconnecting"}, id : CallId,
          peer : Peer, until : Nat]
    \cup [phase : {"connecting", "active", "ended"}, id : CallId, peer : Peer]

(* active_identity: a call that is neither idle nor over.                  *)
IsLive(call) == call.phase \in Live

Ended(call) == Untimed("ended", call)

TimedOut(call, now) ==
  \/ call.phase \in {"outgoing", "incoming"} /\ now >= call.until
  \/ call.phase = "reconnecting" /\ now > call.until

(* tick; a call that is connecting has no time limit.                      *)
Ticked(call, now) == IF TimedOut(call, now) THEN Ended(call) ELSE call

(* start *)
CanStart(call) == ~IsLive(call)

(* receive_offer of an offer that has not expired: a free device rings, and *)
(* of two offers that cross the one with the smaller id is kept.            *)
AcceptsOffer(call, id, from) ==
  \/ ~IsLive(call)
  \/ call.phase = "outgoing" /\ call.peer = from /\ id < call.id

(* answer *)
CanAnswer(call, now) == call.phase = "incoming" /\ now < call.until

(* Variant: an answer is taken for the answer to the current offer.         *)
AcceptsAnyAnswer(call, id) == call.phase = "outgoing"

(* receive_answer *)
AcceptsAnswer(call, id) == call.phase = "outgoing" /\ call.id = id

(* Variant: a call that is still ringing cannot be called off.              *)
EndsEstablishedOnly(call, id) == call.phase \in Established /\ call.id = id

(* receive_termination *)
AcceptsTermination(call, id) == IsLive(call) /\ call.id = id

(* transport_connected and reconnect, for a connection to the call's peer. *)
Connected(call, now) ==
  IF \/ call.phase = "connecting"
     \/ call.phase = "reconnecting" /\ now <= call.until
    THEN Untimed("active", call) ELSE call

(* Variant: a call that has become active is not looked after any more.     *)
LostWhileConnecting(call, now) ==
  IF call.phase = "connecting"
    THEN Timed("reconnecting", call.id, call.peer, now + RetryTtl) ELSE call

(* transport_lost *)
Lost(call, now) ==
  IF call.phase \in {"connecting", "active"}
    THEN Timed("reconnecting", call.id, call.peer, now + RetryTtl) ELSE call

============================================================================
