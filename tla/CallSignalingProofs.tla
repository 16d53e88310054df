------------------------ MODULE CallSignalingProofs ------------------------
(***************************************************************************)
(* Proofs about CallSignaling, whatever is lost, late or reordered between  *)
(* devices.  An active call has a connection and an established call has    *)
(* asked for the realtime class: both are about what one device's core      *)
(* knows and has asked for, and follow from one invariant of each device    *)
(* (Inv).  An answered call is the one both devices are in: that is about   *)
(* two devices and the signals between them, and needs the order in which   *)
(* a device has placed its calls (Shared).  What one side hangs up is over  *)
(* on the other: that is about the order of the signals on their way (Hung). *)
(***************************************************************************)
EXTENDS CallSignaling, SequenceTheorems, TLAPS

(* What call, connection set and wanted class of one device must satisfy.  *)
Served(current, peers, wanted) ==
  /\ current.phase = "active" => current.peer \in peers
  /\ current.phase \in Established => wanted

Functional ==
  /\ call = [p \in Peer |-> call[p]]
  /\ connected = [p \in Peer |-> connected[p]]
  /\ orders \in [Peer -> Seq(BOOLEAN)]
  /\ realtime \in [Peer -> BOOLEAN]

Inv ==
  /\ Functional
  /\ \A p \in Peer : Served(call[p], connected[p], Wanted(p))

(* Appending an order makes it the one the transport ends in.              *)
LEMMA AppendedIsWanted ==
  ASSUME Functional, NEW p \in Peer, NEW on \in BOOLEAN, Order(p, on)
  PROVE  /\ orders' \in [Peer -> Seq(BOOLEAN)]
         /\ orders'[p] # <<>>
         /\ Last(orders'[p]) = on
         /\ \A r \in Peer \ {p} : orders'[r] = orders[r]
<1>1. orders[p] \in Seq(BOOLEAN)
  BY DEF Functional
<1>2. orders' = [orders EXCEPT ![p] = Append(orders[p], on)]
  BY DEF Order, Functional
<1>3. /\ Append(orders[p], on) \in Seq(BOOLEAN)
      /\ Len(Append(orders[p], on)) = Len(orders[p]) + 1
      /\ Append(orders[p], on)[Len(orders[p]) + 1] = on
      /\ Append(orders[p], on) # <<>>
  BY <1>1
<1> QED
  BY <1>2, <1>3 DEF Last, Functional

(* The rest of an order list ends like the whole.                          *)
LEMMA TailIsWanted ==
  ASSUME NEW list \in Seq(BOOLEAN), list # <<>>
  PROVE  /\ Tail(list) \in Seq(BOOLEAN)
         /\ Head(list) \in BOOLEAN
         /\ IF Tail(list) = <<>> THEN Head(list) = Last(list)
            ELSE Last(Tail(list)) = Last(list)
<1>1. Len(list) \in Nat \ {0}
  BY EmptySeq
<1>2. /\ Head(list) \in BOOLEAN
      /\ Tail(list) \in Seq(BOOLEAN)
      /\ Len(Tail(list)) = Len(list) - 1
      /\ \A i \in 1 .. Len(Tail(list)) : Tail(list)[i] = list[i + 1]
  BY HeadTailProperties
<1>3. CASE Tail(list) = <<>>
  <2>1. Len(list) = 1
    BY <1>1, <1>2, <1>3, EmptySeq
  <2>2. Head(list) = list[1]
    OBVIOUS
  <2> QED
    BY <1>2, <1>3, <2>1, <2>2 DEF Last
<1>4. CASE Tail(list) # <<>>
  <2>1. Len(list) - 1 \in 1 .. Len(Tail(list))
    BY <1>1, <1>2, <1>4, EmptySeq
  <2>2. Tail(list)[Len(list) - 1] = list[Len(list)]
    BY <1>1, <1>2, <2>1
  <2> QED
    BY <1>2, <1>4, <2>2 DEF Last
<1> QED
  BY <1>3, <1>4

LEMMA InitInv == Init => Inv
<1> SUFFICES ASSUME Init PROVE Inv
  OBVIOUS
<1>1. Functional
  <2>1. <<>> \in Seq(BOOLEAN)
    OBVIOUS
  <2> QED
    BY <2>1 DEF Init, Functional
<1>2. ASSUME NEW p \in Peer PROVE call[p].phase = "idle"
  BY DEF Init, Idle
<1> QED
  BY <1>1, <1>2 DEF Inv, Served, Established

(* A handler that leaves connections and transport alone keeps the          *)
(* invariant if it asks for the realtime class with every established call. *)
LEMMA CoreStep ==
  ASSUME Inv, NEW p \in Peer, NEW on \in BOOLEAN, NEW new,
         Becomes(p, new), Order(p, on), UNCHANGED <<connected, realtime>>,
         new.phase # "active",
         new.phase \in Established => on
  PROVE  Inv'
<1>1. Functional
  BY DEF Inv
<1>2. /\ orders' \in [Peer -> Seq(BOOLEAN)]
      /\ orders'[p] # <<>>
      /\ Last(orders'[p]) = on
      /\ \A r \in Peer \ {p} : orders'[r] = orders[r]
  BY <1>1, AppendedIsWanted
<1>3. call' = [r \in Peer |-> IF r = p THEN new ELSE call[r]]
  BY <1>1 DEF Becomes, Functional
<1>4. Functional'
  BY <1>1, <1>2, <1>3 DEF Functional
<1>5. ASSUME NEW r \in Peer PROVE Served(call'[r], connected'[r], Wanted(r)')
  <2>1. CASE r = p
    BY <1>2, <1>3, <2>1 DEF Served, Wanted
  <2>2. CASE r # p
    <3>1. Served(call[r], connected[r], Wanted(r))
      BY DEF Inv
    <3>2. call'[r] = call[r] /\ connected'[r] = connected[r] /\ Wanted(r)' = Wanted(r)
      BY <1>2, <1>3, <2>2 DEF Wanted
    <3> QED
      BY <3>1, <3>2
  <2> QED
    BY <2>1, <2>2
<1> QED
  BY <1>4, <1>5 DEF Inv

(* So does one that asks for nothing and establishes nothing.              *)
LEMMA QuietStep ==
  ASSUME Inv, NEW p \in Peer, NEW new,
         Becomes(p, new), UNCHANGED <<orders, connected, realtime>>,
         new.phase \notin Established
  PROVE  Inv'
<1>1. Functional
  BY DEF Inv
<1>2. call' = [r \in Peer |-> IF r = p THEN new ELSE call[r]]
  BY <1>1 DEF Becomes, Functional
<1>3. Functional'
  BY <1>1, <1>2 DEF Functional
<1>4. ASSUME NEW r \in Peer PROVE Served(call'[r], connected'[r], Wanted(r)')
  <2>1. Served(call[r], connected[r], Wanted(r)) /\ Wanted(r)' = Wanted(r)
    BY DEF Inv, Wanted
  <2> QED
    BY <1>2, <2>1 DEF Served, Established
<1> QED
  BY <1>3, <1>4 DEF Inv

LEMMA StillStep ==
  ASSUME Inv, UNCHANGED <<call, orders, connected, realtime>>
  PROVE  Inv'
BY DEF Inv, Functional, Wanted

LEMMA UserStep ==
  ASSUME Inv, NEW p \in Peer, User(p)
  PROVE  Inv'
<1>1. CASE \E q \in Peer : StartCall(p, q)
  <2>1. PICK q \in Peer : StartCall(p, q)
    BY <1>1
  <2>2. PICK id \in CallId : Becomes(p, Timed("outgoing", id, q, now + OfferTtl))
    BY <2>1 DEF StartCall
  <2>3. Order(p, TRUE) /\ UNCHANGED <<connected, realtime>>
    BY <2>1 DEF StartCall, transport
  <2> DEFINE new == Timed("outgoing", id, q, now + OfferTtl)
  <2>4. new.phase = "outgoing"
    BY DEF Timed
  <2> HIDE DEF new
  <2> QED
    BY <2>2, <2>3, <2>4, CoreStep DEF new
<1>2. ASSUME NEW current, Answer(p, current) PROVE Inv'
  <2> DEFINE new == Untimed("connecting", current)
  <2>1. new.phase = "connecting"
    BY DEF Untimed
  <2>2. Becomes(p, new) /\ Order(p, TRUE) /\ UNCHANGED <<connected, realtime>>
    BY <1>2 DEF Answer, transport
  <2> HIDE DEF new
  <2> QED
    BY <2>1, <2>2, CoreStep
<1>3. ASSUME NEW current, NEW kind, NEW closed, Terminate(p, current, kind, closed)
      PROVE Inv'
  <2> DEFINE new == Ended(current)
  <2>1. new.phase = "ended"
    BY DEF Ended, Untimed
  <2>2. Becomes(p, new) /\ Order(p, FALSE) /\ UNCHANGED <<connected, realtime>>
    BY <1>3 DEF Terminate, transport
  <2>3. new.phase \notin Established
    BY <2>1 DEF Established
  <2> HIDE DEF new
  <2> QED
    BY <2>1, <2>2, <2>3, CoreStep
<1>4. CASE AnswerCall(p)
  BY <1>4, <1>2 DEF AnswerCall
<1>5. CASE RejectCall(p)
  BY <1>5, <1>3 DEF RejectCall
<1>6. CASE EndCall(p)
  BY <1>6, <1>3 DEF EndCall
<1>7. CASE OtherCommand(p)
  <2> DEFINE new == Ended(call[p])
  <2>1. new.phase \notin Established
    BY DEF Ended, Untimed, Established
  <2>2. Becomes(p, new) /\ UNCHANGED <<orders, connected, realtime>>
    BY <1>7 DEF OtherCommand, transport
  <2> HIDE DEF new
  <2> QED
    BY <2>1, <2>2, QuietStep
<1>8. CASE \E id \in shown[p] : UserAnswered(p, id) \/ UserEnded(p, id)
  <2>1. PICK id \in shown[p] : UserAnswered(p, id) \/ UserEnded(p, id)
    BY <1>8
  <2>2. CASE UserAnswered(p, id)
    BY <2>2, <1>2 DEF UserAnswered
  <2>3. CASE UserEnded(p, id) /\ IsLive(call[p])
    BY <2>3, <1>3 DEF UserEnded
  <2>4. CASE UserEnded(p, id) /\ ~IsLive(call[p])
    BY <2>4, StillStep DEF UserEnded, transport
  <2> QED
    BY <2>1, <2>2, <2>3, <2>4
<1> QED
  BY <1>1, <1>4, <1>5, <1>6, <1>7, <1>8 DEF User

LEMMA DeliverStep ==
  ASSUME Inv, NEW p \in Peer, NEW q \in Peer, Deliver(p, q)
  PROVE  Inv'
<1>1. CASE ReceiveOffer(p, q)
  <2>1. UNCHANGED <<orders, connected, realtime>>
    BY <1>1 DEF ReceiveOffer, transport
  <2>2. CASE UNCHANGED call
    BY <2>1, <2>2, StillStep
  <2> DEFINE new == Timed("incoming", First(q, p).id, q, First(q, p).until)
  <2>3. new.phase \notin Established
    BY DEF Timed, Established
  <2>4. UNCHANGED call \/ Becomes(p, new)
    BY <1>1 DEF ReceiveOffer
  <2> HIDE DEF new
  <2> QED
    BY <2>1, <2>2, <2>3, <2>4, QuietStep
<1>2. CASE ReceiveAnswer(p, q)
  <2> DEFINE new == Untimed("connecting", [call[p] EXCEPT !.id = First(q, p).id])
  <2>1. new.phase = "connecting"
    BY DEF Untimed
  <2>2. Becomes(p, new) /\ Order(p, TRUE) /\ UNCHANGED <<connected, realtime>>
    BY <1>2 DEF ReceiveAnswer, transport
  <2> HIDE DEF new
  <2> QED
    BY <2>1, <2>2, CoreStep
<1>3. CASE ReceiveTermination(p, q)
  <2> DEFINE new == Ended(call[p])
  <2>1. new.phase = "ended" /\ new.phase \notin Established
    BY DEF Ended, Untimed, Established
  <2>2. Becomes(p, new) /\ Order(p, FALSE) /\ UNCHANGED <<connected, realtime>>
    BY <1>3 DEF ReceiveTermination, transport
  <2> HIDE DEF new
  <2> QED
    BY <2>1, <2>2, CoreStep
<1>4. CASE Discard(p, q)
  BY <1>4, StillStep DEF Discard, transport
<1> QED
  BY <1>1, <1>2, <1>3, <1>4 DEF Deliver

(* Carrying out an order does not change where the transport ends up.      *)
LEMMA SetRealtimeStep ==
  ASSUME Inv, NEW p \in Peer, SetRealtime(p)
  PROVE  Inv'
<1>1. Functional
  BY DEF Inv
<1>2. /\ orders[p] # <<>> /\ orders[p] \in Seq(BOOLEAN)
      /\ orders' = [orders EXCEPT ![p] = Tail(orders[p])]
      /\ realtime' = [realtime EXCEPT ![p] = Head(orders[p])]
      /\ UNCHANGED <<call, connected>>
  BY <1>1 DEF SetRealtime, Functional
<1>3. Tail(orders[p]) \in Seq(BOOLEAN) /\ Head(orders[p]) \in BOOLEAN
  BY <1>2, TailIsWanted
<1>4. Functional'
  BY <1>1, <1>2, <1>3 DEF Functional
<1>5. ASSUME NEW r \in Peer PROVE Wanted(r)' = Wanted(r)
  <2>1. CASE r = p
    <3>1. orders'[p] = Tail(orders[p]) /\ realtime'[p] = Head(orders[p])
      BY <1>1, <1>2 DEF Functional
    <3> QED
      BY <1>2, <2>1, <3>1, TailIsWanted DEF Wanted
  <2>2. CASE r # p
    BY <1>1, <1>2, <2>2 DEF Wanted, Functional
  <2> QED
    BY <2>1, <2>2
<1> QED
  BY <1>2, <1>4, <1>5 DEF Inv

LEMMA NoticeStep ==
  ASSUME Inv, NEW p \in Peer, OnAuthenticated(p) \/ OnDisconnected(p)
  PROVE  Inv'
<1> DEFINE other == Head(notices[p]).peer
           concerned == IsLive(call[p]) /\ call[p].peer = other
<1>1. Functional /\ UNCHANGED <<orders, realtime>>
  BY DEF Inv, OnAuthenticated, OnDisconnected
<1>2. ASSUME NEW r \in Peer PROVE Wanted(r)' = Wanted(r)
  BY <1>1 DEF Wanted
<1>3. ASSUME NEW new, NEW peers,
             call' = [r \in Peer |-> IF r = p THEN new ELSE call[r]],
             connected' = [r \in Peer |-> IF r = p THEN peers ELSE connected[r]],
             Served(new, peers, Wanted(p))
      PROVE  Inv'
  <2>1. Functional'
    BY <1>1, <1>3 DEF Functional
  <2>2. ASSUME NEW r \in Peer PROVE Served(call'[r], connected'[r], Wanted(r)')
    BY <1>2, <1>3 DEF Inv
  <2> QED
    BY <2>1, <2>2 DEF Inv
<1>4. Served(call[p], connected[p], Wanted(p))
  BY DEF Inv
<1>5. CASE OnAuthenticated(p)
  <2> DEFINE peers == connected[p] \cup {other}
             new == IF concerned THEN Connected(call[p], now) ELSE call[p]
  <2>1. call' = [r \in Peer |-> IF r = p THEN new ELSE call[r]]
    BY <1>1, <1>5 DEF OnAuthenticated, Becomes, Functional
  <2>2. connected' = [r \in Peer |-> IF r = p THEN peers ELSE connected[r]]
    BY <1>1, <1>5 DEF OnAuthenticated, Functional
  <2>3. Served(new, peers, Wanted(p))
    BY <1>4 DEF Served, Connected, Untimed, Established
  <2> HIDE DEF new, peers
  <2> QED
    BY <1>3, <2>1, <2>2, <2>3
<1>6. CASE OnDisconnected(p)
  <2> DEFINE peers == connected[p] \ {other}
             new == IF other \in connected[p] /\ concerned
                      THEN Lost(call[p], now) ELSE call[p]
  <2>1. call' = [r \in Peer |-> IF r = p THEN new ELSE call[r]]
    BY <1>1, <1>6 DEF OnDisconnected, Becomes, Functional
  <2>2. connected' = [r \in Peer |-> IF r = p THEN peers ELSE connected[r]]
    BY <1>1, <1>6 DEF OnDisconnected, Functional
  <2>3. Served(new, peers, Wanted(p))
    BY <1>4 DEF Served, Lost, Timed, Established, IsLive, Live
  <2> HIDE DEF new, peers
  <2> QED
    BY <1>3, <2>1, <2>2, <2>3
<1> QED
  BY <1>5, <1>6

LEMMA RestartStep ==
  ASSUME Inv, NEW p \in Peer, Restart(p)
  PROVE  Inv'
<1>1. Functional
  BY DEF Inv
<1>2. /\ call' = [r \in Peer |-> IF r = p THEN Idle ELSE call[r]]
      /\ orders' = [orders EXCEPT ![p] = <<>>]
      /\ realtime' = [realtime EXCEPT ![p] = FALSE]
      /\ connected' = [r \in Peer |-> IF r = p THEN {} ELSE connected[r]]
  BY <1>1 DEF Restart, Functional
<1>3. Functional'
  <2>1. <<>> \in Seq(BOOLEAN)
    OBVIOUS
  <2> QED
    BY <1>1, <1>2, <2>1 DEF Functional
<1>4. ASSUME NEW r \in Peer PROVE Served(call'[r], connected'[r], Wanted(r)')
  <2>1. CASE r = p
    BY <1>2, <2>1 DEF Served, Idle, Established
  <2>2. CASE r # p
    <3>1. Wanted(r)' = Wanted(r)
      BY <1>1, <1>2, <2>2 DEF Wanted, Functional
    <3> QED
      BY <1>2, <2>2, <3>1 DEF Inv
  <2> QED
    BY <2>1, <2>2
<1> QED
  BY <1>3, <1>4 DEF Inv

LEMMA StepInv == Inv /\ [Next]_vars => Inv'
<1> SUFFICES ASSUME Inv, [Next]_vars PROVE Inv'
  OBVIOUS
<1>1. CASE Advance
  BY <1>1, StillStep DEF Advance, core, transport
<1>2. CASE \E pair \in InRange : LinkUp(pair) \/ LinkDown(pair)
  BY <1>2, StillStep DEF LinkUp, LinkDown, core
<1>3. ASSUME NEW p \in Peer, User(p) PROVE Inv'
  BY <1>3, UserStep
<1>4. ASSUME NEW p \in Peer, SetRealtime(p) PROVE Inv'
  BY <1>4, SetRealtimeStep
<1>5. ASSUME NEW p \in Peer, OnAuthenticated(p) \/ OnDisconnected(p) PROVE Inv'
  BY <1>5, NoticeStep
<1>6. ASSUME NEW p \in Peer, Restart(p) PROVE Inv'
  BY <1>6, RestartStep
<1>7. ASSUME NEW p \in Peer, NEW q \in Peer, Deliver(p, q) PROVE Inv'
  BY <1>7, DeliverStep
<1>8. ASSUME NEW p \in Peer, NEW q \in Peer, LoseSignal(p, q) PROVE Inv'
  BY <1>8, StillStep DEF LoseSignal, transport
<1>9. ASSUME NEW p \in Peer, OnDataAvailable(p) PROVE Inv'
  BY <1>9, StillStep DEF OnDataAvailable, core
<1>10. CASE UNCHANGED vars
  BY <1>10, StillStep DEF vars, core, transport
<1> QED
  BY <1>1, <1>2, <1>3, <1>4, <1>5, <1>6, <1>7, <1>8, <1>9, <1>10 DEF Next

(* The invariant of every device, for any number of devices, calls, losses, *)
(* drops and restarts.                                                      *)
THEOREM Invariant == Spec => []Inv
BY InitInv, StepInv, PTL DEF Spec

(* on_transport never leaves a call active without a connection to its     *)
(* peer.                                                                    *)
THEOREM ActiveCallsHaveConnections == Spec => []ActiveHasConnection
<1>1. Inv => ActiveHasConnection
  BY DEF Inv, Served, ActiveHasConnection
<1> QED
  BY <1>1, Invariant, PTL

(* Every path into an established call has asked for the realtime class,   *)
(* and every path that takes the request back ends the call.                *)
THEOREM EstablishedCallsAreRealtime == Spec => []RealtimeWhileEstablished
<1>1. Inv => RealtimeWhileEstablished
  BY DEF Inv, Served, RealtimeWhileEstablished
<1> QED
  BY <1>1, Invariant, PTL

----------------------------------------------------------------------------
(* What two devices know of the same call.                                  *)
(*                                                                          *)
(* Nothing in the state says for whom a call was placed or in which order   *)
(* calls were, so the invariant claims that there are such functions: to    *)
(* gives the device that is called, at a number that grows with every call. *)

Ids(s, kind) == {s[i].id : i \in {j \in 1 .. Len(s) : s[j].kind = kind}}

Offers(p, q) == Ids(controls[<<p, q>>], "offer")
Answers(p, q) == Ids(controls[<<p, q>>], "answer")

(* Offers travel in the order their calls were placed.                     *)
InOrder(s, at) ==
  \A i, j \in 1 .. Len(s) :
    i < j /\ s[i].kind = "offer" /\ s[j].kind = "offer" => at[s[i].id] < at[s[j].id]

Typed ==
  /\ now \in Nat
  /\ call \in [Peer -> Call]
  /\ controls \in [Pairs -> Seq(SignalRecord)]

Placement(to, at, n) ==
  /\ placed \subseteq CallId \X Peer
  /\ to = [x \in CallId |-> to[x]] /\ at \in [CallId -> Nat] /\ n \in Nat
  /\ \A pair \in placed : to[pair[1]] # pair[2] /\ at[pair[1]] < n
  /\ \A one, other \in placed : at[one[1]] = at[other[1]] => one = other

(* The call of p is one it has placed, or one it was offered.              *)
Held(p, current, to) ==
  current.phase # "idle" =>
    \/ /\ current.phase # "incoming"
       /\ <<current.id, p>> \in placed /\ to[current.id] = current.peer
    \/ /\ current.phase # "outgoing"
       /\ <<current.id, current.peer>> \in placed /\ to[current.id] = p

Travelling(to) ==
  \A p, q \in Peer :
    /\ \A x \in Offers(p, q) : <<x, p>> \in placed /\ to[x] = q
    /\ \A x \in Answers(p, q) : <<x, q>> \in placed /\ to[x] = p

Has(p, x) == call[p].phase # "idle" /\ call[p].id = x

(* A call that its device has placed is the last one it has placed.        *)
Recent(at) ==
  \A p \in Peer, x, y \in CallId :
    Has(p, x) /\ <<x, p>> \in placed /\ <<y, p>> \in placed => at[y] <= at[x]

(* What q has of p's calls is older than what p still offers.              *)
Heard(at) ==
  \A p, q \in Peer, x \in CallId :
    Has(q, x) /\ <<x, p>> \in placed => \A y \in Offers(p, q) : at[x] < at[y]

(* Call x of p has been answered by q, as p knows or is about to hear.     *)
Agreed(p, q, x) ==
  x \in Answers(q, p) \/ (<<x, p>> \in placed /\ Has(p, x) /\ InCall(p, q))

(* After an answer, calls between the two are that one or later ones.      *)
Answering(at) ==
  \A p, q \in Peer, x \in CallId :
    Agreed(p, q, x) =>
      /\ \A y \in CallId : Has(q, y) /\ {<<y, p>>, <<y, q>>} \cap placed # {} => at[x] <= at[y]
      /\ \A y \in Offers(p, q) : at[x] < at[y]

Story(to, at, n) ==
  /\ Placement(to, at, n)
  /\ \A p \in Peer : Held(p, call[p], to)
  /\ Travelling(to)
  /\ \A p, q \in Peer : InOrder(controls[<<p, q>>], at)
  /\ Recent(at)
  /\ Heard(at)
  /\ Answering(at)

Shared == Typed /\ \E to, at, n : Story(to, at, n)

LEMMA StoryGives ==
  ASSUME NEW to, NEW at, NEW n, Story(to, at, n)
  PROVE  AnsweredCallIsShared
<1>1. SUFFICES ASSUME NEW p \in Peer, NEW q \in Peer,
                      InCall(p, q), InCall(q, p), <<call[p].id, p>> \in placed
               PROVE  call[q].id = call[p].id
  BY DEF AnsweredCallIsShared
<1> DEFINE a == call[p].id
           b == call[q].id
<1>2. /\ call[p].phase # "idle" /\ call[q].phase # "idle" /\ call[q].peer = p
      /\ call[q].phase \notin {"incoming", "outgoing"}
  BY <1>1 DEF InCall, Established
<1>3. <<b, q>> \in placed \/ <<b, p>> \in placed
  BY <1>2 DEF Story, Held
<1>4. a \in CallId /\ b \in CallId /\ at[a] \in Nat /\ at[b] \in Nat
  BY <1>1, <1>3 DEF Story, Placement
<1>5. Has(p, a) /\ Has(q, b)
  BY <1>2 DEF Has
<1>6. at[a] <= at[b]
  <2>1. Agreed(p, q, a)
    BY <1>1, <1>5 DEF Agreed
  <2>2. {<<b, p>>, <<b, q>>} \cap placed # {}
    BY <1>3
  <2> HIDE DEF a, b
  <2>3. QED
    BY <1>4, <1>5, <2>1, <2>2 DEF Story, Answering
<1>7. at[b] <= at[a]
  <2>1. CASE <<b, p>> \in placed
    BY <1>1, <1>4, <1>5, <2>1 DEF Story, Recent
  <2>2. CASE <<b, q>> \in placed
    <3>1. Agreed(q, p, b)
      BY <1>1, <1>5, <2>2 DEF Agreed
    <3>2. {<<a, q>>, <<a, p>>} \cap placed # {}
      BY <1>1
    <3> HIDE DEF a, b
    <3>3. QED
      BY <1>4, <1>5, <3>1, <3>2 DEF Story, Answering
  <2>3. QED
    BY <1>3, <2>1, <2>2
<1>8. PICK r \in Peer : <<b, r>> \in placed
  BY <1>3
<1>9. at[a] = at[b]
  BY <1>4, <1>6, <1>7
<1>10. <<a, p>> = <<b, r>>
  BY <1>1, <1>8, <1>9 DEF Story, Placement
<1>11. QED
  BY <1>10

(* An id has been placed by one device, whose own devices do not offer it   *)
(* to themselves.                                                           *)
LEMMA OnePlacer ==
  ASSUME NEW to, NEW at, NEW n, Story(to, at, n), NEW x, NEW p, NEW q,
         <<x, p>> \in placed, <<x, q>> \in placed
  PROVE  p = q
<1>1. <<x, p>> = <<x, q>>
  BY DEF Story, Placement
<1>2. QED
  BY <1>1

(* A step of p's core that places no call: its call goes on, or it takes    *)
(* the first offer of somebody; it may answer the call it has been offered. *)
Kept(p, new, to, at) ==
  /\ Held(p, new, to)
  /\ \A r, q \in Peer : /\ Offers(r, q)' \subseteq Offers(r, q)
                        /\ InOrder(controls'[<<r, q>>], at)
  /\ \A r, q \in Peer : \A x \in Answers(r, q)' :
       \/ x \in Answers(r, q)
       \/ /\ r = p /\ call[p].phase = "incoming"
          /\ x = call[p].id /\ call[p].peer = q /\ new.id = x
  /\ \/ new.phase = "idle"
     \/ Has(p, new.id)
     \/ /\ new.phase = "incoming"
        /\ \E q \in Peer : /\ new.id \in Offers(q, p)
                           /\ \A y \in Offers(q, p)' : at[new.id] < at[y]
  /\ new.phase \in Established /\ <<new.id, p>> \in placed =>
       \/ Has(p, new.id) /\ InCall(p, new.peer)
       \/ new.id \in Answers(new.peer, p)

LEMMA StoryKept ==
  ASSUME NEW to, NEW at, NEW n, Story(to, at, n), NEW p \in Peer, NEW new,
         call' = [r \in Peer |-> IF r = p THEN new ELSE call[r]], placed' = placed,
         Kept(p, new, to, at)
  PROVE  Story(to, at, n)'
<1> USE DEF Kept
<1>1. \A r \in Peer : r # p => call'[r] = call[r]
  OBVIOUS
<1>2. call'[p] = new
  OBVIOUS
<1>3. Placement(to, at, n) /\ Placement(to, at, n)'
  BY DEF Story, Placement
<1>4. ASSUME NEW r \in Peer PROVE Held(r, call[r], to)'
  <2>1. Held(r, call'[r], to)
    BY <1>1, <1>2 DEF Story
  <2>2. QED
    BY <2>1 DEF Held
<1>5. ASSUME NEW r \in Peer, NEW q \in Peer, NEW x \in Answers(r, q)'
      PROVE  <<x, q>> \in placed /\ to[x] = r
  <2>1. CASE x \in Answers(r, q)
    BY <2>1 DEF Story, Travelling
  <2>2. CASE /\ r = p /\ call[p].phase = "incoming"
             /\ x = call[p].id /\ call[p].peer = q
    <3>1. Held(p, call[p], to)
      BY DEF Story
    <3>2. QED
      BY <2>2, <3>1 DEF Held
  <2>3. QED
    BY <2>1, <2>2
<1>6. Travelling(to)'
  <2>1. Travelling(to)
    BY DEF Story
  <2>2. ASSUME NEW r \in Peer, NEW q \in Peer, NEW x \in Offers(r, q)'
        PROVE  <<x, r>> \in placed' /\ to[x] = q
    <3>1. x \in Offers(r, q)
      OBVIOUS
    <3>2. <<x, r>> \in placed /\ to[x] = q
      BY <2>1, <3>1 DEF Travelling
    <3>3. QED
      BY <3>2
  <2>3. \A r, q \in Peer : \A x \in Answers(r, q)' : <<x, q>> \in placed' /\ to[x] = r
    BY <1>5
  <2>4. QED
    BY <2>2, <2>3 DEF Travelling
(* Of the calls p has now, only one it had before or that is offered.       *)
<1>7. ASSUME NEW x \in CallId, Has(p, x)'
      PROVE  \/ Has(p, x)
             \/ \E q \in Peer : /\ q # p /\ <<x, q>> \in placed /\ x \in Offers(q, p)
                                /\ \A y \in Offers(q, p)' : at[x] < at[y]
  <2>1. new.phase # "idle" /\ new.id = x
    BY <1>2, <1>7 DEF Has
  <2>2. CASE Has(p, new.id)
    BY <2>1, <2>2
  <2>3. ASSUME NEW q \in Peer, x \in Offers(q, p), \A y \in Offers(q, p)' : at[x] < at[y]
        PROVE  q # p /\ <<x, q>> \in placed
    <3>1. <<x, q>> \in placed /\ to[x] = p
      BY <2>3 DEF Story, Travelling
    <3>2. QED
      BY <1>3, <3>1 DEF Placement
  <2>4. QED
    BY <2>1, <2>2, <2>3
<1>8. Recent(at)'
  <2>1. ASSUME NEW r \in Peer, NEW x \in CallId, NEW y \in CallId,
               Has(r, x)', <<x, r>> \in placed, <<y, r>> \in placed
        PROVE  at[y] <= at[x]
    <3>1. CASE Has(r, x)
      BY <2>1, <3>1 DEF Story, Recent
    <3>2. CASE ~Has(r, x)
      <4>1. r = p
        BY <1>1, <2>1, <3>2 DEF Has
      <4>2. PICK q \in Peer : q # p /\ <<x, q>> \in placed
        BY <1>7, <2>1, <3>2, <4>1
      <4>3. QED
        BY <2>1, <4>1, <4>2, OnePlacer
    <3>3. QED
      BY <3>1, <3>2
  <2>2. QED
    BY <2>1 DEF Recent
<1>9. Heard(at)'
  <2>1. ASSUME NEW r \in Peer, NEW q \in Peer, NEW x \in CallId,
               Has(q, x)', <<x, r>> \in placed, NEW y \in Offers(r, q)'
        PROVE  at[x] < at[y]
    <3>1. CASE Has(q, x)
      BY <2>1, <3>1 DEF Story, Heard
    <3>2. CASE ~Has(q, x)
      <4>1. q = p
        BY <1>1, <2>1, <3>2 DEF Has
      <4>2. PICK s \in Peer : /\ <<x, s>> \in placed
                              /\ \A z \in Offers(s, p)' : at[x] < at[z]
        BY <1>7, <2>1, <3>2, <4>1
      <4>3. s = r
        BY <2>1, <4>2, OnePlacer
      <4>4. QED
        BY <2>1, <4>1, <4>2, <4>3
    <3>3. QED
      BY <3>1, <3>2
  <2>2. QED
    BY <2>1 DEF Heard
<1>10. Answering(at)'
  <2>1. ASSUME NEW r \in Peer, NEW q \in Peer, NEW x \in CallId, Agreed(r, q, x)'
        PROVE  \/ Agreed(r, q, x)
               \/ /\ q = p /\ Has(p, x) /\ <<x, r>> \in placed /\ new.id = x
    <3>1. CASE x \in Answers(q, r)
      BY <3>1 DEF Agreed
    <3>2. CASE x \in Answers(q, r)' /\ x \notin Answers(q, r)
      <4>1. q = p /\ call[p].phase = "incoming" /\ x = call[p].id /\ new.id = x
        BY <3>2
      <4>2. QED
        BY <1>5, <3>2, <4>1 DEF Has
    <3>3. CASE <<x, r>> \in placed /\ Has(r, x)' /\ InCall(r, q)'
      <4>1. CASE r # p
        BY <1>1, <3>3, <4>1 DEF Agreed, Has, InCall
      <4>2. CASE r = p
        <5>1. new.phase \in Established /\ new.id = x /\ new.peer = q
          BY <1>2, <3>3, <4>2 DEF Has, InCall
        <5>2. QED
          BY <3>3, <4>2, <5>1 DEF Agreed
      <4>3. QED
        BY <4>1, <4>2
    <3>4. QED
      BY <2>1, <3>1, <3>2, <3>3 DEF Agreed
  <2>2. ASSUME NEW r \in Peer, NEW q \in Peer, NEW x \in CallId, Agreed(r, q, x)
        PROVE  /\ \A y \in CallId : Has(q, y)' /\ {<<y, r>>, <<y, q>>} \cap placed # {} =>
                    at[x] <= at[y]
               /\ \A y \in Offers(r, q)' : at[x] < at[y]
    <3>1. \A y \in Offers(r, q) : at[x] < at[y]
      BY <2>2 DEF Story, Answering
    <3>2. ASSUME NEW y \in CallId, Has(q, y)', {<<y, r>>, <<y, q>>} \cap placed # {}
          PROVE  at[x] <= at[y]
      <4>1. CASE Has(q, y)
        BY <2>2, <3>2, <4>1 DEF Story, Answering
      <4>2. CASE ~Has(q, y)
        <5>1. q = p
          BY <1>1, <3>2, <4>2 DEF Has
        <5>2. PICK s \in Peer : s # p /\ <<y, s>> \in placed /\ y \in Offers(s, p)
          BY <1>7, <3>2, <4>2, <5>1
        <5>3. s = r
          <6>1. <<y, r>> \in placed \/ <<y, p>> \in placed
            BY <3>2, <5>1
          <6>2. QED
            BY <5>2, <6>1, OnePlacer
        <5>4. at[x] < at[y] /\ at[x] \in Nat /\ at[y] \in Nat
          BY <1>3, <3>1, <5>1, <5>2, <5>3 DEF Placement
        <5>5. QED
          BY <5>4
      <4>3. QED
        BY <4>1, <4>2
    <3>3. QED
      BY <3>1, <3>2
  <2>3. ASSUME NEW r \in Peer, NEW x \in CallId, Has(p, x), <<x, r>> \in placed, new.id = x
        PROVE  /\ \A y \in CallId : Has(p, y)' => at[x] <= at[y]
               /\ \A y \in Offers(r, p)' : at[x] < at[y]
    <3>1. \A y \in Offers(r, p) : at[x] < at[y]
      BY <2>3 DEF Story, Heard
    <3>2. \A y : Has(p, y)' => y = x
      BY <1>2, <2>3 DEF Has
    <3>3. at[x] \in Nat
      BY <1>3 DEF Placement
    <3>4. \A y \in Offers(r, p)' : at[x] < at[y]
      BY <3>1
    <3>5. \A y \in CallId : Has(p, y)' => at[x] <= at[y]
      BY <3>2, <3>3
    <3>6. QED
      BY <3>4, <3>5
  <2>4. ASSUME NEW r \in Peer, NEW q \in Peer, NEW x \in CallId, Agreed(r, q, x)'
        PROVE  /\ \A y \in CallId : Has(q, y)' /\ {<<y, r>>, <<y, q>>} \cap placed # {} =>
                    at[x] <= at[y]
               /\ \A y \in Offers(r, q)' : at[x] < at[y]
    BY <2>1, <2>2, <2>3, <2>4, ZenonT(40)
  <2>5. QED
    BY <2>4 DEF Answering
<1>11. QED
  BY <1>3, <1>4, <1>6, <1>8, <1>9, <1>10 DEF Story

(* A channel that only loses offers and answers, whatever else comes.      *)
Trims(s, t) ==
  /\ s \in Seq(SignalRecord)
  /\ Ids(s, "offer") \subseteq Ids(t, "offer")
  /\ Ids(s, "answer") \subseteq Ids(t, "answer")
  /\ \A at : InOrder(t, at) => InOrder(s, at)

LEMMA SelectedTrims ==
  ASSUME NEW s \in Seq(SignalRecord), NEW t \in Seq(SignalRecord), NEW f,
         \A i \in 1 .. Len(s) : f[i] \in 1 .. Len(t) /\ s[i] = t[f[i]],
         \A i, j \in 1 .. Len(s) : i < j => f[i] < f[j]
  PROVE  Trims(s, t)
<1>1. ASSUME NEW kind, NEW x \in Ids(s, kind) PROVE x \in Ids(t, kind)
  <2>1. PICK i \in 1 .. Len(s) : s[i].kind = kind /\ x = s[i].id
    BY <1>1 DEF Ids
  <2>2. f[i] \in 1 .. Len(t) /\ t[f[i]].kind = kind /\ x = t[f[i]].id
    BY <2>1
  <2>3. QED
    BY <2>2 DEF Ids
<1>2. ASSUME NEW at, InOrder(t, at) PROVE InOrder(s, at)
  BY <1>2 DEF InOrder
<1>3. QED
  BY <1>1, <1>2 DEF Trims

LEMMA SameTrims ==
  ASSUME NEW t \in Seq(SignalRecord)
  PROVE  Trims(t, t)
BY DEF Trims

LEMMA TrimsTwice ==
  ASSUME NEW s, NEW t, NEW u, Trims(s, t), Trims(t, u)
  PROVE  Trims(s, u)
BY DEF Trims

LEMMA EmptyTrims ==
  ASSUME NEW t \in Seq(SignalRecord)
  PROVE  Trims(<<>>, t)
<1>1. <<>> \in Seq(SignalRecord) /\ Len(<<>>) = 0
  OBVIOUS
<1>2. QED
  BY <1>1 DEF Trims, Ids, InOrder

LEMMA TailTrims ==
  ASSUME NEW t \in Seq(SignalRecord), t # <<>>
  PROVE  /\ Trims(Tail(t), t)
         /\ Head(t) \in SignalRecord
         /\ Head(t).id \in Ids(t, Head(t).kind)
         /\ Head(t).kind = "offer" => \A at : InOrder(t, at) =>
              \A y \in Ids(Tail(t), "offer") : at[Head(t).id] < at[y]
<1> DEFINE s == Tail(t)
           f == [i \in 1 .. Len(s) |-> i + 1]
<1>1. /\ s \in Seq(SignalRecord) /\ Len(s) \in Nat /\ Len(s) + 1 = Len(t)
      /\ \A i \in 1 .. Len(s) : s[i] = t[i + 1]
      /\ Head(t) = t[1] /\ t[1] \in SignalRecord
  <2>1. Len(t) \in Nat \ {0}
    BY EmptySeq
  <2>2. QED
    BY <2>1, HeadTailProperties
<1> HIDE DEF s
<1>2. Trims(s, t)
  <2>1. \A i \in 1 .. Len(s) : f[i] \in 1 .. Len(t) /\ s[i] = t[f[i]]
    BY <1>1
  <2>2. \A i, j \in 1 .. Len(s) : i < j => f[i] < f[j]
    BY <1>1
  <2> HIDE DEF f
  <2>3. QED
    BY <1>1, <2>1, <2>2, SelectedTrims
<1>3. 1 \in 1 .. Len(t)
  BY <1>1
<1>4. ASSUME NEW at, InOrder(t, at), Head(t).kind = "offer", NEW y \in Ids(s, "offer")
      PROVE  at[Head(t).id] < at[y]
  <2>1. PICK i \in 1 .. Len(s) : s[i].kind = "offer" /\ y = s[i].id
    BY DEF Ids
  <2>2. i + 1 \in 1 .. Len(t) /\ 1 < i + 1 /\ t[i + 1].kind = "offer" /\ y = t[i + 1].id
    BY <1>1, <2>1
  <2>3. QED
    BY <1>1, <1>3, <1>4, <2>2 DEF InOrder
<1>5. Head(t).id \in Ids(t, Head(t).kind)
  BY <1>1, <1>3 DEF Ids
<1>6. QED
  BY <1>1, <1>2, <1>4, <1>5 DEF s

LEMMA RemoveTrims ==
  ASSUME NEW t \in Seq(SignalRecord), NEW k \in DOMAIN t
  PROVE  Trims(RemoveAt(t, k), t)
<1> DEFINE s == RemoveAt(t, k)
           f == [i \in 1 .. Len(s) |-> IF i < k THEN i ELSE i + 1]
<1>1. k \in 1 .. Len(t) /\ Len(t) \in Nat /\ \A i \in 1 .. Len(t) : t[i] \in SignalRecord
  OBVIOUS
<1> DEFINE before == SubSeq(t, 1, k - 1)
           after == SubSeq(t, k + 1, Len(t))
<1>2. /\ before \in Seq(SignalRecord) /\ Len(before) = k - 1
      /\ \A i \in 1 .. k - 1 : before[i] = t[i]
  BY <1>1
<1>3. /\ after \in Seq(SignalRecord) /\ Len(after) = Len(t) - k
      /\ \A i \in 1 .. Len(t) - k : after[i] = t[k + i]
  BY <1>1
<1> HIDE DEF before, after
<1>4. /\ s \in Seq(SignalRecord) /\ Len(s) = Len(t) - 1
      /\ \A i \in 1 .. Len(t) - 1 : s[i] = IF i < k THEN before[i] ELSE after[i - (k - 1)]
  <2>1. s = before \o after
    BY Zenon DEF RemoveAt, before, after
  <2> HIDE DEF s
  <2>2. Len(before \o after) = (k - 1) + (Len(t) - k) /\ before \o after \in Seq(SignalRecord)
    BY <1>2, <1>3, ConcatProperties
  <2>3. (k - 1) + (Len(t) - k) = Len(t) - 1
    BY <1>1
  <2>4. ASSUME NEW i \in 1 .. Len(t) - 1
        PROVE  (before \o after)[i] = IF i <= k - 1 THEN before[i] ELSE after[i - (k - 1)]
    <3>1. /\ before \in Seq(SignalRecord) /\ after \in Seq(SignalRecord)
          /\ i \in 1 .. Len(before) + Len(after)
      BY <1>1, <1>2, <1>3, <2>3
    <3>2. (before \o after)[i] =
            IF i <= Len(before) THEN before[i] ELSE after[i - Len(before)]
      BY <3>1, ConcatProperties
    <3>3. QED
      BY <1>2, <3>2
  <2>5. \A i \in 1 .. Len(t) - 1 : (i <= k - 1) = (i < k)
    BY <1>1
  <2>6. QED
    BY <2>1, <2>2, <2>3, <2>4, <2>5
<1> HIDE DEF s
<1>5. ASSUME NEW i \in 1 .. Len(s)
      PROVE  f[i] \in 1 .. Len(t) /\ s[i] = t[f[i]]
  <2>1. CASE i < k
    BY <1>1, <1>2, <1>4, <2>1
  <2>2. CASE ~(i < k)
    <3>1. i - (k - 1) \in 1 .. Len(t) - k /\ k + (i - (k - 1)) = i + 1
      BY <1>1, <1>4, <2>2
    <3>2. s[i] = t[i + 1]
      BY <1>3, <1>4, <2>2, <3>1
    <3>3. QED
      BY <1>1, <1>4, <2>2, <3>2
  <2>3. QED
    BY <2>1, <2>2
<1>6. \A i, j \in 1 .. Len(s) : i < j => f[i] < f[j]
  BY <1>1, <1>4
<1> HIDE DEF f
<1>7. QED
  BY <1>4, <1>5, <1>6, SelectedTrims DEF s

LEMMA AppendedSignal ==
  ASSUME NEW t \in Seq(SignalRecord), NEW m \in SignalRecord
  PROVE  /\ Append(t, m) \in Seq(SignalRecord)
         /\ \A kind : Ids(Append(t, m), kind) \subseteq Ids(t, kind) \cup {m.id}
         /\ \A kind : m.kind # kind => Ids(Append(t, m), kind) \subseteq Ids(t, kind)
         /\ \A at : InOrder(t, at) /\ (m.kind = "offer" => \A x \in Ids(t, "offer") : at[x] < at[m.id])
              => InOrder(Append(t, m), at)
<1> DEFINE s == Append(t, m)
<1>1. /\ s \in Seq(SignalRecord) /\ Len(s) = Len(t) + 1 /\ Len(t) \in Nat
      /\ s[Len(t) + 1] = m /\ \A i \in 1 .. Len(t) : s[i] = t[i]
  OBVIOUS
<1> HIDE DEF s
<1>2. \A i \in 1 .. Len(s) : i \in 1 .. Len(t) \/ i = Len(t) + 1
  BY <1>1
<1>3. ASSUME NEW kind, NEW x \in Ids(s, kind)
      PROVE  x \in Ids(t, kind) \/ (m.kind = kind /\ x = m.id)
  <2>1. PICK i \in 1 .. Len(s) : s[i].kind = kind /\ x = s[i].id
    BY <1>3 DEF Ids
  <2>2. CASE i \in 1 .. Len(t)
    BY <1>1, <2>1, <2>2 DEF Ids
  <2>3. CASE i = Len(t) + 1
    BY <1>1, <2>1, <2>3
  <2>4. QED
    BY <1>2, <2>2, <2>3
<1>4. ASSUME NEW at, InOrder(t, at),
             m.kind = "offer" => \A x \in Ids(t, "offer") : at[x] < at[m.id],
             NEW i \in 1 .. Len(s), NEW j \in 1 .. Len(s),
             i < j, s[i].kind = "offer", s[j].kind = "offer"
      PROVE  at[s[i].id] < at[s[j].id]
  <2>1. i \in 1 .. Len(t) /\ s[i] = t[i]
    BY <1>1, <1>4
  <2>2. CASE j \in 1 .. Len(t)
    BY <1>1, <1>4, <2>1, <2>2 DEF InOrder
  <2>3. CASE j = Len(t) + 1
    <3>1. t[i].id \in Ids(t, "offer")
      BY <1>4, <2>1 DEF Ids
    <3>2. QED
      BY <1>1, <1>4, <2>1, <2>3, <3>1
  <2>4. QED
    BY <1>2, <2>2, <2>3
<1>5. QED
  BY <1>1, <1>3, <1>4 DEF s, InOrder

LEMMA EndTrims ==
  ASSUME NEW t \in Seq(SignalRecord), NEW m \in SignalRecord, m.kind \in {"reject", "end"}
  PROVE  Trims(Append(t, m), t)
BY AppendedSignal DEF Trims

(* A call goes on, ends or is forgotten.                                    *)
Continues(current, new) ==
  \/ new = current
  \/ new.phase = "idle"
  \/ /\ current.phase # "idle" /\ new.phase \notin {"idle", "incoming", "outgoing"}
     /\ new.id = current.id /\ new.peer = current.peer
     /\ new.phase \in Established => current.phase \in Established

LEMMA CallForms ==
  ASSUME NEW c \in Call
  PROVE  /\ c.phase = "idle" \/ c.phase = "ended" \/ c.phase \in Live
         /\ c.phase # "idle" => c.id \in CallId /\ c.peer \in Peer
BY DEF Call, Idle, Live, Established

LEMMA CallsContinue ==
  ASSUME NEW c \in Call, now \in Nat
  PROVE  /\ c.phase # "idle" => Ended(c) \in Call /\ Continues(c, Ended(c))
         /\ Connected(c, now) \in Call /\ Continues(c, Connected(c, now))
         /\ Lost(c, now) \in Call /\ Continues(c, Lost(c, now))
         /\ IsLive(Ticked(c, now)) => Ticked(c, now) = c
<1>1. c.phase # "idle" => c.id \in CallId /\ c.peer \in Peer
  BY CallForms
<1>2. now + RetryTtl \in Nat
  BY CallAssumption
<1>3. c.phase # "idle" => Ended(c) \in Call /\ Continues(c, Ended(c))
  BY <1>1 DEF Ended, Untimed, Call, Continues, Established
<1>4. Connected(c, now) \in Call /\ Continues(c, Connected(c, now))
  BY <1>1 DEF Connected, Untimed, Call, Continues, Established
<1>5. Lost(c, now) \in Call /\ Continues(c, Lost(c, now))
  BY <1>1, <1>2 DEF Lost, Timed, Call, Continues, Established
<1>6. IsLive(Ticked(c, now)) => Ticked(c, now) = c
  BY DEF Ticked, Ended, Untimed, IsLive, Live, Established
<1>7. QED
  BY <1>3, <1>4, <1>5, <1>6

(* A step in which p's call continues and channels only lose.              *)
LEMMA Continued ==
  ASSUME Shared, NEW p \in Peer, NEW new \in Call, Continues(call[p], new),
         call' = [call EXCEPT ![p] = new], placed' = placed, now' \in Nat,
         controls' = [pair \in Pairs |-> controls'[pair]],
         \A pair \in Pairs : Trims(controls'[pair], controls[pair])
  PROVE  Shared'
<1>1. PICK to, at, n : Story(to, at, n)
  BY DEF Shared
<1>2. call \in [Peer -> Call]
  BY DEF Shared, Typed
<1>3. call' = [r \in Peer |-> IF r = p THEN new ELSE call[r]]
  BY <1>2
<1>4. Typed'
  <2>1. \A pair \in Pairs : controls'[pair] \in Seq(SignalRecord)
    BY DEF Trims
  <2>2. controls' \in [Pairs -> Seq(SignalRecord)]
    BY <2>1
  <2>3. QED
    BY <1>2, <2>2 DEF Typed
<1>5. \A r, q \in Peer :
        /\ Offers(r, q)' \subseteq Offers(r, q)
        /\ Answers(r, q)' \subseteq Answers(r, q)
        /\ InOrder(controls'[<<r, q>>], at)
  <2>1. ASSUME NEW r \in Peer, NEW q \in Peer
        PROVE  /\ Offers(r, q)' \subseteq Offers(r, q)
               /\ Answers(r, q)' \subseteq Answers(r, q)
               /\ InOrder(controls'[<<r, q>>], at)
    <3>1. Trims(controls'[<<r, q>>], controls[<<r, q>>])
      BY DEF Pairs
    <3>2. InOrder(controls[<<r, q>>], at)
      BY <1>1 DEF Story
    <3>3. QED
      BY <3>1, <3>2 DEF Trims, Offers, Answers
  <2>2. QED
    BY <2>1
<1>6. Held(p, call[p], to)
  BY <1>1 DEF Story
<1>7. Held(p, new, to)
  BY <1>6 DEF Held, Continues
<1>8. new.phase = "idle" \/ Has(p, new.id)
  BY DEF Continues, Has
<1>9. new.phase \in Established => Has(p, new.id) /\ InCall(p, new.peer)
  BY DEF Continues, Has, InCall, Established
<1>10. Kept(p, new, to, at)
  BY <1>5, <1>7, <1>8, <1>9 DEF Kept
<1>11. Story(to, at, n)'
  BY <1>1, <1>3, <1>10, StoryKept
<1>12. QED
  BY <1>4, <1>11 DEF Shared

LEMMA StillShared ==
  ASSUME Shared, UNCHANGED <<placed, call, controls>>, now' \in Nat
  PROVE  Shared'
<1>1. Typed'
  BY DEF Shared, Typed
<1>2. PICK to, at, n : Story(to, at, n)
  BY DEF Shared
<1>3. Story(to, at, n)'
  BY <1>2 DEF Story, Placement, Held, Travelling, Recent, Heard, Answering,
              Offers, Answers, Has, Agreed, InCall
<1>4. QED
  BY <1>1, <1>3 DEF Shared

(* What a handler of p may make of its call and of channel <<r, q>>.       *)
Justified(p, new, r, q, s) ==
  /\ Ids(s, "offer") \subseteq Offers(r, q)
  /\ \A x \in Ids(s, "answer") :
       \/ x \in Answers(r, q)
       \/ /\ r = p /\ call[p].phase = "incoming"
          /\ x = call[p].id /\ call[p].peer = q /\ new.id = x
  /\ \A at : InOrder(controls[<<r, q>>], at) => InOrder(s, at)
  /\ \A to, at, n : Story(to, at, n) =>
       /\ Held(p, new, to)
       /\ \/ new.phase = "idle"
          \/ Has(p, new.id)
          \/ /\ new.phase = "incoming" /\ q = p /\ new.id \in Offers(r, p)
             /\ \A y \in Ids(s, "offer") : at[new.id] < at[y]
       /\ new.phase \in Established /\ <<new.id, p>> \in placed =>
            \/ Has(p, new.id) /\ InCall(p, new.peer)
            \/ new.id \in Answers(new.peer, p)

LEMMA HandlerKeeps ==
  ASSUME Shared, NEW p \in Peer, NEW new \in Call, call' = [call EXCEPT ![p] = new],
         placed' = placed, now' = now,
         NEW r \in Peer, NEW q \in Peer, NEW s \in Seq(SignalRecord),
         controls' = [controls EXCEPT ![<<r, q>>] = s], Justified(p, new, r, q, s)
  PROVE  Shared'
<1>1. <<r, q>> \in Pairs /\ Typed
  BY DEF Pairs, Shared
<1>2. call' = [x \in Peer |-> IF x = p THEN new ELSE call[x]]
  BY <1>1 DEF Typed
<1>3. controls' = [pair \in Pairs |-> IF pair = <<r, q>> THEN s ELSE controls[pair]]
  BY <1>1 DEF Typed
<1>4. Typed'
  <2>1. now' \in Nat /\ call' \in [Peer -> Call]
    BY <1>1, <1>2 DEF Typed
  <2>2. \A pair \in Pairs : (IF pair = <<r, q>> THEN s ELSE controls[pair]) \in Seq(SignalRecord)
    BY <1>1 DEF Typed
  <2>3. controls' \in [Pairs -> Seq(SignalRecord)]
    BY <1>3, <2>2
  <2>4. QED
    BY <2>1, <2>3 DEF Typed
<1>5. PICK to, at, n : Story(to, at, n)
  BY DEF Shared
<1>6. /\ Offers(r, q)' = Ids(s, "offer")
      /\ Answers(r, q)' = Ids(s, "answer")
      /\ controls'[<<r, q>>] = s
  <2>1. controls'[<<r, q>>] = s
    BY <1>1, <1>3
  <2>2. QED
    BY <2>1 DEF Offers, Answers, Ids
<1>7. ASSUME NEW t \in Peer, NEW u \in Peer, <<t, u>> # <<r, q>>
      PROVE  /\ Offers(t, u)' = Offers(t, u)
             /\ Answers(t, u)' = Answers(t, u)
             /\ controls'[<<t, u>>] = controls[<<t, u>>]
  <2>1. controls'[<<t, u>>] = controls[<<t, u>>]
    BY <1>3, <1>7 DEF Pairs
  <2>2. QED
    BY <2>1 DEF Offers, Answers, Ids
<1>8. \A t, u \in Peer : /\ Offers(t, u)' \subseteq Offers(t, u)
                         /\ InOrder(controls'[<<t, u>>], at)
  <2>1. \A t, u \in Peer : InOrder(controls[<<t, u>>], at)
    BY <1>5 DEF Story
  <2>0. Ids(s, "offer") \subseteq Offers(r, q) /\ InOrder(s, at)
    BY <2>1 DEF Justified
  <2>2. ASSUME NEW t \in Peer, NEW u \in Peer
        PROVE  /\ Offers(t, u)' \subseteq Offers(t, u)
               /\ InOrder(controls'[<<t, u>>], at)
    <3>1. CASE <<t, u>> = <<r, q>>
      <4>1. t = r /\ u = q
        BY <3>1
      <4>2. QED
        BY <1>6, <2>0, <2>1, <4>1
    <3>2. CASE <<t, u>> # <<r, q>>
      BY <1>7, <2>1, <3>2
    <3>3. QED
      BY <3>1, <3>2
  <2>3. QED
    BY <2>2
<1>9. \A t, u \in Peer : \A x \in Answers(t, u)' :
        \/ x \in Answers(t, u)
        \/ /\ t = p /\ call[p].phase = "incoming"
           /\ x = call[p].id /\ call[p].peer = u /\ new.id = x
  <2>1. ASSUME NEW t \in Peer, NEW u \in Peer, NEW x \in Answers(t, u)', <<t, u>> # <<r, q>>
        PROVE  x \in Answers(t, u)
    BY <1>7, <2>1
  <2>2. ASSUME NEW t \in Peer, NEW u \in Peer, NEW x \in Answers(t, u)', <<t, u>> = <<r, q>>
        PROVE  \/ x \in Answers(t, u)
               \/ /\ t = p /\ call[p].phase = "incoming"
                  /\ x = call[p].id /\ call[p].peer = u /\ new.id = x
    <3>1. t = r /\ u = q
      BY <2>2
    <3>2. QED
      BY <1>6, <2>2, <3>1 DEF Justified
  <2>3. QED
    BY <2>1, <2>2
<1>10. /\ Held(p, new, to)
       /\ \/ new.phase = "idle"
          \/ Has(p, new.id)
          \/ /\ new.phase = "incoming" /\ q = p /\ new.id \in Offers(r, p)
             /\ \A y \in Ids(s, "offer") : at[new.id] < at[y]
       /\ new.phase \in Established /\ <<new.id, p>> \in placed =>
            \/ Has(p, new.id) /\ InCall(p, new.peer)
            \/ new.id \in Answers(new.peer, p)
  BY <1>5 DEF Justified
<1>11. \/ new.phase = "idle"
       \/ Has(p, new.id)
       \/ /\ new.phase = "incoming"
          /\ \E t \in Peer : /\ new.id \in Offers(t, p)
                             /\ \A y \in Offers(t, p)' : at[new.id] < at[y]
  BY <1>6, <1>10
<1>12. Story(to, at, n)'
  <2>1. Kept(p, new, to, at)
    BY <1>8, <1>9, <1>10, <1>11 DEF Kept
  <2>2. QED
    BY <1>2, <1>5, <2>1, StoryKept
<1>13. QED
  BY <1>4, <1>12 DEF Shared

LEMMA ChannelTrims ==
  ASSUME Typed, NEW r \in Peer, NEW q \in Peer, NEW s, Trims(s, controls[<<r, q>>]),
         controls' = [controls EXCEPT ![<<r, q>>] = s]
  PROVE  /\ controls' = [pair \in Pairs |-> controls'[pair]]
         /\ \A pair \in Pairs : Trims(controls'[pair], controls[pair])
<1>1. <<r, q>> \in Pairs
  BY DEF Pairs
<1>2. controls' = [pair \in Pairs |-> IF pair = <<r, q>> THEN s ELSE controls[pair]]
  BY <1>1 DEF Typed
<1>3. \A pair \in Pairs : Trims(controls[pair], controls[pair])
  BY SameTrims DEF Typed
<1>4. QED
  BY <1>1, <1>2, <1>3

LEMMA SameChannels ==
  ASSUME Typed, UNCHANGED controls
  PROVE  /\ controls' = [pair \in Pairs |-> controls'[pair]]
         /\ \A pair \in Pairs : Trims(controls'[pair], controls[pair])
BY SameTrims DEF Typed

(* Call and channels as the handlers find them.                            *)
LEMMA Found ==
  ASSUME Shared, NEW p \in Peer
  PROVE  /\ Typed /\ now \in Nat /\ now + OfferTtl \in Nat
         /\ call[p] \in Call /\ Continues(call[p], call[p])
         /\ call[p].phase # "idle" => call[p].id \in CallId /\ call[p].peer \in Peer
         /\ IsLive(call[p]) => call[p].phase # "idle"
         /\ \A q \in Peer : controls[<<p, q>>] \in Seq(SignalRecord)
         /\ \A q \in Peer : controls[<<q, p>>] \in Seq(SignalRecord)
<1>1. Typed /\ now \in Nat /\ call[p] \in Call
  BY DEF Shared, Typed
<1>2. now + OfferTtl \in Nat
  BY <1>1, CallAssumption
<1>3. \A q \in Peer : controls[<<p, q>>] \in Seq(SignalRecord) /\ controls[<<q, p>>] \in Seq(SignalRecord)
  BY <1>1 DEF Typed, Pairs
<1>4. QED
  BY <1>1, <1>2, <1>3, CallForms DEF Continues, IsLive, Live, Established

LEMMA TerminateShared ==
  ASSUME Shared, NEW p \in Peer, NEW kind \in {"reject", "end"}, NEW closed,
         IsLive(call[p]), Terminate(p, call[p], kind, closed)
  PROVE  Shared'
<1> DEFINE new == Ended(call[p])
           q == call[p].peer
           m == [kind |-> kind, id |-> call[p].id, until |-> now + OfferTtl]
           s == Append(controls[<<p, q>>], m)
<1>1. /\ Typed /\ now \in Nat /\ now + OfferTtl \in Nat /\ call[p] \in Call
      /\ call[p].phase # "idle" /\ call[p].id \in CallId /\ q \in Peer
      /\ controls[<<p, q>>] \in Seq(SignalRecord)
  BY Found
<1>2. new \in Call /\ Continues(call[p], new)
  BY <1>1, CallsContinue
<1>3. m \in SignalRecord
  BY <1>1 DEF SignalRecord
<1>4. Trims(s, controls[<<p, q>>])
  BY <1>1, <1>3, EndTrims
<1>5. controls' = [controls EXCEPT ![<<p, q>>] = s]
  BY DEF Terminate, Signal
<1>6. call' = [call EXCEPT ![p] = new] /\ placed' = placed /\ now' = now
  BY DEF Terminate, Becomes
<1> HIDE DEF new, q, m, s
<1>7. QED
  BY <1>1, <1>2, <1>4, <1>5, <1>6, ChannelTrims, Continued

LEMMA AnswerShared ==
  ASSUME Shared, NEW p \in Peer, Answer(p, call[p])
  PROVE  Shared'
<1> DEFINE new == Untimed("connecting", call[p])
           q == call[p].peer
           t == controls[<<p, q>>]
           m == [kind |-> "answer", id |-> call[p].id, until |-> now + OfferTtl]
           s == Append(t, m)
<1>1. call[p].phase = "incoming"
  BY DEF Answer, CanAnswer
<1>2. /\ now + OfferTtl \in Nat /\ call[p].id \in CallId /\ q \in Peer
      /\ t \in Seq(SignalRecord)
  BY <1>1, Found
<1>3. new \in Call /\ new.phase = "connecting" /\ new.id = call[p].id /\ new.peer = q
  BY <1>2 DEF Untimed, Call
<1>4. m \in SignalRecord /\ m.kind = "answer" /\ m.id = call[p].id
  BY <1>2 DEF SignalRecord
<1>5. controls' = [controls EXCEPT ![<<p, q>>] = s]
  BY DEF Answer, Signal
<1>6. call' = [call EXCEPT ![p] = new] /\ placed' = placed /\ now' = now
  BY DEF Answer, Becomes
<1> HIDE DEF m
<1>7. /\ s \in Seq(SignalRecord)
      /\ Ids(s, "offer") \subseteq Ids(t, "offer")
      /\ Ids(s, "answer") \subseteq Ids(t, "answer") \cup {call[p].id}
      /\ \A at : InOrder(t, at) => InOrder(s, at)
  <2> HIDE DEF t
  <2>1. QED
    BY <1>2, <1>4, AppendedSignal
<1> HIDE DEF s
<1>8. /\ Ids(s, "offer") \subseteq Offers(p, q)
      /\ \A x \in Ids(s, "answer") : x \in Answers(p, q) \/ x = call[p].id
  BY <1>7 DEF Offers, Answers
<1>9. Has(p, new.id)
  BY <1>1, <1>3 DEF Has
<1>10. ASSUME NEW to, NEW at, NEW n, Story(to, at, n)
       PROVE  Held(p, new, to) /\ <<new.id, p>> \notin placed
  <2>1. Held(p, call[p], to) /\ Placement(to, at, n)
    BY <1>10 DEF Story
  <2>2. <<call[p].id, q>> \in placed /\ to[call[p].id] = p
    BY <1>1, <2>1 DEF Held
  <2>3. Held(p, new, to)
    BY <1>3, <2>2 DEF Held
  <2>4. <<call[p].id, p>> \notin placed
    BY <2>1, <2>2 DEF Placement
  <2>5. QED
    BY <1>3, <2>3, <2>4
<1>11. \A to, at, n : Story(to, at, n) =>
         Held(p, new, to) /\ <<new.id, p>> \notin placed
  BY <1>10
<1>12. q = call[p].peer /\ \A at : InOrder(controls[<<p, q>>], at) => InOrder(s, at)
  BY <1>7
<1> HIDE DEF new, q
<1>13. Justified(p, new, p, q, s)
  BY <1>1, <1>3, <1>8, <1>9, <1>11, <1>12 DEF Justified
<1>14. QED
  BY <1>2, <1>3, <1>5, <1>6, <1>7, <1>13, HandlerKeeps

LEMMA OfferShared ==
  ASSUME Shared, NEW p \in Peer, NEW q \in Peer, ReceiveOffer(p, q)
  PROVE  Shared'
<1> DEFINE t == controls[<<q, p>>]
           offer == First(q, p)
<1>1. /\ Typed /\ now \in Nat /\ now + OfferTtl \in Nat /\ call[p] \in Call
      /\ t \in Seq(SignalRecord) /\ controls[<<p, q>>] \in Seq(SignalRecord)
      /\ Continues(call[p], call[p])
  BY Found
<1>2. t # <<>> /\ offer = Head(t) /\ offer.kind = "offer"
  BY DEF ReceiveOffer, Receives, First
<1>3. placed' = placed /\ now' = now
  BY DEF ReceiveOffer
<1>4. /\ Trims(Tail(t), t) /\ offer \in SignalRecord /\ offer.id \in Ids(t, "offer")
      /\ \A at : InOrder(t, at) =>
           \A y \in Ids(Tail(t), "offer") : at[offer.id] < at[y]
  <2> HIDE DEF t, offer
  <2>1. QED
    BY <1>1, <1>2, TailTrims
<1>5. offer.id \in CallId /\ offer.until \in Nat
  BY <1>4 DEF SignalRecord
<1>6. CASE AcceptsOffer(call[p], offer.id, q)
  <2> DEFINE new == Timed("incoming", offer.id, q, offer.until)
  <2>1. call' = [call EXCEPT ![p] = new]
    BY <1>6 DEF ReceiveOffer, Becomes
  <2>2. controls' = [controls EXCEPT ![<<q, p>>] = Tail(t)]
    BY <1>6 DEF ReceiveOffer, Taken
  <2>3. /\ new \in Call /\ new.phase = "incoming" /\ new.id = offer.id /\ new.peer = q
        /\ new.phase \notin Established
    BY <1>5 DEF Timed, Call, Established
  <2>4. ASSUME NEW to, NEW at, NEW n, Story(to, at, n)
        PROVE  /\ Held(p, new, to)
               /\ \A y \in Ids(Tail(t), "offer") : at[new.id] < at[y]
    <3>1. InOrder(t, at)
      BY <2>4 DEF Story
    <3>2. offer.id \in Offers(q, p)
      BY <1>4 DEF Offers
    <3>3. <<offer.id, q>> \in placed /\ to[offer.id] = p
      BY <2>4, <3>2 DEF Story, Travelling
    <3>4. Held(p, new, to)
      BY <2>3, <3>3 DEF Held
    <3>5. QED
      BY <1>4, <2>3, <3>1, <3>4
  <2>5. \A to, at, n : Story(to, at, n) =>
          /\ Held(p, new, to)
          /\ \A y \in Ids(Tail(t), "offer") : at[new.id] < at[y]
    BY <2>4
  <2>6. /\ Tail(t) \in Seq(SignalRecord)
        /\ Ids(Tail(t), "offer") \subseteq Offers(q, p)
        /\ Ids(Tail(t), "answer") \subseteq Answers(q, p)
        /\ \A at : InOrder(controls[<<q, p>>], at) => InOrder(Tail(t), at)
        /\ new.id \in Offers(q, p)
    BY <1>4, <2>3 DEF Trims, Offers, Answers
  <2> DEFINE s == Tail(t)
  <2>7. Justified(p, new, q, p, s)
    <3> HIDE DEF new, s
    <3>1. QED
      BY <2>3, <2>5, <2>6 DEF Justified, s
  <2> HIDE DEF new, s
  <2>8. s \in Seq(SignalRecord) /\ controls' = [controls EXCEPT ![<<q, p>>] = s]
    BY <2>2, <2>6 DEF s
  <2>9. QED
    BY <1>3, <2>1, <2>3, <2>7, <2>8, HandlerKeeps
<1>7. CASE ~AcceptsOffer(call[p], offer.id, q)
  <2> DEFINE m == [kind |-> "reject", id |-> offer.id, until |-> now + OfferTtl]
             taken == [controls EXCEPT ![<<q, p>>] = Tail(t)]
  <2>1. call' = call
    BY <1>7 DEF ReceiveOffer
  <2>2. controls' = [taken EXCEPT ![<<p, q>>] = Append(@, m)]
    BY <1>7 DEF ReceiveOffer, Taken
  <2>3. m \in SignalRecord /\ m.kind \in {"reject", "end"}
    BY <1>1, <1>5 DEF SignalRecord
  <2> HIDE DEF m
  <2>4. taken = [pair \in Pairs |-> IF pair = <<q, p>> THEN Tail(t) ELSE controls[pair]]
    BY <1>1 DEF Typed
  <2>5. ASSUME NEW pair \in Pairs PROVE Trims(taken[pair], controls[pair])
    <3>1. CASE pair = <<q, p>>
      BY <1>4, <2>4, <3>1
    <3>2. CASE pair # <<q, p>>
      <4>1. controls[pair] \in Seq(SignalRecord)
        BY <1>1 DEF Typed
      <4>2. QED
        BY <2>4, <3>2, <4>1, SameTrims
    <3>3. QED
      BY <3>1, <3>2
  <2>6. controls' = [pair \in Pairs |->
          IF pair = <<p, q>> THEN Append(taken[pair], m) ELSE taken[pair]]
    <3>1. taken = [pair \in Pairs |-> taken[pair]]
      BY <2>4
    <3> HIDE DEF taken
    <3>2. QED
      BY <2>2, <3>1
  <2> HIDE DEF taken
  <2>7. ASSUME NEW pair \in Pairs PROVE Trims(controls'[pair], controls[pair])
    <3>1. Trims(Append(taken[pair], m), taken[pair])
      <4>1. taken[pair] \in Seq(SignalRecord)
        BY <2>5 DEF Trims
      <4>2. QED
        BY <2>3, <4>1, EndTrims
    <3>2. controls'[pair] = taken[pair] \/ controls'[pair] = Append(taken[pair], m)
      BY <2>6
    <3>3. QED
      BY <2>5, <3>1, <3>2, TrimsTwice
  <2>8. controls' = [pair \in Pairs |-> controls'[pair]]
    BY <2>6
  <2>9. call' = [call EXCEPT ![p] = call[p]]
    BY <1>1, <2>1 DEF Typed
  <2>10. now' \in Nat
    BY <1>1, <1>3
  <2>11. QED
    BY <1>1, <1>3, <2>7, <2>8, <2>9, <2>10, Continued
<1>8. QED
  BY <1>6, <1>7

LEMMA AnswerTakenShared ==
  ASSUME Shared, NEW p \in Peer, NEW q \in Peer, ReceiveAnswer(p, q)
  PROVE  Shared'
<1> DEFINE t == controls[<<q, p>>]
           s == Tail(t)
           x == call[p].id
           new == Untimed("connecting", [call[p] EXCEPT !.id = First(q, p).id])
<1>1. /\ call[p] \in Call /\ t \in Seq(SignalRecord)
  BY Found
<1>2. /\ t # <<>> /\ Head(t).kind = "answer" /\ Head(t).id = x
      /\ First(q, p).id = x /\ call[p].phase = "outgoing"
  BY DEF ReceiveAnswer, Receives, First, AcceptsAnswer
<1>3. placed' = placed /\ now' = now /\ call' = [call EXCEPT ![p] = new]
  BY DEF ReceiveAnswer, Becomes
<1>4. controls' = [controls EXCEPT ![<<q, p>>] = s]
  BY DEF ReceiveAnswer, Taken
<1>5. Trims(s, t) /\ x \in Ids(t, "answer")
  <2> HIDE DEF t
  <2>1. QED
    BY <1>1, <1>2, TailTrims
<1>6. /\ new \in Call /\ new.phase = "connecting" /\ new.id = x /\ new.peer = call[p].peer
  <2>1. /\ x \in CallId /\ call[p].peer \in Peer
        /\ call[p] = [phase |-> "outgoing", id |-> x, peer |-> call[p].peer,
                      until |-> call[p].until]
    BY <1>1, <1>2 DEF Call, Idle
  <2>2. [call[p] EXCEPT !.id = x] = call[p]
    BY <2>1
  <2>3. QED
    BY <1>2, <2>1, <2>2 DEF Untimed, Call
<1>7. Has(p, new.id)
  BY <1>2, <1>6 DEF Has
<1>8. /\ s \in Seq(SignalRecord)
      /\ Ids(s, "offer") \subseteq Offers(q, p)
      /\ Ids(s, "answer") \subseteq Answers(q, p)
      /\ \A at : InOrder(controls[<<q, p>>], at) => InOrder(s, at)
      /\ x \in Answers(q, p)
  BY <1>5 DEF Trims, Offers, Answers
<1> HIDE DEF s, t, new
<1>9. ASSUME NEW to, NEW at, NEW n, Story(to, at, n)
      PROVE  Held(p, new, to) /\ new.id \in Answers(new.peer, p)
  <2>1. Held(p, call[p], to)
    BY <1>9 DEF Story
  <2>2. <<x, p>> \in placed /\ to[x] = call[p].peer
    BY <1>2, <2>1 DEF Held
  <2>3. to[x] = q
    BY <1>8, <1>9 DEF Story, Travelling
  <2>4. Held(p, new, to)
    BY <1>6, <2>2 DEF Held
  <2>5. QED
    BY <1>6, <1>8, <2>2, <2>3, <2>4
<1>10. \A to, at, n : Story(to, at, n) =>
         Held(p, new, to) /\ new.id \in Answers(new.peer, p)
  BY <1>9
<1>11. Justified(p, new, q, p, s)
  BY <1>7, <1>8, <1>10 DEF Justified
<1>12. QED
  BY <1>3, <1>4, <1>6, <1>8, <1>11, HandlerKeeps

(* Taking a signal off a channel, p's call going on or ending.             *)
LEMMA TakenShared ==
  ASSUME Shared, NEW p \in Peer, NEW q \in Peer, ReceiveTermination(p, q) \/ Discard(p, q)
  PROVE  Shared'
<1> DEFINE t == controls[<<q, p>>]
<1>1. /\ Typed /\ now \in Nat /\ call[p] \in Call /\ t \in Seq(SignalRecord)
      /\ Continues(call[p], call[p])
      /\ IsLive(call[p]) => call[p].phase # "idle"
  BY Found
<1>2. /\ t # <<>> /\ placed' = placed /\ now' = now
      /\ controls' = [controls EXCEPT ![<<q, p>>] = Tail(t)]
  BY DEF ReceiveTermination, Receives, Discard, Taken
<1>3. Trims(Tail(t), t)
  <2> HIDE DEF t
  <2>1. QED
    BY <1>1, <1>2, TailTrims
<1>4. /\ controls' = [pair \in Pairs |-> controls'[pair]]
      /\ \A pair \in Pairs : Trims(controls'[pair], controls[pair])
  BY <1>1, <1>2, <1>3, ChannelTrims
<1>5. PICK new \in Call : Continues(call[p], new) /\ call' = [call EXCEPT ![p] = new]
  <2>1. CASE ReceiveTermination(p, q)
    <3>1. /\ IsLive(call[p]) /\ call' = [call EXCEPT ![p] = Ended(call[p])]
      BY <2>1 DEF ReceiveTermination, AcceptsTermination, Becomes
    <3>2. Ended(call[p]) \in Call /\ Continues(call[p], Ended(call[p]))
      BY <1>1, <3>1, CallsContinue
    <3>3. QED
      BY <3>1, <3>2
  <2>2. CASE Discard(p, q)
    <3>1. call' = [call EXCEPT ![p] = call[p]]
      BY <1>1, <2>2 DEF Discard, Typed
    <3>2. QED
      BY <1>1, <3>1
  <2>3. QED
    BY <2>1, <2>2
<1>6. now' \in Nat
  BY <1>1, <1>2
<1>7. QED
  BY <1>2, <1>4, <1>5, <1>6, Continued

LEMMA LoseShared ==
  ASSUME Shared, NEW p \in Peer, NEW q \in Peer, LoseSignal(p, q)
  PROVE  Shared'
<1> DEFINE t == controls[<<p, q>>]
<1>1. /\ Typed /\ now \in Nat /\ call[p] \in Call /\ t \in Seq(SignalRecord)
      /\ Continues(call[p], call[p])
  BY Found
<1>2. PICK i \in DOMAIN t : controls' = [controls EXCEPT ![<<p, q>>] = RemoveAt(t, i)]
  BY DEF LoseSignal
<1>3. Trims(RemoveAt(t, i), t)
  <2> HIDE DEF t
  <2>1. QED
    BY <1>1, RemoveTrims
<1>4. /\ controls' = [pair \in Pairs |-> controls'[pair]]
      /\ \A pair \in Pairs : Trims(controls'[pair], controls[pair])
  BY <1>1, <1>2, <1>3, ChannelTrims
<1>5. placed' = placed /\ now' \in Nat /\ call' = call
  BY <1>1 DEF LoseSignal
<1>6. call' = [call EXCEPT ![p] = call[p]]
  BY <1>1, <1>5 DEF Typed
<1>7. QED
  BY <1>1, <1>4, <1>5, <1>6, Continued

(* A handler that sends and takes nothing.                                 *)
LEMMA SilentShared ==
  ASSUME Shared, NEW p \in Peer, NEW new \in Call, Continues(call[p], new),
         Becomes(p, new) \/ (new = call[p] /\ UNCHANGED call),
         UNCHANGED <<now, placed, controls>>
  PROVE  Shared'
<1>1. Typed /\ now' \in Nat
  BY Found
<1>2. call' = [call EXCEPT ![p] = new]
  BY <1>1 DEF Becomes, Typed
<1>3. /\ controls' = [pair \in Pairs |-> controls'[pair]]
      /\ \A pair \in Pairs : Trims(controls'[pair], controls[pair])
  BY <1>1, SameChannels
<1>4. QED
  BY <1>1, <1>2, <1>3, Continued

LEMMA NoticeShared ==
  ASSUME Shared, NEW p \in Peer, OnAuthenticated(p) \/ OnDisconnected(p)
  PROVE  Shared'
<1>1. call[p] \in Call /\ now \in Nat /\ Continues(call[p], call[p])
  BY Found
<1>2. PICK new \in {call[p], Connected(call[p], now), Lost(call[p], now)} :
        Becomes(p, new) \/ (new = call[p] /\ UNCHANGED call)
  BY DEF OnAuthenticated, OnDisconnected
<1>3. new \in Call /\ Continues(call[p], new)
  BY <1>1, CallsContinue
<1>4. UNCHANGED <<now, placed, controls>>
  BY DEF OnAuthenticated, OnDisconnected
<1>5. QED
  BY <1>2, <1>3, <1>4, SilentShared

LEMMA RestartShared ==
  ASSUME Shared, NEW p \in Peer, Restart(p)
  PROVE  Shared'
<1>1. Typed /\ now' \in Nat
  BY Found DEF Restart
<1>2. call' = [call EXCEPT ![p] = Idle] /\ placed' = placed
  BY DEF Restart
<1>3. Idle \in Call /\ Continues(call[p], Idle)
  BY DEF Call, Idle, Continues
<1>4. /\ controls' = [pair \in Pairs |-> controls'[pair]]
      /\ \A pair \in Pairs : Trims(controls'[pair], controls[pair])
  <2>1. CASE UNCHANGED controls
    BY <1>1, <2>1, SameChannels
  <2>2. CASE controls' = [pair \in Pairs |->
               IF p \in {pair[1], pair[2]} THEN <<>> ELSE controls[pair]]
    <3>1. ASSUME NEW pair \in Pairs PROVE Trims(controls'[pair], controls[pair])
      <4>1. controls[pair] \in Seq(SignalRecord)
        BY <1>1 DEF Typed
      <4>2. controls'[pair] = <<>> \/ controls'[pair] = controls[pair]
        BY <2>2
      <4>3. QED
        BY <4>1, <4>2, EmptyTrims, SameTrims
    <3>2. controls' = [pair \in Pairs |-> controls'[pair]]
      BY <2>2
    <3>3. QED
      BY <3>1, <3>2
  <2>3. QED
    BY <2>1, <2>2 DEF Restart
<1>5. QED
  BY <1>1, <1>2, <1>3, <1>4, Continued

(* A call that is placed gets an id of its own, and the next number.       *)
LEMMA StartShared ==
  ASSUME Shared, NEW p \in Peer, NEW q \in Peer, StartCall(p, q)
  PROVE  Shared'
<1>1. PICK id \in CallId \ {pair[1] : pair \in placed} :
        /\ placed' = placed \cup {<<id, p>>}
        /\ Becomes(p, Timed("outgoing", id, q, now + OfferTtl))
        /\ Signal(p, q, "offer", id)
  BY DEF StartCall
<1> DEFINE new == Timed("outgoing", id, q, now + OfferTtl)
           t == controls[<<p, q>>]
           m == [kind |-> "offer", id |-> id, until |-> now + OfferTtl]
           s == Append(t, m)
<1>2. /\ Typed /\ now \in Nat /\ now' = now /\ now + OfferTtl \in Nat
      /\ t \in Seq(SignalRecord) /\ p # q /\ <<p, q>> \in Pairs
  BY Found DEF StartCall, Pairs
<1>3. id \in CallId /\ \A x \in Peer : <<id, x>> \notin placed
  BY <1>1
<1>4. new \in Call /\ new.phase = "outgoing" /\ new.id = id /\ new.peer = q
  BY <1>2 DEF Timed, Call
<1>5. m \in SignalRecord /\ m.kind = "offer" /\ m.id = id
  BY <1>2 DEF SignalRecord
<1>6. call' = [r \in Peer |-> IF r = p THEN new ELSE call[r]]
  BY <1>1, <1>2 DEF Becomes, Typed
<1>7. controls' = [pair \in Pairs |-> IF pair = <<p, q>> THEN s ELSE controls[pair]]
  BY <1>1, <1>2 DEF Signal, Typed
<1> HIDE DEF m
<1>8. /\ s \in Seq(SignalRecord)
      /\ Ids(s, "offer") \subseteq Ids(t, "offer") \cup {id}
      /\ Ids(s, "answer") \subseteq Ids(t, "answer")
      /\ \A at : InOrder(t, at) /\ (\A x \in Ids(t, "offer") : at[x] < at[id])
           => InOrder(s, at)
  <2> HIDE DEF t
  <2>1. QED
    BY <1>2, <1>5, AppendedSignal
<1> HIDE DEF s, new
<1>9. Typed'
  <2>1. \A pair \in Pairs : (IF pair = <<p, q>> THEN s ELSE controls[pair]) \in Seq(SignalRecord)
    BY <1>2, <1>8 DEF Typed
  <2>2. controls' \in [Pairs -> Seq(SignalRecord)]
    BY <1>7, <2>1
  <2>3. QED
    BY <1>2, <1>4, <1>6, <2>2 DEF Typed
<1>10. /\ controls'[<<p, q>>] = s
       /\ \A r, u \in Peer : <<r, u>> # <<p, q>> => controls'[<<r, u>>] = controls[<<r, u>>]
  BY <1>2, <1>7 DEF Pairs
<1>11. ASSUME NEW r \in Peer, NEW u \in Peer
       PROVE  /\ \A x \in Offers(r, u)' : x \in Offers(r, u) \/ (r = p /\ u = q /\ x = id)
              /\ Answers(r, u)' \subseteq Answers(r, u)
  <2>1. Offers(r, u)' = Ids(controls'[<<r, u>>], "offer")
        /\ Answers(r, u)' = Ids(controls'[<<r, u>>], "answer")
    BY DEF Offers, Answers, Ids
  <2>2. CASE r = p /\ u = q
    BY <1>8, <1>10, <2>1, <2>2 DEF Offers, Answers
  <2>3. CASE <<r, u>> # <<p, q>>
    BY <1>10, <2>1, <2>3 DEF Offers, Answers
  <2>4. QED
    BY <2>2, <2>3
<1>12. PICK to0, at0, n0 : Story(to0, at0, n0)
  BY DEF Shared
<1> DEFINE to == [to0 EXCEPT ![id] = q]
           at == [at0 EXCEPT ![id] = n0]
           n == n0 + 1
<1>13. Placement(to0, at0, n0)
  BY <1>12 DEF Story
<1>14. /\ to = [x \in CallId |-> to[x]] /\ at \in [CallId -> Nat] /\ n \in Nat /\ n0 \in Nat
       /\ to[id] = q /\ at[id] = n0 /\ n = n0 + 1
       /\ \A x \in CallId : x # id => to[x] = to0[x] /\ at[x] = at0[x]
  BY <1>3, <1>13 DEF Placement
<1> HIDE DEF to, at, n
<1>15. ASSUME NEW x, NEW r, <<x, r>> \in placed
       PROVE  /\ x \in CallId /\ x # id /\ r \in Peer /\ to[x] = to0[x] /\ at[x] = at0[x]
              /\ at[x] \in Nat /\ at[x] < n0
  <2>1. x \in CallId /\ r \in Peer /\ at0[x] < n0
    BY <1>13, <1>15 DEF Placement
  <2>2. x # id
    BY <1>3, <1>15, <2>1
  <2>3. QED
    BY <1>14, <2>1, <2>2
<1>16. Placement(to, at, n)'
  <2>1. placed' \subseteq CallId \X Peer
    BY <1>1, <1>13 DEF Placement
  <2>2. ASSUME NEW pair \in placed' PROVE to[pair[1]] # pair[2] /\ at[pair[1]] < n
    <3>1. CASE pair = <<id, p>>
      BY <1>2, <1>14, <3>1
    <3>2. CASE pair \in placed
      <4>1. pair = <<pair[1], pair[2]>> /\ to0[pair[1]] # pair[2]
        BY <1>13, <3>2 DEF Placement
      <4>2. to[pair[1]] = to0[pair[1]] /\ at[pair[1]] \in Nat /\ at[pair[1]] < n0
        BY <1>15, <3>2, <4>1
      <4>3. QED
        BY <1>14, <4>1, <4>2
    <3>3. QED
      BY <1>1, <3>1, <3>2
  <2>3. ASSUME NEW one \in placed', NEW other \in placed', at[one[1]] = at[other[1]]
        PROVE  one = other
    <3>1. ASSUME NEW pair \in placed
          PROVE  at[pair[1]] = at0[pair[1]] /\ at[pair[1]] < n0 /\ at[pair[1]] \in Nat
      <4>1. pair = <<pair[1], pair[2]>>
        BY <1>13, <3>1 DEF Placement
      <4>2. QED
        BY <1>15, <3>1, <4>1
    <3>2. CASE one \in placed /\ other \in placed
      BY <1>13, <2>3, <3>1, <3>2 DEF Placement
    <3>3. CASE one = <<id, p>> /\ other = <<id, p>>
      BY <3>3
    <3>4. CASE one = <<id, p>> /\ other \in placed
      BY <1>14, <2>3, <3>1, <3>4
    <3>5. CASE other = <<id, p>> /\ one \in placed
      BY <1>14, <2>3, <3>1, <3>5
    <3>6. QED
      BY <1>1, <3>2, <3>3, <3>4, <3>5
  <2>4. QED
    BY <1>14, <2>1, <2>2, <2>3 DEF Placement
<1>17. \A x, r : <<x, r>> \in placed' => <<x, r>> \in placed \/ (x = id /\ r = p)
  BY <1>1
<1>18. placed \subseteq placed' /\ <<id, p>> \in placed'
  BY <1>1
<1>19. ASSUME NEW r \in Peer, NEW x, Has(r, x)'
       PROVE  \/ r = p /\ x = id
              \/ r # p /\ Has(r, x) /\ \E u \in Peer : <<x, u>> \in placed
  <2>1. CASE r = p
    BY <1>4, <1>6, <1>19, <2>1 DEF Has
  <2>2. CASE r # p
    <3>1. Has(r, x)
      BY <1>6, <1>19, <2>2 DEF Has
    <3>2. Held(r, call[r], to0)
      BY <1>12 DEF Story
    <3>3. <<x, r>> \in placed \/ <<x, call[r].peer>> \in placed
      BY <3>1, <3>2 DEF Held, Has
    <3>4. \E u \in Peer : <<x, u>> \in placed
      BY <1>15, <3>3
    <3>5. QED
      BY <2>2, <3>1, <3>4
  <2>3. QED
    BY <2>1, <2>2
<1>20. ASSUME NEW r \in Peer, NEW u \in Peer, NEW x \in Offers(r, u)
       PROVE  <<x, r>> \in placed /\ to0[x] = u
  BY <1>12 DEF Story, Travelling
<1>21. ASSUME NEW r \in Peer, NEW u \in Peer, NEW x \in Answers(r, u)
       PROVE  <<x, u>> \in placed /\ to0[x] = r
  BY <1>12 DEF Story, Travelling
<1>22. ASSUME NEW r \in Peer PROVE Held(r, call[r], to)'
  <2>1. CASE r = p
    <3>1. call'[r] = new
      BY <1>6, <2>1
    <3>2. QED
      BY <1>4, <1>14, <1>18, <2>1, <3>1 DEF Held
  <2>2. CASE r # p
    <3>1. call'[r] = call[r]
      BY <1>6, <2>2
    <3>2. Held(r, call[r], to0)
      BY <1>12 DEF Story
    <3>3. \A u : <<call[r].id, u>> \in placed => to[call[r].id] = to0[call[r].id]
      BY <1>15
    <3>4. QED
      BY <1>18, <3>1, <3>2, <3>3 DEF Held
  <2>3. QED
    BY <2>1, <2>2
<1>23. Travelling(to)'
  <2>1. ASSUME NEW r \in Peer, NEW u \in Peer, NEW x \in Offers(r, u)'
        PROVE  <<x, r>> \in placed' /\ to[x] = u
    <3>1. CASE x \in Offers(r, u)
      BY <1>15, <1>18, <1>20, <3>1
    <3>2. CASE r = p /\ u = q /\ x = id
      BY <1>14, <1>18, <3>2
    <3>3. QED
      BY <1>11, <3>1, <3>2
  <2>2. ASSUME NEW r \in Peer, NEW u \in Peer, NEW x \in Answers(r, u)'
        PROVE  <<x, u>> \in placed' /\ to[x] = r
    <3>1. x \in Answers(r, u)
      BY <1>11
    <3>2. QED
      BY <1>15, <1>18, <1>21, <3>1
  <2>3. QED
    BY <2>1, <2>2 DEF Travelling
<1>24. ASSUME NEW r \in Peer, NEW u \in Peer, NEW x \in Offers(r, u)
       PROVE  at[x] = at0[x] /\ at[x] \in Nat /\ at[x] < n0
  BY <1>15, <1>20
<1>25. ASSUME NEW r \in Peer, NEW u \in Peer PROVE InOrder(controls[<<r, u>>], at)
  <2> DEFINE c == controls[<<r, u>>]
  <2>1. InOrder(c, at0)
    BY <1>12 DEF Story
  <2>2. \A i \in 1 .. Len(c) : c[i].kind = "offer" => at[c[i].id] = at0[c[i].id]
    <3>1. \A i \in 1 .. Len(c) : c[i].kind = "offer" => c[i].id \in Offers(r, u)
      BY DEF Offers, Ids
    <3>2. QED
      BY <1>24, <3>1
  <2> HIDE DEF c
  <2>3. InOrder(c, at)
    BY <2>1, <2>2 DEF InOrder
  <2>4. QED
    BY <2>3 DEF c
<1>26. ASSUME NEW r \in Peer, NEW u \in Peer PROVE InOrder(controls[<<r, u>>], at)'
  <2>1. InOrder(controls'[<<r, u>>], at)
    <3>1. CASE r = p /\ u = q
      <4>1. \A x \in Ids(t, "offer") : at[x] < at[id]
        BY <1>14, <1>24 DEF Offers
      <4>2. InOrder(s, at)
        BY <1>8, <1>25, <4>1
      <4>3. QED
        BY <1>10, <3>1, <4>2
    <3>2. CASE <<r, u>> # <<p, q>>
      BY <1>10, <1>25, <3>2
    <3>3. QED
      BY <3>1, <3>2
  <2>2. QED
    BY <2>1 DEF InOrder
<1>27. Recent(at)'
  <2>1. ASSUME NEW r \in Peer, NEW x \in CallId, NEW y \in CallId, Has(r, x)',
               <<x, r>> \in placed', <<y, r>> \in placed'
        PROVE  at[y] <= at[x]
    <3>1. CASE r = p /\ x = id
      BY <1>14, <1>15, <1>17, <2>1, <3>1
    <3>2. CASE r # p /\ Has(r, x)
      <4>1. <<x, r>> \in placed /\ <<y, r>> \in placed
        BY <1>17, <2>1, <3>2
      <4>2. at0[y] <= at0[x]
        BY <1>12, <3>2, <4>1 DEF Story, Recent
      <4>3. QED
        BY <1>15, <4>1, <4>2
    <3>3. QED
      BY <1>19, <2>1, <3>1, <3>2
  <2>2. QED
    BY <2>1 DEF Recent
<1>28. Heard(at)'
  <2>1. ASSUME NEW r \in Peer, NEW u \in Peer, NEW x \in CallId, Has(u, x)',
               <<x, r>> \in placed', NEW y \in Offers(r, u)'
        PROVE  at[x] < at[y]
    <3>1. CASE u = p /\ x = id
      <4>1. r = p
        BY <1>3, <1>17, <2>1, <3>1
      <4>2. y \in Offers(p, p)
        BY <1>2, <1>11, <3>1, <4>1
      <4>3. <<y, p>> \in placed /\ to0[y] = p
        BY <1>20, <4>2
      <4>4. QED
        BY <1>13, <4>3 DEF Placement
    <3>2. CASE u # p /\ Has(u, x) /\ \E w \in Peer : <<x, w>> \in placed
      <4>1. <<x, r>> \in placed
        BY <1>15, <1>17, <2>1, <3>2
      <4>2. CASE y \in Offers(r, u)
        <5>1. at0[x] < at0[y]
          BY <1>12, <3>2, <4>1, <4>2 DEF Story, Heard
        <5>2. QED
          BY <1>15, <1>24, <4>1, <4>2, <5>1
      <4>3. CASE y = id
        BY <1>14, <1>15, <4>1, <4>3
      <4>4. QED
        BY <1>11, <4>2, <4>3
    <3>3. QED
      BY <1>19, <2>1, <3>1, <3>2
  <2>2. QED
    BY <2>1 DEF Heard
<1>29. Answering(at)'
  <2>1. ASSUME NEW r \in Peer, NEW u \in Peer, NEW x \in CallId, Agreed(r, u, x)'
        PROVE  Agreed(r, u, x) /\ <<x, r>> \in placed
    <3>1. CASE x \in Answers(u, r)'
      <4>1. x \in Answers(u, r)
        BY <1>11, <3>1
      <4>2. QED
        BY <1>21, <4>1 DEF Agreed
    <3>2. CASE <<x, r>> \in placed' /\ Has(r, x)' /\ InCall(r, u)'
      <4>1. r # p
        BY <1>4, <1>6, <3>2 DEF InCall, Established
      <4>2. <<x, r>> \in placed
        BY <1>17, <3>2, <4>1
      <4>3. call'[r] = call[r]
        BY <1>6, <4>1
      <4>4. Has(r, x) /\ InCall(r, u)
        BY <3>2, <4>3 DEF Has, InCall
      <4>5. QED
        BY <4>2, <4>4 DEF Agreed
    <3>3. QED
      BY <2>1, <3>1, <3>2 DEF Agreed
  <2>2. ASSUME NEW r \in Peer, NEW u \in Peer, NEW x \in CallId, Agreed(r, u, x)'
        PROVE  /\ \A y \in CallId : Has(u, y)' /\ {<<y, r>>, <<y, u>>} \cap placed' # {} =>
                    at[x] <= at[y]
               /\ \A y \in Offers(r, u)' : at[x] < at[y]
    <3>1. Agreed(r, u, x) /\ at[x] = at0[x] /\ at[x] \in Nat /\ at[x] < n0
      BY <1>15, <2>1, <2>2
    <3>2. ASSUME NEW y \in CallId, Has(u, y)', {<<y, r>>, <<y, u>>} \cap placed' # {}
          PROVE  at[x] <= at[y]
      <4>1. CASE u = p /\ y = id
        BY <1>14, <3>1, <4>1
      <4>2. CASE u # p /\ Has(u, y) /\ \E w \in Peer : <<y, w>> \in placed
        <5>1. y # id /\ at[y] = at0[y]
          BY <1>15, <4>2
        <5>2. {<<y, r>>, <<y, u>>} \cap placed # {}
          BY <1>17, <3>2, <5>1
        <5>3. at0[x] <= at0[y]
          BY <1>12, <3>1, <4>2, <5>2 DEF Story, Answering
        <5>4. QED
          BY <3>1, <5>1, <5>3
      <4>3. QED
        BY <1>19, <3>2, <4>1, <4>2
    <3>3. ASSUME NEW y \in Offers(r, u)' PROVE at[x] < at[y]
      <4>1. CASE y \in Offers(r, u)
        <5>1. at0[x] < at0[y]
          BY <1>12, <3>1, <4>1 DEF Story, Answering
        <5>2. QED
          BY <1>24, <3>1, <4>1, <5>1
      <4>2. CASE y = id
        BY <1>14, <3>1, <4>2
      <4>3. QED
        BY <1>11, <4>1, <4>2
    <3>4. QED
      BY <3>2, <3>3
  <2>3. QED
    BY <2>2 DEF Answering
<1>30. Story(to, at, n)'
  BY <1>16, <1>22, <1>23, <1>26, <1>27, <1>28, <1>29 DEF Story
<1>31. QED
  BY <1>9, <1>30 DEF Shared

LEMMA UserShared ==
  ASSUME Shared, NEW p \in Peer, User(p)
  PROVE  Shared'
<1>1. /\ call[p] \in Call /\ now \in Nat /\ Continues(call[p], call[p])
      /\ IsLive(call[p]) => call[p].phase # "idle"
  BY Found
<1>2. IsLive(Ticked(call[p], now)) => Ticked(call[p], now) = call[p]
  BY <1>1, CallsContinue
<1>3. CASE \E q \in Peer : StartCall(p, q)
  BY <1>3, StartShared
<1>4. CASE AnswerCall(p)
  <2>1. Ticked(call[p], now).phase = "incoming"
    BY <1>4 DEF AnswerCall, Answer, CanAnswer
  <2>2. Ticked(call[p], now) = call[p]
    BY <1>2, <2>1 DEF IsLive, Live
  <2>3. Answer(p, call[p])
    BY <1>4, <2>2 DEF AnswerCall
  <2>4. QED
    BY <2>3, AnswerShared
<1>5. CASE RejectCall(p) \/ EndCall(p)
  <2>1. PICK kind \in {"reject", "end"} :
          /\ IsLive(Ticked(call[p], now))
          /\ \E closed : Terminate(p, Ticked(call[p], now), kind, closed)
    BY <1>5 DEF RejectCall, EndCall, IsLive, Live
  <2>2. IsLive(call[p]) /\ \E closed : Terminate(p, call[p], kind, closed)
    BY <1>2, <2>1
  <2>3. QED
    BY <2>2, TerminateShared
<1>6. CASE OtherCommand(p)
  <2>1. call[p].phase # "idle" /\ Becomes(p, Ended(call[p])) /\ UNCHANGED <<now, placed, controls>>
    BY <1>6 DEF OtherCommand, TimedOut
  <2>2. Ended(call[p]) \in Call /\ Continues(call[p], Ended(call[p]))
    BY <1>1, <2>1, CallsContinue
  <2>3. QED
    BY <2>1, <2>2, SilentShared
<1>7. CASE \E id \in shown[p] : UserAnswered(p, id)
  BY <1>7, AnswerShared DEF UserAnswered
<1>8. CASE \E id \in shown[p] : UserEnded(p, id)
  <2>1. PICK id \in shown[p] : UserEnded(p, id)
    BY <1>8
  <2>2. CASE IsLive(call[p])
    <3>1. Terminate(p, call[p], "end", {id, call[p].id})
      BY <2>1, <2>2 DEF UserEnded
    <3>2. QED
      BY <2>2, <3>1, TerminateShared
  <2>3. CASE ~IsLive(call[p])
    <3>1. UNCHANGED <<now, placed, call, controls>>
      BY <2>1, <2>3 DEF UserEnded
    <3>2. QED
      BY <1>1, <3>1, SilentShared
  <2>4. QED
    BY <2>2, <2>3
<1>9. QED
  BY <1>3, <1>4, <1>5, <1>6, <1>7, <1>8 DEF User

LEMMA NextShared == Shared /\ [Next]_vars => Shared'
<1> SUFFICES ASSUME Shared, [Next]_vars PROVE Shared'
  OBVIOUS
<1>1. now \in Nat
  BY DEF Shared, Typed
<1>2. CASE Advance
  BY <1>1, <1>2, StillShared DEF Advance, core
<1>3. CASE \E pair \in InRange : LinkUp(pair) \/ LinkDown(pair)
  BY <1>1, <1>3, StillShared DEF LinkUp, LinkDown, core
<1>4. ASSUME NEW p \in Peer, User(p) PROVE Shared'
  BY <1>4, UserShared
<1>5. ASSUME NEW p \in Peer, SetRealtime(p) \/ OnDataAvailable(p) PROVE Shared'
  BY <1>1, <1>5, StillShared DEF SetRealtime, OnDataAvailable, core
<1>6. ASSUME NEW p \in Peer, OnAuthenticated(p) \/ OnDisconnected(p) PROVE Shared'
  BY <1>6, NoticeShared
<1>7. ASSUME NEW p \in Peer, Restart(p) PROVE Shared'
  BY <1>7, RestartShared
<1>8. ASSUME NEW p \in Peer, NEW q \in Peer, Deliver(p, q) PROVE Shared'
  BY <1>8, OfferShared, AnswerTakenShared, TakenShared DEF Deliver
<1>9. ASSUME NEW p \in Peer, NEW q \in Peer, LoseSignal(p, q) PROVE Shared'
  BY <1>9, LoseShared
<1>10. CASE UNCHANGED vars
  BY <1>1, <1>10, StillShared DEF vars, core
<1>11. QED
  BY <1>2, <1>3, <1>4, <1>5, <1>6, <1>7, <1>8, <1>9, <1>10 DEF Next

LEMMA InitShared == Init => Shared
<1> SUFFICES ASSUME Init PROVE Shared
  OBVIOUS
<1>1. Typed
  <2>1. Idle \in Call /\ <<>> \in Seq(SignalRecord)
    BY DEF Call
  <2>2. QED
    BY <2>1 DEF Init, Typed
<1>2. /\ placed = {} /\ \A p \in Peer : call[p].phase = "idle"
      /\ \A p, q \in Peer : controls[<<p, q>>] = <<>>
  BY DEF Init, Idle, Pairs
<1>3. \A p, q \in Peer : Offers(p, q) = {} /\ Answers(p, q) = {}
  <2>1. \A kind : Ids(<<>>, kind) = {}
    BY DEF Ids
  <2>2. QED
    BY <1>2, <2>1 DEF Offers, Answers
<1> DEFINE none == [x \in CallId |-> 0]
<1>4. Placement(none, none, 0)
  BY <1>2 DEF Placement
<1> HIDE DEF none
<1>5. \A p \in Peer : Held(p, call[p], none)
  BY <1>2 DEF Held
<1>6. \A p \in Peer, x \in CallId : ~Has(p, x)
  BY <1>2 DEF Has
<1>7. Travelling(none)
  BY <1>3 DEF Travelling
<1>8. \A p, q \in Peer : InOrder(controls[<<p, q>>], none)
  <2>1. InOrder(<<>>, none)
    BY DEF InOrder
  <2>2. QED
    BY <1>2, <2>1
<1>9. Recent(none) /\ Heard(none)
  BY <1>6 DEF Recent, Heard
<1>10. Answering(none)
  BY <1>3, <1>6 DEF Answering, Agreed
<1>11. Story(none, none, 0)
  BY <1>4, <1>5, <1>7, <1>8, <1>9, <1>10 DEF Story
<1>12. QED
  BY <1>1, <1>11 DEF Shared

(* Late answers, answers to earlier offers, offers that cross, losses and   *)
(* restarts: receive_answer and receive_offer never leave a caller in a     *)
(* call that its callee takes for another one.                              *)
THEOREM AnsweredCallsAreShared == Spec => []AnsweredCallIsShared
<1>1. Shared => AnsweredCallIsShared
  BY StoryGives DEF Shared
<1>2. QED
  BY <1>1, InitShared, NextShared, PTL DEF Spec


----------------------------------------------------------------------------
(* What one side hangs up is over on the other.  As long as no signal was   *)
(* lost and nothing has run out, a call that has ended on one device has    *)
(* ended on the other or a signal that ends it is on its way, behind the    *)
(* offer if that is still on its way too; and a signal on its way that ends *)
(* a call comes from a device that is done with it.                         *)

Good == losses = 0 /\ restarts = 0 /\ now < OfferTtl /\ now <= RetryTtl

Ending == {"reject", "end"}

Ends(p, q) == Ids(controls[<<p, q>>], "reject") \cup Ids(controls[<<p, q>>], "end")

Runs(p, x) == IsLive(call[p]) /\ call[p].id = x

(* q is done with x, as far as p's offers go.                              *)
Gone(p, q, x) == x \notin Offers(p, q) /\ ~Runs(q, x)

Behind(s, x) ==
  \E j \in 1 .. Len(s) :
    /\ s[j].kind \in Ending /\ s[j].id = x
    /\ \A i \in 1 .. Len(s) : s[i].kind = "offer" /\ s[i].id = x => i < j

Over(p, q, x) == Gone(p, q, x) \/ Behind(controls[<<p, q>>], x)

(* Nothing runs out before the first of the two times is over.             *)
Waits(current) ==
  /\ current.phase \in {"outgoing", "incoming"} => current.until >= OfferTtl
  /\ current.phase = "reconnecting" => current.until >= RetryTtl

Lasts(s) == \A i \in 1 .. Len(s) : s[i].until >= OfferTtl

Between(p, q, x) == {<<x, p>>, <<x, q>>} \cap placed # {}

Hung ==
  /\ \A p \in Peer : Waits(call[p])
  /\ \A p, q \in Peer : Lasts(controls[<<p, q>>])
  /\ \A p, q \in Peer : \A x \in Ends(q, p) :
       /\ Between(p, q, x)
       /\ Gone(p, q, x)
       /\ Has(p, x) => call[p].peer = q
  /\ \A p, q \in Peer, x \in CallId :
       call[p].phase = "ended" /\ Has(p, x) /\ call[p].peer = q => Over(p, q, x)

HangUps ==
  /\ Shared
  /\ losses \in Nat /\ restarts \in Nat
  /\ Good => Hung

LEMMA HungGives == Typed /\ Good /\ Hung => HangUpReachesPeer
<1> SUFFICES ASSUME Typed, Hung, NEW p \in Peer, NEW q \in Peer,
                    call[p].phase = "ended", call[p].peer = q, controls[<<p, q>>] = <<>>
             PROVE  ~(IsLive(call[q]) /\ call[q].id = call[p].id)
  BY DEF HangUpReachesPeer
<1>1. Over(p, q, call[p].id)
  BY CallForms DEF Hung, Typed, Has
<1>2. ~Behind(<<>>, call[p].id)
  <2>1. 1 .. Len(<<>>) = {}
    OBVIOUS
  <2>2. QED
    BY <2>1 DEF Behind
<1>3. QED
  BY <1>1, <1>2 DEF Over, Gone, Runs

(* What the first signal is, and what the rest of a channel keeps.         *)
LEMMA TailFacts ==
  ASSUME NEW t \in Seq(SignalRecord), t # <<>>
  PROVE  /\ Tail(t) \in Seq(SignalRecord) /\ Head(t) \in SignalRecord
         /\ \A kind : Ids(Tail(t), kind) \subseteq Ids(t, kind)
         /\ \A kind : Head(t).kind = kind => Head(t).id \in Ids(t, kind)
         /\ Lasts(t) => Lasts(Tail(t)) /\ Head(t).until >= OfferTtl
         /\ \A x : Behind(t, x) =>
              \/ Behind(Tail(t), x)
              \/ /\ Head(t).kind \in Ending /\ Head(t).id = x
                 /\ x \notin Ids(Tail(t), "offer")
         /\ \A at : InOrder(t, at) /\ Head(t).kind = "offer" =>
              \A y \in Ids(Tail(t), "offer") : at[Head(t).id] < at[y]
<1> DEFINE s == Tail(t)
<1>1. /\ s \in Seq(SignalRecord) /\ Len(s) = Len(t) - 1 /\ Len(t) \in Nat /\ Len(t) >= 1
      /\ \A i \in 1 .. Len(s) : s[i] = t[i + 1]
      /\ Head(t) = t[1] /\ t[1] \in SignalRecord
  OBVIOUS
<1> HIDE DEF s
<1>2. 1 \in 1 .. Len(t) /\ \A i \in 1 .. Len(s) : i + 1 \in 1 .. Len(t)
  BY <1>1
<1>3. \A j \in 1 .. Len(t) : j = 1 \/ (j - 1 \in 1 .. Len(s) /\ s[j - 1] = t[j])
  BY <1>1
<1>4. ASSUME NEW kind, NEW x \in Ids(s, kind) PROVE x \in Ids(t, kind)
  <2>1. PICK i \in 1 .. Len(s) : s[i].kind = kind /\ x = s[i].id
    BY <1>4 DEF Ids
  <2>2. i + 1 \in 1 .. Len(t) /\ t[i + 1].kind = kind /\ x = t[i + 1].id
    BY <1>1, <1>2, <2>1
  <2>3. QED
    BY <2>2 DEF Ids
<1>5. \A kind : t[1].kind = kind => t[1].id \in Ids(t, kind)
  BY <1>2 DEF Ids
<1>6. Lasts(t) => Lasts(s) /\ t[1].until >= OfferTtl
  BY <1>1, <1>2 DEF Lasts
<1>7. ASSUME NEW x, Behind(t, x)
      PROVE  Behind(s, x) \/ (t[1].kind \in Ending /\ t[1].id = x /\ x \notin Ids(s, "offer"))
  <2>1. PICK j \in 1 .. Len(t) :
          /\ t[j].kind \in Ending /\ t[j].id = x
          /\ \A i \in 1 .. Len(t) : t[i].kind = "offer" /\ t[i].id = x => i < j
    BY <1>7 DEF Behind
  <2>2. \A i \in 1 .. Len(s) : s[i].kind = "offer" /\ s[i].id = x => i + 1 < j
    BY <1>1, <1>2, <2>1
  <2>3. CASE j = 1
    <3>1. \A i \in 1 .. Len(s) : ~(s[i].kind = "offer" /\ s[i].id = x)
      BY <1>1, <2>2, <2>3
    <3>2. QED
      BY <2>1, <2>3, <3>1 DEF Ids
  <2>4. CASE j # 1
    <3>1. j - 1 \in 1 .. Len(s) /\ s[j - 1].kind \in Ending /\ s[j - 1].id = x
      BY <1>3, <2>1, <2>4
    <3>2. \A i \in 1 .. Len(s) : s[i].kind = "offer" /\ s[i].id = x => i < j - 1
      BY <1>1, <2>2
    <3>3. QED
      BY <3>1, <3>2 DEF Behind
  <2>5. QED
    BY <2>3, <2>4
<1>8. ASSUME NEW at, InOrder(t, at), t[1].kind = "offer", NEW y \in Ids(s, "offer")
      PROVE  at[t[1].id] < at[y]
  <2>1. PICK i \in 1 .. Len(s) : s[i].kind = "offer" /\ y = s[i].id
    BY <1>8 DEF Ids
  <2>2. i + 1 \in 1 .. Len(t) /\ 1 < i + 1 /\ t[i + 1].kind = "offer" /\ y = t[i + 1].id
    BY <1>1, <1>2, <2>1
  <2>3. QED
    BY <1>2, <1>8, <2>2 DEF InOrder
<1>9. QED
  BY <1>1, <1>4, <1>5, <1>6, <1>7, <1>8 DEF s

LEMMA AppendFacts ==
  ASSUME NEW t \in Seq(SignalRecord), NEW m \in SignalRecord
  PROVE  /\ Append(t, m) \in Seq(SignalRecord)
         /\ \A kind : Ids(Append(t, m), kind) \subseteq Ids(t, kind) \cup {m.id}
         /\ \A kind : m.kind # kind => Ids(Append(t, m), kind) \subseteq Ids(t, kind)
         /\ Lasts(t) /\ m.until >= OfferTtl => Lasts(Append(t, m))
         /\ \A x : Behind(t, x) /\ (m.kind = "offer" => m.id # x) => Behind(Append(t, m), x)
         /\ m.kind \in Ending => Behind(Append(t, m), m.id)
<1> DEFINE s == Append(t, m)
<1>1. /\ s \in Seq(SignalRecord) /\ Len(s) = Len(t) + 1 /\ Len(t) \in Nat
      /\ s[Len(t) + 1] = m /\ \A i \in 1 .. Len(t) : s[i] = t[i]
  OBVIOUS
<1>2. /\ \A kind : Ids(s, kind) \subseteq Ids(t, kind) \cup {m.id}
      /\ \A kind : m.kind # kind => Ids(s, kind) \subseteq Ids(t, kind)
  BY AppendedSignal
<1> HIDE DEF s
<1>3. \A i \in 1 .. Len(s) : i \in 1 .. Len(t) \/ i = Len(t) + 1
  BY <1>1
<1>4. Lasts(t) /\ m.until >= OfferTtl => Lasts(s)
  BY <1>1, <1>3 DEF Lasts
<1>5. ASSUME NEW x, Behind(t, x), m.kind = "offer" => m.id # x
      PROVE  Behind(s, x)
  <2>1. PICK j \in 1 .. Len(t) :
          /\ t[j].kind \in Ending /\ t[j].id = x
          /\ \A i \in 1 .. Len(t) : t[i].kind = "offer" /\ t[i].id = x => i < j
    BY <1>5 DEF Behind
  <2>2. j \in 1 .. Len(s) /\ s[j].kind \in Ending /\ s[j].id = x
    BY <1>1, <2>1
  <2>3. ASSUME NEW i \in 1 .. Len(s), s[i].kind = "offer", s[i].id = x PROVE i < j
    <3>1. i \in 1 .. Len(t)
      BY <1>1, <1>3, <1>5, <2>3
    <3>2. QED
      BY <1>1, <2>1, <2>3, <3>1
  <2>4. QED
    BY <2>2, <2>3 DEF Behind
<1>6. ASSUME m.kind \in Ending PROVE Behind(s, m.id)
  <2>1. Len(t) + 1 \in 1 .. Len(s) /\ s[Len(t) + 1].kind \in Ending /\ m.kind # "offer"
    BY <1>1, <1>6 DEF Ending
  <2>2. \A i \in 1 .. Len(s) : s[i].kind = "offer" => i < Len(t) + 1
    BY <1>1, <1>3, <2>1
  <2>3. QED
    BY <1>1, <2>1, <2>2 DEF Behind
<1>7. QED
  BY <1>1, <1>2, <1>4, <1>5, <1>6 DEF s

(* Two devices that have the same call have it with each other.            *)
LEMMA Partners ==
  ASSUME NEW to, NEW at, NEW n, Story(to, at, n), NEW p \in Peer, NEW q \in Peer, NEW x,
         Has(p, x), call[p].peer = q
  PROVE  /\ p # q /\ Between(p, q, x)
         /\ Has(q, x) => call[q].peer = p
         /\ x \notin Offers(q, p)
<1>1. /\ Placement(to, at, n) /\ Held(p, call[p], to) /\ Held(q, call[q], to)
      /\ Travelling(to) /\ Heard(at)
  BY DEF Story
<1>2. (<<x, p>> \in placed /\ to[x] = q) \/ (<<x, q>> \in placed /\ to[x] = p)
  BY <1>1 DEF Held, Has
<1>3. \A r : <<x, r>> \in placed => to[x] # r
  BY <1>1 DEF Placement
<1>4. \A r, s : <<x, r>> \in placed /\ <<x, s>> \in placed => r = s
  BY OnePlacer
<1>5. Has(q, x) => call[q].peer = p
  BY <1>1, <1>2, <1>3, <1>4 DEF Held, Has
<1>6. ASSUME x \in Offers(q, p) PROVE FALSE
  <2>1. <<x, q>> \in placed /\ x \in CallId
    BY <1>1, <1>6 DEF Travelling, Placement
  <2>2. at[x] < at[x] /\ at[x] \in Nat
    BY <1>1, <1>6, <2>1 DEF Heard, Placement
  <2>3. QED
    BY <2>2
<1>7. QED
  BY <1>2, <1>3, <1>5, <1>6 DEF Between

Known == {pair[1] : pair \in placed}

(* p's call goes on or is over, is one it was offered, or is new.           *)
Follows(p) ==
  call'[p].phase # "idle" =>
    \/ /\ call[p].phase # "idle"
       /\ call'[p].id = call[p].id /\ call'[p].peer = call[p].peer
       /\ IsLive(call'[p]) => IsLive(call[p])
    \/ call'[p].peer \in Peer /\ call'[p].id \in Offers(call'[p].peer, p)
    \/ call'[p].id \notin Known

Concludes(p) ==
  call'[p].phase = "ended" =>
    \/ call[p] = call'[p]
    \/ \A q \in Peer, x \in CallId : Has(p, x)' /\ call'[p].peer = q => Over(p, q, x)'

(* What may happen to the channel from p to q: the end of a call is taken   *)
(* only when it has had its effect, and put in only by who is done with it. *)
Carries(p, q) ==
  /\ Offers(p, q)' \cap Known \subseteq Offers(p, q)
  /\ Lasts(controls'[<<p, q>>])
  /\ \A x \in Known : Behind(controls[<<p, q>>], x) =>
       Behind(controls'[<<p, q>>], x) \/ Gone(p, q, x)'
  /\ \A x \in Ends(p, q)' :
       \/ x \in Ends(p, q)
       \/ /\ Between(p, q, x)
          /\ Gone(q, p, x)'
          /\ Has(q, x)' => call'[q].peer = p

LEMMA HungKept ==
  ASSUME Shared, Hung, placed \subseteq placed',
         \A p \in Peer : Follows(p) /\ Concludes(p) /\ Waits(call'[p]),
         \A p, q \in Peer : Carries(p, q)
  PROVE  Hung'
<1>1. PICK to, at, n : Story(to, at, n)
  BY DEF Shared
<1>2. /\ \A x, p : <<x, p>> \in placed => to[x] # p
      /\ \A x, p, q : <<x, p>> \in placed /\ <<x, q>> \in placed => p = q
      /\ \A p, q \in Peer : \A x \in Offers(p, q) : <<x, p>> \in placed /\ to[x] = q
  BY <1>1, OnePlacer DEF Story, Placement, Travelling
<1>3. \A x, p : <<x, p>> \in placed => x \in Known
  BY DEF Known
<1>4. \A p, q, x : Between(p, q, x) => Between(p, q, x)' /\ x \in Known /\ Between(q, p, x)
  BY <1>3 DEF Between
<1>5. ASSUME NEW p \in Peer, NEW q \in Peer, NEW x, Between(p, q, x), Gone(p, q, x)
      PROVE  Gone(p, q, x)'
  <2>1. x \notin Offers(p, q)'
    BY <1>4, <1>5 DEF Carries, Gone
  <2>2. ASSUME Runs(q, x)' PROVE FALSE
    <3>1. call'[q].phase # "idle" /\ call'[q].id = x /\ IsLive(call'[q])
      BY <2>2 DEF Runs, IsLive, Live, Established
    <3>2. CASE call[q].id = x /\ IsLive(call[q])
      BY <1>5, <3>2 DEF Gone, Runs
    <3>3. CASE call'[q].peer \in Peer /\ x \in Offers(call'[q].peer, q)
      <4>1. <<x, call'[q].peer>> \in placed /\ to[x] = q
        BY <1>2, <3>3
      <4>2. <<x, p>> \in placed \/ <<x, q>> \in placed
        BY <1>5 DEF Between
      <4>3. call'[q].peer = p
        BY <1>2, <4>1, <4>2
      <4>4. QED
        BY <1>5, <3>3, <4>3 DEF Gone
    <3>4. CASE x \notin Known
      BY <1>4, <1>5, <3>4
    <3>5. QED
      BY <3>1, <3>2, <3>3, <3>4 DEF Follows
  <2>3. QED
    BY <2>1, <2>2 DEF Gone
<1>6. ASSUME NEW p \in Peer, NEW q \in Peer, NEW x \in Ends(q, p)'
      PROVE  /\ Between(p, q, x)' /\ Gone(p, q, x)'
             /\ Has(p, x)' => call'[p].peer = q
  <2>1. CASE x \in Ends(q, p)
    <3>1. Between(p, q, x) /\ Gone(p, q, x) /\ (Has(p, x) => call[p].peer = q)
      BY <2>1 DEF Hung
    <3>2. ASSUME Has(p, x)' PROVE call'[p].peer = q
      <4>1. call'[p].phase # "idle" /\ call'[p].id = x
        BY <3>2 DEF Has
      <4>2. CASE call[p].phase # "idle" /\ call[p].id = x /\ call'[p].peer = call[p].peer
        BY <3>1, <4>2 DEF Has
      <4>3. CASE call'[p].peer \in Peer /\ x \in Offers(call'[p].peer, p)
        <5>1. <<x, call'[p].peer>> \in placed /\ to[x] = p
          BY <1>2, <4>3
        <5>2. <<x, p>> \in placed \/ <<x, q>> \in placed
          BY <3>1 DEF Between
        <5>3. QED
          BY <1>2, <5>1, <5>2
      <4>4. CASE x \notin Known
        BY <1>4, <3>1, <4>4
      <4>5. QED
        BY <4>1, <4>2, <4>3, <4>4 DEF Follows
    <3>3. QED
      BY <1>4, <1>5, <3>1, <3>2
  <2>2. CASE x \notin Ends(q, p)
    BY <1>4, <1>6, <2>2 DEF Carries
  <2>3. QED
    BY <2>1, <2>2
<1>7. ASSUME NEW p \in Peer, NEW q \in Peer, NEW x \in CallId,
             call'[p].phase = "ended", Has(p, x)', call'[p].peer = q
      PROVE  Over(p, q, x)'
  <2>1. CASE call[p] = call'[p]
    <3>1. Has(p, x) /\ call[p].phase = "ended" /\ call[p].peer = q
      BY <1>7, <2>1 DEF Has
    <3>2. Between(p, q, x)
      BY <1>1, <3>1, Partners
    <3>3. CASE Gone(p, q, x)
      BY <1>5, <3>2, <3>3 DEF Over
    <3>4. CASE Behind(controls[<<p, q>>], x)
      BY <1>4, <3>2, <3>4 DEF Over, Carries
    <3>5. QED
      BY <3>1, <3>3, <3>4 DEF Hung, Over
  <2>2. QED
    BY <1>7, <2>1 DEF Concludes
<1>8. QED
  BY <1>6, <1>7 DEF Hung, Carries

(* A step of p that touches some channels.                                 *)
LEMMA StepHangs ==
  ASSUME Shared, Hung, placed \subseteq placed', NEW p \in Peer,
         \A q \in Peer \ {p} : call'[q] = call[q],
         Follows(p) /\ Concludes(p) /\ Waits(call'[p]),
         \A q, r \in Peer : Carries(q, r) \/ controls'[<<q, r>>] = controls[<<q, r>>]
  PROVE  Hung'
<1>1. \A q \in Peer \ {p} : Follows(q) /\ Concludes(q) /\ Waits(call'[q])
  BY DEF Follows, Concludes, Hung
<1>2. ASSUME NEW q \in Peer, NEW r \in Peer, controls'[<<q, r>>] = controls[<<q, r>>]
      PROVE  Carries(q, r)
  <2>1. Lasts(controls[<<q, r>>])
    BY DEF Hung
  <2>2. Offers(q, r)' = Offers(q, r) /\ Ends(q, r)' = Ends(q, r)
    BY <1>2 DEF Offers, Ends
  <2>3. QED
    BY <1>2, <2>1, <2>2 DEF Carries
<1>3. QED
  BY <1>1, <1>2, HungKept

(* One channel becomes s, and the others are as they were.                 *)
Turns(q, r, s) == controls' = [controls EXCEPT ![<<q, r>>] = s]

LEMMA OneChannel ==
  ASSUME Typed, NEW q \in Peer, NEW r \in Peer, NEW s,
         Turns(q, r, s)
  PROVE  /\ controls'[<<q, r>>] = s
         /\ \A a, b \in Peer : <<a, b>> # <<q, r>> => controls'[<<a, b>>] = controls[<<a, b>>]
         /\ \A a, b \in Peer : <<a, b>> # <<q, r>> =>
              Offers(a, b)' = Offers(a, b) /\ Ends(a, b)' = Ends(a, b)
<1>1. \A a, b \in Peer : <<a, b>> \in Pairs
  BY DEF Pairs
<1>2. /\ controls'[<<q, r>>] = s
      /\ \A a, b \in Peer : <<a, b>> # <<q, r>> => controls'[<<a, b>>] = controls[<<a, b>>]
  BY <1>1 DEF Typed, Turns
<1>3. QED
  BY <1>2 DEF Offers, Ends

LEMMA OneCall ==
  ASSUME Typed, NEW p \in Peer, NEW new, call' = [call EXCEPT ![p] = new]
  PROVE  call'[p] = new /\ \A q \in Peer \ {p} : call'[q] = call[q]
BY DEF Typed

LEMMA SameCall ==
  ASSUME NEW p \in Peer, Hung, call'[p] = call[p]
  PROVE  Follows(p) /\ Concludes(p) /\ Waits(call'[p])
BY DEF Follows, Concludes, Hung

(* A signal that is no offer and ends nothing is put in.                    *)
LEMMA PutIn ==
  ASSUME Shared, Hung, NEW p \in Peer, NEW q \in Peer, NEW m \in SignalRecord,
         m.until >= OfferTtl, m.kind = "offer" => m.id \notin Known,
         m.kind \in Ending =>
           Between(p, q, m.id) /\ Gone(q, p, m.id)' /\ (Has(q, m.id)' => call'[q].peer = p),
         controls'[<<p, q>>] = Append(controls[<<p, q>>], m)
  PROVE  Carries(p, q) /\ (m.kind \in Ending => Behind(controls'[<<p, q>>], m.id))
<1> DEFINE t == controls[<<p, q>>]
           s == Append(t, m)
<1>1. t \in Seq(SignalRecord) /\ Lasts(t)
  BY Found DEF Hung
<1>2. /\ \A kind : Ids(s, kind) \subseteq Ids(t, kind) \cup {m.id}
      /\ \A kind : m.kind # kind => Ids(s, kind) \subseteq Ids(t, kind)
      /\ Lasts(s)
      /\ \A x : Behind(t, x) /\ (m.kind = "offer" => m.id # x) => Behind(s, x)
      /\ m.kind \in Ending => Behind(s, m.id)
  <2> HIDE DEF t
  <2>1. QED
    BY <1>1, AppendFacts
<1>3. /\ Offers(p, q) = Ids(t, "offer") /\ Offers(p, q)' = Ids(s, "offer")
      /\ Ends(p, q) = Ids(t, "reject") \cup Ids(t, "end")
      /\ Ends(p, q)' = Ids(s, "reject") \cup Ids(s, "end")
  BY DEF Offers, Ends
<1>4. controls'[<<p, q>>] = s /\ controls[<<p, q>>] = t
  OBVIOUS
<1> HIDE DEF s, t
<1>5. Offers(p, q)' \cap Known \subseteq Offers(p, q)
  BY <1>2, <1>3
<1>6. \A x \in Known : Behind(t, x) => Behind(s, x)
  BY <1>2
<1>7. ASSUME NEW x \in Ends(p, q)', x \notin Ends(p, q)
      PROVE  x = m.id /\ m.kind \in Ending
  BY <1>2, <1>3, <1>7 DEF Ending
<1>8. QED
  BY <1>2, <1>4, <1>5, <1>6, <1>7 DEF Carries

(* The first signal from q to p is taken, and has had its effect if it ends *)
(* a call.                                                                  *)
LEMMA TakeOut ==
  ASSUME Shared, Hung, NEW p \in Peer, NEW q \in Peer, controls[<<q, p>>] # <<>>,
         \A x : First(q, p).kind \in Ending /\ First(q, p).id = x => ~Runs(p, x)',
         controls'[<<q, p>>] = Tail(controls[<<q, p>>])
  PROVE  Carries(q, p)
<1> DEFINE t == controls[<<q, p>>]
           s == Tail(t)
<1>1. t \in Seq(SignalRecord) /\ Lasts(t) /\ t # <<>>
  BY Found DEF Hung
<1>2. /\ \A kind : Ids(s, kind) \subseteq Ids(t, kind)
      /\ Lasts(s)
      /\ \A x : Behind(t, x) =>
           \/ Behind(s, x)
           \/ Head(t).kind \in Ending /\ Head(t).id = x /\ x \notin Ids(s, "offer")
  <2> HIDE DEF t
  <2>1. QED
    BY <1>1, TailFacts
<1>3. /\ Offers(q, p) = Ids(t, "offer") /\ Offers(q, p)' = Ids(s, "offer")
      /\ Ends(q, p) = Ids(t, "reject") \cup Ids(t, "end")
      /\ Ends(q, p)' = Ids(s, "reject") \cup Ids(s, "end")
      /\ First(q, p) = Head(t)
  BY DEF Offers, Ends, First
<1>4. controls'[<<q, p>>] = s /\ controls[<<q, p>>] = t
  OBVIOUS
<1> HIDE DEF s, t
<1>5. ASSUME NEW x, Behind(t, x), ~Behind(s, x) PROVE Gone(q, p, x)'
  BY <1>2, <1>3, <1>5 DEF Gone
<1>6. Offers(q, p)' \subseteq Offers(q, p) /\ Ends(q, p)' \subseteq Ends(q, p)
  BY <1>2, <1>3
<1>7. QED
  BY <1>2, <1>4, <1>5, <1>6 DEF Carries

LEMMA StartHangs ==
  ASSUME Shared, Hung, NEW p \in Peer, NEW q \in Peer, StartCall(p, q)
  PROVE  Hung'
<1>1. PICK id \in CallId \ {pair[1] : pair \in placed} :
        /\ placed' = placed \cup {<<id, p>>}
        /\ Becomes(p, Timed("outgoing", id, q, now + OfferTtl))
        /\ Signal(p, q, "offer", id)
  BY DEF StartCall
<1>2. Typed /\ now + OfferTtl \in Nat /\ now + OfferTtl >= OfferTtl
  <2>1. now + OfferTtl \in Nat /\ now \in Nat /\ OfferTtl \in Nat
    BY Found, CallAssumption
  <2>2. QED
    BY <2>1, Found
<1>3. PICK m : m = [kind |-> "offer", id |-> id, until |-> now + OfferTtl]
  OBVIOUS
<1>4. PICK new : new = Timed("outgoing", id, q, now + OfferTtl)
  OBVIOUS
<1>5. PICK s : s = Append(controls[<<p, q>>], m)
  OBVIOUS
<1>6. m \in SignalRecord /\ m.kind = "offer" /\ m.id \notin Known /\ m.until >= OfferTtl
  BY <1>2, <1>3 DEF SignalRecord, Known
<1>7. new.phase = "outgoing" /\ new.id \notin Known /\ new.until >= OfferTtl
  BY <1>2, <1>4 DEF Timed, Known
<1>8. call'[p] = new /\ \A r \in Peer \ {p} : call'[r] = call[r]
  BY <1>1, <1>2, <1>4, OneCall DEF Becomes
<1>9. Turns(p, q, s)
  BY <1>1, <1>3, <1>5 DEF Signal, Turns
<1>10. /\ controls'[<<p, q>>] = s
       /\ \A a, b \in Peer : <<a, b>> # <<p, q>> => controls'[<<a, b>>] = controls[<<a, b>>]
  BY <1>2, <1>9, OneChannel
<1>11. Carries(p, q)
  BY <1>5, <1>6, <1>10, PutIn DEF Ending
<1>12. Follows(p) /\ Concludes(p) /\ Waits(call'[p])
  BY <1>7, <1>8 DEF Follows, Concludes, Waits
<1>13. placed \subseteq placed'
  BY <1>1
<1>14. QED
  BY <1>8, <1>10, <1>11, <1>12, <1>13, StepHangs

(* A device is done with the call it ends, and says so to the other.       *)
LEMMA TerminateHangs ==
  ASSUME Shared, Hung, NEW p \in Peer, NEW kind \in {"reject", "end"}, NEW closed,
         IsLive(call[p]), Terminate(p, call[p], kind, closed)
  PROVE  Hung'
<1>1. /\ Typed /\ now + OfferTtl \in Nat /\ now \in Nat /\ OfferTtl \in Nat
      /\ call[p].phase # "idle" /\ call[p].id \in CallId /\ call[p].peer \in Peer
  BY Found, CallAssumption
<1>2. PICK q \in Peer, x \in CallId : call[p].peer = q /\ call[p].id = x /\ Has(p, x)
  BY <1>1 DEF Has
<1>3. PICK m : m = [kind |-> kind, id |-> x, until |-> now + OfferTtl]
  OBVIOUS
<1>4. PICK new : new = Ended(call[p])
  OBVIOUS
<1>5. PICK s : s = Append(controls[<<p, q>>], m)
  OBVIOUS
<1>6. m \in SignalRecord /\ m.kind \in Ending /\ m.id = x /\ m.until >= OfferTtl
  BY <1>1, <1>3 DEF SignalRecord, Ending
<1>7. new.phase = "ended" /\ new.id = x /\ new.peer = q
  BY <1>2, <1>4 DEF Ended, Untimed
<1>8. call' = [call EXCEPT ![p] = new] /\ placed' = placed
  BY <1>4 DEF Terminate, Becomes
<1>9. Turns(p, q, s)
  BY <1>2, <1>3, <1>5 DEF Terminate, Signal, Turns
<1>10. call'[p] = new /\ \A r \in Peer \ {p} : call'[r] = call[r]
  BY <1>1, <1>8, OneCall
<1>11. /\ controls'[<<p, q>>] = s
       /\ \A a, b \in Peer : <<a, b>> # <<p, q>> => /\ controls'[<<a, b>>] = controls[<<a, b>>]
                                                    /\ Offers(a, b)' = Offers(a, b)
  BY <1>1, <1>9, OneChannel
<1>12. /\ p # q /\ Between(p, q, x)
       /\ Has(q, x) => call[q].peer = p
       /\ x \notin Offers(q, p)
  BY <1>2, Partners DEF Shared
<1>13. ~Runs(p, x)'
  BY <1>7, <1>10 DEF Runs, IsLive, Live, Established
<1>14. Gone(q, p, x)' /\ (Has(q, x)' => call'[q].peer = p)
  BY <1>10, <1>11, <1>12, <1>13 DEF Gone, Has
<1>15. Carries(p, q) /\ Behind(controls'[<<p, q>>], x)
  BY <1>5, <1>6, <1>11, <1>12, <1>14, PutIn DEF Ending
<1>16. Over(p, q, x)'
  BY <1>15 DEF Over
<1>17. Follows(p)
  BY <1>2, <1>7, <1>10 DEF Follows, Has, IsLive, Live, Established
<1>18. Concludes(p) /\ Waits(call'[p])
  BY <1>7, <1>10, <1>16 DEF Concludes, Waits, Has
<1>19. QED
  BY <1>8, <1>10, <1>11, <1>15, <1>17, <1>18, StepHangs

LEMMA AnswerHangs ==
  ASSUME Shared, Hung, NEW p \in Peer, Answer(p, call[p])
  PROVE  Hung'
<1>1. call[p].phase = "incoming"
  BY DEF Answer, CanAnswer
<1>2. /\ Typed /\ now + OfferTtl \in Nat /\ now \in Nat /\ OfferTtl \in Nat
      /\ call[p].id \in CallId /\ call[p].peer \in Peer
  BY <1>1, Found, CallAssumption
<1>3. PICK q \in Peer : call[p].peer = q
  BY <1>2
<1>4. PICK m : m = [kind |-> "answer", id |-> call[p].id, until |-> now + OfferTtl]
  OBVIOUS
<1>5. PICK new : new = Untimed("connecting", call[p])
  OBVIOUS
<1>6. PICK s : s = Append(controls[<<p, q>>], m)
  OBVIOUS
<1>7. m \in SignalRecord /\ m.kind = "answer" /\ m.until >= OfferTtl
  BY <1>2, <1>4 DEF SignalRecord
<1>8. new.phase = "connecting" /\ new.id = call[p].id /\ new.peer = call[p].peer
  BY <1>5 DEF Untimed
<1>9. call' = [call EXCEPT ![p] = new] /\ placed' = placed
  BY <1>5 DEF Answer, Becomes
<1>10. Turns(p, q, s)
  BY <1>3, <1>4, <1>6 DEF Answer, Signal, Turns
<1>11. call'[p] = new /\ \A r \in Peer \ {p} : call'[r] = call[r]
  BY <1>2, <1>9, OneCall
<1>12. /\ controls'[<<p, q>>] = s
       /\ \A a, b \in Peer : <<a, b>> # <<p, q>> => controls'[<<a, b>>] = controls[<<a, b>>]
  BY <1>2, <1>10, OneChannel
<1>13. Carries(p, q)
  BY <1>6, <1>7, <1>12, PutIn DEF Ending
<1>14. Follows(p) /\ Concludes(p) /\ Waits(call'[p])
  BY <1>1, <1>8, <1>11 DEF Follows, Concludes, Waits, IsLive, Live
<1>15. QED
  BY <1>9, <1>11, <1>12, <1>13, <1>14, StepHangs

(* The connection of a call comes or goes.                                 *)
LEMMA NoticeHangs ==
  ASSUME Shared, Hung, NEW p \in Peer, OnAuthenticated(p) \/ OnDisconnected(p)
  PROVE  Hung'
<1>1. /\ Typed /\ now \in Nat /\ now + RetryTtl >= RetryTtl
      /\ call[p] \in Call
  BY Found, CallAssumption
<1>2. placed' = placed /\ controls' = controls
  BY DEF OnAuthenticated, OnDisconnected
<1>3. \/ call' = call
      \/ IsLive(call[p]) /\ \E new \in {Connected(call[p], now), Lost(call[p], now)} :
           call' = [call EXCEPT ![p] = new]
  BY DEF OnAuthenticated, OnDisconnected, Becomes
<1>4. CASE call' = call
  BY <1>2, <1>4, SameCall, StepHangs
<1>5. ASSUME IsLive(call[p]), NEW new, new = Connected(call[p], now) \/ new = Lost(call[p], now),
             call' = [call EXCEPT ![p] = new]
      PROVE  Hung'
  <2>1. call'[p] = new /\ \A r \in Peer \ {p} : call'[r] = call[r]
    BY <1>1, <1>5, OneCall
  <2>2. CASE new = call[p]
    BY <1>2, <2>1, <2>2, SameCall, StepHangs
  <2>3. CASE new # call[p]
    <3>1. /\ new.phase \in {"active", "reconnecting"}
          /\ new.id = call[p].id /\ new.peer = call[p].peer
          /\ new.phase = "reconnecting" => new.until = now + RetryTtl
      BY <1>5, <2>3 DEF Connected, Lost, Untimed, Timed
    <3>2. call[p].phase # "idle"
      BY <1>5 DEF IsLive, Live, Established
    <3>3. Follows(p) /\ Concludes(p) /\ Waits(call'[p])
      BY <1>1, <1>5, <2>1, <3>1, <3>2 DEF Follows, Concludes, Waits
    <3>4. QED
      BY <1>2, <2>1, <3>3, StepHangs
  <2>4. QED
    BY <2>2, <2>3
<1>6. QED
  BY <1>3, <1>4, <1>5

(* The end of a call comes from who is done with it.                       *)
LEMMA TerminationHangs ==
  ASSUME Shared, Hung, NEW p \in Peer, NEW q \in Peer, ReceiveTermination(p, q)
  PROVE  Hung'
<1>1. /\ controls[<<q, p>>] # <<>> /\ First(q, p).kind \in Ending
      /\ IsLive(call[p]) /\ call[p].id = First(q, p).id
      /\ call' = [call EXCEPT ![p] = Ended(call[p])] /\ placed' = placed
  BY DEF ReceiveTermination, Receives, AcceptsTermination, Becomes, Ending
<1>2. /\ Typed /\ call[p].phase # "idle" /\ call[p].id \in CallId /\ call[p].peer \in Peer
      /\ controls[<<q, p>>] \in Seq(SignalRecord)
  BY <1>1, Found
<1>3. PICK x \in CallId : call[p].id = x /\ Has(p, x)
  BY <1>2 DEF Has
<1>4. PICK new : new = Ended(call[p])
  OBVIOUS
<1>5. PICK s : s = Tail(controls[<<q, p>>])
  OBVIOUS
<1>6. x \in Ends(q, p)
  BY <1>1, <1>2, <1>3, TailFacts DEF First, Ends, Ending
<1>7. call[p].peer = q /\ Gone(p, q, x)
  BY <1>3, <1>6 DEF Hung
<1>8. p # q
  BY <1>3, <1>7, Partners DEF Shared
<1>9. new.phase = "ended" /\ new.id = x /\ new.peer = q
  BY <1>3, <1>4, <1>7 DEF Ended, Untimed
<1>10. call'[p] = new /\ \A r \in Peer \ {p} : call'[r] = call[r]
  BY <1>1, <1>2, <1>4, OneCall
<1>11. Turns(q, p, s)
  BY <1>5 DEF ReceiveTermination, Taken, Turns
<1>12. /\ controls'[<<q, p>>] = s
       /\ \A a, b \in Peer : <<a, b>> # <<q, p>> => /\ controls'[<<a, b>>] = controls[<<a, b>>]
                                                    /\ Offers(a, b)' = Offers(a, b)
  BY <1>2, <1>11, OneChannel
<1>13. \A y : ~Runs(p, y)'
  BY <1>9, <1>10 DEF Runs, IsLive, Live, Established
<1>14. Carries(q, p)
  BY <1>1, <1>5, <1>12, <1>13, TakeOut
<1>15. Gone(p, q, x)'
  BY <1>7, <1>8, <1>10, <1>12 DEF Gone, Runs
<1>16. Follows(p)
  BY <1>1, <1>2, <1>3, <1>7, <1>9, <1>10 DEF Follows
<1>17. Concludes(p) /\ Waits(call'[p])
  BY <1>9, <1>10, <1>15 DEF Concludes, Waits, Has, Over
<1>18. QED
  BY <1>1, <1>10, <1>12, <1>14, <1>16, <1>17, StepHangs

(* As long as nothing runs out, a signal is discarded only by a device for  *)
(* whose call it is not.                                                   *)
LEMMA DiscardHangs ==
  ASSUME Shared, Hung, Good, NEW p \in Peer, NEW q \in Peer, Discard(p, q)
  PROVE  Hung'
<1>1. /\ controls[<<q, p>>] # <<>> /\ call' = call /\ placed' = placed
  BY DEF Discard
<1>2. /\ Typed /\ now \in Nat /\ OfferTtl \in Nat
      /\ controls[<<q, p>>] \in Seq(SignalRecord)
  BY Found, CallAssumption
<1>3. PICK s : s = Tail(controls[<<q, p>>])
  OBVIOUS
<1>4. First(q, p).until >= OfferTtl /\ First(q, p).until \in Nat
  <2>1. First(q, p) \in SignalRecord /\ First(q, p).until >= OfferTtl
    BY <1>1, <1>2, TailFacts DEF Hung, First
  <2>2. QED
    BY <2>1 DEF SignalRecord
<1>5. First(q, p).kind \in Ending => ~AcceptsTermination(call[p], First(q, p).id)
  BY <1>2, <1>4 DEF Discard, Good, Ending
<1>6. Turns(q, p, s)
  BY <1>3 DEF Discard, Taken, Turns
<1>7. /\ controls'[<<q, p>>] = s
      /\ \A a, b \in Peer : <<a, b>> # <<q, p>> => controls'[<<a, b>>] = controls[<<a, b>>]
  BY <1>2, <1>6, OneChannel
<1>8. \A x : First(q, p).kind \in Ending /\ First(q, p).id = x => ~Runs(p, x)'
  BY <1>1, <1>5 DEF AcceptsTermination, Runs
<1>9. Carries(q, p)
  BY <1>1, <1>3, <1>7, <1>8, TakeOut
<1>10. QED
  BY <1>1, <1>7, <1>9, SameCall, StepHangs

LEMMA AnswerTakenHangs ==
  ASSUME Shared, Hung, NEW p \in Peer, NEW q \in Peer, ReceiveAnswer(p, q)
  PROVE  Hung'
<1>1. /\ controls[<<q, p>>] # <<>> /\ First(q, p).kind = "answer"
      /\ call[p].phase = "outgoing" /\ call[p].id = First(q, p).id
      /\ call' = [call EXCEPT ![p] = Untimed("connecting", [call[p] EXCEPT !.id = First(q, p).id])]
      /\ placed' = placed
  BY DEF ReceiveAnswer, Receives, AcceptsAnswer, Becomes
<1>2. Typed /\ call[p] \in Call
  BY Found
<1>3. PICK new : new = Untimed("connecting", [call[p] EXCEPT !.id = First(q, p).id])
  OBVIOUS
<1>4. PICK s : s = Tail(controls[<<q, p>>])
  OBVIOUS
<1>5. new.phase = "connecting" /\ new.id = call[p].id /\ new.peer = call[p].peer
  <2>1. call[p] \in [phase : {"outgoing", "incoming", "reconnecting"}, id : CallId,
                     peer : Peer, until : Nat]
    BY <1>1, <1>2 DEF Call, Idle
  <2>2. QED
    BY <1>1, <1>3, <2>1 DEF Untimed
<1>6. call'[p] = new /\ \A r \in Peer \ {p} : call'[r] = call[r]
  BY <1>1, <1>2, <1>3, OneCall
<1>7. Turns(q, p, s)
  BY <1>4 DEF ReceiveAnswer, Taken, Turns
<1>8. /\ controls'[<<q, p>>] = s
      /\ \A a, b \in Peer : <<a, b>> # <<q, p>> => controls'[<<a, b>>] = controls[<<a, b>>]
  BY <1>2, <1>7, OneChannel
<1>9. Carries(q, p)
  BY <1>1, <1>4, <1>8, TakeOut DEF Ending
<1>10. Follows(p) /\ Concludes(p) /\ Waits(call'[p])
  BY <1>1, <1>5, <1>6 DEF Follows, Concludes, Waits, IsLive, Live
<1>11. QED
  BY <1>1, <1>6, <1>8, <1>9, <1>10, StepHangs

(* An offer rings, or is rejected by who has another call.                 *)
LEMMA OfferHangs ==
  ASSUME Shared, Hung, NEW p \in Peer, NEW q \in Peer, ReceiveOffer(p, q)
  PROVE  Hung'
<1>1. /\ controls[<<q, p>>] # <<>> /\ First(q, p).kind = "offer" /\ placed' = placed
  BY DEF ReceiveOffer, Receives
<1>2. /\ Typed /\ now \in Nat /\ OfferTtl \in Nat /\ now + OfferTtl \in Nat
      /\ controls[<<q, p>>] \in Seq(SignalRecord)
      /\ controls[<<p, q>>] \in Seq(SignalRecord)
  BY Found, CallAssumption
<1>3. PICK offer : offer = First(q, p)
  OBVIOUS
<1>4. PICK s : s = Tail(controls[<<q, p>>])
  OBVIOUS
<1>5. PICK to, at, n : Story(to, at, n)
  BY DEF Shared
<1>6. /\ offer \in SignalRecord /\ offer.id \in CallId
      /\ offer.until >= OfferTtl /\ offer.kind = "offer"
      /\ offer.id \in Offers(q, p)
      /\ \A y \in Ids(s, "offer") : at[offer.id] < at[y]
  <2>1. Lasts(controls[<<q, p>>]) /\ InOrder(controls[<<q, p>>], at)
    BY <1>5 DEF Hung, Story
  <2>2. offer = Head(controls[<<q, p>>]) /\ offer.kind = "offer"
    BY <1>1, <1>3 DEF First
  <2>3. offer \in SignalRecord
    BY <1>1, <1>2, <2>2, TailFacts
  <2>4. offer.id \in CallId
    BY <2>3 DEF SignalRecord
  <2>5. QED
    BY <1>1, <1>2, <1>4, <2>1, <2>2, <2>3, <2>4, TailFacts DEF Offers
<1>7. /\ <<offer.id, q>> \in placed /\ to[offer.id] = p /\ at[offer.id] \in Nat
      /\ \A r : <<offer.id, r>> \in placed => r = q /\ to[offer.id] # r
      /\ p # q
  <2>1. <<offer.id, q>> \in placed /\ to[offer.id] = p
    BY <1>5, <1>6 DEF Story, Travelling
  <2>2. \A r : <<offer.id, r>> \in placed => r = q
    BY <1>5, <2>1, OnePlacer
  <2>3. at[offer.id] \in Nat /\ \A r : <<offer.id, r>> \in placed => to[offer.id] # r
    BY <1>5, <1>6 DEF Story, Placement
  <2>4. QED
    BY <2>1, <2>2, <2>3
<1>8. CASE AcceptsOffer(call[p], offer.id, q)
  <2>1. PICK new : new = Timed("incoming", offer.id, q, offer.until)
    OBVIOUS
  <2>2. call' = [call EXCEPT ![p] = new] /\ Turns(q, p, s)
    BY <1>3, <1>4, <1>8, <2>1 DEF ReceiveOffer, First, Becomes, Taken, Turns
  <2>3. new.phase = "incoming" /\ new.id = offer.id /\ new.peer = q /\ new.until = offer.until
    BY <2>1 DEF Timed
  <2>4. call'[p] = new /\ \A r \in Peer \ {p} : call'[r] = call[r]
    BY <1>2, <2>2, OneCall
  <2>5. /\ controls'[<<q, p>>] = s
        /\ \A a, b \in Peer : <<a, b>> # <<q, p>> => controls'[<<a, b>>] = controls[<<a, b>>]
    BY <1>2, <2>2, OneChannel
  <2>6. Carries(q, p)
    BY <1>1, <1>4, <2>5, TakeOut DEF Ending
  <2>7. Follows(p) /\ Concludes(p) /\ Waits(call'[p])
    BY <1>6, <2>3, <2>4 DEF Follows, Concludes, Waits
  <2>8. QED
    BY <1>1, <2>4, <2>5, <2>6, <2>7, StepHangs
<1>9. CASE ~AcceptsOffer(call[p], offer.id, q)
  <2>1. PICK m : m = [kind |-> "reject", id |-> offer.id, until |-> now + OfferTtl]
    OBVIOUS
  <2>2. /\ call' = call
        /\ controls' = [Taken(q, p) EXCEPT ![<<p, q>>] = Append(@, m)]
    BY <1>3, <1>9, <2>1 DEF ReceiveOffer, First
  <2>3. m \in SignalRecord /\ m.kind \in Ending /\ m.id = offer.id /\ m.until >= OfferTtl
    BY <1>2, <1>6, <2>1 DEF SignalRecord, Ending
  <2>4. /\ controls'[<<q, p>>] = s
        /\ controls'[<<p, q>>] = Append(controls[<<p, q>>], m)
        /\ \A a, b \in Peer : <<a, b>> # <<q, p>> /\ <<a, b>> # <<p, q>> =>
             controls'[<<a, b>>] = controls[<<a, b>>]
    <3>1. /\ <<q, p>> \in Pairs /\ <<p, q>> \in Pairs /\ <<q, p>> # <<p, q>>
          /\ \A a, b \in Peer : <<a, b>> \in Pairs
      BY <1>7 DEF Pairs
    <3>2. controls = [pair \in Pairs |-> controls[pair]]
      BY <1>2 DEF Typed
    <3>3. Taken(q, p) = [pair \in Pairs |-> IF pair = <<q, p>> THEN s ELSE controls[pair]]
      BY <1>4, <3>1, <3>2 DEF Taken
    <3>4. controls' = [pair \in Pairs |->
                         IF pair = <<p, q>> THEN Append(controls[<<p, q>>], m)
                         ELSE IF pair = <<q, p>> THEN s ELSE controls[pair]]
      BY <2>2, <3>1, <3>3
    <3>5. QED
      BY <3>1, <3>4
  <2>5. Carries(q, p)
    BY <1>1, <1>4, <2>4, TakeOut DEF Ending
  <2>6. ~Has(p, offer.id)
    <3>1. ASSUME Has(p, offer.id) PROVE at[offer.id] < at[offer.id]
      BY <1>5, <1>6, <1>7, <3>1 DEF Story, Heard
    <3>2. QED
      BY <1>7, <3>1
  <2>7. Gone(q, p, offer.id)'
    <3>1. offer.id \notin Ids(s, "offer")
      BY <1>6, <1>7
    <3>2. offer.id \notin Offers(q, p)'
      BY <2>4, <3>1 DEF Offers
    <3>3. ~Runs(p, offer.id)'
      BY <2>2, <2>6 DEF Runs, Has, IsLive, Live, Established
    <3>4. QED
      BY <3>2, <3>3 DEF Gone
  <2>8. Has(q, offer.id)' => call'[q].peer = p
    <3>1. Held(q, call[q], to)
      BY <1>5 DEF Story
    <3>2. QED
      BY <1>7, <2>2, <3>1 DEF Held, Has
  <2>9. Carries(p, q)
    BY <1>7, <2>3, <2>4, <2>7, <2>8, PutIn DEF Between, Ending
  <2>10. Follows(p) /\ Concludes(p) /\ Waits(call'[p])
    BY <2>2, SameCall
  <2>11. \A a, b \in Peer : Carries(a, b) \/ controls'[<<a, b>>] = controls[<<a, b>>]
    BY <2>4, <2>5, <2>9
  <2>12. QED
    BY <1>1, <2>2, <2>10, <2>11, StepHangs
<1>10. QED
  BY <1>8, <1>9

LEMMA StillHangs ==
  ASSUME Hung, UNCHANGED <<placed, call, controls>>
  PROVE  Hung'
BY ZenonT(40) DEF Hung, Waits, Lasts, Ends, Between, Gone, Has, Over, Offers, Runs

(* As long as nothing runs out, time acts on no call.                      *)
LEMMA NothingRunsOut ==
  ASSUME Shared, Hung, Good, NEW p \in Peer
  PROVE  ~TimedOut(call[p], now) /\ Ticked(call[p], now) = call[p]
<1>1. /\ call[p] \in Call /\ now \in Nat /\ OfferTtl \in Nat /\ RetryTtl \in Nat
  BY Found, CallAssumption
<1>2. call[p].phase \in {"outgoing", "incoming", "reconnecting"} => call[p].until \in Nat
  BY <1>1 DEF Call, Idle
<1>3. Waits(call[p])
  BY DEF Hung
<1>4. ~TimedOut(call[p], now)
  BY <1>1, <1>2, <1>3 DEF Waits, Good, TimedOut
<1>5. QED
  BY <1>4 DEF Ticked

LEMMA UserHangs ==
  ASSUME Shared, Hung, Good, NEW p \in Peer, User(p)
  PROVE  Hung'
<1>1. ~TimedOut(call[p], now) /\ Ticked(call[p], now) = call[p]
  BY NothingRunsOut
<1>2. CASE \E q \in Peer : StartCall(p, q)
  BY <1>2, StartHangs
<1>3. CASE AnswerCall(p) \/ \E id \in shown[p] : UserAnswered(p, id)
  BY <1>1, <1>3, AnswerHangs DEF AnswerCall, UserAnswered
<1>4. CASE RejectCall(p) \/ EndCall(p)
  <2>1. PICK kind \in {"reject", "end"} :
          IsLive(call[p]) /\ \E closed : Terminate(p, call[p], kind, closed)
    BY <1>1, <1>4 DEF RejectCall, EndCall, IsLive, Live
  <2>2. QED
    BY <2>1, TerminateHangs
<1>5. CASE \E id \in shown[p] : UserEnded(p, id)
  <2>1. PICK id \in shown[p] : UserEnded(p, id)
    BY <1>5
  <2>2. CASE IsLive(call[p])
    <3>1. Terminate(p, call[p], "end", {id, call[p].id})
      BY <2>1, <2>2 DEF UserEnded
    <3>2. QED
      BY <2>2, <3>1, TerminateHangs
  <2>3. CASE ~IsLive(call[p])
    BY <2>1, <2>3, StillHangs DEF UserEnded
  <2>4. QED
    BY <2>2, <2>3
<1>6. ~OtherCommand(p)
  BY <1>1 DEF OtherCommand
<1>7. QED
  BY <1>2, <1>3, <1>4, <1>5, <1>6 DEF User

(* Losses, restarts and time only grow.                                    *)
LEMMA GoodBefore ==
  ASSUME losses \in Nat, restarts \in Nat, now \in Nat, [Next]_vars
  PROVE  /\ losses' \in Nat /\ restarts' \in Nat
         /\ Good' => Good
         /\ \A p, q \in Peer : Restart(p) \/ LoseSignal(p, q) => ~Good'
<1>1. OfferTtl \in Nat /\ RetryTtl \in Nat
  BY CallAssumption
<1>2. /\ losses' \in {losses, losses + 1} /\ restarts' \in {restarts, restarts + 1}
      /\ now' \in {now, now + 1}
  <2>1. CASE UNCHANGED vars
    BY <2>1 DEF vars, bounds
  <2>2. CASE Advance
    BY <2>2 DEF Advance, bounds
  <2>3. CASE \E pair \in InRange : LinkUp(pair) \/ LinkDown(pair)
    BY <2>3 DEF LinkUp, LinkDown, bounds
  <2>4. ASSUME NEW p \in Peer, User(p)
        PROVE  UNCHANGED <<now, losses, restarts>>
    BY <2>4 DEF User, StartCall, AnswerCall, Answer, RejectCall, EndCall, Terminate,
                OtherCommand, UserAnswered, UserEnded, bounds
  <2>5. ASSUME NEW p \in Peer,
               SetRealtime(p) \/ OnAuthenticated(p) \/ OnDisconnected(p) \/ OnDataAvailable(p)
        PROVE  UNCHANGED <<now, losses, restarts>>
    BY <2>5 DEF SetRealtime, OnAuthenticated, OnDisconnected, OnDataAvailable, bounds
  <2>6. ASSUME NEW p \in Peer, NEW q \in Peer, Deliver(p, q)
        PROVE  UNCHANGED <<now, losses, restarts>>
    BY <2>6 DEF Deliver, ReceiveOffer, ReceiveAnswer, ReceiveTermination, Discard, bounds
  <2>7. ASSUME NEW p \in Peer, NEW q \in Peer, Restart(p) \/ LoseSignal(p, q)
        PROVE  /\ losses' \in {losses, losses + 1} /\ restarts' \in {restarts, restarts + 1}
               /\ now' = now
    BY <2>7 DEF Restart, LoseSignal
  <2>8. QED
    BY <2>1, <2>2, <2>3, <2>4, <2>5, <2>6, <2>7 DEF Next
<1>3. Good' => Good
  BY <1>1, <1>2 DEF Good
<1>4. ASSUME NEW p \in Peer, NEW q \in Peer, Restart(p) \/ LoseSignal(p, q)
      PROVE  ~Good'
  BY <1>4 DEF Restart, LoseSignal, Good
<1>5. QED
  BY <1>2, <1>3, <1>4

LEMMA NextHangUps == HangUps /\ [Next]_vars => HangUps'
<1> SUFFICES ASSUME HangUps, [Next]_vars PROVE HangUps'
  OBVIOUS
<1>1. Shared /\ Shared' /\ now \in Nat
  BY NextShared DEF HangUps, Shared, Typed
<1>2. /\ losses' \in Nat /\ restarts' \in Nat /\ (Good' => Good)
      /\ \A p, q \in Peer : Restart(p) \/ LoseSignal(p, q) => ~Good'
  BY <1>1, GoodBefore DEF HangUps
<1>3. ASSUME Good' PROVE Hung'
  <2>1. Good /\ Hung
    BY <1>2, <1>3 DEF HangUps
  <2>2. CASE UNCHANGED vars
    BY <2>1, <2>2, StillHangs DEF vars, core
  <2>3. CASE Advance \/ \E pair \in InRange : LinkUp(pair) \/ LinkDown(pair)
    BY <2>1, <2>3, StillHangs DEF Advance, LinkUp, LinkDown, core
  <2>4. ASSUME NEW p \in Peer, User(p) PROVE Hung'
    BY <1>1, <2>1, <2>4, UserHangs
  <2>5. ASSUME NEW p \in Peer, SetRealtime(p) \/ OnDataAvailable(p) PROVE Hung'
    BY <2>1, <2>5, StillHangs DEF SetRealtime, OnDataAvailable, core
  <2>6. ASSUME NEW p \in Peer, OnAuthenticated(p) \/ OnDisconnected(p) PROVE Hung'
    BY <1>1, <2>1, <2>6, NoticeHangs
  <2>7. ASSUME NEW p \in Peer, NEW q \in Peer, Deliver(p, q) PROVE Hung'
    BY <1>1, <2>1, <2>7, OfferHangs, AnswerTakenHangs, TerminationHangs, DiscardHangs
       DEF Deliver
  <2>8. \A p, q \in Peer : ~Restart(p) /\ ~LoseSignal(p, q)
    BY <1>2, <1>3
  <2>9. QED
    BY <2>2, <2>3, <2>4, <2>5, <2>6, <2>7, <2>8 DEF Next
<1>4. QED
  BY <1>1, <1>2, <1>3 DEF HangUps

LEMMA InitHangUps == Init => HangUps
<1> SUFFICES ASSUME Init PROVE HangUps
  OBVIOUS
<1>1. Shared /\ losses \in Nat /\ restarts \in Nat
  BY InitShared DEF Init
<1>2. /\ \A p \in Peer : call[p].phase = "idle"
      /\ \A p, q \in Peer : controls[<<p, q>>] = <<>>
  BY DEF Init, Idle, Pairs
<1>3. \A kind : Ids(<<>>, kind) = {}
  BY DEF Ids
<1>4. Hung
  BY <1>2, <1>3 DEF Hung, Waits, Lasts, Ends
<1>5. QED
  BY <1>1, <1>4 DEF HangUps

(* While no signal was lost and no time has run out, a call that is over on *)
(* one side is over on the other once that side has had the signals,        *)
(* whatever offers crossed, in whatever phase either side was, and whatever *)
(* connections came and went.                                              *)
THEOREM HangUpsArrive == Spec => []HangUpReachesPeer
<1>1. HangUps => HangUpReachesPeer
  <2>1. CASE Good
    BY <2>1, HungGives DEF HangUps, Shared
  <2>2. CASE ~Good
    BY <2>2 DEF Good, HangUpReachesPeer
  <2>3. QED
    BY <2>1, <2>2
<1>2. QED
  BY <1>1, InitHangUps, NextHangUps, PTL DEF Spec
============================================================================
