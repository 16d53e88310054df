--------------------------- MODULE PeerTransport ---------------------------
(***************************************************************************)
(* How two devices come to share one authenticated connection: the actor    *)
(* over Network.framework (PeerTransportApple.swift), the Rust runtime over *)
(* it (modules/peer-transport), and the two maps the core keeps of it.      *)
(*                                                                          *)
(* The actor carries out commands in order and reports events in order; the *)
(* runtime handles one event at a time and tells the core of it, for which  *)
(* it may have to wait for the core's lock.  Starting discovery reaches the *)
(* runtime at once and the actor as a command.                              *)
(*                                                                          *)
(* A connection is <<p, q, n>>, the n-th that p dialled to q, and stands    *)
(* for the handles of both its ends, which are never used again.  Of the    *)
(* frames only the hellos are modelled: who they name is the other end.     *)
(***************************************************************************)
EXTENDS Integers, Sequences, SequencesExt

CONSTANTS
  Peer,         \* the devices, numbered in the order of their peer ids
  MaxDials,     \* bound on the connections one device dials to another
  MaxResets,    \* bound on stops, repeated starts and changes of class
  MaxDrops      \* bound on connections that fail

ASSUME PeerAssumption == Peer \subseteq Nat /\ IsFiniteSet(Peer)
ASSUME BoundAssumption ==
  {MaxDials, MaxResets, MaxDrops} \subseteq Nat

VARIABLES
  running,        \* running[p]: p's actor publishes and browses
  news,           \* news[p]: services have changed since p's browser reported
  keys,           \* keys[p]: endpointKeys, the peers p does not dial again
  found,          \* found[p]: discoveredEndpointKeys
  table,          \* table[p]: connectionsByHandle
  tasks,          \* tasks[p]: the connections whose task has not ended
  cancelled,      \* cancelled[p]: those whose task is cancelled
  retries,        \* retries[p]: the peers p will dial again after a second
  dials,          \* dials[<<p, q>>]: connections p has dialled to q
  accepted,       \* connections q's listener has accepted
  failed,         \* connections that have failed
  hellos,         \* pairs <<c, p>>: p's hello on its way over c
  events,         \* events[p]: from p's actor to its runtime, in order
  commands,       \* commands[p]: from p's runtime to its actor, in order
  configured,     \* configured[p]: p's runtime has a configuration
  sessions,       \* sessions[p]: the connections p's runtime knows
  authenticated,  \* authenticated[p]: those whose hello it has accepted
  current,        \* current[p][q]: connections_by_peer
  telling,        \* telling[p]: what p's runtime is about to tell its core
  connection,     \* connection[p][q]: transport_connections of p's core
  known,          \* known[p]: the keys of its transport_peers
  starts,         \* starts[p]: how often p has started discovery
  resets, drops   \* how often each has happened

native  == <<running, news, keys, found, table, tasks, cancelled, retries>>
network == <<dials, accepted, failed, hellos>>
runtime == <<configured, sessions, authenticated, current>>
core    == <<connection, known>>
bounds  == <<starts, resets, drops>>
vars    == <<native, network, events, commands, runtime, telling, core, bounds>>

Connection == Peer \X Peer \X Nat
None == <<>>

Other(c, p) == IF c[1] = p THEN c[2] ELSE c[1]

Notice(kind, c) == [kind |-> kind, connection |-> c]
Stopped == [kind |-> "discoveryStopped"]
Silence == [kind |-> "nothing"]

Command(kind, c) == [kind |-> kind, connection |-> c]
Order(kind) == [kind |-> kind]

(* A report of the given kind for each connection.                          *)
Notices(kind, cs) == SetToSeq({Notice(kind, c) : c \in cs})

Emits(p, list) == events' = [events EXCEPT ![p] = @ \o list]

Asks(p, command) == commands' = [commands EXCEPT ![p] = Append(@, command)]

Nobody == [q \in Peer |-> None]

Init ==
  /\ running = [p \in Peer |-> FALSE]
  /\ news = [p \in Peer |-> FALSE]
  /\ keys = [p \in Peer |-> {}]
  /\ found = [p \in Peer |-> {}]
  /\ table = [p \in Peer |-> {}]
  /\ tasks = [p \in Peer |-> {}]
  /\ cancelled = [p \in Peer |-> {}]
  /\ retries = [p \in Peer |-> {}]
  /\ dials = [pair \in Peer \X Peer |-> 0]
  /\ accepted = {}
  /\ failed = {}
  /\ hellos = {}
  /\ events = [p \in Peer |-> <<>>]
  /\ commands = [p \in Peer |-> <<>>]
  /\ configured = [p \in Peer |-> FALSE]
  /\ sessions = [p \in Peer |-> {}]
  /\ authenticated = [p \in Peer |-> {}]
  /\ current = [p \in Peer |-> Nobody]
  /\ telling = [p \in Peer |-> Silence]
  /\ connection = [p \in Peer |-> Nobody]
  /\ known = [p \in Peer |-> {}]
  /\ starts = [p \in Peer |-> 0]
  /\ resets = 0 /\ drops = 0

----------------------------------------------------------------------------
(* What the core asks for *)

CountReset ==
  /\ resets < MaxResets
  /\ resets' = resets + 1

(* start_transport_if_ready, called when travel starts, when a key is       *)
(* loaded, and for every dataAvailable control.  The runtime forgets its    *)
(* sessions at once.                                                        *)
StartDiscovery(p) ==
  /\ IF starts[p] = 0 THEN UNCHANGED resets ELSE CountReset
  /\ starts' = [starts EXCEPT ![p] = @ + 1]
  /\ configured' = [configured EXCEPT ![p] = TRUE]
  /\ sessions' = [sessions EXCEPT ![p] = {}]
  /\ authenticated' = [authenticated EXCEPT ![p] = {}]
  /\ current' = [current EXCEPT ![p] = Nobody]
  /\ Asks(p, Order("startDiscovery"))
  /\ UNCHANGED <<native, network, events, telling, core, drops>>

(* end_travel, and leaving a group: the core forgets its connections.      *)
StopDiscovery(p) ==
  /\ CountReset
  /\ connection' = [connection EXCEPT ![p] = Nobody]
  /\ known' = [known EXCEPT ![p] = {}]
  /\ Asks(p, Order("stopDiscovery"))
  /\ UNCHANGED <<native, network, events, runtime, telling, starts, drops>>

(* A SetRealtime that changes the traffic class.                           *)
SetRealtime(p) ==
  /\ CountReset
  /\ Asks(p, Order("setRealtime"))
  /\ UNCHANGED <<native, network, events, runtime, telling, core, starts,
                 drops>>

----------------------------------------------------------------------------
(* The actor: commands *)

Takes(p, kind) ==
  /\ commands[p] # <<>>
  /\ Head(commands[p]).kind = kind
  /\ commands' = [commands EXCEPT ![p] = Tail(@)]

(* resetNetworkTasks, and whether listener and browser start again.  Tasks  *)
(* are cancelled, but end later; the services of p change for everyone.     *)
Reset(p, again, last) ==
  /\ Emits(p, Notices("disconnected", table[p]) \o last)
  /\ running' = [running EXCEPT ![p] = again]
  /\ news' = [q \in Peer |-> q # p \/ again]
  /\ keys' = [keys EXCEPT ![p] = {}]
  /\ found' = [found EXCEPT ![p] = {}]
  /\ table' = [table EXCEPT ![p] = {}]
  /\ cancelled' = [cancelled EXCEPT ![p] = tasks[p]]
  /\ UNCHANGED <<tasks, retries, network, runtime, telling, core, bounds>>

RunStart(p) == Takes(p, "startDiscovery") /\ Reset(p, TRUE, <<>>)

RunStop(p) == Takes(p, "stopDiscovery") /\ Reset(p, FALSE, <<Stopped>>)

RunSetRealtime(p) ==
  /\ Takes(p, "setRealtime")
  /\ IF running[p] THEN Reset(p, TRUE, <<>>)
     ELSE UNCHANGED <<native, network, events, runtime, telling, core, bounds>>

RunDisconnect(p) ==
  /\ Takes(p, "disconnect")
  /\ cancelled' = [cancelled EXCEPT
                    ![p] = @ \cup ({Head(commands[p]).connection} \cap table[p])]
  /\ UNCHANGED <<running, news, keys, found, table, tasks, retries, network,
                 events, runtime, telling, core, bounds>>

RunSendHello(p) ==
  /\ Takes(p, "hello")
  /\ LET c == Head(commands[p]).connection
     IN  hellos' = hellos \cup ({c} \cap table[p]) \X {p}
  /\ UNCHANGED <<native, dials, accepted, failed, events, runtime, telling, core,
                 bounds>>

----------------------------------------------------------------------------
(* The actor: services and connections *)

NextDial(p, q) == <<p, q, dials[<<p, q>>] + 1>>

(* connect, for each of peers whose endpoint has no key yet.               *)
Dials(p, peers) ==
  LET dialled == peers \ keys[p]
      opened  == {NextDial(p, q) : q \in dialled}
  IN  /\ \A q \in dialled : dials[<<p, q>>] < MaxDials
      /\ dials' = [pair \in Peer \X Peer |->
                    IF pair[1] = p /\ pair[2] \in dialled
                      THEN dials[pair] + 1 ELSE dials[pair]]
      /\ keys' = [keys EXCEPT ![p] = @ \cup dialled]
      /\ tasks' = [tasks EXCEPT ![p] = @ \cup opened]
      /\ table' = [table EXCEPT ![p] = @ \cup opened]
      /\ Emits(p, Notices("opened", opened))
      /\ UNCHANGED <<running, cancelled, accepted, failed, hellos, commands,
                     runtime, telling, core, bounds>>

(* discovered: the browser reports the services there are now.             *)
Discover(p) ==
  /\ running[p] /\ news[p]
  /\ news' = [news EXCEPT ![p] = FALSE]
  /\ found' = [found EXCEPT ![p] = {q \in Peer \ {p} : running[q]}]
  /\ Dials(p, {q \in found'[p] : p < q})
  /\ UNCHANGED retries

(* retry, a second after a connection p had dialled failed.                *)
Retry(p, q) ==
  /\ q \in retries[p]
  /\ retries' = [retries EXCEPT ![p] = @ \ {q}]
  /\ Dials(p, IF running[p] /\ q \in found[p] THEN {q} ELSE {})
  /\ UNCHANGED <<news, found>>

(* The listener of the other side accepts a connection.                    *)
Accept(c) ==
  /\ c \in tasks[c[1]] \ (accepted \cup failed)
  /\ running[c[2]]
  /\ accepted' = accepted \cup {c}
  /\ tasks' = [tasks EXCEPT ![c[2]] = @ \cup {c}]
  /\ table' = [table EXCEPT ![c[2]] = @ \cup {c}]
  /\ Emits(c[2], <<Notice("opened", c)>>)
  /\ UNCHANGED <<running, news, keys, found, cancelled, retries, dials, failed,
                 hellos, commands, runtime, telling, core, bounds>>

Deliver(p, c) ==
  /\ c \in table[p] \ (cancelled[p] \cup failed)
  /\ c \in accepted
  /\ <<c, Other(c, p)>> \in hellos
  /\ hellos' = hellos \ {<<c, Other(c, p)>>}
  /\ Emits(p, <<Notice("hello", c)>>)
  /\ UNCHANGED <<native, dials, accepted, failed, commands, runtime, telling,
                 core, bounds>>

(* A connection fails under both its ends.                                  *)
Drop(c) ==
  /\ drops < MaxDrops
  /\ c \notin failed
  /\ failed' = failed \cup {c}
  /\ drops' = drops + 1
  /\ UNCHANGED <<native, dials, accepted, hellos, events, commands, runtime,
                 telling, core, starts, resets>>

(* The other end has ended, which may show as an error or not.             *)
Closed(p, c) ==
  /\ c \notin tasks[Other(c, p)]
  /\ p = c[2] \/ c \in accepted

(* The connection fails, or nobody listens at its other end.               *)
Fails(p, c) ==
  \/ c \in failed
  \/ p = c[1] /\ c \notin accepted /\ ~running[c[2]]

(* Variant: the key of an endpoint stays.                                   *)
KeysKept(p, c) == keys[p]

(* remove: the key of the endpoint goes, whichever connection set it.       *)
KeysAfter(p, c) == IF c[1] = p THEN keys[p] \ {c[2]} ELSE keys[p]

(* handle comes to its end, and remove.  An outbound connection that ends   *)
(* with an error is dialled again.                                          *)
EndTask(p, c) ==
  /\ c \in tasks[p]
  /\ \E error \in BOOLEAN :
       /\ error  => Fails(p, c) \/ Closed(p, c)
       /\ ~error => c \in cancelled[p] \/ (Closed(p, c) /\ c \notin failed)
       /\ retries' = [retries EXCEPT
                       ![p] = IF error /\ c[1] = p THEN @ \cup {c[2]} ELSE @]
  /\ tasks' = [tasks EXCEPT ![p] = @ \ {c}]
  /\ cancelled' = [cancelled EXCEPT ![p] = @ \ {c}]
  /\ table' = [table EXCEPT ![p] = @ \ {c}]
  /\ keys' = [keys EXCEPT ![p] = KeysAfter(p, c)]
  /\ Emits(p, Notices("disconnected", {c} \cap table[p]))
  /\ UNCHANGED <<running, news, found, network, commands, runtime, telling, core,
                 bounds>>

----------------------------------------------------------------------------
(* The runtime: handle_backend_event *)

Hears(p, kind) ==
  /\ telling[p] = Silence
  /\ events[p] # <<>>
  /\ Head(events[p]).kind = kind
  /\ events' = [events EXCEPT ![p] = Tail(@)]

Heard(p) == Head(events[p]).connection

(* open_connection: a session, and a hello; without a configuration the     *)
(* connection is rejected.                                                  *)
OnOpened(p) ==
  /\ Hears(p, "opened")
  /\ IF configured[p]
       THEN /\ sessions' = [sessions EXCEPT ![p] = @ \cup {Heard(p)}]
            /\ Asks(p, Command("hello", Heard(p)))
       ELSE /\ UNCHANGED sessions
            /\ Asks(p, Command("disconnect", Heard(p)))
  /\ UNCHANGED <<native, network, configured, authenticated, current, telling,
                 core, bounds>>

(* Variant: the connection it replaces is left open.                        *)
Keeps(p, c) == UNCHANGED commands

(* The connection the new one replaces is given up.                        *)
Replaces(p, c) ==
  IF current[p][Other(c, p)] \in {None, c} THEN UNCHANGED commands
  ELSE Asks(p, Command("disconnect", current[p][Other(c, p)]))

(* receive_frame of a hello: the session is authenticated and becomes the   *)
(* current one.  Without a session the connection is rejected.              *)
OnHello(p) ==
  /\ Hears(p, "hello")
  /\ LET c == Heard(p)
     IN  IF configured[p] /\ c \in sessions[p]
           THEN /\ authenticated' = [authenticated EXCEPT ![p] = @ \cup {c}]
                /\ current' = [current EXCEPT ![p][Other(c, p)] = c]
                /\ Replaces(p, c)
                /\ telling' = [telling EXCEPT ![p] = Notice("authenticated", c)]
           ELSE /\ Asks(p, Command("disconnect", c))
                /\ UNCHANGED <<authenticated, current, telling>>
  /\ UNCHANGED <<native, network, configured, sessions, core, bounds>>

IsCurrent(p, c) == c \in authenticated[p] /\ current[p][Other(c, p)] = c

(* Variant: the end of every authenticated connection is told.             *)
TellsAnyEnd(p, c) == c \in authenticated[p]

(* Only the end of the current connection is told.                         *)
TellsEnd(p, c) == IsCurrent(p, c)

(* The event Disconnected, with remove_connection.                         *)
OnDisconnected(p) ==
  /\ Hears(p, "disconnected")
  /\ LET c == Heard(p)
     IN  /\ sessions' = [sessions EXCEPT ![p] = @ \ {c}]
         /\ authenticated' = [authenticated EXCEPT ![p] = @ \ {c}]
         /\ current' = IF IsCurrent(p, c)
                         THEN [current EXCEPT ![p][Other(c, p)] = None]
                         ELSE current
         /\ telling' = IF TellsEnd(p, c)
                         THEN [telling EXCEPT ![p] = Notice("disconnected", c)]
                         ELSE telling
  /\ UNCHANGED <<native, network, commands, configured, core, bounds>>

(* DiscoveryStopped takes the configuration away, also a newer one.        *)
OnStopped(p) ==
  /\ Hears(p, "discoveryStopped")
  /\ configured' = [configured EXCEPT ![p] = FALSE]
  /\ sessions' = [sessions EXCEPT ![p] = {}]
  /\ authenticated' = [authenticated EXCEPT ![p] = {}]
  /\ current' = [current EXCEPT ![p] = Nobody]
  /\ UNCHANGED <<native, network, commands, telling, core, bounds>>

----------------------------------------------------------------------------
(* The core: on_transport *)

Tells(p, kind) ==
  /\ telling[p].kind = kind
  /\ telling' = [telling EXCEPT ![p] = Silence]
  /\ UNCHANGED <<native, network, events, commands, runtime, bounds>>

ToldAuthenticated(p) ==
  /\ Tells(p, "authenticated")
  /\ LET c == telling[p].connection
     IN  /\ connection' = [connection EXCEPT ![p][Other(c, p)] = c]
         /\ known' = [known EXCEPT ![p] = @ \cup {c}]

(* The core forgets the peer's connection, whichever handle it has.        *)
ToldDisconnected(p) ==
  /\ Tells(p, "disconnected")
  /\ LET c == telling[p].connection
     IN  /\ connection' = IF c \in known[p]
                            THEN [connection EXCEPT ![p][Other(c, p)] = None]
                            ELSE connection
         /\ known' = [known EXCEPT ![p] = @ \ {c}]

----------------------------------------------------------------------------

Connections == UNION {tasks[p] : p \in Peer}

Actor(p) ==
  \/ RunStart(p) \/ RunStop(p) \/ RunSetRealtime(p)
  \/ RunDisconnect(p) \/ RunSendHello(p)

Runtime(p) ==
  \/ OnOpened(p) \/ OnHello(p) \/ OnDisconnected(p) \/ OnStopped(p)
  \/ ToldAuthenticated(p) \/ ToldDisconnected(p)

Next ==
  \/ \E p \in Peer :
       \/ StartDiscovery(p) \/ StopDiscovery(p) \/ SetRealtime(p)
       \/ Actor(p) \/ Runtime(p) \/ Discover(p)
       \/ \E q \in Peer : Retry(p, q)
       \/ \E c \in tasks[p] : Deliver(p, c) \/ EndTask(p, c)
  \/ \E c \in Connections : Accept(c) \/ Drop(c)

Spec == Init /\ [][Next]_vars

(* Commands and events are handled, sleeps end, frames of live connections  *)
(* arrive, and browsers and listeners notice what is there.  Users, radios  *)
(* and changes of class owe nothing.                                        *)
Fairness ==
  \A p \in Peer :
    /\ WF_vars(Actor(p)) /\ WF_vars(Runtime(p)) /\ WF_vars(Discover(p))
    /\ \A q \in Peer : WF_vars(Retry(p, q))
    /\ WF_vars(\E c \in tasks[p] : Deliver(p, c))
    /\ WF_vars(\E c \in tasks[p] : EndTask(p, c))
    /\ WF_vars(\E c \in tasks[p] : c[1] = p /\ Accept(c))

FairSpec == Spec /\ Fairness

----------------------------------------------------------------------------
(* Properties *)

Report ==
  [kind : {"opened", "hello", "authenticated", "disconnected"}, connection : Connection]
  \cup {Stopped, Silence}

Request ==
  [kind : {"hello", "disconnect"}, connection : Connection]
  \cup {Order(kind) : kind \in {"startDiscovery", "stopDiscovery", "setRealtime"}}

Links == [Peer -> [Peer -> Connection \cup {None}]]

(* The type of every variable of a device and of the network.              *)
TypeOK ==
  /\ {running, news, configured} \subseteq [Peer -> BOOLEAN]
  /\ {keys, found, retries} \subseteq [Peer -> SUBSET Peer]
  /\ {table, tasks, cancelled, sessions, authenticated, known}
       \subseteq [Peer -> SUBSET Connection]
  /\ dials \in [Peer \X Peer -> Nat]
  /\ accepted \subseteq Connection /\ failed \subseteq Connection
  /\ hellos \subseteq Connection \X Peer
  /\ events \in [Peer -> Seq(Report)]
  /\ commands \in [Peer -> Seq(Request)]
  /\ {current, connection} \subseteq Links
  /\ telling \in [Peer -> Report]
  /\ starts \in [Peer -> Nat]
  /\ {resets, drops} \subseteq Nat

(* Nothing is under way: no command, event or hello, no task about to end, *)
(* no dial unanswered.                                                      *)
AtRest ==
  /\ \A p \in Peer :
       /\ events[p] = <<>> /\ commands[p] = <<>> /\ telling[p] = Silence
       /\ cancelled[p] = {}
       /\ \A c \in tasks[p] : c \in tasks[Other(c, p)] \ failed
  /\ \A c \in Connections, p \in Peer : <<c, p>> \notin hellos

(* Every variable keeps its type, and at rest two devices keep at most one  *)
(* connection, which is the current one of both: whichever side saw which of *)
(* two dials first, both settle for the same.                               *)
OneConnection ==
  /\ TypeOK
  /\ AtRest => \A p \in Peer : \A c \in tasks[p] :
                 current[p][Other(c, p)] = c

(* At rest the core has the connection its runtime has: frames go where the *)
(* runtime takes them.  Only after discovery was started again may it still *)
(* have a connection where the runtime has none.                            *)
CoreKnows ==
  AtRest => \A p, q \in Peer :
    connection[p][q] # current[p][q] => starts[p] > 1 /\ current[p][q] = None

(* Two devices that run and lose a connection now and then finally have one *)
(* again, and both cores know it.                                           *)
Reconnect ==
  (\A p \in Peer : <>(starts[p] = 1)) =>
    <>[](\A p, q \in Peer : p # q =>
           connection[p][q] \in tasks[p] /\ connection[q][p] = connection[p][q])

============================================================================
