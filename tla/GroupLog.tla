------------------------------ MODULE GroupLog ------------------------------
(***************************************************************************)
(* What replication promises to the rest of the program, without saying     *)
(* how: members of a group hold growing sets of immutable events, every     *)
(* event starts at its sender, copies only ever spread, and a member may    *)
(* believe that an event reached a target only when it did.                 *)
(* TripSync and AntiEntropy implement this specification.                   *)
(***************************************************************************)
EXTENDS EventStore

VARIABLES
  held,       \* held[p]: the events member p has on disk
  confirmed   \* confirmed[p]: the pairs <<slot, target>> p believes delivered

vars == <<held, confirmed>>

Everything == UNION {held[p] : p \in Peer}

Init ==
  /\ held = [p \in Peer |-> {}]
  /\ confirmed = [p \in Peer |-> {}]

(* A sender adds one event under a slot nobody has ever seen.              *)
Publish(p) ==
  \E event \in held'[p] \ held[p] :
    /\ event \in Event
    /\ event.sender = p
    /\ Id(event) \notin Ids(Everything)
    /\ held' = [held EXCEPT ![p] = @ \cup {event}]
    /\ UNCHANGED confirmed

(* Copies and confirmations travel, by whatever route.                     *)
Spread ==
  /\ held' \in [Peer -> SUBSET Everything]
  /\ confirmed' \in [Peer -> SUBSET (Ids(Everything) \X Peer)]
  /\ \A p \in Peer :
       /\ held[p] \subseteq held'[p]
       /\ confirmed[p] \subseteq confirmed'[p]
       /\ \A pair \in confirmed'[p] \ confirmed[p] :
            \E event \in held'[pair[2]] :
              Id(event) = pair[1] /\ pair[2] \in event.targets

Next == Spread \/ \E p \in Peer : Publish(p)

Spec == Init /\ [][Next]_vars

============================================================================
