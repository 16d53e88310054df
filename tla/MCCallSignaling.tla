-------------------------- MODULE MCCallSignaling --------------------------
(* Small instances of CallSignaling for TLC.                                *)
EXTENDS CallSignaling, FiniteSets

Two == {1, 2}

Everyone == {pair \in SUBSET Peer : Cardinality(pair) = 2}

OneCall == {1}
TwoCalls == {1, 2}

(* One call while a connection breaks or a hint resets the transport; or two *)
(* calls, a lost signal and a restart while there is no connection.          *)
Apart ==
  \/ /\ losses = 0 /\ restarts = 0 /\ drops + hints <= 1
     /\ placed \subseteq OneCall \X Peer
  \/ /\ drops = 0 /\ hints = 0 /\ links = {}
     /\ \A p \in Peer : connected[p] = {} /\ notices[p] = <<>>
============================================================================
