---------------------------- MODULE MCTripViews -----------------------------
(* Small instances of TripViews for TLC.                                     *)
EXTENDS TripViews

Two == {1, 2}
All == {"places", "chats", "document"}
UpToOne == {0, 1}

(* What users do and what goes wrong, together.                              *)
Bounds == issued + past.faults <= MaxEvents
=============================================================================
