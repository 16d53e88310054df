-------------------------- MODULE MCGroupAdmission --------------------------
(* Small instances of GroupAdmission for TLC.                               *)
EXTENDS GroupAdmission

Two == {1, 2}
Three == {1, 2, 3}

(* Of three devices, 2 invites 1 and 1 invites 3: the shortest way into      *)
(* another group while one's own has joiners.                                *)
Ring == met \subseteq {<<2, 1>>, <<1, 3>>}

(* What users publish and what goes wrong, together.                        *)
Bounds == issued.notes + faults <= 2
============================================================================
