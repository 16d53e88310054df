-------------------------- MODULE MCPrecisionLocate --------------------------
(* Small instances of PrecisionLocate for TLC.                               *)
EXTENDS PrecisionLocate

Two == {1, 2}
TwoIds == {1, 2}
=============================================================================
