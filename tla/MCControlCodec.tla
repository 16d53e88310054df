--------------------------- MODULE MCControlCodec ----------------------------
(* Small instances of ControlCodec for TLC.                                  *)
EXTENDS ControlCodec

Two == {1, 2}
TwoIds == {1, 2}
UpToOne == {0, 1}
OneAndTwo == <<1, 2>>
=============================================================================
