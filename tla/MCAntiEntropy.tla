--------------------------- MODULE MCAntiEntropy ---------------------------
(* A chain of four devices for TLC: the ends meet only through relays.      *)
EXTENDS AntiEntropy

Four == {1, 2, 3, 4}
Chain == {<<1, 2>>, <<2, 3>>, <<3, 4>>}
EndOrGroup == {{4}, Four}
Skewed == {1, 2}
============================================================================
