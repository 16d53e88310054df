----------------------------- MODULE MCTripSync -----------------------------
(* Small instances of TripSync for TLC.                                     *)
EXTENDS TripSync

Two == {1, 2}
Three == {1, 2, 3}

Mesh == {pair \in Peer \X Peer : pair[1] # pair[2]}

(* 1 - 2 - 3: the ends are never in range of each other.                    *)
Line == {pair \in Mesh : 2 \in {pair[1], pair[2]}}

(* Control messages of the first end reach the middle.                      *)
FromFirst == {<<1, 2>>}

ToGroup == {Peer}
ToThird == {{3}}

Durable == {"durable"}
DurableOrTransient == {"durable", "transient"}

OneInstant == {1}
Skewed == {1, 2}
============================================================================
