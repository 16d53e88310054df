---------------------------- MODULE HybridClock ----------------------------
(***************************************************************************)
(* The hybrid logical clock of crates/model: the stamp every published      *)
(* event carries, and the order in which a store replays its events.        *)
(*                                                                          *)
(* A stamp is <<physical, logical>>; the third field of HlcTimestamp, the   *)
(* node, is the sender of the event that carries it.  The logical counter   *)
(* is a u32 that saturates: MaxLogical is its largest value, 2^32 - 1 in    *)
(* the program and something TLC can reach in the runs.                     *)
(***************************************************************************)
EXTENDS Integers, FiniteSetsExt

CONSTANT MaxLogical

ASSUME MaxLogicalAssumption == MaxLogical \in Nat

Logical == 0 .. MaxLogical

Stamp == Nat \X Logical

(* ReplicationEngine::new starts the clock here, whatever it read before.  *)
ZeroStamp == <<0, 0>>

(* Variant: the counter is added to without a limit.                        *)
Unsaturated(logical) == logical + 1

(* saturating_add(1) on a u32 *)
Saturated(logical) == IF logical < MaxLogical THEN logical + 1 ELSE MaxLogical

(* Variant: a wall clock that stands still counts as progress.              *)
TickAlways(last, wall) ==
  IF wall >= last[1] THEN <<wall, 0>> ELSE <<last[1], Saturated(last[2])>>

(* HybridLogicalClock::tick, for an event of this device.                  *)
Tick(last, wall) ==
  IF wall > last[1] THEN <<wall, 0>> ELSE <<last[1], Saturated(last[2])>>

Later(a, b) == IF a >= b THEN a ELSE b

(* HybridLogicalClock::observe, for an event another device stamped.       *)
Observe(last, remote, wall) ==
  LET physical == Later(wall, Later(last[1], remote[1]))
      logical ==
        IF physical = last[1] /\ physical = remote[1]
          THEN Saturated(Later(last[2], remote[2]))
        ELSE IF physical = last[1] THEN Saturated(last[2])
        ELSE IF physical = remote[1] THEN Saturated(remote[2])
        ELSE 0
  IN  <<physical, logical>>

(* Strict order on stamps without their node.                              *)
StampBefore(a, b) == a[1] < b[1] \/ (a[1] = b[1] /\ a[2] < b[2])

============================================================================
