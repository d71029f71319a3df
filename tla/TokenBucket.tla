---------------------------- MODULE TokenBucket ----------------------------
(* A token bucket as the API of the VM service states it, "burst 5, refill *)
(* 2/s" (src/internal/minicontrol/client.go, lines 25 to 33):               *)
(* the level rises by one unit per tick up to the capacity, and a create    *)
(* takes Cost units or is refused.  CreateLimit.tla takes it for the        *)
(* service's own limiter.                                                   *)
EXTENDS Naturals

CONSTANTS
    Cost,       \* units of one token: the ticks it takes to refill it
    Capacity    \* units of a full bucket

VARIABLE level

Tick == level' = IF level < Capacity THEN level + 1 ELSE Capacity

Take == /\ level >= Cost
        /\ level' = level - Cost
=============================================================================
