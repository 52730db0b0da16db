--------------------------- MODULE MCHeartbeatWake ---------------------------
(* Instances of HeartbeatWake for TLC: two targets, an interval and an action *)
(* reason.                                                                    *)
EXTENDS HeartbeatWake

CONSTANTS k1, k2

MCTarget == {k1, k2}
MCPriority == {1, 3}
=============================================================================
