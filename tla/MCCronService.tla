---------------------------- MODULE MCCronService ----------------------------
(* Instances of CronService for TLC: a job that recurs, which is there from *)
(* the beginning, and a one-shot, which may be added.                       *)
EXTENDS CronService

CONSTANTS daily, once, hand

MCJob == {daily, once}
MCOneShot == {once}
MCManual == {hand}

MCInit == Init /\ daily \in known
MCSpec == MCInit /\ [][Next]_vars
MCFairSpec == MCSpec /\ Fairness
=============================================================================
