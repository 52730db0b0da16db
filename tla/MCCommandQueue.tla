--------------------------- MODULE MCCommandQueue ---------------------------
(* Instance of CommandQueue for TLC. *)
EXTENDS CommandQueue

CONSTANTS t1, t2, t3, main, sub

MCTask == {t1, t2, t3}
MCLane == {main, sub}

\* Of three tasks in two lanes two are in one lane: call them t1 and t2, and the
\* lane main.
MCInit == Init /\ laneOf[t1] = main /\ laneOf[t2] = main
MCSpec == MCInit /\ [][Next]_vars /\ TasksEnd
=============================================================================
