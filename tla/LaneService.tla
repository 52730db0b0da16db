---------------------------- MODULE LaneService ----------------------------
(***************************************************************************)
(* What the command queue promises to its callers, without generations,    *)
(* active sets, limits or a draining flag: an accepted call waits behind   *)
(* the calls accepted before it in its lane, begins at most once and only  *)
(* from the front of its lane, and ends once; a call that waits may be     *)
(* cancelled with all that wait in its lane, one that executes may not.    *)
(***************************************************************************)
EXTENDS Integers, Sequences

CONSTANTS Lane, Task

VARIABLES
    waiting,  \* lane |-> accepted calls that have not begun, oldest first
    phase,    \* call |-> "idle", "waiting", "executing" or "done"
    of        \* call |-> its lane

serviceVars == <<waiting, phase, of>>

Init ==
    /\ waiting = [l \in Lane |-> <<>>]
    /\ phase = [t \in Task |-> "idle"]
    /\ of \in [Task -> Lane]

\* From the queues w and phases p, in every lane any number of calls begin,
\* in the order in which they wait.
Dispatch(w, p) ==
    /\ waiting' = [l \in Lane |-> waiting'[l]]
    /\ phase' = [t \in Task |-> phase'[t]]
    /\ \A l \in Lane : \E k \in 0..Len(w[l]) :
          /\ waiting'[l] = SubSeq(w[l], k + 1, Len(w[l]))
          /\ \A t \in Task : of[t] = l =>
                phase'[t] = IF \E i \in 1..k : w[l][i] = t
                            THEN "executing" ELSE p[t]
    /\ UNCHANGED of

Accept(t) ==
    /\ phase[t] = "idle"
    /\ Dispatch([waiting EXCEPT ![of[t]] = Append(@, t)],
                [phase EXCEPT ![t] = "waiting"])

Refuse(t) ==
    /\ phase[t] = "idle"
    /\ phase' = [phase EXCEPT ![t] = "done"]
    /\ UNCHANGED <<waiting, of>>

Finish(t) ==
    /\ phase[t] = "executing"
    /\ Dispatch(waiting, [phase EXCEPT ![t] = "done"])

Cancel(l) ==
    /\ waiting' = [waiting EXCEPT ![l] = <<>>]
    /\ phase' = [t \in Task |-> IF \E i \in 1..Len(waiting[l]) : waiting[l][i] = t
                                THEN "done" ELSE phase[t]]
    /\ UNCHANGED of

Next ==
    \/ \E t \in Task : Accept(t) \/ Refuse(t) \/ Finish(t)
    \/ Dispatch(waiting, phase)
    \/ \E l \in Lane : Cancel(l)

Spec == Init /\ [][Next]_serviceVars
=============================================================================
