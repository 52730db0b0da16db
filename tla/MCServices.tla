----------------------------- MODULE MCServices -----------------------------
(* Four services that share nothing - heartbeat wakes, lock files, approvals  *)
(* and announcements - checked side by side: a behaviour is one of one of     *)
(* them, chosen by its initial state, with the others left as they start.     *)
EXTENDS HeartbeatWake, ExecApprovals, LockFile, AnnounceQueue

CONSTANTS k1, k2, c1, c2, c3, p1, p2, a1, a2, a3, home, away

VARIABLE service

MCTarget == {k1, k2}
MCPriority == {1, 3}

\* Two callers in one process and one in another; of gateways, one in each.
MCCaller == {c1, c2, c3}
MCProcess == {p1, p2}
MCProcessOf == [c \in MCCaller |-> IF c = c3 THEN p2 ELSE p1]
MCGatewayCaller == {c1, c3}

MCAnnouncement == {a1, a2, a3}
MCRoute == [a \in MCAnnouncement |-> IF a = a3 THEN away ELSE home]
MCSettings == {[mode |-> "collect", cap |-> 2, dropPolicy |-> "summarize"],
               [mode |-> "followup", cap |-> 1, dropPolicy |-> "summarize"],
               [mode |-> "followup", cap |-> 2, dropPolicy |-> "new"]}

-----------------------------------------------------------------------------
allVars == <<service, vars, lockVars, approvalVars, announceVars>>

ServicesInit ==
    /\ service \in {"wake", "lock", "approval", "announce"}
    /\ Init /\ LockInit /\ ApprovalInit /\ AnnounceInit
    /\ service # "lock" => kind = "file" /\ lock = NoFile

OnlyWake == service = "wake"
    /\ UNCHANGED <<service, lockVars, approvalVars, announceVars>>
OnlyLock == service = "lock"
    /\ UNCHANGED <<service, vars, approvalVars, announceVars>>
OnlyApproval == service = "approval"
    /\ UNCHANGED <<service, vars, lockVars, announceVars>>
OnlyAnnounce == service = "announce"
    /\ UNCHANGED <<service, vars, lockVars, approvalVars>>

\* a1 and a2 are alike: a1 is enqueued first, if both are.
FirstComesFirst == a2 \in over'.seen => a1 \in over'.seen

ServicesNext ==
    \/ OnlyWake /\ Next
    \/ OnlyLock /\ LockNext
    \/ OnlyApproval /\ ApprovalNext
    \/ OnlyAnnounce /\ AnnounceNext /\ FirstComesFirst

\* Of the wakes, the Fairness of HeartbeatWake.  Timers of approvals fire, forwarders
\* settle, and askers come back for their answer.  A drain goes on and its send ends.
ServicesFairness ==
    /\ WF_allVars(OnlyWake /\ Fires)
    /\ \A b \in Batch : WF_allVars(OnlyWake /\ \E k \in Target : AnswerTo(b, k))
    /\ \A k \in Target : SF_allVars(OnlyWake /\ AnswersOwed(k))
    /\ WF_allVars(OnlyApproval /\ Timers)
    /\ \A r \in Registration : WF_allVars(OnlyApproval /\ Answers(r))
    /\ WF_allVars(OnlyAnnounce /\ (Drains \/ SendEnds))

ServicesSpec == ServicesInit /\ [][ServicesNext]_allVars /\ ServicesFairness

-----------------------------------------------------------------------------
\* What each service owes it gives in the end: a wake and a request for approval are
\* answered, and an announcement leaves the queue unless its drain spins.
OwedIsGiven == WakeAnswered /\ AskersAnswered /\ AnnouncesSent
=============================================================================
