------------------------------ MODULE MCDeliveries ------------------------------
(* Two components that owe somebody a message, across failures and crashes: the *)
(* outbound delivery queue and the registry of subagent runs.  They share       *)
(* nothing and are checked side by side: a behaviour is one of one of them,     *)
(* chosen by its initial state, with the other left as it starts.               *)
EXTENDS MCDeliveryQueue, SubagentRegistry

CONSTANTS parent, child

VARIABLES service

\* Of one session, deleted or kept, every upset; of one that spawns another, none.
MCSession == {parent, child}
MCRequesterOf == [s \in MCSession |-> IF s = parent THEN Outside ELSE parent]
By(cleanup, spawnMode) == [cleanup |-> cleanup, spawnMode |-> spawnMode]
OneSession == {[s \in {parent} |-> By(cleanup, "run")] : cleanup \in {"keep", "delete"}}
TwoSessions ==
    {[s \in MCSession |-> By("keep", "run")],
     [s \in MCSession |-> IF s = parent THEN By("keep", "session") ELSE By("delete", "run")]}
MCScenes == {[style |-> how, spent |-> 0] : how \in OneSession} \cup
            {[style |-> how, spent |-> MaxUpsets] : how \in TwoSessions}

-----------------------------------------------------------------------------
allVars == <<service, vars, registryVars>>

DeliveriesInit ==
    /\ service \in {"outbound", "subagents"}
    /\ Init /\ RegistryInit
    /\ service = "outbound" => style \in OneSession /\ style[parent].cleanup = "keep"
    \* Without bestEffort it makes no difference whether the caller passes onError.
    /\ withOnError \subseteq bestEffort
    /\ service = "subagents" => bestEffort = {} /\ withOnError = {}

OnlyOutbound == service = "outbound" /\ UNCHANGED <<service, registryVars>>
OnlySubagents == service = "subagents" /\ UNCHANGED <<service, vars>>

DeliveriesNext ==
    \/ OnlyOutbound /\ Next
    \/ OnlySubagents /\ RegistryNext

\* The Fairness of DeliveryQueue and RegistryFairness.  A conjunct is shared by actions of
\* both: a behaviour has those of one of them.
DeliveriesFairness ==
    /\ WF_allVars(\/ OnlyOutbound /\ LiveNext(d1)
                  \/ OnlySubagents /\ Settles(1))
    /\ \A r \in 1..2 : WF_allVars(\/ OnlyOutbound /\ RecoveryWork(r)
                                  \/ OnlySubagents /\ TurnEnds(r))
    /\ WF_allVars(\/ OnlyOutbound /\ QuietRestart
                  \/ OnlySubagents /\ Resumes(1))
    /\ WF_allVars(\/ OnlyOutbound /\ Load(1)
                  \/ OnlySubagents /\ Restore)
    /\ SF_allVars(\/ OnlyOutbound /\ Tries(d1)
                  \/ OnlySubagents /\ GivesUp(1))
    /\ WF_allVars(OnlySubagents /\ TurnEnds(3))
    /\ \A r \in 2..MaxRuns :
          /\ WF_allVars(OnlySubagents /\ Settles(r))
          /\ WF_allVars(OnlySubagents /\ Resumes(r))
          /\ SF_allVars(OnlySubagents /\ GivesUp(r))

DeliveriesSpec == DeliveriesInit /\ [][DeliveriesNext]_allVars /\ DeliveriesFairness
=============================================================================
