----------------------------- MODULE MCGateway -----------------------------
(* Two views of one gateway, checked side by side: its run loop, of which     *)
(* MCGatewayRunLoop has the instances, and its configuration.  A behaviour is *)
(* one of one of them, chosen by its initial state, with the other left as it *)
(* starts.                                                                    *)
EXTENDS MCGatewayRunLoop, GatewayReload

CONSTANT message
VARIABLE view

MCDispatcher == {message}

\* A change of cron, one that needs a restart, and both of these in hot mode.
MCFirst == [mode |-> "hybrid", cron |-> 0, cold |-> 0]
MCConfig == {MCFirst, [MCFirst EXCEPT !.cron = 1], [MCFirst EXCEPT !.cold = 1],
             [MCFirst EXCEPT !.mode = "hot", !.cron = 1, !.cold = 1]}

reloadSide == <<reloadVars, replyVars>>
sideVars == <<view, gatewayVars, reloadSide>>

OnlyLoop == view = "loop" /\ UNCHANGED <<view, reloadSide>>
OnlyReload == view = "reload" /\ UNCHANGED <<view, gatewayVars>>

GatewayInit ==
    /\ view \in {"loop", "reload"}
    /\ LoopInit /\ ReloadInit /\ RepliesInit

GatewayNext ==
    \/ OnlyLoop /\ LoopNext
    \/ OnlyReload /\ ReloadNext

\* The fairness of GatewayRunLoop.
GatewayFairness ==
    /\ WF_sideVars(OnlyLoop /\ ~Between /\ Started)
    /\ WF_sideVars(OnlyLoop /\ ~Between /\ LoopUnlocks)
    /\ WF_sideVars(OnlyLoop /\ ~Between /\ NextIteration)
    /\ WF_sideVars(OnlyLoop /\ ~Between /\ DrainPoll)
    /\ WF_sideVars(OnlyLoop /\ ~Between /\ RunsPoll)
    /\ WF_sideVars(OnlyLoop /\ ~Between /\ Drained)
    /\ WF_sideVars(OnlyLoop /\ ~Between /\ CloseServer)
    /\ WF_sideVars(OnlyLoop /\ ~Between /\ Closed)
    /\ WF_sideVars(OnlyLoop /\ ~Between /\ BeginRelease)
    /\ WF_sideVars(OnlyLoop /\ ~Between /\ HandlerUnlocks)
    /\ WF_sideVars(OnlyLoop /\ ~Between /\ StopExit)
    /\ WF_sideVars(OnlyLoop /\ ~Between /\ (RespawnedElsewhere \/ RespawnFallsBack))
    /\ WF_sideVars(OnlyLoop /\ ~Between /\ (Reacquire \/ ReacquireFails))
    /\ WF_sideVars(OnlyLoop /\ ~Between /\ WakeLoop)
    /\ \A r \in Run : /\ WF_sideVars(OnlyLoop /\ Alive /\ StartGlobal(r) /\ UNCHANGED loopVars)
                      /\ WF_sideVars(OnlyLoop /\ Alive /\ EndSession(r) /\ UNCHANGED loopVars)

GatewaySpec == GatewayInit /\ [][GatewayNext]_sideVars /\ GatewayFairness
=============================================================================
