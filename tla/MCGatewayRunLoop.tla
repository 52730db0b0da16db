-------------------------- MODULE MCGatewayRunLoop --------------------------
(* Instances of GatewayRunLoop for TLC: messages to one session, whose runs  *)
(* use the main lane.                                                        *)
EXTENDS GatewayRunLoop, TLC

CONSTANTS r1, r2, session

MCRun == {r1, r2}
MCNoJob == {}
MCTask == Outers \cup Bodies
MCSessions == {session}
MCLane == MCSessions \cup {Main, Cron, Nested}
MCSession == [r \in Run |-> session]
MCNobody == [r \in Run |-> Nobody]

Symmetric == Permutations(MCRun)
=============================================================================
