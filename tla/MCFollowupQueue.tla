--------------------------- MODULE MCFollowupQueue ---------------------------
(* Instances of FollowupQueue for TLC. *)
EXTENDS FollowupQueue

CONSTANTS m1, m2, m3, chatA, chatB, noOrigin, webchat

Msgs2 == {m1, m2}
Msgs3 == {m1, m2, m3}

OneRoute == [m \in Msg |-> chatA]
TwoRoutes == [m \in Msg |-> IF m = m2 THEN chatB ELSE chatA]

TwoPolicies == {"new", "summarize"}
Summarize == {"summarize"}

Setting(m, c, p) == [mode |-> m, cap |-> c, dropPolicy |-> p]

\* Both modes, two policies, two caps.
Mixed == {Setting("collect", 2, "summarize"), Setting("followup", 1, "summarize"),
          Setting("followup", 2, "new")}
FollowupCap1 == {Setting("followup", 1, "summarize")}
CollectCap2 == {Setting("collect", 2, "summarize")}
=============================================================================
