--------------------------- MODULE MCAnnounceQueue ---------------------------
(* The announce queue for TLC: one channel, and the settings that are the     *)
(* default but for the cap.                                                   *)
EXTENDS AnnounceQueue

CONSTANTS a1, a2, a3, home

MCAnnouncement == {a1, a2, a3}
MCRoute == [a \in MCAnnouncement |-> home]
MCSettings == {[mode |-> "collect", cap |-> 2, dropPolicy |-> "summarize"]}

FairSpec ==
    /\ AnnounceInit /\ [][AnnounceNext]_announceVars
    /\ WF_announceVars(Drains \/ SendEnds)
=============================================================================
