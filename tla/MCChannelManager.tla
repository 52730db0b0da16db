--------------------------- MODULE MCChannelManager ---------------------------
(* Instances of ChannelManager for TLC. *)
EXTENDS ChannelManager

CONSTANTS c1, c2, c3, c4

MCCallers == {c1, c2, c3, c4}

\* A start, a stop, a reload and a health check.
MCProgram == [c \in Caller |-> CASE c = c1 -> "start" [] c = c2 -> "stop"
                                 [] c = c3 -> "reload" [] c = c4 -> "health"]
=============================================================================
