---------------------------- MODULE MCAgentLanes ----------------------------
(* An instance of AgentLanes for TLC: a message to a session, whose turn     *)
(* sends to a second session (sessions_send); a message to the second; and a *)
(* manual cron job whose turn is in one of the two.                          *)
EXTENDS AgentLanes

CONSTANTS message, reply, cronTurn, send, job, s1, s2

MCRun == {message, reply, cronTurn, send}
MCJob == {job}
MCTask == Outers \cup Bodies
MCSessions == {s1, s2}
MCLane == MCSessions \cup {Main, Cron, Nested}

\* The cron job's turn asks for the cron lane, as the job's own does.
MCRequested == [r \in Run |-> CASE r \in {message, reply} -> Nobody
                                [] r = cronTurn -> Cron
                                [] r = send -> Nested]

\* The turn of the first message holds the main lane, for which the second message waits
\* in the session that the send is for.
MCSession == [r \in Run |-> IF r \in {send, reply} THEN s2 ELSE s1]
MCCaller == [r \in Run |-> CASE r \in {message, reply} -> Nobody
                             [] r = cronTurn -> JobTask(job)
                             [] r = send -> Inner(message)]
=============================================================================
