----------------------------- MODULE AgentLanes -----------------------------
(***************************************************************************)
(* How agent runs use the lanes of CommandQueue                            *)
(* (src/src/agents/pi-embedded-runner/run.ts, lanes.ts and runs.ts,        *)
(* src/src/agents/lanes.ts, src/src/cron/service/ops.ts,                   *)
(* src/src/agents/tools/sessions-send-tool.ts).                            *)
(*                                                                         *)
(* A run is two entries: one in the lane of its session, whose body only   *)
(* enqueues the second, in a global lane, and waits for it; the body of    *)
(* the second is the agent turn.  A manual cron run is one entry in the    *)
(* cron lane.  A body may call for further runs and wait for them.         *)
(*                                                                         *)
(* The session entry's body runs inside the pump that starts it, and its   *)
(* continuation in the microtasks after the global entry's.  Both are      *)
(* steps of their own here, which every other step waits for: no callback  *)
(* of the program sees the state between them.                             *)
(***************************************************************************)
EXTENDS CommandQueue

CONSTANTS
    Run,            \* the calls of runEmbeddedPiAgent
    Job,            \* the calls of the cron service's enqueueRun
    Nobody,         \* not a run, not an entry
    SessionLane,    \* the lanes resolveSessionLane returns
    Main, Cron, Nested,
    sessionOf,      \* run |-> the lane of its session
    requestedLane,  \* run |-> params.lane, Nobody if none
    caller          \* run |-> the entry whose body calls and awaits it, or Nobody

Outer(r) == <<"session", r>>
Inner(r) == <<"global", r>>
JobTask(j) == <<"job", j>>
Outers == {Outer(r) : r \in Run}
Inners == {Inner(r) : r \in Run}
Bodies == Inners \cup {JobTask(j) : j \in Job}

ASSUME TasksAreRuns == Task = Outers \cup Bodies
ASSUME LanesAssumption == SessionLane \cup {Main, Cron, Nested} \subseteq Lane
ASSUME CronLaneApart == Cron \notin {Main, Nested}
ASSUME NobodyIsNoTask == Nobody \notin Task
\* resolveSessionLane gives every lane of a session the prefix "session:", and nothing
\* asks for such a lane as its global one.
ASSUME SessionLanesApart == SessionLane \cap {Main, Cron, Nested} = {}
ASSUME RunAssumption ==
    \A r \in Run : /\ sessionOf[r] \in SessionLane
                   /\ requestedLane[r] \in (Lane \ SessionLane) \cup {Nobody}
                   /\ caller[r] \in Bodies \cup {Nobody}

VARIABLES
    gaveUp,     \* runs whose caller stopped waiting (agent.wait timed out)
    embedded    \* ACTIVE_EMBEDDED_RUNS: session |-> its registered run or Nobody

agentVars == <<gaveUp, embedded>>
allVars == <<vars, agentVars>>

AgentTypeOK ==
    /\ TypeOK
    /\ gaveUp \subseteq Run
    /\ embedded \in [SessionLane -> Run \cup {Nobody}]

\* Mutant: the cron lane is passed through.
GlobalLane_AsRequested(r) ==
    IF requestedLane[r] = Nobody THEN Main ELSE requestedLane[r]

\* resolveGlobalLane
GlobalLane(r) ==
    IF requestedLane[r] = Cron THEN Nested
    ELSE IF requestedLane[r] = Nobody THEN Main ELSE requestedLane[r]

LaneFor(t) ==
    IF t \in {JobTask(j) : j \in Job} THEN Cron
    ELSE IF t \in Outers THEN sessionOf[t[2]]
    ELSE GlobalLane(t[2])

AgentInit ==
    /\ laneOf = [t \in Task |-> LaneFor(t)]
    /\ Init
    /\ gaveUp = {}
    /\ embedded = [s \in SessionLane |-> Nobody]

-----------------------------------------------------------------------------
Ended(t) == status[t] \in Settled
Call(t) == (Enqueue(t) \/ EnqueueRefused(t)) /\ UNCHANGED agentVars
End(t, outcome) ==
    (CompleteTask(t, outcome) \/ CompleteStaleTask(t, outcome)) /\ UNCHANGED agentVars

\* A session entry has been started, or its global entry has ended, and the
\* program has not yet come back to the event loop.
MustStartGlobal(r) == status[Outer(r)] = "running" /\ status[Inner(r)] = "new"

\* Mutant: the body does not wait for the global entry.
MustEndSession_NoAwait(r) ==
    status[Outer(r)] = "running" /\ status[Inner(r)] # "new"

MustEndSession(r) == status[Outer(r)] = "running" /\ Ended(Inner(r))
Between == \E r \in Run : MustStartGlobal(r) \/ MustEndSession(r)

\* The session entry's body: enqueueGlobal(...).
StartGlobal(r) == MustStartGlobal(r) /\ Call(Inner(r))

\* The promise of the global entry settles that of the session entry.
EndSession(r) ==
    /\ MustEndSession(r)
    /\ End(Outer(r), IF status[Inner(r)] = Resolved THEN Resolved ELSE Rejected)

\* runEmbeddedPiAgent is called: by something outside the lanes, or by a body.
CallRun(r) ==
    /\ caller[r] # Nobody => status[caller[r]] = "running"
    /\ Call(Outer(r))

CallJob(j) == Call(JobTask(j))

\* t's body awaits the run r it called.
Awaits(t, r) ==
    /\ caller[r] = t /\ r \notin gaveUp
    /\ status[Outer(r)] \in {"queued", "running"}

\* Mutant: the timeout of the wait counts from the start of the run.
GiveUp_OnceStarted(r) ==
    /\ caller[r] # Nobody /\ Awaits(caller[r], r)
    /\ status[caller[r]] = "running" /\ status[Outer(r)] = "running"
    /\ gaveUp' = gaveUp \cup {r}
    /\ UNCHANGED <<vars, embedded>>

\* The caller goes on, the run stays where it is: the agent.wait of a send times out, or the
\* timeout of a job passes.
GiveUp(r) ==
    /\ caller[r] # Nobody /\ Awaits(caller[r], r)
    /\ status[caller[r]] = "running"
    /\ gaveUp' = gaveUp \cup {r}
    /\ UNCHANGED <<vars, embedded>>

\* An attempt of the turn registers its handle, and takes it back when it ends;
\* a turn may make several.
RunRegisters(r) ==
    /\ status[Inner(r)] = "running" /\ embedded[sessionOf[r]] # r
    /\ embedded' = [embedded EXCEPT ![sessionOf[r]] = r]
    /\ UNCHANGED <<vars, gaveUp>>

RunClears(r) ==
    /\ status[Inner(r)] = "running" /\ embedded[sessionOf[r]] = r
    /\ embedded' = [embedded EXCEPT ![sessionOf[r]] = Nobody]
    /\ UNCHANGED <<vars, gaveUp>>

\* The body of a turn or of a cron job returns or throws.
EndBody(t, outcome) ==
    /\ \A r \in Run : ~Awaits(t, r) /\ (t = Inner(r) => embedded[sessionOf[r]] # r)
    /\ End(t, outcome)

\* An interrupting message or the end of a session clears its lane.
ClearSession(l) ==
    l \in SessionLane /\ ClearCommandLane(l) /\ UNCHANGED agentVars

\* applyGatewayLaneConcurrency: the nested lane and the sessions' keep limit 1.
Configure(l, n) ==
    l \in {Main, Cron} /\ SetCommandLaneConcurrency(l, n) /\ UNCHANGED agentVars

CallbackNext ==
    \/ \E r \in Run : CallRun(r)
    \/ \E j \in Job : CallJob(j)
    \/ \E r \in Run : GiveUp(r)
    \/ \E r \in Run : RunRegisters(r)
    \/ \E r \in Run : RunClears(r)
    \/ \E t \in Bodies, outcome \in Outcome : EndBody(t, outcome)
    \/ \E l \in SessionLane : ClearSession(l)
    \/ \E l \in {Main, Cron}, n \in 0..MaxLimit : Configure(l, n)

AgentNext ==
    \/ \E r \in Run : StartGlobal(r)
    \/ \E r \in Run : EndSession(r)
    \/ ~Between /\ CallbackNext

AgentSpec == AgentInit /\ [][AgentNext]_allVars

\* A call of a turn (sessions_send) is given up in time, since agent.wait has a timeout; a
\* job may have none (timeoutSeconds 0).
Timed(r) == caller[r] \in Inners

\* What the program does by itself; a turn or a job whose own waits are over ends; and the
\* wait for a send times out.
AgentFairness ==
    /\ \A r \in Run : WF_allVars(StartGlobal(r)) /\ WF_allVars(EndSession(r))
    /\ \A r \in Run : SF_allVars(~Between /\ RunClears(r))
    /\ \A t \in Inners :
          SF_allVars(~Between /\ \E outcome \in Outcome : EndBody(t, outcome))
    /\ \A j \in Job :
          WF_allVars(~Between /\ \E outcome \in Outcome : EndBody(JobTask(j), outcome))
    /\ \A r \in Run : WF_allVars(~Between /\ Timed(r) /\ GiveUp(r))

FairAgentSpec == AgentSpec /\ AgentFairness

-----------------------------------------------------------------------------
(* Properties *)

\* The entries t cannot go on without: a queued entry needs one of those that hold its lane
\* to end, a session entry its global entry, a job the run it calls.
StuckIn(t, D) ==
    \/ /\ status[t] = "queued" /\ activeTaskIds[laneOf[t]] \subseteq D
    \/ \E r \in Run : t = Outer(r) /\ status[t] = "running" /\ Inner(r) \in D
    \/ \E r \in Run : /\ status[t] = "running" /\ ~Timed(r)
                     /\ Awaits(t, r) /\ Outer(r) \in D

Pending == {t \in Task : status[t] \in {"queued", "running"}}

\* "inner operations must use nested to avoid deadlock": no set of accepted entries waits only
\* for itself for good.  Jobs hold the cron lane, turns their session's and a global one, while
\* further runs wait for these: every circle among them goes through a turn that waits for a
\* send, which its timeout breaks, whichever limits are configured.
NoLaneDeadlock ==
    ~Between => \A D \in SUBSET Pending : D # {} => \E t \in D : ~StuckIn(t, D)

\* Every run that was accepted ends, in particular one that a turn sends to a session whose
\* own message waits for the lane this turn holds; the timeout of the send is enough.
EveryRunEnds ==
    \A r \in Run : status[Outer(r)] = "queued" ~> Ended(Outer(r))

\* One agent turn executes per session at a time, so that two never write the
\* same session file, whichever global lanes the runs of the session use.
OneRunPerSession ==
    \A r1, r2 \in Run :
        /\ sessionOf[r1] = sessionOf[r2]
        /\ status[Inner(r1)] = "running" /\ status[Inner(r2)] = "running"
        => r1 = r2
=============================================================================
