---------------------------- MODULE ChannelManager ----------------------------
(***************************************************************************)
(* One channel account under createChannelManager                          *)
(* (src/src/gateway/server-channels.ts): startChannelInternal, the promise *)
(* chain that tracks the account's task and restarts it after a backoff,   *)
(* and stopChannel; with their callers: start and stop requests, the       *)
(* restart of a config reload (server-reload-handlers.ts) and the check of *)
(* the health monitor (channel-health-monitor.ts).                         *)
(*                                                                         *)
(* Each call runs atomically from one `await` to the next.  What goes on   *)
(* because a promise has settled (a microtask) runs before the next event  *)
(* of the loop: a request, a timer, an answer.  A call of startAccount     *)
(* makes an instance, which stands for its task, its tracked promise and   *)
(* its abort controller.  Accounts do not share state, so one is enough;   *)
(* the account stays enabled.  Backoff, cooldown and health are choices,   *)
(* and so is what throws: loadConfig (and what reads the account from it), *)
(* isConfigured, a startAccount that gives no promise, and stopAccount.    *)
(***************************************************************************)
EXTENDS Integers, FiniteSets

CONSTANTS
    Caller,          \* calls of the manager
    Program,         \* caller |-> "start", "stop", "reload" or "health"
    MaxAttempts,     \* MAX_RESTART_ATTEMPTS
    MaxInstances     \* bound: calls of startAccount

ASSUME ProgramAssumption ==
    Program \in [Caller -> {"start", "stop", "reload", "health"}]
ASSUME ChannelBounds == MaxAttempts \in Nat /\ MaxInstances \in Nat \ {0}

Instance == 1..MaxInstances
None == 0

VARIABLES
    plugin,          \* which of its functions take time, see Plugin
    instance,        \* instance |-> where its promise chain is
    aborted,         \* instances whose abort signal is set
    task,            \* store.tasks: the tracked instance, or None
    abort,           \* store.aborts
    manuallyStopped,
    restartAttempts,
    running,         \* runtime.running
    restartPending,  \* runtime.restartPending
    pc,              \* caller |-> where it is
    mine,            \* stopping caller |-> the task and abort it captured
    stopped,         \* history: a stop request that found the account started has
                     \* completed, no request was under way or made since
    overlapped       \* history: a call was made while another or a restart was
                     \* under way

storeVars == <<task, abort, manuallyStopped, restartAttempts>>
runtime == <<running, restartPending>>
callVars == <<pc, mine>>
history == <<plugin, stopped, overlapped>>
vars == <<instance, aborted, storeVars, runtime, callVars, history>>

\* "failed": over, since its automatic restart threw before it called startAccount;
\* "threw": startAccount threw, there was no task.
States == {"unborn", "running", "backoff", "configuring", "over", "failed", "threw"}

\* isConfigured may be asynchronous; stopAccount may be there, and then takes time.
Plugin == [slowConfigured : BOOLEAN, stopAccount : BOOLEAN]

Live == {i \in Instance : instance[i] = "running"}

Nothing == [task |-> None, abort |-> None]

TypeOK ==
    /\ plugin \in Plugin
    /\ instance \in [Instance -> States]
    /\ aborted \subseteq Instance
    /\ task \in Instance \cup {None} /\ abort \in Instance \cup {None}
    /\ manuallyStopped \in BOOLEAN
    /\ restartAttempts \in Nat /\ (overlapped \/ restartAttempts <= MaxAttempts + 1)
    /\ running \in BOOLEAN /\ restartPending \in BOOLEAN
    /\ pc \in [Caller -> {"idle", "configuring", "stopping", "awaiting", "start", "done"}]
    /\ mine \in [Caller -> [task : Instance \cup {None}, abort : Instance \cup {None}]]
    /\ stopped \in BOOLEAN /\ overlapped \in BOOLEAN

Init ==
    /\ plugin \in Plugin
    /\ instance = [i \in Instance |-> "unborn"]
    /\ aborted = {}
    /\ task = None /\ abort = None
    /\ manuallyStopped = FALSE /\ restartAttempts = 0
    /\ running = FALSE /\ restartPending = FALSE
    /\ pc = [c \in Caller |-> "idle"]
    /\ mine = [c \in Caller |-> Nothing]
    /\ stopped = FALSE /\ overlapped = FALSE

Goto(c, l) == pc' = [pc EXCEPT ![c] = l]

IsRequest(c) == Program[c] # "health"
\* A call, or an automatic restart that asks isConfigured.
UnderWay ==
    \/ \E c \in Caller : pc[c] \notin {"idle", "done"}
    \/ \E i \in Instance : instance[i] = "configuring"

\* A call of c is made, or goes on to its second half.
Asked(c) ==
    /\ stopped' = (stopped /\ ~IsRequest(c))
    /\ overlapped' = \/ overlapped
                     \/ pc[c] = "idle" /\ UnderWay

\* The promise chain of i is settled, or i is no promise.
Settled(i) == i # None => instance[i] \in {"over", "failed"}

\* A settled promise has still to be followed up.
Settling ==
    \/ \E c \in Caller :
          \/ pc[c] = "start"
          \/ pc[c] = "configuring" /\ ~plugin.slowConfigured
          \/ pc[c] = "awaiting" /\ Settled(mine[c].task)
    \/ \E i \in Instance : instance[i] = "configuring" /\ ~plugin.slowConfigured

\* A call is made: the turn of the event loop is its own.
MayCall(c) == pc[c] = "idle" /\ ~Settling

-----------------------------------------------------------------------------
(* startChannelInternal *)

New == Cardinality({i \in Instance : instance[i] # "unborn"}) + 1

\* From the clearing of manuallyStopped to the call of startAccount.  inst is the state
\* of the instances that the caller has written.
CallsStartAccount(inst, preserve, state) ==
    /\ New \in Instance  \* bound
    /\ instance' = [inst EXCEPT ![New] = state]
    /\ abort' = New
    /\ manuallyStopped' = IF preserve THEN manuallyStopped ELSE FALSE
    /\ restartAttempts' = IF preserve THEN restartAttempts ELSE 0
    /\ running' = TRUE /\ restartPending' = FALSE

Launch(inst, preserve) ==
    /\ CallsStartAccount(inst, preserve, "running")
    /\ task' = New

\* Without a task there is nothing to track, and nothing that would write the runtime.
LaunchThrows(inst, preserve) ==
    /\ CallsStartAccount(inst, preserve, "threw")
    /\ UNCHANGED task

\* Mutant: a tracked task is not looked for.
Tracked_Never == FALSE
\* store.tasks.has(id)
Tracked == task # None

\* A request, or the second half of a restart, calls startChannel.
StartsHere(c) ==
    \/ MayCall(c) /\ Program[c] = "start"
    \/ pc[c] = "start"

\* resetRestartAttempts comes before the health monitor's start.
AttemptsAt(c) == IF Program[c] = "health" THEN 0 ELSE restartAttempts

StartTracked(c) ==
    /\ StartsHere(c) /\ Tracked
    /\ Goto(c, "done")
    /\ restartAttempts' = AttemptsAt(c)
    /\ Asked(c)
    /\ UNCHANGED <<plugin, instance, aborted, task, abort, manuallyStopped, runtime, mine>>

\* loadConfig throws: so does the call.
StartFails(c) ==
    /\ StartsHere(c)
    /\ Goto(c, "done")
    /\ restartAttempts' = AttemptsAt(c)
    /\ Asked(c)
    /\ UNCHANGED <<plugin, instance, aborted, task, abort, manuallyStopped, runtime, mine>>

StartAsksConfigured(c) ==
    /\ StartsHere(c) /\ ~Tracked
    /\ Goto(c, "configuring")
    /\ restartAttempts' = AttemptsAt(c)
    /\ Asked(c)
    /\ UNCHANGED <<plugin, instance, aborted, task, abort, manuallyStopped, runtime, mine>>

StartConfigured(c) ==
    /\ pc[c] = "configuring"
    /\ Launch(instance, FALSE)
    /\ Goto(c, "done")
    /\ UNCHANGED <<aborted, mine, history>>

StartThrows(c) ==
    /\ pc[c] = "configuring"
    /\ LaunchThrows(instance, FALSE)
    /\ Goto(c, "done")
    /\ UNCHANGED <<aborted, mine, history>>

\* isConfigured rejects.
StartRejected(c) ==
    /\ pc[c] = "configuring"
    /\ Goto(c, "done")
    /\ UNCHANGED <<instance, aborted, storeVars, runtime, mine, history>>

StartUnconfigured(c) ==
    /\ pc[c] = "configuring"
    /\ Goto(c, "done")
    /\ running' = FALSE /\ restartPending' = FALSE
    /\ UNCHANGED <<instance, aborted, storeVars, mine, history>>

-----------------------------------------------------------------------------
(* The promise chain of instance i *)

\* The last finally: what is tracked is removed if it is still i.
Untrack(i) ==
    /\ task' = IF task = i THEN None ELSE task
    /\ abort' = IF abort = i THEN None ELSE abort

Over(i) ==
    /\ instance' = [instance EXCEPT ![i] = "over"]
    /\ Untrack(i)

\* Mutant: the runtime is left as it was.
ExitManual_StaysRunning(i) ==
    /\ instance[i] = "running" /\ manuallyStopped
    /\ Over(i)
    /\ UNCHANGED <<aborted, manuallyStopped, restartAttempts, runtime, callVars, history>>

\* The account's task returns or rejects: when told to, or by itself.
ExitManual(i) ==
    /\ instance[i] = "running" /\ manuallyStopped
    /\ Over(i)
    /\ running' = FALSE
    /\ UNCHANGED <<aborted, manuallyStopped, restartAttempts, restartPending, callVars,
                   history>>

ExitGivesUp(i) ==
    /\ instance[i] = "running" /\ ~manuallyStopped
    /\ restartAttempts >= MaxAttempts
    /\ restartAttempts' = restartAttempts + 1
    /\ Over(i)
    /\ running' = FALSE /\ restartPending' = FALSE
    /\ UNCHANGED <<aborted, manuallyStopped, callVars, history>>

\* sleepWithAbort rejects at once when the signal is set already.
ExitBacksOff(i) ==
    /\ instance[i] = "running" /\ ~manuallyStopped
    /\ restartAttempts < MaxAttempts
    /\ restartAttempts' = restartAttempts + 1
    /\ running' = FALSE /\ restartPending' = TRUE
    /\ IF i \in aborted THEN Over(i)
       ELSE instance' = [instance EXCEPT ![i] = "backoff"] /\ UNCHANGED <<task, abort>>
    /\ UNCHANGED <<aborted, manuallyStopped, callVars, history>>

BackoffAborted(i) ==
    /\ instance[i] = "backoff" /\ i \in aborted
    /\ Over(i)
    /\ UNCHANGED <<aborted, manuallyStopped, restartAttempts, runtime, callVars, history>>

\* Mutant: the sleep is not cut short, and a manual stop not looked for after it.
BackoffEnds_Regardless(i) == instance[i] = "backoff" /\ ~Settling
BackoffEnds(i) ==
    /\ instance[i] = "backoff" /\ ~Settling
    /\ i \notin aborted /\ ~manuallyStopped

\* Mutant: the entry of the old task is left in the map.
RestartFinds_Itself(i) == task # None
\* The start of the restart finds another task tracked, i being untracked.
RestartFinds(i) == task \notin {None, i}

RestartTracked(i) ==
    /\ BackoffEnds(i) /\ RestartFinds(i)
    /\ Over(i)
    /\ UNCHANGED <<aborted, manuallyStopped, restartAttempts, runtime, callVars, history>>

RestartAsksConfigured(i) ==
    /\ BackoffEnds(i) /\ ~RestartFinds(i)
    /\ instance' = [instance EXCEPT ![i] = "configuring"]
    /\ Untrack(i)
    /\ UNCHANGED <<aborted, manuallyStopped, restartAttempts, runtime, callVars, history>>

RestartConfigured(i) ==
    /\ instance[i] = "configuring"
    /\ Launch([instance EXCEPT ![i] = "over"], TRUE)
    /\ UNCHANGED <<aborted, callVars, history>>

\* loadConfig or isConfigured throws in the restart: the chain catches it and is over,
\* and what it has announced stays announced.
RestartFails(i) ==
    /\ BackoffEnds(i) \/ instance[i] = "configuring"
    /\ instance' = [instance EXCEPT ![i] = "failed"]
    /\ Untrack(i)
    /\ UNCHANGED <<aborted, manuallyStopped, restartAttempts, runtime, callVars, history>>

RestartThrows(i) ==
    /\ instance[i] = "configuring"
    /\ LaunchThrows([instance EXCEPT ![i] = "over"], TRUE)
    /\ UNCHANGED <<aborted, callVars, history>>

RestartUnconfigured(i) ==
    /\ instance[i] = "configuring"
    /\ instance' = [instance EXCEPT ![i] = "over"]
    /\ running' = FALSE /\ restartPending' = FALSE
    /\ UNCHANGED <<aborted, storeVars, callVars, history>>

-----------------------------------------------------------------------------
(* stopChannel *)

\* The health monitor looks at what it has read in the same turn, and stops
\* only what runs.
StopsHere(c) ==
    /\ MayCall(c)
    /\ \/ Program[c] \in {"stop", "reload"}
       \/ Program[c] = "health" /\ ~manuallyStopped /\ running

\* A check of a channel that is not running goes on to its start.
CheckFindsStopped(c) ==
    /\ MayCall(c) /\ Program[c] = "health"
    /\ ~manuallyStopped /\ ~running
    /\ Goto(c, "start")
    /\ Asked(c)
    /\ UNCHANGED <<plugin, instance, aborted, storeVars, runtime, mine>>

AfterStop(c) == IF Program[c] = "stop" THEN "done" ELSE "start"
\* A request to stop has been served.
Answered(c) ==
    stopped' = IF IsRequest(c) THEN Program[c] = "stop" ELSE stopped

\* Neither an abort controller nor a task is there, nor a hook to call: the stop
\* is not noted.
StopNothing(c) ==
    /\ StopsHere(c)
    /\ abort = None /\ task = None /\ ~plugin.stopAccount
    /\ Goto(c, AfterStop(c))
    /\ Asked(c)
    /\ UNCHANGED <<plugin, instance, aborted, storeVars, runtime, mine>>

\* loadConfig throws: nothing is stopped.
StopFails(c) ==
    /\ StopsHere(c)
    /\ abort # None \/ task # None \/ plugin.stopAccount
    /\ Goto(c, "done")
    /\ Asked(c)
    /\ UNCHANGED <<plugin, instance, aborted, storeVars, runtime, mine>>

\* Mutant: the signal is not set.
BeginStop_NoAbort(c) ==
    /\ StopsHere(c)
    /\ abort # None \/ task # None \/ plugin.stopAccount
    /\ manuallyStopped' = TRUE
    /\ mine' = [mine EXCEPT ![c] = [task |-> task, abort |-> abort]]
    /\ Goto(c, IF plugin.stopAccount THEN "stopping" ELSE "awaiting")
    /\ Asked(c)
    /\ UNCHANGED <<plugin, instance, aborted, task, abort, restartAttempts, runtime>>

BeginStop(c) ==
    /\ StopsHere(c)
    /\ abort # None \/ task # None \/ plugin.stopAccount
    /\ manuallyStopped' = TRUE
    /\ aborted' = IF abort = None THEN aborted ELSE aborted \cup {abort}
    /\ mine' = [mine EXCEPT ![c] = [task |-> task, abort |-> abort]]
    /\ Goto(c, IF plugin.stopAccount THEN "stopping" ELSE "awaiting")
    /\ Asked(c)
    /\ UNCHANGED <<plugin, instance, task, abort, restartAttempts, runtime>>

StopAccountEnds(c) ==
    /\ pc[c] = "stopping" /\ ~Settling
    /\ Goto(c, "awaiting")
    /\ UNCHANGED <<instance, aborted, storeVars, runtime, mine, history>>

\* stopAccount rejects: so does the stop, and the call that made it.
StopAccountFails(c) ==
    /\ pc[c] = "stopping" /\ ~Settling
    /\ Goto(c, "done")
    /\ mine' = [mine EXCEPT ![c] = Nothing]
    /\ UNCHANGED <<instance, aborted, storeVars, runtime, history>>

\* The captured task has ended: whatever is tracked by now is removed.
EndStop(c) ==
    /\ pc[c] = "awaiting"
    /\ Settled(mine[c].task)
    /\ task' = None /\ abort' = None
    /\ running' = FALSE /\ restartPending' = FALSE
    /\ Goto(c, AfterStop(c))
    /\ Answered(c)
    /\ mine' = [mine EXCEPT ![c] = Nothing]
    /\ UNCHANGED <<plugin, instance, aborted, manuallyStopped, restartAttempts, overlapped>>

-----------------------------------------------------------------------------
Chain(i) ==
    \/ ExitManual(i) \/ ExitGivesUp(i) \/ ExitBacksOff(i)
    \/ BackoffAborted(i)
    \/ RestartTracked(i) \/ RestartAsksConfigured(i)
    \/ RestartConfigured(i) \/ RestartUnconfigured(i)
    \/ RestartFails(i) \/ RestartThrows(i)

Call(c) ==
    \/ StartTracked(c) \/ StartAsksConfigured(c)
    \/ StartConfigured(c) \/ StartUnconfigured(c)
    \/ StartFails(c) \/ StartRejected(c) \/ StartThrows(c)
    \/ CheckFindsStopped(c)
    \/ StopNothing(c) \/ StopFails(c) \/ BeginStop(c)
    \/ StopAccountEnds(c) \/ StopAccountFails(c) \/ EndStop(c)

Next ==
    \/ \E i \in Instance : Chain(i)
    \/ \E c \in Caller : Call(c)

Spec == Init /\ [][Next]_vars

\* An account that was told to ends; backoffs elapse; the plugin's functions
\* settle; a call that was begun goes on.
Fairness ==
    /\ \A i \in Instance :
          /\ WF_vars(i \in aborted /\ (ExitManual(i) \/ ExitGivesUp(i) \/ ExitBacksOff(i)))
          /\ WF_vars(Chain(i) /\ instance[i] # "running")
    /\ \A c \in Caller : WF_vars(pc[c] # "idle" /\ Call(c))

FairSpec == Spec /\ Fairness

-----------------------------------------------------------------------------
(* Properties *)

\* A live instance is the one that is tracked, so that a stop finds it and, there
\* being one entry, the account has one live connection at a time, however requests
\* to start, stop and reload follow on its crashes and restarts: the point of the
\* look at store.tasks in startChannelInternal, and of the untracking in the promise
\* chain and in stopChannel.  Calls that overlap can break it.
LiveIsTracked == overlapped \/ \A i \in Live : task = i /\ abort = i

\* After stopChannel has stopped an account, and until the next request, nothing runs: no
\* restart from a backoff, nor one by the health monitor, brings it back.
StoppedStaysStopped == stopped /\ ~overlapped => Live = {}

\* A runtime that says "running", which the health monitor trusts, has a live instance:
\* every way out of a task writes it.  A startAccount that threw had no task: it leaves
\* its controller in store.aborts, and the runtime, until the account is stopped or
\* started again.
RuntimeTrue ==
    /\ TypeOK
    /\ running => Live # {} \/ \E i \in Instance : instance[i] = "threw" /\ abort = i

\* Of two starts that overlapped one threw: it may have put its controller in the place of
\* the one that would end the other's task.
ControllerLost == overlapped /\ \E i \in Instance : instance[i] = "threw"

\* The last instance had its automatic restart thrown out.
RestartFailed == New - 1 \in Instance /\ instance[New - 1] = "failed"

\* Every stopChannel and every restart comes to its end: the task that it awaits has been
\* told to end and its backoff cut short, but for a controller lost as above.  And a restart
\* that setRuntime has announced happens, or is called off by a stop (which leaves the
\* announcement behind when stopAccount fails), or throws, and then the announcement is left
\* behind with nothing to follow it; overlapping calls can leave it behind too.
CallsSettle ==
    /\ \A c \in Caller : pc[c] # "idle" ~> pc[c] = "done" \/ ControllerLost
    /\ restartPending ~> ~restartPending \/ manuallyStopped \/ overlapped \/ RestartFailed
=============================================================================
