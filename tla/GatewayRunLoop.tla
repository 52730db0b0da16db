--------------------------- MODULE GatewayRunLoop ---------------------------
(***************************************************************************)
(* runGatewayLoop of src/src/cli/gateway-cli/run-loop.ts over the agent    *)
(* runs and their lanes: the loop that starts the server and waits for a   *)
(* restart, the signal handler that drains, closes the server, gives up    *)
(* the gateway lock and wakes the loop, and a second gateway process that  *)
(* wants the lock.                                                         *)
(*                                                                         *)
(* The loop and the handler are two asynchronous functions over the shared *)
(* variables server, lock, shuttingDown and restartResolver; each runs     *)
(* atomically from one `await` to the next.  The aborts of runs that the   *)
(* handler asks for before and after the drain make a turn end, which      *)
(* EndBody allows at any time.                                             *)
(***************************************************************************)
EXTENDS AgentLanes

VARIABLES
    loop,             \* where the while loop is
    handler,          \* where the signal handler's async function is
    runsWait,         \* the promise of waitForActiveEmbeddedRuns
    action,           \* "restart" or "stop": what the handler was asked
    server,           \* the variable `server` is not null
    listening,        \* a started server is up
    lock,             \* the variable `lock` is not null
    hadLock,          \* what the handler's releaseLockIfHeld returned
    lockOwner,        \* who holds the lock file
    shuttingDown,
    restartResolver,  \* "null", "armed" or "used"
    isFirstStart,
    mishaps           \* history, read by the properties only: what went wrong

procVars == <<server, listening, lock, hadLock, lockOwner>>
flagVars == <<shuttingDown, restartResolver, isFirstStart, mishaps>>
loopVars == <<loop, handler, runsWait, action, procVars, flagVars>>
gatewayVars == <<allVars, loopVars>>

Alive == loop # "exited"

LoopTypeOK ==
    /\ AgentTypeOK
    /\ loop \in {"starting", "unlocking", "waiting", "exited"}
    /\ handler \in {"idle", "draining", "close", "closing", "release", "unlocking",
                    "released", "reacquire", "wake"}
    /\ runsWait \in {"idle", "waiting", "drained", "timeout"}
    /\ action \in {"none", "restart", "stop"}
    /\ {server, listening, lock, hadLock, shuttingDown, isFirstStart} \subseteq BOOLEAN
    /\ lockOwner \in {"self", "other", "none"}
    /\ restartResolver \in {"null", "armed", "used"}
    /\ mishaps \subseteq {"failedStart", "earlySignal"}

\* The lock has been acquired, the handlers are installed, start() is pending.
LoopInit ==
    /\ AgentInit
    /\ loop = "starting" /\ handler = "idle" /\ runsWait = "idle" /\ action = "none"
    /\ server = FALSE /\ listening = FALSE
    /\ lock = TRUE /\ hadLock = FALSE /\ lockOwner = "self"
    /\ shuttingDown = FALSE /\ restartResolver = "null" /\ isFirstStart = TRUE
    /\ mishaps = {}

ExitProcess ==
    /\ loop' = "exited"
    /\ handler' = "idle"
    /\ server' = FALSE /\ listening' = FALSE /\ lock' = FALSE
    /\ lockOwner' = IF lockOwner = "self" THEN "none" ELSE lockOwner
    /\ UNCHANGED <<allVars, runsWait, action, hadLock, flagVars>>

\* releaseLockIfHeld: if the variable `lock` is set, close the file, then remove
\* the path whoever owns it by then and unset the variable.
RemoveLock == lock' = FALSE /\ lockOwner' = "none"

-----------------------------------------------------------------------------
(* The loop *)

\* start() resolves: server is set and the loop waits for a restart.
Started ==
    /\ loop = "starting"
    /\ server' = TRUE /\ listening' = TRUE
    /\ isFirstStart' = FALSE
    /\ restartResolver' = "armed"
    /\ loop' = "waiting"
    /\ UNCHANGED <<allVars, handler, runsWait, action, lock, hadLock, lockOwner, shuttingDown,
                   mishaps>>

\* start() rejects at first: the error leaves the loop and ends the process.
FirstStartFails ==
    /\ loop = "starting" /\ isFirstStart
    /\ ExitProcess

\* start() rejects after a restart: the process stays and gives up the lock.
RestartFails ==
    /\ loop = "starting" /\ ~isFirstStart
    /\ server' = FALSE
    /\ mishaps' = mishaps \cup {"failedStart"}
    /\ IF lock
       THEN loop' = "unlocking" /\ UNCHANGED restartResolver
       ELSE loop' = "waiting" /\ restartResolver' = "armed"
    /\ UNCHANGED <<allVars, handler, runsWait, action, listening, lock, hadLock, lockOwner,
                   shuttingDown, isFirstStart>>

LoopUnlocks ==
    /\ loop = "unlocking"
    /\ RemoveLock
    /\ restartResolver' = "armed"
    /\ loop' = "waiting"
    /\ UNCHANGED <<allVars, handler, runsWait, action, server, listening, hadLock, shuttingDown,
                   isFirstStart, mishaps>>

\* Mutant: the next iteration does not reset the lanes.
NextIteration_NoReset ==
    /\ loop = "waiting" /\ restartResolver = "used"
    /\ loop' = "starting"
    /\ UNCHANGED <<allVars, handler, runsWait, action, procVars, flagVars>>

\* The promise is resolved: onIteration resets the lanes, start() is called.
NextIteration ==
    /\ loop = "waiting" /\ restartResolver = "used"
    /\ ResetAllLanes
    /\ loop' = "starting"
    /\ UNCHANGED <<agentVars, handler, runsWait, action, procVars, flagVars>>

-----------------------------------------------------------------------------
(* The signal handler: request(action, signal) and its async function *)

\* Signals arrive between turns of the event loop, never in the turn that
\* resolves the restart promise and resumes the loop.
SignalPossible ==
    /\ ~shuttingDown
    /\ \/ loop = "waiting" /\ restartResolver = "armed"
       \/ loop \in {"starting", "unlocking"}
    /\ mishaps' = IF loop = "waiting" THEN mishaps ELSE mishaps \cup {"earlySignal"}

AnyRun == \E r \in Run : embedded[sessionOf[r]] # Nobody

\* Wait for the entries and for the registered runs that are active now, if any.
BeginDrain ==
    /\ activeAtStart' = AllActive
    /\ waiter' = IF AllActive = {} THEN "drained" ELSE "waiting"
    /\ runsWait' = IF AnyRun THEN "waiting" ELSE "drained"
    /\ handler' = IF AllActive = {} /\ ~AnyRun THEN "close" ELSE "draining"

\* markGatewayDraining, then the drain.
SignalRestart ==
    /\ SignalPossible
    /\ \A l \in Lane : generation[l] < MaxGeneration  \* bound
    /\ shuttingDown' = TRUE
    /\ action' = "restart"
    /\ gatewayDraining' = TRUE
    /\ BeginDrain
    /\ UNCHANGED <<laneVars, taskVars, agentVars, loop, procVars, restartResolver,
                   isFirstStart>>

SignalStop ==
    /\ SignalPossible
    /\ shuttingDown' = TRUE
    /\ action' = "stop"
    /\ handler' = "close"
    /\ UNCHANGED <<allVars, loop, runsWait, procVars, restartResolver, isFirstStart>>

DrainPoll == Alive /\ WaitPoll /\ UNCHANGED <<agentVars, loopVars>>

\* waitForActiveEmbeddedRuns: until none is registered, whoever registered it.
RunsPoll ==
    /\ Alive /\ runsWait = "waiting"
    /\ runsWait' = IF AnyRun THEN "timeout" ELSE "drained"
    /\ UNCHANGED <<allVars, loop, handler, action, procVars, flagVars>>

\* Mutant: the restart does not wait for the entries to drain.
Drained_Early ==
    /\ handler = "draining" /\ runsWait # "waiting"
    /\ waiter' = IF waiter = "waiting" THEN "drained" ELSE waiter
    /\ handler' = "close"
    /\ UNCHANGED <<gatewayDraining, laneVars, taskVars, activeAtStart, agentVars, loop,
                   runsWait, action, procVars, flagVars>>

\* Drained or timed out, the restart goes on.
Drained ==
    /\ handler = "draining" /\ waiter # "waiting" /\ runsWait # "waiting"
    /\ handler' = "close"
    /\ UNCHANGED <<allVars, loop, runsWait, action, procVars, flagVars>>

\* `await server?.close(...)`: with no server there is nothing to close, but
\* for the turn the await takes.
CloseServer ==
    /\ handler = "close"
    /\ handler' = "closing"
    /\ listening' = IF server THEN FALSE ELSE listening
    /\ UNCHANGED <<allVars, loop, runsWait, action, server, lock, hadLock, lockOwner, flagVars>>

\* The `finally` block up to the release of the lock.
Closed ==
    /\ handler = "closing"
    /\ handler' = "release"
    /\ server' = FALSE
    /\ UNCHANGED <<allVars, loop, runsWait, action, listening, lock, hadLock, lockOwner, flagVars>>

\* The force-exit timer fires while close() hangs.
ForceExit == handler = "closing" /\ ExitProcess

\* Mutant: releaseLockIfHeld does not look whether the lock is held.
BeginRelease_Unchecked ==
    /\ handler = "release"
    /\ hadLock' = lock
    /\ handler' = "unlocking"
    /\ UNCHANGED <<allVars, loop, runsWait, action, server, listening, lock, lockOwner, flagVars>>

\* The lock goes before the process does and before a child is spawned.
BeginRelease ==
    /\ handler = "release"
    /\ hadLock' = lock
    /\ handler' = IF lock THEN "unlocking" ELSE "released"
    /\ UNCHANGED <<allVars, loop, runsWait, action, server, listening, lock, lockOwner, flagVars>>

HandlerUnlocks ==
    /\ handler = "unlocking"
    /\ RemoveLock
    /\ handler' = "released"
    /\ UNCHANGED <<allVars, loop, runsWait, action, server, listening, hadLock, flagVars>>

StopExit == handler = "released" /\ action = "stop" /\ ExitProcess

\* A child or the supervisor takes over.
RespawnedElsewhere == handler = "released" /\ action = "restart" /\ ExitProcess

\* Respawning is disabled or failed: restart in this process, with the lock if
\* there was one.
RespawnFallsBack ==
    /\ handler = "released" /\ action = "restart"
    /\ handler' = IF hadLock THEN "reacquire" ELSE "wake"
    /\ UNCHANGED <<allVars, loop, runsWait, action, procVars, flagVars>>

\* Mutant: a lock held by another process is not noticed.
Reacquire_Ignored ==
    /\ handler = "reacquire"
    /\ lock' = TRUE
    /\ handler' = "wake"
    /\ UNCHANGED <<allVars, loop, runsWait, action, server, listening, hadLock, lockOwner, flagVars>>

Reacquire ==
    /\ handler = "reacquire"
    /\ lockOwner = "none"
    /\ lock' = TRUE /\ lockOwner' = "self"
    /\ handler' = "wake"
    /\ UNCHANGED <<allVars, loop, runsWait, action, server, listening, hadLock, flagVars>>

ReacquireFails == handler = "reacquire" /\ lockOwner = "other" /\ ExitProcess

\* Mutant: the loop is not woken.
WakeLoop_NoResolve ==
    /\ handler = "wake"
    /\ shuttingDown' = FALSE
    /\ handler' = "idle"
    /\ UNCHANGED <<allVars, loop, runsWait, action, procVars, restartResolver, isFirstStart, mishaps>>

\* shuttingDown = false; restartResolver?.()
WakeLoop ==
    /\ handler = "wake"
    /\ shuttingDown' = FALSE
    /\ restartResolver' = IF restartResolver = "armed" THEN "used"
                          ELSE restartResolver
    /\ handler' = "idle"
    /\ UNCHANGED <<allVars, loop, runsWait, action, procVars, isFirstStart, mishaps>>

-----------------------------------------------------------------------------
(* A second gateway process takes the lock when it is free, and gives it back. *)
(* (It may also break a lock whose owner it takes for dead; that judgement is  *)
(* gateway-lock.ts's own and not in this module.)                             *)

OtherLocks ==
    /\ lockOwner = "none"
    /\ lockOwner' = "other"
    /\ UNCHANGED <<allVars, loop, handler, runsWait, action, server, listening, lock, hadLock, flagVars>>

OtherUnlocks ==
    /\ lockOwner = "other"
    /\ lockOwner' = "none"
    /\ UNCHANGED <<allVars, loop, handler, runsWait, action, server, listening, lock, hadLock, flagVars>>

-----------------------------------------------------------------------------
\* The loop, the handler and their timers.
ProcessNext ==
    \/ Started \/ FirstStartFails \/ RestartFails \/ LoopUnlocks \/ NextIteration
    \/ SignalRestart \/ SignalStop \/ DrainPoll \/ RunsPoll \/ Drained
    \/ CloseServer \/ Closed \/ ForceExit
    \/ BeginRelease \/ HandlerUnlocks
    \/ StopExit \/ RespawnedElsewhere \/ RespawnFallsBack
    \/ Reacquire \/ ReacquireFails \/ WakeLoop

LoopNext ==
    \/ ~Between /\ ProcessNext
    \/ Alive /\ AgentNext /\ UNCHANGED loopVars
    \/ OtherLocks \/ OtherUnlocks

LoopSpec == LoopInit /\ [][LoopNext]_gatewayVars

\* The process goes on; a start() ends; a close() ends or is cut short; a
\* process that finds the lock taken gives up.  Turns may hang, and no signal
\* need ever come.
LoopFairness ==
    /\ WF_gatewayVars(~Between /\ Started)
    /\ WF_gatewayVars(~Between /\ LoopUnlocks)
    /\ WF_gatewayVars(~Between /\ NextIteration)
    /\ WF_gatewayVars(~Between /\ DrainPoll)
    /\ WF_gatewayVars(~Between /\ RunsPoll)
    /\ WF_gatewayVars(~Between /\ Drained)
    /\ WF_gatewayVars(~Between /\ CloseServer)
    /\ WF_gatewayVars(~Between /\ Closed)
    /\ WF_gatewayVars(~Between /\ BeginRelease)
    /\ WF_gatewayVars(~Between /\ HandlerUnlocks)
    /\ WF_gatewayVars(~Between /\ StopExit)
    /\ WF_gatewayVars(~Between /\ (RespawnedElsewhere \/ RespawnFallsBack))
    /\ WF_gatewayVars(~Between /\ (Reacquire \/ ReacquireFails))
    /\ WF_gatewayVars(~Between /\ WakeLoop)
    /\ \A r \in Run : /\ WF_gatewayVars(Alive /\ StartGlobal(r) /\ UNCHANGED loopVars)
                      /\ WF_gatewayVars(Alive /\ EndSession(r) /\ UNCHANGED loopVars)

FairLoopSpec == LoopSpec /\ LoopFairness

-----------------------------------------------------------------------------
(* Properties *)

\* The `lock` variable tells the truth: it is set exactly while the lock file is
\* this process's, however releases, failed starts and restarts interleave.  And a
\* gateway that serves and is not on its way down has it, unless the start of a
\* restart failed before: then the lock is gone for good.
LockSound ==
    /\ LoopTypeOK
    /\ lock <=> lockOwner = "self"
    /\ listening /\ ~shuttingDown /\ "failedStart" \notin mishaps => lock

\* A gateway that is up refuses work "for restart" only while a restart is under
\* way: no order of drain, close, start and failure leaves the flag behind, but
\* for a signal that comes while the server starts.
DrainingMeansRestart ==
    gatewayDraining /\ listening /\ "earlySignal" \notin mishaps =>
        shuttingDown \/ restartResolver = "used"

\* This process never removes the lock of another gateway, unless a signal came
\* while the loop was giving up its own.
OtherLockKept ==
    [][lockOwner = "other" /\ lockOwner' # "other" /\ "earlySignal" \notin mishaps =>
          UNCHANGED <<loop, handler>>]_gatewayVars

\* A restart whose drain succeeded leaves no turn behind: when it resets the
\* lanes, no turn executes whose session entry the session's lane still counts,
\* though entries went on starting during the drain.
DrainedRestartIsClean ==
    [][loop = "waiting" /\ loop' = "starting" /\ waiter = "drained" /\ runsWait = "drained" =>
          \A r \in Run : status[Inner(r)] = "running" => ~Current(Outer(r))]_gatewayVars

\* While a restart drains, no call is accepted into a lane.  And a restart in this
\* process loses no accepted entry and none stays behind the stale tasks: across the
\* reset what waits still waits or begins, and where entries wait one begins.
RestartKeepsWork ==
    [][/\ shuttingDown /\ action = "restart" /\ handler # "idle" =>
          \A t \in Task : status[t] = "new" => status'[t] \in {"new", "refused"}
       /\ loop = "waiting" /\ loop' = "starting" =>
          /\ \A t \in Task : status[t] = "queued" => status'[t] \in {"queued", "running"}
          /\ \A l \in Lane : queue[l] # <<>> =>
                \E t \in activeTaskIds'[l] : status[t] = "queued"]_gatewayVars

\* A restart asked for while the loop waits ends in a new iteration of the loop,
\* or in the end of the process, though every turn it waits for hangs.
RestartHappens ==
    (shuttingDown /\ action = "restart" /\ "earlySignal" \notin mishaps)
        ~> (loop \in {"starting", "exited"})

\* A run that was accepted into its session's lane is not refused because a
\* restart began before its turn came.
AcceptedRunNotRefused == \A r \in Run : status[Inner(r)] # "refused"
=============================================================================
