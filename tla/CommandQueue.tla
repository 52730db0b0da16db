---------------------------- MODULE CommandQueue ----------------------------
(***************************************************************************)
(* The in-process command queue of src/src/process/command-queue.ts: named *)
(* lanes, each with a FIFO of entries, a set of active task ids, a         *)
(* concurrency limit and a generation that a restart bumps.                *)
(*                                                                         *)
(* JavaScript runs one callback at a time, so every exported function, and *)
(* everything a task's continuation does after its `await`, is one action. *)
(* `state.draining` is set and reset inside one such callback (drainLane   *)
(* runs pump synchronously), so between actions it is always false and is  *)
(* not a variable.  A lane that was never used has the state that          *)
(* getLaneState would create, hence lanes is a total function.             *)
(*                                                                         *)
(* An entry is started at most once and gets a fresh task id then, so the  *)
(* entry itself stands for its task id.                                    *)
(***************************************************************************)
EXTENDS Integers, Sequences, FiniteSets

CONSTANTS
    Lane,           \* the lane names
    Task,           \* the calls of enqueueCommandInLane
    MaxLimit,       \* bound: largest lane concurrency asked for
    MaxGeneration   \* bound: number of resetAllLanes calls

ASSUME LimitAssumption == MaxLimit \in Nat \ {0}
ASSUME GenerationAssumption == MaxGeneration \in Nat
ASSUME TaskAssumption == IsFiniteSet(Task)

VARIABLES
    gatewayDraining,  \* new entries are refused
    queue,            \* lane |-> entries waiting to start, oldest first
    activeTaskIds,    \* lane |-> entries the lane counts as executing
    maxConcurrent,    \* lane |-> how many may execute
    generation,       \* lane |-> number of resets
    status,           \* entry |-> where it is in its life
    laneOf,           \* entry |-> the lane it was put in
    taskGeneration,   \* entry |-> generation of the lane when it started
    waiter,           \* the promise returned by waitForActiveTasks
    activeAtStart     \* the task ids that promise waits for

laneVars == <<queue, activeTaskIds, maxConcurrent, generation>>
taskVars == <<status, laneOf, taskGeneration>>
waitVars == <<waiter, activeAtStart>>
vars == <<gatewayDraining, laneVars, taskVars, waitVars>>

Resolved == "resolved"
Rejected == "rejected"
Outcome == {Resolved, Rejected}                 \* the task's own outcome
Settled == Outcome \cup {"cleared", "refused"}  \* the promise is settled
Status == {"new", "queued", "running"} \cup Settled

Range1(s) == {s[i] : i \in 1..Len(s)}

TypeOK ==
    /\ gatewayDraining \in BOOLEAN
    /\ queue \in [Lane -> Seq(Task)]
    /\ activeTaskIds \in [Lane -> SUBSET Task]
    /\ maxConcurrent \in [Lane -> 1..MaxLimit]
    /\ generation \in [Lane -> Nat]
    /\ status \in [Task -> Status]
    /\ laneOf \in [Task -> Lane]
    /\ taskGeneration \in [Task -> Nat]
    /\ waiter \in {"idle", "waiting", "drained", "timeout"}
    /\ activeAtStart \in SUBSET Task

Init ==
    /\ gatewayDraining = FALSE
    /\ queue = [l \in Lane |-> <<>>]
    /\ activeTaskIds = [l \in Lane |-> {}]
    /\ maxConcurrent = [l \in Lane |-> 1]
    /\ generation = [l \in Lane |-> 0]
    /\ status = [t \in Task |-> "new"]
    /\ laneOf \in [Task -> Lane]
    /\ taskGeneration = [t \in Task |-> 0]
    /\ waiter = "idle"
    /\ activeAtStart = {}

-----------------------------------------------------------------------------
(* The pump: start entries from the front of q while fewer than limit are  *)
(* active.                                                                 *)

\* Mutant: `<=` for `<` in the loop condition.
StartCount_OneTooMany(q, active, limit) ==
    LET free == limit + 1 - Cardinality(active)
    IN  IF free <= 0 THEN 0 ELSE IF Len(q) <= free THEN Len(q) ELSE free

StartCount(q, active, limit) ==
    LET free == limit - Cardinality(active)
    IN  IF free <= 0 THEN 0 ELSE IF Len(q) <= free THEN Len(q) ELSE free

Pumped(q, active, limit) == {q[i] : i \in 1..StartCount(q, active, limit)}

Unpumped(q, active, limit) ==
    SubSeq(q, StartCount(q, active, limit) + 1, Len(q))

\* drainLane of every lane in L, from the queues q, active sets a, limits m,
\* generations g and entry states s that the caller has just written.
DrainLanes(L, q, a, m, g, s) ==
    LET started(l) == IF l \in L THEN Pumped(q[l], a[l], m[l]) ELSE {}
    IN  /\ queue' = [l \in Lane |->
                        IF l \in L THEN Unpumped(q[l], a[l], m[l]) ELSE q[l]]
        /\ activeTaskIds' = [l \in Lane |-> a[l] \cup started(l)]
        /\ maxConcurrent' = m
        /\ generation' = g
        /\ status' = [t \in Task |-> IF t \in started(laneOf[t])
                                     THEN "running" ELSE s[t]]
        /\ taskGeneration' = [t \in Task |-> IF t \in started(laneOf[t])
                                             THEN g[laneOf[t]]
                                             ELSE taskGeneration[t]]
        /\ UNCHANGED laneOf

-----------------------------------------------------------------------------
(* enqueueCommandInLane.  laneOf[t] is the lane argument of call t.        *)

EnqueueRefused(t) ==
    /\ status[t] = "new"
    /\ gatewayDraining
    /\ status' = [status EXCEPT ![t] = "refused"]
    /\ UNCHANGED <<gatewayDraining, laneVars, laneOf, taskGeneration, waitVars>>

Enqueue(t) ==
    /\ status[t] = "new"
    /\ ~gatewayDraining
    /\ DrainLanes({laneOf[t]},
                  [queue EXCEPT ![laneOf[t]] = Append(@, t)],
                  activeTaskIds, maxConcurrent, generation,
                  [status EXCEPT ![t] = "queued"])
    /\ UNCHANGED <<gatewayDraining, waitVars>>

(* The continuation of `await entry.task()`: completeTask, pump, settle.   *)
(* A task started before the last reset of its lane only settles.          *)

Current(t) == taskGeneration[t] = generation[laneOf[t]]

\* Mutant: the continuation forgets to pump.
CompleteTask_NoPump(t, outcome) ==
    /\ status[t] = "running"
    /\ Current(t)
    /\ DrainLanes({}, queue, [activeTaskIds EXCEPT ![laneOf[t]] = @ \ {t}],
                  maxConcurrent, generation, [status EXCEPT ![t] = outcome])
    /\ UNCHANGED <<gatewayDraining, waitVars>>

CompleteTask(t, outcome) ==
    /\ status[t] = "running"
    /\ Current(t)
    /\ DrainLanes({laneOf[t]}, queue,
                  [activeTaskIds EXCEPT ![laneOf[t]] = @ \ {t}],
                  maxConcurrent, generation,
                  [status EXCEPT ![t] = outcome])
    /\ UNCHANGED <<gatewayDraining, waitVars>>

CompleteStaleTask(t, outcome) ==
    /\ status[t] = "running"
    /\ ~Current(t)
    /\ status' = [status EXCEPT ![t] = outcome]
    /\ UNCHANGED <<gatewayDraining, laneVars, laneOf, taskGeneration, waitVars>>

MarkGatewayDraining ==
    /\ gatewayDraining' = TRUE
    /\ UNCHANGED <<laneVars, taskVars, waitVars>>

\* n is the configured value, which may be below the least limit of 1.
SetCommandLaneConcurrency(l, n) ==
    /\ DrainLanes({l}, queue, activeTaskIds,
                  [maxConcurrent EXCEPT ![l] = IF n < 1 THEN 1 ELSE n],
                  generation, status)
    /\ UNCHANGED <<gatewayDraining, waitVars>>

\* Mutant: the promises of executing tasks are rejected too.
ClearCommandLane_RejectsActive(l) ==
    /\ queue' = [queue EXCEPT ![l] = <<>>]
    /\ status' = [t \in Task |->
                    IF t \in Range1(queue[l]) \cup activeTaskIds[l]
                    THEN "cleared" ELSE status[t]]
    /\ UNCHANGED <<gatewayDraining, activeTaskIds, maxConcurrent, generation,
                   laneOf, taskGeneration, waitVars>>

\* Entries that wait are rejected; tasks that run are left alone.
ClearCommandLane(l) ==
    /\ queue' = [queue EXCEPT ![l] = <<>>]
    /\ status' = [t \in Task |-> IF t \in Range1(queue[l]) THEN "cleared"
                                 ELSE status[t]]
    /\ UNCHANGED <<gatewayDraining, activeTaskIds, maxConcurrent, generation,
                   laneOf, taskGeneration, waitVars>>

\* Mutant: preserved entries wait for the next enqueue.
ResetAllLanes_NoDrain ==
    /\ \A l \in Lane : generation[l] < MaxGeneration
    /\ gatewayDraining' = FALSE
    /\ DrainLanes({}, queue, [l \in Lane |-> {}], maxConcurrent,
                  [l \in Lane |-> generation[l] + 1], status)
    /\ UNCHANGED waitVars

\* Mutant: stale active ids are kept.
ResetAllLanes_KeepsActive ==
    /\ \A l \in Lane : generation[l] < MaxGeneration
    /\ gatewayDraining' = FALSE
    /\ DrainLanes({l \in Lane : queue[l] # <<>>}, queue, activeTaskIds,
                  maxConcurrent, [l \in Lane |-> generation[l] + 1], status)
    /\ UNCHANGED waitVars

ResetAllLanes ==
    /\ \A l \in Lane : generation[l] < MaxGeneration
    /\ gatewayDraining' = FALSE
    /\ DrainLanes({l \in Lane : queue[l] # <<>>}, queue,
                  [l \in Lane |-> {}], maxConcurrent,
                  [l \in Lane |-> generation[l] + 1], status)
    /\ UNCHANGED waitVars

-----------------------------------------------------------------------------
(* waitForActiveTasks: a snapshot, then a poll every 50 ms.  The deadline  *)
(* is real time, so a poll that still sees a pending task may or may not   *)
(* give up.                                                                *)

AllActive == UNION {activeTaskIds[l] : l \in Lane}

WaitForActiveTasks ==
    /\ waiter # "waiting"
    /\ activeAtStart' = AllActive
    /\ waiter' = IF AllActive = {} THEN "drained" ELSE "waiting"
    /\ UNCHANGED <<gatewayDraining, laneVars, taskVars>>

\* Mutant: drained as soon as one task of the snapshot is gone.
WaitPoll_AnyDone ==
    /\ waiter = "waiting"
    /\ waiter' = IF activeAtStart \subseteq AllActive THEN "timeout" ELSE "drained"
    /\ UNCHANGED <<gatewayDraining, laneVars, taskVars, activeAtStart>>

WaitPoll ==
    /\ waiter = "waiting"
    /\ waiter' = IF activeAtStart \cap AllActive = {} THEN "drained"
                                                      ELSE "timeout"
    /\ UNCHANGED <<gatewayDraining, laneVars, taskVars, activeAtStart>>

-----------------------------------------------------------------------------
\* What the users of the queue and the tasks do.
LaneNext ==
    \/ \E t \in Task : EnqueueRefused(t)
    \/ \E t \in Task : Enqueue(t)
    \/ \E t \in Task, outcome \in Outcome : CompleteTask(t, outcome)
    \/ \E t \in Task, outcome \in Outcome : CompleteStaleTask(t, outcome)
    \/ \E l \in Lane, n \in 0..MaxLimit : SetCommandLaneConcurrency(l, n)
    \/ \E l \in Lane : ClearCommandLane(l)

\* What the gateway's run loop does; GatewayRunLoop says in which order.
RestartNext ==
    \/ MarkGatewayDraining
    \/ ResetAllLanes
    \/ WaitForActiveTasks
    \/ WaitPoll

Next == LaneNext \/ RestartNext

Spec == Init /\ [][Next]_vars

\* A task of the current generation ends sooner or later (agent turns have a
\* run timeout).  Nothing is assumed of tasks a reset has left behind, nor of
\* the callers.
TasksEnd == \A t \in Task : WF_vars(\E outcome \in Outcome : CompleteTask(t, outcome))
FairSpec == Spec /\ TasksEnd

-----------------------------------------------------------------------------
(* Properties *)

\* A lane never idles while entries wait in it: whatever was enqueued,
\* completed, cleared, resized or reset, the pump that had to run did run.
WorkConserving ==
    \A l \in Lane : queue[l] # <<>> =>
        Cardinality(activeTaskIds[l]) >= maxConcurrent[l]

\* The set of active ids of a lane is exactly the tasks of its current
\* generation that execute: no id leaks (the lane would be blocked) and none is
\* lost (the lane would run too many), whichever generation completes first.
ActiveIsRunning ==
    \A l \in Lane : activeTaskIds[l] =
        {t \in Task : status[t] = "running" /\ laneOf[t] = l /\ Current(t)}

\* An entry waits in the queue of its own lane, at one place, exactly while its
\* promise is unsettled and its task not begun.
QueueIsWaiting ==
    \A l \in Lane :
        /\ Range1(queue[l]) = {t \in Task : status[t] = "queued" /\ laneOf[t] = l}
        /\ \A i, j \in 1..Len(queue[l]) : queue[l][i] = queue[l][j] => i = j

\* The books of every lane are right, and its limit is at least 1.
LanesConsistent == TypeOK /\ ActiveIsRunning /\ QueueIsWaiting

\* "all active work drained" is true: when waitForActiveTasks reports drained,
\* no task of its snapshot still executes, but for those a reset disowned.
DrainedSound ==
    waiter = "drained" => \A t \in activeAtStart : status[t] = "running" => ~Current(t)

\* A step that starts a task in a lane leaves the lane within its limit, also
\* when the limit was lowered while more tasks were executing.
StartsWithinLimit ==
    [][\A l \in Lane : activeTaskIds'[l] \subseteq activeTaskIds[l]
          \/ Cardinality(activeTaskIds'[l]) <= maxConcurrent'[l]]_vars

\* Every entry that waits leaves the queue, though tasks disowned by a reset may
\* hang for ever: they cannot block the lane.
EventuallyLeavesQueue ==
    \A t \in Task : status[t] = "queued" ~> status[t] # "queued"

-----------------------------------------------------------------------------
(* The abstract specification: LaneService with an entry's phase read off   *)
(* its status.                                                             *)

phaseBar ==
    [t \in Task |-> CASE status[t] = "new" -> "idle"
                      [] status[t] = "queued" -> "waiting"
                      [] status[t] = "running" -> "executing"
                      [] OTHER -> "done"]

Service == INSTANCE LaneService
    WITH waiting <- queue, phase <- phaseBar, of <- laneOf

\* The queue implements LaneService: every entry begins at most once, from the
\* front of its lane, and ends once, across clears, resizes and resets.
ImplementsLaneService == Service!Spec
=============================================================================
