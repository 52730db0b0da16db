----------------------------- MODULE CronService -----------------------------
(***************************************************************************)
(* The cron scheduler (src/src/cron/service/): the jobs in a store file,   *)
(* the memory of the service that was read from it, the timer tick, the    *)
(* catch-up at start, runs by hand, and edits; with crashes, failing       *)
(* writes, and reloads of the configuration (server-reload-handlers.ts).   *)
(*                                                                         *)
(* Sections under locked() exclude each other, so each is one action; jobs *)
(* execute outside of the lock.  A date is "later", "due" or "none".  A    *)
(* run ends with a status or its timeout.                                  *)
(***************************************************************************)
EXTENDS Integers, FiniteSets

CONSTANTS
    Job,               \* ids that createJob can make up
    OneShot,           \* those with schedule.kind "at"; the others recur
    DeleteAfterRun,    \* one-shots that are deleted when they succeed
    Manual,            \* calls of run()
    Concurrency,       \* maxConcurrentRuns
    MaxImmediate,      \* maxMissedJobsPerRestart
    MaxRetries,        \* retries of a one-shot after transient errors
    MaxEvents,         \* bound: edits, crashes, failed writes, reloads and marks
                       \* that become old under a run, all told
    Absent, NotLoaded

ASSUME CronAssumption ==
    /\ OneShot \subseteq Job /\ DeleteAfterRun \subseteq OneShot
    /\ Concurrency \in Nat \ {0} /\ MaxImmediate \in Nat /\ MaxRetries \in Nat
    /\ MaxEvents \in Nat
    /\ Absent \notin Job

Batch == {"catchup", "tick"}
\* Ends of a run.  What is skipped ends like a permanent error: without success,
\* and not to be tried again.  A recurring job is dated anew in any case.
Status == {"ok", "transient", "permanent"}
Ends(j) == IF j \in OneShot THEN Status ELSE {"ok"}
NoPlan == [skip |-> {}, deferred |-> {}]

VARIABLES
    file,        \* the store file: job |-> its state, or Absent
    mem,         \* state.store, or NotLoaded
    attached,    \* the job objects of the tick's batch are those of mem
    start,       \* where start() is
    plan,        \* interrupted and deferred jobs of start
    ticking,     \* where onTimer is; not "idle": state.running
    timer,       \* state.timer is set
    batch,       \* batch |-> jobs to run, running, and the results
    man,         \* manual run |-> where it is, and what it runs
    known,       \* ids given away
    events,      \* counts what MaxEvents bounds
    upset,       \* history: jobs whose running mark was taken from a run under way, by a
                 \* disabling or a failed write, or became too old under it
    done         \* history: one-shots whose success has been stored

store == <<file, mem, attached>>
vars == <<store, start, plan, ticking, timer, batch, man, known, events,
          upset, done>>

JobState == [on : BOOLEAN,                      \* enabled
             next : {"none", "later", "due"},   \* nextRunAtMs
             mark : {"no", "set", "stale"},     \* runningAtMs; stale: STUCK_RUN_MS old
             slot : {"later", "due"},           \* what the schedule says
             last : {"none", "ok", "error"},    \* lastStatus
             errs : 0..(MaxRetries + 1)]        \* consecutiveErrors, of one-shots
Store == [Job -> JobState \cup {Absent}]
\* The values that stand for no job and no store are neither.
ASSUME MarkersAssumption == Absent \notin JobState /\ NotLoaded \notin Store

NoResults == [j \in Job |-> "none"]
NoBatch == [todo |-> {}, running |-> {}, result |-> NoResults]
Idle == [pc |-> "idle", job |-> Absent, result |-> "none"]
Over == [Idle EXCEPT !.pc = "done"]

TypeOK ==
    /\ file \in Store
    /\ mem = NotLoaded \/ mem \in Store
    /\ attached \in BOOLEAN
    /\ start \in {"clear", "plan", "catchup", "recompute", "up", "failed"}
    /\ plan \in [skip : SUBSET Job, deferred : SUBSET Job]
    /\ ticking \in {"idle", "reserve", "work", "final"}
    /\ timer \in BOOLEAN
    /\ batch \in [Batch -> [todo : SUBSET Job, running : SUBSET Job,
                            result : [Job -> Status \cup {"none"}]]]
    /\ man \in [Manual -> [pc : {"idle", "preflight", "reserve", "exec", "finish", "done"},
                          job : Job \cup {Absent}, result : Status \cup {"none"}]]
    /\ known \subseteq Job /\ upset \subseteq Job /\ done \subseteq OneShot
    /\ events \in 0..MaxEvents

NewJob == [on |-> TRUE, next |-> "later", mark |-> "no", slot |-> "later",
           last |-> "none", errs |-> 0]

Init ==
    /\ known \in SUBSET Job
    /\ file = [j \in Job |-> IF j \in known THEN NewJob ELSE Absent]
    /\ mem = NotLoaded
    /\ attached = FALSE
    /\ start = "clear"
    /\ plan = NoPlan
    /\ ticking = "idle"
    /\ timer = FALSE
    /\ batch = [b \in Batch |-> NoBatch]
    /\ man = [m \in Manual |-> Idle]
    /\ events = 0
    /\ upset = {} /\ done = {}

-----------------------------------------------------------------------------
(* Job state *)

Marked(js) == js.mark # "no"
Runnable(js) == js.on /\ ~Marked(js) /\ js.next = "due"

\* computeJobNextRunAtMs
ComputeNext(j, js) ==
    IF ~js.on \/ (j \in OneShot /\ js.last = "ok") THEN "none" ELSE js.slot

\* normalizeJobTickState
Normalized(js) ==
    IF ~js.on THEN [js EXCEPT !.next = "none", !.mark = "no"]
    ELSE IF js.mark = "stale" THEN [js EXCEPT !.mark = "no"] ELSE js

EachJob(st, F(_, _)) == [j \in Job |-> IF st[j] = Absent THEN Absent ELSE F(j, st[j])]

Recomputed(j, js) ==
    LET n == Normalized(js) IN
    IF n.next = "later" THEN n ELSE [n EXCEPT !.next = ComputeNext(j, n)]
\* recomputeNextRuns
Recompute(st) == EachJob(st, Recomputed)

Maintained(j, js) ==
    LET n == Normalized(js) IN
    IF n.next = "none" THEN [n EXCEPT !.next = ComputeNext(j, n)] ELSE n
\* Mutant: the full recomputation, which advances what is due.
Maintain_Full(st) == EachJob(st, Recomputed)
\* recomputeNextRunsForMaintenance.  With recomputeExpired it also advances a slot that
\* has been executed, but a run that is recorded has advanced its slot already.
Maintain(st) == EachJob(st, Maintained)

\* Mutant: a one-shot that succeeded stays enabled.
ApplyJobResult_StaysDue(j, js, status) ==
    LET ran == [js EXCEPT !.mark = "no", !.last = IF status = "ok" THEN "ok" ELSE "error"]
    IN [ran EXCEPT !.next = IF js.on THEN "later" ELSE "none"]

\* applyJobResult, with the deletion that follows it.  Whether the backoff or the
\* schedule says when a recurring job is next, it is later.
ApplyJobResult(j, js, status) ==
    LET errs == IF j \notin OneShot \/ status = "ok" THEN 0
                ELSE IF js.errs > MaxRetries THEN js.errs ELSE js.errs + 1
        ran == [js EXCEPT !.mark = "no", !.errs = errs,
                          !.last = IF status = "ok" THEN "ok" ELSE "error"]
        over == [ran EXCEPT !.on = FALSE, !.next = "none"]
    IN IF j \notin OneShot THEN [ran EXCEPT !.next = IF js.on THEN "later" ELSE "none"]
       ELSE IF status = "ok" THEN IF j \in DeleteAfterRun THEN Absent ELSE over
       ELSE IF status = "transient" /\ errs <= MaxRetries THEN [ran EXCEPT !.next = "later"]
       ELSE over

\* applyOutcomeToStoredJob for every result of a batch: a job that is gone is passed over.
ApplyResults(st, result) ==
    [j \in Job |-> IF st[j] = Absent \/ result[j] = "none" THEN st[j]
                   ELSE ApplyJobResult(j, st[j], result[j])]

WithMark(st, jobs) == [j \in Job |-> IF j \in jobs THEN [st[j] EXCEPT !.mark = "set"] ELSE st[j]]

\* A run of j has been reserved, goes on, or has a result that is not applied yet.
UnderWay(j) ==
    \/ \E b \in Batch : j \in batch[b].todo \cup batch[b].running \/ batch[b].result[j] # "none"
    \/ \E m \in Manual : man[m].job = j /\ man[m].pc \in {"exec", "finish"}

-----------------------------------------------------------------------------
(* Sections *)

\* ensureLoaded: without forceReload, what is in memory is trusted.
Loaded == IF mem = NotLoaded THEN file ELSE mem

Event == events < MaxEvents /\ events' = events + 1

\* A section of s ends with st in memory and writes it; or the write fails, and the
\* section throws.
Put(st, ok) ==
    /\ mem' = st
    /\ file' = IF ok THEN st ELSE file
Save(st, ok) ==
    /\ Put(st, ok)
    /\ IF ok THEN UNCHANGED events ELSE Event

\* Mutant: no timer for a date that has passed.
Arm_FutureOnly(st) == timer' = \E j \in Job : st[j] # Absent /\ st[j].on /\ st[j].next = "later"
\* armTimer
Arm(st) ==
    timer' = \E j \in Job : st[j] # Absent /\ st[j].on /\ st[j].next # "none"

\* Jobs whose run loses its mark, or all when a write failed.
Upsets(jobs, ok) == upset' = IF ok THEN upset \cup jobs ELSE Job

Succeeded(result) == {j \in OneShot : result[j] = "ok"}
Done(jobs, ok) == done' = IF ok THEN done \cup (jobs \ upset) ELSE done

-----------------------------------------------------------------------------
(* start *)

\* Mutant: the marks that a crash left are kept.
StartClear_KeepsMarks ==
    /\ start = "clear"
    /\ Save(Loaded, TRUE)
    /\ plan' = NoPlan
    /\ start' = "plan"
    /\ UNCHANGED <<attached, ticking, timer, batch, man, known, upset, done>>

StartClear ==
    /\ start = "clear"
    /\ \E ok \in BOOLEAN :
       LET st == Loaded
           interrupted == {j \in Job : st[j] # Absent /\ Marked(st[j])}
       IN /\ Save([j \in Job |-> IF j \in interrupted THEN [st[j] EXCEPT !.mark = "no"]
                                    ELSE st[j]], ok)
          /\ plan' = [NoPlan EXCEPT !.skip = interrupted]
          /\ start' = IF ok THEN "plan" ELSE "failed"
          /\ Upsets({j \in interrupted : UnderWay(j)}, ok)
    /\ UNCHANGED <<attached, ticking, timer, batch, man, known, done>>

\* A recurring job may also have missed a slot although its next date is later.
Missed(st, skip) ==
    {j \in Job \ skip : st[j] # Absent /\ Runnable(st[j]) /\ (j \in OneShot => st[j].last # "ok")}
MayHaveMissed(st, skip) ==
    {j \in Job \ (skip \cup OneShot) :
        st[j] # Absent /\ st[j].on /\ ~Marked(st[j]) /\ st[j].next = "later" /\ st[j].last # "none"}

\* planStartupCatchup
StartPlan ==
    /\ start = "plan"
    /\ LET st == Loaded IN
       \E more \in SUBSET MayHaveMissed(st, plan.skip) :
          LET missed == Missed(st, plan.skip) \cup more IN
          \/ /\ missed = {}
             /\ start' = "recompute"
             /\ plan' = NoPlan
             /\ UNCHANGED <<store, batch, events, upset>>
          \/ /\ missed # {}
             /\ \E now \in SUBSET missed, ok \in BOOLEAN :
                   /\ Cardinality(now) = MaxImmediate \/ (now = missed /\ Cardinality(now) < MaxImmediate)
                   /\ Save(WithMark(st, now), ok)
                   /\ plan' = [skip |-> {}, deferred |-> missed \ now]
                   /\ start' = IF ok THEN "catchup" ELSE "failed"
                   /\ batch' = IF ok THEN [batch EXCEPT !["catchup"].todo = now] ELSE batch
                   /\ Upsets({}, ok)
             /\ UNCHANGED attached
    /\ UNCHANGED <<ticking, timer, man, known, done>>

BatchOver(b) == batch[b].todo = {} /\ batch[b].running = {}

\* applyStartupCatchupOutcomes
StartApply ==
    /\ start = "catchup" /\ BatchOver("catchup")
    /\ \E ok \in BOOLEAN :
       LET result == batch["catchup"].result
           applied == ApplyResults(file, result)
           dated == {j \in plan.deferred : applied[j] # Absent /\ applied[j].on}
           st == [j \in Job |-> IF j \in dated THEN [applied[j] EXCEPT !.next = "later"]
                                ELSE applied[j]]
       IN /\ Save(Maintain(st), ok)
          /\ start' = IF ok THEN "recompute" ELSE "failed"
          /\ Upsets({}, ok)
          /\ done' = IF ok THEN (done \cup (Succeeded(result) \ upset)) \ dated ELSE done
    /\ attached' = FALSE
    /\ batch' = [batch EXCEPT !["catchup"] = NoBatch]
    /\ plan' = NoPlan
    /\ UNCHANGED <<ticking, timer, man, known>>

StartRecompute ==
    /\ start = "recompute"
    /\ \E ok \in BOOLEAN :
       LET st == Recompute(file) IN
       /\ Save(st, ok)
       /\ start' = IF ok THEN "up" ELSE "failed"
       /\ IF ok THEN Arm(st) ELSE UNCHANGED timer
       /\ Upsets({}, ok)
    /\ attached' = FALSE
    /\ UNCHANGED <<plan, ticking, batch, man, known, done>>

-----------------------------------------------------------------------------
(* Execution of a batch *)

Room(b) == Cardinality(batch[b].running) < (IF b = "tick" THEN Concurrency ELSE 1)

\* runDueJob sets the mark of the object it was given, whatever became of the job;
\* runStartupCatchupCandidate does not.
RunBegins(b, j) ==
    /\ j \in batch[b].todo /\ Room(b)
    /\ batch' = [batch EXCEPT ![b].todo = @ \ {j}, ![b].running = @ \cup {j}]
    /\ mem' = IF b = "tick" /\ attached /\ mem[j] # Absent
              THEN [mem EXCEPT ![j].mark = "set"] ELSE mem
    /\ UNCHANGED <<file, attached, start, plan, ticking, timer, man, known, events, upset,
                   done>>

RunEnds(b, j) ==
    /\ j \in batch[b].running
    /\ \E status \in Ends(j) :
          batch' = [batch EXCEPT ![b].running = @ \ {j}, ![b].result[j] = status]
    /\ UNCHANGED <<store, start, plan, ticking, timer, man, known, events,
                   upset, done>>

-----------------------------------------------------------------------------
(* onTimer *)

\* The early return: armRunningRecheckTimer.
TickFindsRunning ==
    /\ timer /\ ticking # "idle"
    /\ timer' = TRUE
    /\ UNCHANGED <<store, start, plan, ticking, batch, man, known, events,
                   upset, done>>

\* The timer is armed again as a watchdog.
TickBegins ==
    /\ timer /\ ticking = "idle"
    /\ ticking' = "reserve"
    /\ UNCHANGED <<store, start, plan, timer, batch, man, known, events,
                   upset, done>>

\* collectRunnableJobs
TickDue(st) == {j \in Job : st[j] # Absent /\ Runnable(st[j])}

TickReserve ==
    /\ ticking = "reserve"
    /\ LET due == TickDue(file) IN
       \E ok \in BOOLEAN :
          /\ ok \/ due # {} \/ Maintain(file) # file  \* else nothing is written
          /\ Save(IF due = {} THEN Maintain(file) ELSE WithMark(file, due), ok)
          /\ ticking' = IF ok /\ due # {} THEN "work" ELSE "final"
          /\ batch' = IF ok THEN [batch EXCEPT !["tick"].todo = due] ELSE batch
          /\ Upsets({}, ok)
    /\ attached' = TRUE
    /\ UNCHANGED <<start, plan, timer, man, known, done>>

TickApply ==
    /\ ticking = "work" /\ BatchOver("tick")
    /\ \E ok \in BOOLEAN :
       LET result == batch["tick"].result IN
       /\ Save(Maintain(ApplyResults(file, result)), ok)
       /\ Upsets({}, ok)
       /\ Done(Succeeded(result), ok)
    /\ ticking' = "final"
    /\ attached' = FALSE
    /\ batch' = [batch EXCEPT !["tick"] = NoBatch]
    /\ UNCHANGED <<start, plan, timer, man, known>>

\* The finally block, after the session reaper.
TickFinal ==
    /\ ticking = "final"
    /\ ticking' = "idle"
    /\ Arm(mem)
    /\ UNCHANGED <<store, start, plan, batch, man, known, events, upset, done>>

-----------------------------------------------------------------------------
(* run *)

ManGoto(m, pc) == man' = [man EXCEPT ![m].pc = pc]
ManOver(m) == man' = [man EXCEPT ![m] = Over]

CallRun(m) ==
    /\ man[m].pc = "idle"
    /\ \E j \in Job :
          man' = [man EXCEPT ![m].pc = "preflight", ![m].job = j]
    /\ UNCHANGED <<store, start, plan, ticking, timer, batch, known, events,
                   upset, done>>

\* inspectManualRunPreflight: the marks are normalised in memory only.  enqueueRun has
\* done the same before, in order to answer its caller.
Preflight(m) ==
    /\ man[m].pc = "preflight"
    /\ LET st == Maintain(Loaded)
           js == st[man[m].job]
       IN /\ mem' = st
          /\ \E forced \in BOOLEAN :  \* the mode of the call
                IF js # Absent /\ ~Marked(js) /\ (forced \/ Runnable(js))
                THEN ManGoto(m, "reserve") ELSE ManOver(m)
    /\ UNCHANGED <<file, attached, start, plan, ticking, timer, batch, known, events, upset,
                   done>>

\* The second section looks for the job and its mark again, not for its date.
Reservable(js) == js # Absent /\ ~Marked(js)

ReserveRefused(m) ==
    /\ man[m].pc = "reserve"
    /\ ~Reservable(mem[man[m].job])
    /\ ManOver(m)
    /\ UNCHANGED <<store, start, plan, ticking, timer, batch, known, events,
                   upset, done>>

Reserve(m) ==
    /\ man[m].pc = "reserve"
    /\ LET j == man[m].job
       IN /\ Reservable(mem[j])
          /\ \E ok \in BOOLEAN :
                /\ Save(WithMark(mem, {j}), ok)
                /\ IF ok THEN ManGoto(m, "exec") ELSE ManOver(m)
                \* Forced: what is disabled has no mark for long.
                /\ Upsets(IF mem[j].on THEN {} ELSE {j}, ok)
    /\ UNCHANGED <<attached, start, plan, ticking, timer, batch, known, done>>

ManualEnds(m) ==
    /\ man[m].pc = "exec"
    /\ \E status \in Ends(man[m].job) :
          man' = [man EXCEPT ![m].pc = "finish", ![m].result = status]
    /\ UNCHANGED <<store, start, plan, ticking, timer, batch, known, events,
                   upset, done>>

\* finishPreparedManualRun: the result is applied to the job in memory, and what came
\* of it merged into the reloaded store.
Finish(m) ==
    /\ man[m].pc = "finish"
    /\ LET j == man[m].job
           js == Loaded[j]
           new == ApplyJobResult(j, js, man[m].result)
           merged == [file EXCEPT ![j] =
                         IF new = Absent \/ file[j] = Absent THEN Absent
                         ELSE [new EXCEPT !.slot = file[j].slot]]
           st == Maintain(merged)
       IN \/ /\ js = Absent
             /\ UNCHANGED <<store, timer, events, upset, done>>
          \/ /\ js # Absent
             /\ \E ok \in BOOLEAN :
                   /\ Save(st, ok)
                   /\ IF ok THEN Arm(st) ELSE UNCHANGED timer
                   /\ Upsets({}, ok)
                   /\ IF man[m].result = "ok" THEN Done({j} \cap OneShot, ok)
                      ELSE done' = done \ {j}
             /\ attached' = FALSE
    /\ ManOver(m)
    /\ UNCHANGED <<start, plan, ticking, batch, known>>

-----------------------------------------------------------------------------
(* Edits, by requests *)

\* One edit: st is the store it makes, lost the runs whose mark it clears.
Edit(st, lost) ==
    /\ Event
    /\ \E ok \in BOOLEAN :
          /\ Put(st, ok)
          /\ IF ok THEN Arm(st) ELSE UNCHANGED timer
          /\ Upsets({j \in lost : UnderWay(j)}, ok)
    /\ UNCHANGED <<attached, start, plan, ticking, batch, man>>

\* ensureLoaded without skipRecompute recomputes what it loads.
LoadedComputed == IF mem = NotLoaded THEN Recompute(file) ELSE mem

Add(j) ==
    /\ j \notin known
    /\ known' = known \cup {j}
    /\ Edit(Recompute([LoadedComputed EXCEPT ![j] = NewJob]), {})
    /\ UNCHANGED done

Remove(j) ==
    /\ LoadedComputed[j] # Absent
    /\ Edit([LoadedComputed EXCEPT ![j] = Absent], {})
    /\ UNCHANGED <<known, done>>

\* update with enabled.
SetEnabled(j, on) ==
    /\ Loaded[j] # Absent
    /\ LET js == [Loaded[j] EXCEPT !.on = on]
           new == IF on THEN [js EXCEPT !.next = ComputeNext(j, js)]
                  ELSE [js EXCEPT !.next = "none", !.mark = "no"]
       IN Edit([Loaded EXCEPT ![j] = new], IF on THEN {} ELSE {j})
    /\ UNCHANGED <<known, done>>

\* update with schedule: a new date of a one-shot makes its last status immaterial.
Reschedule(j) ==
    /\ Loaded[j] # Absent
    /\ LET js == [Loaded[j] EXCEPT
                      !.slot = "later", !.last = IF j \in OneShot THEN "none" ELSE Loaded[j].last]
           new == IF js.on THEN [js EXCEPT !.next = "later"]
                  ELSE [js EXCEPT !.next = "none", !.mark = "no"]
       IN Edit([Loaded EXCEPT ![j] = new], IF js.on THEN {} ELSE {j})
    /\ done' = done \ {j}
    /\ UNCHANGED known

\* status, list: ensureLoadedForRead
Read ==
    /\ LET st == Maintain(Loaded) IN
       \/ st = Loaded /\ mem' = st
          /\ UNCHANGED <<file, events, upset>>
       \/ /\ st # Loaded
          /\ \E ok \in BOOLEAN : Save(st, ok) /\ Upsets({}, ok)
    /\ UNCHANGED <<attached, start, plan, ticking, timer, batch, man, known, done>>

-----------------------------------------------------------------------------
(* The world *)

Later(j, js) ==
    [js EXCEPT !.next = IF js.next = "later" THEN "due" ELSE js.next,
               !.slot = IF j \in OneShot THEN "due" ELSE js.slot]
OnCopies(j, F(_)) ==
    /\ file' = [file EXCEPT ![j] = IF file[j] = Absent THEN Absent ELSE F(file[j])]
    /\ mem' = IF mem = NotLoaded \/ mem[j] = Absent THEN mem ELSE [mem EXCEPT ![j] = F(mem[j])]
    /\ UNCHANGED <<attached, start, plan, ticking, timer, batch, man, known, done>>

\* The next date of j comes.
TimePasses(j) ==
    /\ file[j] # Absent
    /\ file[j].next = "later" \/ (j \in OneShot /\ file[j].slot = "later")
    /\ OnCopies(j, LAMBDA js : Later(j, js))
    /\ UNCHANGED <<events, upset>>

\* The mark of j becomes STUCK_RUN_MS old: left behind, or under a run that is that long,
\* having none or a long timeout, or under one that waits for a worker since it was reserved.
MarkAges(j) ==
    /\ \E st \in {file, Loaded} : st[j] # Absent /\ st[j].mark = "set"
    /\ IF UnderWay(j) THEN Event /\ upset' = upset \cup {j}
       ELSE UNCHANGED <<events, upset>>
    /\ OnCopies(j, LAMBDA js : IF js.mark = "set" THEN [js EXCEPT !.mark = "stale"] ELSE js)

Quiet == ticking = "idle" /\ start \in {"up", "failed"} /\ \A j \in Job : ~UnderWay(j)

NewService ==
    /\ Event
    /\ mem' = NotLoaded
    /\ attached' = FALSE
    /\ start' = "clear"
    /\ plan' = NoPlan
    /\ ticking' = "idle"
    /\ timer' = FALSE
    /\ UNCHANGED <<file, known>>

\* The configuration is reloaded: stop() clears the timer, and another service starts.
\* Bound: only while nothing is under way in the first, else both would go on.
Reload ==
    /\ Quiet /\ \A m \in Manual : man[m].pc \in {"idle", "done"}
    /\ NewService
    /\ UNCHANGED <<batch, man, upset, done>>

\* The process dies, and a new one starts the service.
Crash ==
    /\ NewService
    /\ batch' = [b \in Batch |-> NoBatch]
    /\ man' = [m \in Manual |-> IF man[m].pc = "idle" THEN Idle ELSE Over]
    /\ upset' = {}
    /\ done' = done \ upset

-----------------------------------------------------------------------------
Starting == StartClear \/ StartPlan \/ StartApply \/ StartRecompute
Ticking == TickBegins \/ TickReserve \/ TickApply \/ TickFinal
Running(b) == \E j \in Job : RunBegins(b, j) \/ RunEnds(b, j)
ManualRun(m) == Preflight(m) \/ ReserveRefused(m) \/ Reserve(m) \/ ManualEnds(m) \/ Finish(m)
EditOf(j) == SetEnabled(j, TRUE) \/ SetEnabled(j, FALSE) \/ Reschedule(j)

Next ==
    \/ Starting \/ Ticking \/ TickFindsRunning
    \/ \E b \in Batch : Running(b)
    \/ \E m \in Manual : CallRun(m) \/ ManualRun(m)
    \/ \E j \in Job : Add(j) \/ Remove(j) \/ EditOf(j) \/ TimePasses(j) \/ MarkAges(j)
    \/ Read \/ Reload \/ Crash

Spec == Init /\ [][Next]_vars

\* A start, a call by hand and a mark left behind take finitely many steps: to be fair
\* to all of them together is to be fair to each.
Finite ==
    \/ Starting
    \/ \E m \in Manual : ManualRun(m)
    \/ \E j \in Job : ~UnderWay(j) /\ MarkAges(j)
\* Sections get their turn, timers fire, runs end or are timed out, time goes on.
Fairness == WF_vars(Finite) /\ WF_vars(Ticking) /\ WF_vars(\E b \in Batch : Running(b))

FairSpec == Spec /\ Fairness

-----------------------------------------------------------------------------
(* Properties *)

Executions(j) ==
    Cardinality({b \in Batch : j \in batch[b].running})
        + Cardinality({m \in Manual : man[m].job = j /\ man[m].pc = "exec"})

\* "Persist the running marker before releasing lock so timer ticks that force-reload
\* from disk cannot start the same job concurrently": no job is executed twice at one
\* time, by ticks, the catch-up and manual runs; and the mark in the store tells the
\* truth, so that no job is thought to run that does not, after a crash, a removal or a
\* reload either.  Except for jobs whose run lost its mark: to a disabling, because it was
\* forced on a disabled job, or to a failed write; or whose mark became so old under the
\* run that the next maintenance takes it for stuck.
RunningMarkTrue ==
    /\ TypeOK
    /\ \A j \in Job \ upset :
          /\ Executions(j) <= 1
          /\ file[j] # Absent /\ start # "clear" => (Marked(file[j]) <=> UnderWay(j))

IsDue(j) == file[j] # Absent /\ file[j].on /\ file[j].next = "due"

\* "A past-due nextRunAtMs is never advanced without execution": once the service is
\* up, a date that has come is not given up but by a run, or by an edit of the job; the
\* addition of another job, which recomputes every date, does give it up.
DueNotSkipped ==
    [][start = "up" =>
          \A j \in Job \ upset' :
             IsDue(j) /\ ~Marked(file[j]) /\ file'[j] # Absent =>
                \/ file'[j].next = "due" \/ ~file'[j].on
                \/ EditOf(j) \/ \E k \in Job : Add(k)]_vars

\* A one-shot whose success has been stored is not run again by the scheduler, whatever
\* is enabled, reloaded or caught up after a crash, unless it is given a new date.
OneShotDone ==
    [][\A j \in done \ upset : \A b \in Batch : j \in batch'[b].todo => j \in batch[b].todo]_vars

\* In the file, and in memory, from which the timer is armed.
IsDueHere(j) == IsDue(j) /\ Loaded[j] # Absent /\ Loaded[j].on /\ Loaded[j].next = "due"

\* The scheduler does not die, nor one job of it: a job that is due is run in the end,
\* or is not due any more, whatever ticks overlap, writes fail and marks are left behind
\* by a write that failed; unless start() itself failed.
DueJobRuns ==
    \A j \in Job : IsDueHere(j) ~> UnderWay(j) \/ ~IsDueHere(j) \/ start = "failed"
=============================================================================
