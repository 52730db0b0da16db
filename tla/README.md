# Foxclaw: TLA+ specifications

Formal models of the control core of the Foxclaw gateway (`src/src`, TypeScript on Node.js):
the in-process lanes that serialise agent work, the gateway's restart loop, the durable
outbound queue, the followup queue of a busy session, the heartbeat scheduler, the cron
service, the supervision of channel accounts, the lock files, the approvals of commands, the
registry of subagent runs with the queue of their announcements, and the reloading of the
configuration with the replies that delay a restart. TLC checks each on a small instance;
for any number of lanes, tasks, runs, restarts, wakes, deliveries, messages, announcements,
jobs, callers, registrations and configurations, TLAPS proves the safety of the command
queue, of the turns in their lanes, of the restart loop, the heartbeat scheduler, the
outbound queue, the followup queue, the subagent runs and their announcements, the cron
service, the lock files and the approvals, that an account's live instance is tracked and a
stop kept, that no edit of the configuration is forgotten and one cron service is armed, and
that a restart which is not forced interrupts no reply. Every invariant that a run checks is
a theorem (section 5); what must eventually happen is checked by TLC only.

    tlc -workers 2 -config CommandQueue.cfg MCCommandQueue.tla     # one run
    tlapm CommandQueueProofs.tla                                   # the proofs

Paths below are relative to `src/src/`.

## 1. The system and its parts

Foxclaw is one long-lived Node process, the gateway. Channels (Telegram, Discord, ...)
bring messages in; a message starts an *agent run* or, when its session is busy, waits in
the session's followup queue; runs pass through lanes of the command queue; replies leave
through the outbound delivery queue. Cron jobs and heartbeats start runs by themselves. The
gateway restarts in process (SIGUSR1, config changes), so all module-level state lives
through restarts, and in a new process after a crash, when only files do.

JavaScript runs one callback at a time. What makes this code hard is therefore never a data
race in memory but *what happens between two `await`s*: state that is read before one and
used after it, two asynchronous functions over the same variables, promises that settle
after their world has been reset, and files shared with other processes. Every model takes
"from one `await` to the next" as its atomic step.

| Component (source) | State | Operations | Interacts with | Hard behaviour | What makes it correct |
|---|---|---|---|---|---|
| Command queue (`process/command-queue.ts`) | per lane: FIFO, active ids, limit, generation; draining mark | enqueue, complete, set limit, clear, mark draining, reset, wait for active | called by runs, cron, run loop | completions of tasks that a reset disowned; pumping after each change; drain with deadline | the lanes' books are exact, work conserving, within limits, FIFO, each entry settles once |
| Agent runs (`agents/pi-embedded-runner/`) | session and global entries, table of active runs | run, register, clear, `sessions_send` and its wait | two nested entries of the command queue | a run holds one lane while it waits for another | no deadlock, one run per session |
| Gateway run loop (`cli/gateway-cli/run-loop.ts`) | server, lock, shuttingDown, resolver | start, signals, drain, close, release, respawn, reacquire | command queue, runs, gateway lock, other processes | loop and signal handler interleave at every await; failed starts; timeouts | lock told truly, draining mark right, restart happens, no work lost |
| Outbound delivery queue (`infra/outbound/delivery-queue.ts`) | files `{id}.json`, `.delivered`, `failed/` | enqueue, ack in two phases, fail, recover | live deliveries (`deliver.ts`), recovery at start | crash between any two file operations; recoveries beside live senders and beside each other | at least once, no replay after ack, every entry leaves |
| Followup queue (`auto-reply/reply/queue/`) | map of queue objects, items, dropped summaries, recent ids | enqueue, drop, drain, clear | ends of runs, sessions, abort | the drain awaits a run and then removes by position; objects outlive their map entry | each message handled once, none lost, one drain |
| Heartbeat wake (`infra/heartbeat-wake.ts`) | pending wakes, one timer, running/scheduled, handler generation | request, set handler, dispose, timer, batch | cron, exec, hooks; heartbeat runner | handler swapped while its batch runs; retry beside normal timers | no wake lost, one batch, cooldown kept |
| Channel manager (`gateway/server-channels.ts`) | tasks, abort controllers, attempts, manual stops, runtime | start, stop, promise chain with backoff | plugins, config reload, health monitor | stop during backoff; requests that overlap in their awaits | what runs is tracked, stopped stays stopped, runtime true |
| Channel health monitor (`gateway/channel-health-monitor.ts`) | last restart per channel | check: stop, reset, start | channel manager | decides on a status read before an await | does not revive what was stopped |
| Cron service (`cron/service/`) | jobs and running marks, in memory and in a store file, one timer | add, update, run by hand, tick, start, reload | agent runs, heartbeat wake | a run checks, reserves and writes in separate locked sections; results applied to a reloaded store; crash with a running mark | one run per job at a time, no due date given up without a run, due jobs run |
| File, session and gateway locks (`plugin-sdk/file-lock.ts`, `agents/session-write-lock.ts`, `agents/sandbox/registry.ts`, `infra/gateway-lock.ts`) | lock files, table of held locks | acquire, reenter, judge, break stale, release, watchdog, sweep | everything that writes files; other processes | the stale lock is judged, then removed by name after awaits | mutual exclusion; a live holder's lock stays |
| Exec approvals (`gateway/exec-approval-manager.ts`, `gateway/server-methods/exec-approval.ts`) | pending records with timers and a grace period | register, resolve, expire, await, consume once | operators, the forwarder, agents' exec tools, nodes | a ruling races the expiry; an id registered anew | what was ruled is what is done, once if it was for once |
| Subagent announce queue (`agents/subagent-announce-queue.ts`) | queues by key, dropped summaries, a drain | enqueue, drain, send | the announce flow of the registry; the gateway's memory of keys | overflow during a send; an answer that is lost; a key looked for, then recorded after an await | announced, and once |
| Subagent registry (`agents/subagent-registry.ts`) | records of runs in memory and in a file, marks, timers | register, complete, clean up, announce, retry, kill, steer, sweep, restore | agent runs and their events, `agent.wait`, the session store | three sources for one end; retries by timers and by other runs; claims that outlive their process | each run is cleaned up by one flow at a time and announced once |
| Keyed queue and ACP manager (`plugin-sdk/keyed-async-queue.ts`, `acp/control-plane/`) | promise tail per key, runtime cache, active turns | ensure, run turn, cancel, close, evict | ACP backends | cancel beside the turn, eviction beside use | turns of one session in order, none on an evicted runtime |
| Process supervisor (`process/supervisor/`) | runs, scopes, timers | spawn, cancel, settle | exec tools | timeout beside exit, cancel before spawn | each run settles once with one reason |
| Reply dispatcher (`auto-reply/reply/reply-dispatcher.ts`, `dispatcher-registry.ts`) | promise chain, pending count, reservation; the registry | create, enqueue, deliver, markComplete | runs, restart requests | idle while something is still to come | what counts as idle owes no reply |
| Configuration reload and restart requests (`gateway/config-reload.ts`, `server-reload-handlers.ts`, `server-close.ts`, `infra/restart.ts`) | the current configuration, watcher and timers, the cron service of the state, checks and polls | watch, read, decide, hot reload, ask for a restart, defer it, close, start | reply dispatchers, cron service, run loop, channels | edits during a reload; a reload beside a close; restarts asked for twice | no edit forgotten, one cron service, a restart waits for replies |
| Pairing (`infra/device-pairing.ts`, `node-pairing.ts`) | pending and paired in files | request, approve, rotate, remove | gateway auth | stale reads beside writes | one token per role |
| Auth profile cooldown (`agents/auth-profiles/usage.ts`) | error counts, cooldown times | mark failure/used, clear expired | model failover | windows beside concurrent failures | a window is never shortened |
| Session store (`config/sessions/store.ts`) | cached file, queue of writers | load, update, prune | everything about sessions | cache beside other writers | no lost update |
| Gateway protocol, agent runtime, config, channel plugins, CLI/UI | - | - | - | data and I/O rather than control | not modelled, see section 7 |

## 2. Modules

Each component has one module with its state, `Init`, one action per operation or
continuation, `Next`, `Spec`, fairness and properties; its `MC` module has the definitions
that a `.cfg` uses for its constants.

    LaneService   <-- refined by --  CommandQueue  <-- proved in --  CommandQueueProofs
                                          ^
                                     AgentLanes           (EXTENDS: the users of the lanes)
                                          ^
                                     GatewayRunLoop       (EXTENDS: restarts them)
                                                             <-- both proved in --  GatewayRunLoopProofs

    ReplyDispatcher  <-- EXTENDS --  GatewayReload  <-- proved in --  GatewayReloadProofs
                                          (checked beside GatewayRunLoop in MCGateway)

    FollowupQueue    ChannelManager    CronService        (on their own)
    HeartbeatWake    LockFile    ExecApprovals    AnnounceQueue      checked in MCServices
    DeliveryQueue    SubagentRegistry                                checked in MCDeliveries
    HeartbeatWake, ExecApprovals, AnnounceQueue, LockFile  <-- proved in --  ServicesProofs
    DeliveryQueue, SubagentRegistry  <-- proved in --  DeliveriesProofs
    FollowupQueue, CronService, ChannelManager  <-- proved in a Proofs module each

*MCServices* and *MCDeliveries* put services side by side that share no variable, and
*MCGateway* two views of the gateway, its run loop and its configuration: a behaviour is of
one of them, which its initial state chooses, while the others stay as they start, so that
one run asks the questions of all. A conjunct of their fairness is shared by an action of
each, which means the same as the separate conjuncts since a behaviour has the actions of
one service only.

*LaneService* is the abstract specification: calls wait in order, begin from the front,
end once, and can be cancelled only while they wait. It knows no generation, limit, active
set or draining mark.

*CommandQueue* is `command-queue.ts`. `state.draining` is set and reset inside one callback
and is no variable. A lane that was not used yet has the state `getLaneState` creates. An
entry gets a fresh task id when it starts and starts once, so it stands for its id.
`DrainLanes` is the pump, part of every action that calls it. The deadline of
`waitForActiveTasks` is real time: a poll that still sees a task may give up or be taken
again.

*AgentLanes* makes an agent run of two entries: the session entry, whose body only enqueues
the global entry and awaits it, and the global entry, whose body is the turn. It has the
choice of the lane (`resolveGlobalLane`), manual cron jobs, `sessions_send`, whose wait is
`agent.wait` with a timeout (`GiveUp`), clears and reconfiguration. The two steps that
happen within one turn of the event loop are actions that everything else waits for
(`Between`).

*GatewayRunLoop* adds the loop and the signal handler as two processes that share `server`,
`lock`, `shuttingDown` and `restartResolver`, the promise of `waitForActiveEmbeddedRuns`,
and a second gateway that takes the lock file whenever it is free.

*ReplyDispatcher* has, per message, the run that hands over replies, the chain that delivers
them, and the counter with its reservation; the registry is the set of dispatchers that
count. markComplete and the microtask it leaves are two actions.

*GatewayReload* has a record per life of the gateway (from a start to the next), since a
restart in process leaves the former life's reload, check and poll under way: the
configuration that was loaded and the current one, the watcher, the debounce timer, the
place of the reload between its awaits, the queued restart, and the cron service that the
state has and the one that close and the request methods were given at the start. A cron
service is what it read of its configuration, whether its timer is armed, whether its
`start()` is under way, and whether anything else is (a tick, a run by hand, an edit). `stop()`
only clears the timer, and whatever is under way arms it again at its end. Restarts are
asked for by the reloader or by a method, wait for the dispatchers, and move the gateway
through drain, close and start. SIGUSR1 is emitted in process and handled at once. What the
run loop does with it is in *GatewayRunLoop*: here a drain ends and a start succeeds.

*DeliveryQueue* has as actors one live sender per delivery and one recovery for each start
of the gateway in the present process: a restart in process starts another (`Load`) and
stops neither the former nor the senders. Each file operation and each send is a step.
`Crash` and `QuietRestart` end the process and keep the files. Which deliveries use
bestEffort, and which callers pass `onError`, is chosen in `Init`.

*FollowupQueue* tells queue objects from the map that names them, since a drain captures
its object and clear and enqueue go through the map. The loop decides, after its debounce,
what to run; with nothing to run one by one it awaits the answer of that check and only then
takes the batch, so that enqueues and clears come in between (`StepDone`).

*HeartbeatWake* has wakes per target with the priority of the reason, one timer of a kind,
batches under way with the handler that got them. Time is abstracted: a timer may fire at
any moment, and which of two dates is earlier is a choice.

*ChannelManager* has instances (a call of `startAccount` with its task and abort
controller), each at a place of its promise chain, and callers that run a start, a stop, a
reload (stop, then start) or a health check (look, stop, reset attempts, start). Whether
`isConfigured` takes time and a `stopAccount` hook exists is chosen in `Init`. `loadConfig`,
`isConfigured`, `startAccount` before it gives a promise, and `stopAccount` may throw, in a
request (which fails) and in an automatic restart (whose chain ends there). A promise
that has settled is followed up before the next event (`Settling`).

*CronService* has the jobs in memory and in the store file, the timer, and the sections of
the service's lock as actions: a section that awaits the store or a job is cut where it
awaits. A tick collects what is due and hands it to a worker; `run` by hand checks, then
reserves, then executes, then writes; `start` clears the marks that a former process left
and catches up. A schedule is reduced to whether its next date has come; `Comes` makes it
come. A failed write leaves memory and file apart. A mark that is two hours old is cleared
by the next maintenance, whatever goes on under it (`MarkAges`). A reload replaces the
service while nothing is under way.

*LockFile* has four kinds of lock, told apart by the code's differences: the plugin SDK's
file lock, the session write lock with its watchdog and its release at a signal, the lock of
the sandbox registry that is a session lock no caller re-enters, and the gateway's lock. A
contender creates the file, writes its payload, or looks at the one that is there, judges
it (age, pid, start time, port) and removes it by name; each is a step. Processes crash.

*ExecApprovals* follows one id through registrations anew: the record, its promise, those
who wait for it, the operator's ruling, the expiry and the grace period, the request method
in its one-phase and two-phase forms with the forwarder's await, and the runs on a node
that consume an approval.

*AnnounceQueue* has the queue of one key: enqueue with its drop policies and settings that
change, the drain with its debounce in collect and followup mode (it checks, awaits, and then
takes the batch), summaries, and sends that fail or whose answer is lost. A send is a request
to the gateway, which looks for its key, awaits the session store, and only then records the
key and answers; a send that timed out leaves its request under way (`late`). A restart in
process forgets the keys and leaves the queue and the requests.

*SubagentRegistry* has a record per run in memory and in the file, the turn itself, the
three ways in which its end is heard (event, answer of `agent.wait`, timer of an error), the
claim of the cleanup, the announce flow from check to check, the finalization with its
retries, deferrals and timers, kills, steers, sweeps, and crashes with the restore. Sessions
nest: a run that waits for the runs of its children is deferred, woken, or announced.

*History variables* are read by properties only: what was accepted, sent or acknowledged,
and, where the code has a known weakness (section 6), whether its trigger has happened in
this behaviour (`upsets`, `upset`, `overlapped`, `shared`, `loose`, `timedOut`, `excused`,
and `late` of ReplyDispatcher and of FollowupQueue's objects). A property that excepts a
weakness says so; everything else stays checked in the same run.

## 3. Runs

| Run | Instance and bounds | What it shows |
|---|---|---|
| CommandQueue | 3 tasks, 2 lanes, limits 0..2, one reset | `LanesConsistent` (types; active set = running tasks of this generation; queue = waiting tasks, once each), `WorkConserving`, `DrainedSound`, `StartsWithinLimit`, `EventuallyLeavesQueue`, and `ImplementsLaneService` |
| AgentLanes | a message to a session, whose turn sends to another session; a message to that one; and a cron job whose turn shares the first session; limits 0..1 | `NoLaneDeadlock` (no set of entries waits only for itself, but through a send that will be given up), `OneRunPerSession`, `EveryRunEnds` |
| GatewayRestart | loop: 2 runs of one session, 2 restarts in process, a stop, failing starts, a second gateway; configuration: 4 configurations (a change of cron, a change that needs a restart, both of these in hot mode), a missing or invalid file, 2 events (edits, or restarts by method), 1 section of a cron service (a tick or a request), 1 failure, 1 message with 1 reply | loop: `LockSound`, `DrainingMeansRestart`, `RestartKeepsWork`, `DrainedRestartIsClean`, `OtherLockKept`, `RestartHappens`; configuration: `NoChangeForgotten` (with the types), `CronAlone`, `RestartWaits` |
| CronFollowsConfig | the same | counterexample: `CronFollowsConfig` |
| GatewayQueuedRefused | the same, one restart | counterexample: `AcceptedRunNotRefused` |
| Deliveries | outbound: 1 delivery of 2 payloads, 2 retries, 2 starts of the gateway in each process, 2 crashes; subagents: 3 runs of one session (keep or delete) with 2 upsets of any kind, or of a session that spawns another, without upsets; 2 retries | `NoLoss`, `AckedNotReplayed`, `EventuallyOut`; `RunsKept`, `RunsSettle` |
| FollowupQueue | 3 messages for 2 targets, settings that change among collect/cap 2/summarize, followup/cap 1/summarize, followup/cap 2/new; 2 objects | `HandledOnce`, `DrainedByOne`, `CollectedHaveOneTarget`, `EventuallyHandled` |
| CronService | a recurring job, a one-shot, a call by hand; one edit, crash, failed write, reload or mark that grows old under a run, at any moment | `RunningMarkTrue`, `DueNotSkipped`, `OneShotDone`, `DueJobRuns` |
| Services | wakes: 2 targets, 2 priorities, 2 requests, 2 handlers; locks: 3 callers in 2 processes (for the gateway's one per process), 6 names for files, 1 fault (a crash, failed write, forced release, aging, sweep or vanished file); approvals: 2 registrations of the id; announcements: 3, of which the first two come in their order, 2 sends that fail or restarts in process, settings that change among collect/cap 2/summarize, followup/cap 1/summarize, followup/cap 2/new | `WakesKept`; `LockExcludes`; `ApprovalsHonoured`; `AnnounceKept`; and `OwedIsGiven` (every wake is answered, every asker told, every announcement sent) |
| HeartbeatCooldown | 2 requests, 1 handler | counterexample: `CooldownKept` |
| AnnounceSummary | 3 announcements, collect, cap 2, summarize, 1 failure or restart | counterexample: `SummaryInjected` |
| ChannelManager | a start, a stop, a reload and a health check in any overlap, any of the four functions throwing at any time; 1 automatic restart, 8 instances | `LiveIsTracked`, `StoppedStaysStopped`, `RuntimeTrue`, `CallsSettle` (calls end, and a restart that was promised comes, unless it throws) |

Other configurations are kept beside these runs. Three reproduce known weaknesses (section
6): `FollowupOverflowCollect.cfg` and `FollowupSummaryTakesMessage.cfg` (with
MCFollowupQueue) and `SubagentRetryLost.cfg` (with MCDeliveries). Three check more:
`HeartbeatWake.cfg` (MCHeartbeatWake: 3 requests, 121,411 states), `CronTwoEvents.cfg`
(MCCronService: two events instead of one, safety only, 3,704,938 states) and
`DeliveryQueue.cfg` (MCDeliveryQueue: the outbound queue alone).

*Why the bounds are enough.* A lane is disturbed by a stale completion, a full lane and an
entry that waits: three tasks give all at once, and a second lane shows that lanes keep to
themselves; the proofs cover the rest. A restart's hazards come from one loop, one handler
and one other gateway: two restarts let the state that one leaves meet the next, and two
runs of a session give one that runs and one that waits. The delivery queue treats entries
one by one, so that one delivery suffices for its races; two payloads make partial failures,
two starts in a process give two recoveries beside the live sender, and two crashes let a
recovery be interrupted and followed by another. Three messages fill a queue, overflow it
and arrive during a run; two objects are one that was cleared and one in the map. Two
handlers and two batches are what an in-process restart can overlap; more repeat the
pattern. Accounts share no state; four callers of four kinds give every pair and triple of
overlapping calls, and 8 instances exceed what they and the backoff can start in the
behaviours of interest (the bound stops further starts). A cron job's hazards are one job's,
between one section and the next: one event between two sections shows each, and two events
were checked for safety. Three callers of a lock in two processes are a holder, a contender
in the same process and one in another. There is a name for each caller's file and each
process's entry and one more, so that a file that is created always finds one nothing refers
to. Two registrations of an approval id let what belongs to the first meet the second. Three
announcements overflow a queue and arrive during a send; two failures let a request that
outlived its send meet the repetition, and the repetition of that. Any two announcements are
alike until they are enqueued, so that an order of the first two loses nothing. Two upsets
let the failure of a subagent's cleanup be followed by another during the retry (a crash
after a kill, a lost answer after a steer); nested runs were checked for safety with upsets
as well (one upset, 3 runs, 2,141,203 states). Two events are two edits, one of which
arrives while a reload of the other awaits, at each of its places, or an edit and a restart
by method that meets the reloader's own; they make up to three lives, so that what a former
life left meets each phase of the next. One section of a cron service, at its beginning or
end beside each step of a reload, a close and a start, is what arms a stopped service again.
A reply and the microtask of markComplete give both orders in which the reservation goes;
the proof covers any number of replies and dispatchers. With a limit of
1, for which the code also takes 0, every lane is as narrow as it can be, which is where
entries wait for each other; wider lanes let more through, and the theorem has any limit.

*Deadlock checking* is off in every run: each of these components may rightly be idle for
ever once the (bounded) requests are served. `NoLaneDeadlock` states for the lanes what a
deadlock check could not, that nothing *that was accepted* waits for itself.

## 4. Fairness

- *Command queue*: a task of the current generation ends (weak). Agent turns have a run
  timeout. Nothing is assumed of callers, nor of tasks that a reset has disowned.
- *Agent lanes*: the bodies of session entries and their continuations run (microtasks); a
  turn or job whose own waits are over ends (strong, since other callbacks intervene); and a
  turn that waits for a send gives up (weak), since `agent.wait` has a timeout: without it two
  turns that send to each other's session, or one whose target's own message waits for Main,
  would wait for ever. The wait of a job need not be given up: its `timeoutSeconds` may be 0.
  Runs, in jobs as elsewhere, are assumed to end.
- *Gateway*: the loop's and the handler's continuations run; `start()` and `close()` end or
  are cut short, as the force-exit timer does. Turns may hang; no signal need come; the
  other gateway owes nothing.
- *Delivery queue*: live senders and recoveries run on, every process starts one recovery, a
  quiet gateway is ended and started now and then (retries happen only at startup) (all
  weak); an entry whose turn keeps coming is some time eligible (strong), since its backoff
  is at most 10 minutes.
- *Followup queue*: timers fire, settled awaits go on, runs end, busy sessions become free
  and call `scheduleFollowupDrain`, and a run that is retried for ever does not fail for
  ever (strong).
- *Heartbeat*: timers fire, the handler's promise settles, and it does not find the main
  lane busy, or throw, every time the most urgent wake of a target is tried (strong).
- *Cron*: `Finite` (a job, a section, a tick ends), `Ticking` (an armed timer fires) and
  `Running` (a worker takes the next job), all weak. Jobs have a timeout, or end. A mark that
  nothing is under becomes old; one under a run may, and need not.
- *Locks*: none; only safety is stated of them.
- *Approvals*: timers fire, and whoever waits for a promise that has settled is answered
  (weak).
- *Announcements*: the drain and its debounce go on and a send ends (weak); sends fail, and the
  gateway is restarted, finitely often (`MaxMishaps`): the queue tries without limit.
- *Subagent registry*: promises settle, timers fire, turns end (weak); a resumption is not
  early for ever, since its date is fixed; what cannot be announced is given up (strong: an
  announcement expires half an hour after the end, `ANNOUNCE_COMPLETION_HARD_EXPIRY_MS`).
- *Configuration*: none; only safety is stated of it. `RestartHappens` is about the loop, once
  it has been signalled.
- *Channel manager*: an account whose signal is set ends; backoffs elapse; the plugin's
  functions settle; a call that was begun goes on. An account that was not told to need
  not end.

## 5. Proofs

`CommandQueueProofs` proves, for every set of lanes, every finite set of tasks and all
bounds:

| Theorem | Statement |
|---|---|
| `Invariant` | `Spec => []IInv` |
| `TypeCorrect` | `Spec => []TypeOK` |
| `ActiveSetsExact`, `QueuesExact`, `BooksAreRight` | `ActiveIsRunning`, `QueueIsWaiting`, and both with the types as `LanesConsistent` |
| `NeverIdles` | `Spec => []WorkConserving` |
| `LimitRespected` | `Spec => StartsWithinLimit` |
| `DrainIsSound` | `Spec => []DrainedSound` |
| `QueueImplementsService` | `Spec => ImplementsLaneService`, the refinement |

*Assumptions*: `Task` is finite (`TaskAssumption`: the cardinality of an active set is
then a number), `MaxLimit` is a positive and `MaxGeneration` a natural number. There is no
assumption on `Lane`.

*Argument.* None of the properties is inductive alone. `IInv` adds to the types that active
sets and queues are exactly the running and waiting tasks of a lane, that queues have no
repetition, and that a running task's generation is at most its lane's: without the
last a reset could make a stale task current again and its completion free a slot that it
does not hold. Three lemmas about the pump (it takes a prefix; it leaves nothing waiting or
a full lane; it starts nothing beyond the limit) carry every action, because every action
ends in `DrainLanes`. `WorkConserving` and the drain's soundness are proved relative to
`IInv`; the drain needs in addition that what a waiter watches has begun (`DrainInv`). The
refinement maps a task's status to the abstract phase, and each step to `Accept`, `Refuse`,
`Finish`, `Cancel`, a `Dispatch` or a stutter.

`GatewayRunLoopProofs` builds on it, since `AgentLanes` and `GatewayRunLoop` extend
`CommandQueue`; it proves, for any runs, jobs, sessions, global lanes and restarts:

| Theorem | Statement |
|---|---|
| `OneTurnPerSession` | `AgentSpec => []OneRunPerSession` |
| `LanesNeverBlock` | `AgentSpec => []NoLaneDeadlock` |
| `LoopInvariant` | `LoopSpec => []LoopInv` |
| `LockIsSound` | `LoopSpec => []LockSound` |
| `MarkMeansRestart` | `LoopSpec => []DrainingMeansRestart` |
| `OtherLockIsKept` | `LoopSpec => OtherLockKept` |
| `CleanRestart` | `LoopSpec => DrainedRestartIsClean` |
| `WorkIsKept` | `LoopSpec => RestartKeepsWork` |

*Assumptions*: those of `CommandQueue`; the tasks are the entries of the runs and jobs
(`TasksAreRuns`); the lanes include those of the sessions and main, cron and nested
(`LanesAssumption`); a session's lane is none of these three (`SessionLanesApart`: its name
begins with "session:", and without the assumption the theorem is false, as main may be
widened), nor asked for as a global lane; the cron lane is neither main nor nested; each run
has a session, and the lane it asks for and the entry that waits for it exist, if there are
any (`RunAssumption`).

*Argument.* Two turns of a session would be two global entries, which says nothing about the
session's lane. `NestInv` connects them: a global entry lives only while its session entry
runs (`Nested1`), and the lane of a session has limit 1 and at most one active entry
(`Narrow`), because only main, cron and nested are ever given a limit. Without a reset
(`NoReset`) a running entry is of the present generation, hence active. With resets the last
step fails, and rightly: after a drain that timed out, two turns of a session can overlap
(section 6), which is why the gateway has `DrainedRestartIsClean` instead. For the gateway,
`LoopInv` is `ProcInv`, about the two processes (`TurnsTaken`: who is between which awaits
while the other waits; `LockKept`: the variable and the file; `MarkTrue`: the draining mark
and the restart under way), and `LanesInv`, about the lanes (`NestInv`; `Watched`: while
a restart is under way, a turn that lives in a session entry the lanes count was in the
snapshot when it began). The clean restart combines all of them: nothing in the snapshot
executes once the drain has succeeded, nothing is admitted under the mark, so no turn that a
lane counts is left.

`LanesNeverBlock` says that nested lanes are safe but for sends: no set of accepted entries
waits only for itself once the wait of a turn for a send, which times out, is no reason to be
stuck (`StuckIn`). Such circles exist (section 6), and the instance has one, so that
`EveryRunEnds` shows that the timeout resolves it. Everything else that an entry waits for is
in a lane of higher rank (`RankRises`): a job, in the cron lane, waits for a session entry,
which waits for a global one. Among entries that wait only for each other, take one of the
highest rank. It does not run, for what it would wait for has a higher rank (`StuckWaits`);
and if it is queued, its lane is full (`WorkConserving`), of entries that run (`LaneIsHeld`,
where `NestInv` and the limit, at least 1, are needed) and would be stuck as well. `AgentInv`
is `NestInv` with `WorkConserving`, and that each entry keeps the lane resolved for it. That
nothing runs in the cron lane but jobs is the code's mapping of a turn's cron lane to the
nested one (`resolveGlobalLane`); with the mapping left out the run finds the deadlock, which
is its mutant.

`ServicesProofs` has four modules that share nothing. Of `HeartbeatWake` it proves, for any
targets, priorities, handlers, requests and batches:

| Theorem | Statement |
|---|---|
| `WakeInvariant` | `Spec => []WakeInv` |
| `BatchesAlone` | `Spec => []OneBatch` |
| `WakesAreKept` | `Spec => []WakesKept` |

*Assumptions*: priorities are some of the code's four (`PriorityAssumption`); the bounds are
natural numbers (`BoundsAssumption`).

*Argument.* `Kept` says where a wake that is owed may be: pending, or left in a batch, with at
least its priority. It is kept by a batch that is answered busy, or throws, only because
what is put back is what was handed out (`BatchesTrue`). `Moving`, that a timer or a batch
will move what is pending, needs that a timer is never set for nothing (`TimerTrue`); and
one batch per handler (`Alone`) fails with a second handler, which `OneBatch` allows for.

`DeliveriesProofs` has two modules that share nothing. Of `DeliveryQueue` it proves, for any
deliveries, payloads, retries and crashes:

| Theorem | Statement |
|---|---|
| `DeliveryInvariant` | `Spec => []DeliveryInv` |
| `NothingIsLost` | `Spec => []NoLoss` |
| `AcknowledgedIsDone` | `Spec => AckedNotReplayed` |

*Assumptions*: finitely many deliveries, none of them a recovery; at least one payload and at
least one start of the gateway in a process; `MaxRetries` and the crashes are natural numbers.

*Argument.* `NoLoss` breaks where a file is removed: by an acknowledgement, or by a move to
failed/. `SendingTrue` says that whoever is about to acknowledge has sent everything, or may
not know of the failure (`Counted`); it holds in the middle of a delivery because what lies
behind a sender has been sent. `Placed` says which actor can hold which delivery, and that a
recovery has taken what it works on off its list. It needs no count of attempts: actors that
overlap may count past the limit. `Apart`, for the second theorem: a delivery that no recovery
loaded while another actor had it (`shared`) is in one hand at a time - a live sender's, or
that of the recovery which has it listed or under work - and an acknowledged one is in no file
and in nobody's hands. A hand that is not alone can write the file back after the
acknowledgement, whether it is a live sender's or that of a recovery of an earlier start.

Of `SubagentRegistry` `DeliveriesProofs` proves, for any runs, sessions, requesters (nested
as they may be), retries and upsets:

| Theorem | Statement |
|---|---|
| `RegistryInvariant` | `RegistrySpec => []RegistryInv` |
| `RunsAreKept` | `RegistrySpec => []RunsKept` |

*Assumption* (`RegistryAssumption`): an announcement is tried at least once (the code's limit is
3), bounds are natural numbers, and a session is kept or deleted. Nothing is assumed of
`Session`, `requesterOf` or which requester hears no more: the proof does not look at
`Pending`, `Children` or `Gone`, and so holds whatever they answer.

*Argument.* A cleanup is claimed by a mark in a record that has a copy in the file, and what
keeps a second flow away is that copy after a crash. So `RecordTrue` and `AccountTrue` are
stated of a record, and hold of both copies: while a run is being announced, and for ever
once its requester has been told without a lost answer (`Spoken`), the record has ended, is
not one that a late completion may take back from a kill, and cannot be claimed. That is
where a retry may give the claim back: its flow ended neither told nor dropped
(`Announcing`). `Announcing` also keeps the flow below the limit of the retries, without
which the resumption of a claimed run would give it up under its flow, and gives the claim
its worker. `Waking` says who comes back to a run that nobody has claimed. A timer of a
retry is not enough: its resumption does nothing for a run that is still marked as resumed
(`Comes`), which is why the mark is cleared with the timer. A steer that has ended without a
new run must find its run either marked or completed (`Marked`); a failing turn has the
timer of its error (`Heard`). Between a crash and the restore memory is empty and the file
alone has to be true (`Down`). `ResumesKeep` is the lemma for the five actions that resume
runs: a record that is `Ready` before is right afterwards, whichever of the seven ways it is
resumed.

Of `ExecApprovals` `ServicesProofs` proves, for any number of registrations of the id:

| Theorem | Statement |
|---|---|
| `ApprovalInvariant` | `ApprovalSpec => []ApprovalInv` |
| `ApprovalsTyped` | `ApprovalSpec => []ApprovalTypeOK` |
| `RulingsAreHonoured` | `ApprovalSpec => []ApprovalsHonoured` |

*Assumption*: `MaxRegistrations \in Nat`.

*Argument.* `ApprovalsHonoured` relates what was told or run to who ruled, several
registrations ago perhaps, and nothing in the property says how the two stay together. The
invariant has a part for each link. `Untouched`: registrations that have not been made have
left no trace. `RecordTrue`: a record and its promise follow from whether, and how, an
operator ruled; an allow-once that was consumed has lost its decision but not who ruled.
`RunsTrue`: runs without a ruling come from an expiry, a denial allows none, and an
allow-once that still has its decision has allowed none, which is why consuming it once is
enough. `AskerTrue`: who is told a decision is told what the promise it waits for resolved
to, and a promise other than its own registration's only after its own has left the map.

Of `AnnounceQueue` `ServicesProofs` proves, for any announcements, routes and settings:

| Theorem | Statement |
|---|---|
| `AnnounceInvariant` | `AnnounceSpec => []AnnounceInv` |
| `AnnouncementsKept` | `AnnounceSpec => []AnnounceKept` |

*Assumptions*: there are settings, their caps are positive and their drop policies the
code's three; `MaxMishaps` is a natural number (`AnnounceAssumption`). Nothing is assumed of
routes, nor is `Announcement` finite.

*Argument.* `AnnounceKept` promises two things of which each has its own exceptions. That an
announcement is told once has three reasons, one of which suffices. Answers come
(`Answering`): what waits was told only if the send under way has its answer, and then that
send removes it. Or a send that is repeated is the same send (`Grouped`): what was told and
still waits is what the key already used stands for, and the repetition, like every request
that is late, has that key and tells no more than that batch (`Alike`). Or nothing is collected
(`OneByOne`): a key stands for one announcement, also in a late request. The first is violated
once an answer is lost; the others by a change of the batch, and also by a repetition that
passes the look for its key before the first request records it (`window`) and by a restart
in process that forgets the keys (`forgotten`). The property is violated only when all three
have failed, hence its exception, and each part is inductive under its own condition. That
none is lost is `Covered`: a send takes away exactly what it tells, a key that was used stands
for its item and all before it, and so does the key of a late request that the present
gateway will record, so that the silent acceptance of a repetition loses nothing. `Ordered`
has the fact all need, that an announcement comes once.

Of `LockFile` `ServicesProofs` proves, for any callers, processes and faults, and all four
kinds of lock:

| Theorem | Statement |
|---|---|
| `LockInvariant` | `LockSpec => []LockInv` |
| `LockFilesExclude` | `LockSpec => []LockExcludes` |

*Assumptions* (`LockAssumption`): finitely many callers and processes, and more names for
files than both together: a file has a name only so that two files can be told apart, and a
name to which nothing refers is used again (`FreshIdNew` shows from the cardinalities that
there is one).

*Argument.* While no fault but a forced release has happened nobody takes a file for stale
(`Calm`), and the file belongs to one of three: the caller that writes or removes it, the
process whose table has it, or a watchdog that has let it go and has yet to remove it
(`OneGrips`). The third is what makes a forced release safe for the next owner. `Counted`:
the count in the table is the number of callers inside. It needs `Apart`, since a caller
that was put out by force releases later, and its release must not count against an object
that the process has acquired since; and the count stays a number after any fault because
it is bounded by those whose release will count (`CountBound`).

`FollowupQueueProofs` proves, for any messages, routes, settings and queue objects:

| Theorem | Statement |
|---|---|
| `FollowupInvariant` | `Spec => []FollowupInv` |
| `MessagesHandledOnce` | `Spec => []HandledOnce` |
| `OneLoopDrains` | `Spec => []DrainedByOne` |
| `BatchesHaveOneTarget` | `Spec => []CollectedHaveOneTarget` |

*Assumption*: settings are a mode, a positive cap and a drop policy (`SettingsAssumption`);
there is at least one queue object.

*Argument.* That a message is run once cannot rest on the removal by position, which takes
the wrong items after an overflow. `Orderly` is what is true in any case: a run's batch was
at the front, and what an overflow has pushed out came before what is left, so that whatever
remains behind the removed positions was not in the batch. `Once` adds that no message is in
two objects. That none is lost does need the removal to be exact: `Intact`, while none of
the weaknesses of section 6 has been met. `Aimed` is about targets: what the loop checked
has one target, from the check through the await of its answer to the end of the run, and
`late` has what was enqueued in between and went with it. `OneDrain` and `Driven` follow
each other: a loop works for the object in the map, and an object there that has work and a
callback has a loop, except where one was cleared during its drain.

`CronServiceProofs` proves, for any jobs, calls by hand, concurrency and number of edits,
crashes, failed writes and reloads:

| Theorem | Statement |
|---|---|
| `CronInvariant` | `Spec => []CronInv` |
| `MarksAreTrue` | `Spec => []RunningMarkTrue` |
| `DueIsNotSkipped` | `Spec => DueNotSkipped` |
| `OneShotsAreDone` | `Spec => OneShotDone` |

*Assumptions*: one-shots are some of the jobs and those deleted after a run some of these; at
least one worker; bounds are natural numbers (`CronAssumption`); the values for "no job" and
"not loaded" are neither (`MarkersAssumption`).

*Argument.* A run checks, reserves, executes and writes in separate sections, each of which
may load the file again and takes what it finds there for the truth. So the invariant is
about both copies. `Agree`: memory differs from the file at most in dates that it alone has
been given and in stale marks, hence loading the file again loses nothing that matters.
`MarkTrue`, of both: the mark of a job that is under way is set and the job enabled, and
after the start that of every other is clear. `Sole`: a job is under way in one batch or one
call. These hold for the jobs that none of the weaknesses has touched (`upset`), among which
is a mark that grew old under its run or while its job waited for a worker. `PhasesTrue`
says where a batch can be, and `HasId` that ids are never used again, without which a
removed one-shot could be added anew and count as done. The two action properties are then
proved step by step: a date that passes without a run would have to be overwritten by a
section that neither collected the job nor applied its result; and a one-shot that is done
(`DonesTrue`) is in no batch and has no date in either copy, so that nothing but an edit or
a forced run gets at it.

`ChannelManagerProofs` proves, for any calls, attempts and instances of an account:

| Theorem | Statement |
|---|---|
| `ChannelInvariant` | `Spec => []ChannelInv` |
| `LiveInstancesTracked` | `Spec => []LiveIsTracked` |
| `StopIsKept` | `Spec => []StoppedStaysStopped` |
| `RuntimeIsTrue` | `Spec => []RuntimeTrue` |

*Assumptions*: each call is of one of the four kinds (`ProgramAssumption`); `MaxAttempts` is a
natural number and `MaxInstances` a positive one (`ChannelBounds`).

*Argument.* `RuntimeTrue` needs that every step that ends an instance writes the runtime,
and that after a `startAccount` that threw, whose runtime nothing writes, its controller
stays in `store.aborts` until a stop or a start writes both. The others hold while no call
was made during another or during a restart, and so does `Calm`. That live instances are
tracked is not enough: an instance in its backoff is not live, and starts another.
`ActiveTracked` has both, and says that what is tracked is active, so that a start which
finds nothing tracked has nothing to meet when `isConfigured` answers (`CallsTrue`), and a
stop, which removes whatever is tracked when the task it captured has ended, removes nothing
else. `OneAtATime` holds although restarts ask by themselves: one cannot begin during a
call, because a stop has set the mark and a start found no backoff. `AttemptsLeft` gives the
types, and `StoppedQuiet` the stop that is kept.

`GatewayReloadProofs` proves, for any messages, replies, configurations, edits and requests:

| Theorem | Statement |
|---|---|
| `BooksAreRight` | `ReloadSpec => []CountsInv` |
| `RepliesAreAwaited` | `ReloadSpec => RestartWaits` |
| `ReloadInvariant` | `ReloadSpec => []ReloadInv` |
| `ChangesAreKept` | `ReloadSpec => []NoChangeForgotten` |
| `OneCronService` | `ReloadSpec => []CronAlone` |

*Assumptions*: the first file is one of the configurations, a missing or invalid file is none,
modes are the code's four (`ConfigAssumption`); the bounds are natural numbers
(`EventsAssumption`, `RepliesAssumption`). The first two theorems need none.

*Argument.* A restart looks at counters only, and the property speaks of runs and replies.
`Counts` connects them, for the dispatchers that were handed nothing after they had gone
idle: a registered one counts its chain and its reservation, whichever of the last delivery
and the microtask of markComplete comes later takes the reservation, and one that is
forgotten has an empty chain and a run that is not open (`IdleOwesNothing`). A drain begins
only where no pending reply was seen in the same callback, or at a poll's deadline, which
`timedOut` records (`DrainsWhenIdle`).

For the configuration, `Present` says of the life that is on what each place of its reload
owes. `Noticed`: the file as it is has become current, or is in the snapshot that is about
to, or the watcher, the timer or the note of a second run will read it; before a snapshot is
applied, that the current configuration equals the file says nothing, since an edit may have
been undone while the other was read. `Effective`: what is current is in force, or a restart
is queued, or the hot reload is on its way, with its new service already built. `Starting`:
a life that has not ended its start has no reload, check or poll. What former lives do
touches the present one only through the signal, or is `loose`. `CronAlone` says
that no service is armed, starting or at work but the one of the present life and those in
`loose`, and that this one is armed or about to be. It is inductive with `HasCrons` and `Apart`:
the services that one life may stop, replace or start are no other's, so that what a former
life still does cannot disarm the present one. A service that was stopped while something was
under way in it is `loose` from then on, since `stop()` does not keep it from arming itself.

*Only model-checked*: everything under fairness (TLAPS does not prove liveness or reason on
`ENABLED`), hence every leads-to property.

## 6. Where the code departs from what it says

Four runs are counterexamples to a statement of the repository:

- *A queued run is refused* (`GatewayQueuedRefused`). A run that waits in its session lane
  when the drain begins is started by the pump, asks for its global lane and is refused:
  `command-queue.ts:243-245` says queued entries "should still execute after restart".
- *Cron does not follow the configuration* (`CronFollowsConfig`). A hot reload stops the cron
  service and builds another, but the request methods and the close handler were given the
  first by value (`gateway/server.impl.ts:819` and `:1027`). `cron.add`, `cron.update` and
  `cron.run` go to the stopped service with its former settings, whose timer they arm
  again, and close stops that one and leaves the new one armed.
  `docs/gateway/configuration.md:435` says "No" of cron under "Restart needed?".
- *The retry cooldown is not a hard minimum* (`HeartbeatCooldown`). A normal timer armed
  during the batch keeps its earlier date when the retry is scheduled
  (`heartbeat-wake.ts:123-129`).
- *A summary is never injected* (`AnnounceSummary`). After an overflow during a collected
  send, the removal by count empties the queue while drops are noted; the drain finds no
  item to carry the summary, ends, and schedules itself at once in microtasks, for ever,
  with the event loop starved (`subagent-announce-queue.ts:203`). `docs/concepts/queue.md:69`
  says that a summary is injected.

Other weaknesses met while modelling. The properties named except them, and only them:

- *Lanes*: a turn that waits by `sessions_send` holds its lanes meanwhile
  (`sessions-send-tool.ts:246-318`). A turn in Main that sends to a session whose own message
  holds that session's lane and waits for Main (`run.ts:281-282`) is in a circle with it; so is
  a turn in the nested lane, whose limit is 1, that sends to any session. Only the timeout of
  `agent.wait` ends these waits (`NoLaneDeadlock` excepts sends, `EveryRunEnds` leans on the
  timeout). An `llm-task` that calls `runEmbeddedPiAgent` within a turn asks for Main while
  the turn holds it, with its own timeout (not in the model).
- *Gateway*: a `start()` that fails after a restart in process gives the lock up, and the
  next restart serves without it, since it reacquires only what it had (`LockSound`). A
  SIGUSR1 during `start()` marks the lanes as draining, and its wake-up finds no resolver:
  work is refused and the restart lost (`DrainingMeansRestart`, `RestartHappens`). The same
  signal beside the release after a failed start can release twice, the second time by path
  and possibly another gateway's lock (`OtherLockKept`). After a drain that timed out, the
  reset lets a queued run of a session start beside the old one (`DrainedRestartIsClean`
  speaks of drained restarts only).
- *Delivery*: a crash after the last send and before phase 1 replays the delivery (at least
  once, as `NoLoss` says). A concurrent `failDelivery` can write back an entry that another
  actor has acknowledged: a recovery beside a live sender, or the recovery of a restart in
  process beside that of the former start, which nothing stops
  (`gateway/server.impl.ts:771-782`). `AckedNotReplayed` excepts what a recovery loaded while
  another actor had it (`shared`); the counts of such an entry may pass the limit. Two writers
  in one process also share the name of the temporary file, and could tear its content (not
  in the model). With bestEffort and no `onError` a failed payload is acknowledged (`NoLoss`).
- *Configuration*: in hot mode an edit that has a part which needs a restart is declined
  whole, its hot part too, and the reloader then takes it for the current configuration. So
  it does when the check of a restart's secrets or a hot reload fails: nothing tries again
  before the next edit. An edit during a start is missed, since the watcher is created at
  the end and ignores what is there (`NoChangeForgotten` excepts these by `excused`). A hot
  reload that fails in its channels has already replaced the cron service but not the state,
  which keeps the stopped one; a reload goes on past close and starts a cron service for a
  gateway that is down. `stop()` of a cron service only clears its timer: a start, a tick, a
  run by hand or an edit that is under way arms it again at its end
  (`cron/service/ops.ts:121` and `:538`, `timer.ts:729`), so that after a hot reload two
  services are armed, and after close one is (`CronAlone` excepts these by `loose`). A check
  or poll of a former life, or a method's restart beside the reloader's, restarts a second
  time although `infra/restart.ts` says that only one restart fires. A reply that is handed
  over after its dispatcher has gone idle is not waited for (`late`).
- *Followup*: a message that is enqueued while the drain awaits the answer of its check
  (`drain.ts:94-96`) is in the batch that is sliced after (`:109`), whatever its target
  (`CollectedHaveOneTarget` excepts it by `late`). In followup mode the run of the summary
  prompt is followed by a shift of the first queued message, whose own prompt was not run
  (`drain.ts:144`, `FollowupSummaryTakesMessage.cfg`). After an overflow during a run, the
  removal by position takes messages that came later (`FollowupOverflowCollect.cfg`). A
  summary with no item left is never run, and its drain spins in microtasks
  (`EventuallyHandled`). A drain whose object was cleared deletes the map entry of the
  object that replaced it, with its messages (`HandledOnce`, `EventuallyHandled`).
- *Heartbeat*: a batch of an old handler that answers busy arms a retry that delays the new
  handler's wakes, although registration clears such timers.
- *Channels*: the health check looks at the manual stop before it awaits its own, and can
  revive what was stopped meanwhile; overlapping reloads, or a reload beside an automatic
  restart with an asynchronous `isConfigured`, can start an account twice (`LiveIsTracked`,
  `StoppedStaysStopped` and `CallsSettle` except behaviours with overlapping calls). A
  `stopAccount` that fails leaves `restartPending` set; so does an automatic restart that
  throws, in `loadConfig`, `isConfigured` or `startAccount`
  (`gateway/server-channels.ts:290`), after which nothing follows but the health monitor
  (`CallsSettle` excepts it). A `startAccount` that throws at once leaves the runtime at
  `running: true` without a task until the next start or stop (`RuntimeTrue` excepts it by
  its controller); if it overlapped another start, its controller may replace the other's,
  whose task a stop then awaits without having told it to end.
- *Cron*: a job that is disabled and enabled again while it runs is run a second time beside
  itself, since disabling clears its mark; a forced run of a disabled job loses its mark at
  the next maintenance, and a run that lasts longer than two hours, and a job that has been
  waiting for a worker as long (with one worker, behind another), when the mark is taken for
  stuck (`jobs.ts:379`): it may then be started beside itself. A failed write of a result
  leaves the mark for those two hours; a failed write of an edit leaves memory and file
  apart (`RunningMarkTrue` excepts these by `upset`). `start()` and `add()` use the full
  recomputation and advance the dates of other jobs that are due, without a run, contrary to
  the comments that introduced the maintenance form (`DueNotSkipped` excepts them). A
  one-shot that is given a new date while it runs is disabled or deleted by the result of
  the old; one that was interrupted by a crash is skipped by the catch-up, yet run by the
  next tick; one deferred at start, run by hand and enabled again runs again; a forced run
  that fails transiently reschedules a one-shot that had succeeded (`OneShotDone`). Due jobs
  that wait for a worker start after their removal or disabling. A reload while a job runs
  leaves two services on one store, with lost updates (not in the model).
- *Locks*: a file that vanishes between its reading and its `stat` is taken for stale, so that
  a newcomer's file is removed by name, in the file lock without any fault; after a leftover
  two contenders can each break the lock, the second that of the first. The release removes
  by name, too. A gateway that is alive but whose port is still free or slow is judged dead;
  an owner that is alive but older than `staleMs` is broken; the watchdog and termination
  signals release under holders that go on. In one process reentrance lets callers in
  together. A failed write leaves a file without owner. The sweep of a starting gateway
  removes a session file whose owner has not written yet. `LockExcludes` excepts behaviours
  in which one of these has happened, and still demands that the counts are right.
- *Approvals*: the answer "no route" reads the connected operators before the forwarder's
  await, tells null although one may have ruled meanwhile, and expires the id after it, which
  may stand for another request by then (`exec-approval.ts:197`). After a real timeout
  `nowMs > expiresAtMs` nearly always refuses before `askFallback` is looked at. A
  `waitDecision` after the grace period finds nothing.
- *Announcements*: an overflow during a send lets the removal by count take items that were
  not sent and clears drops noted meanwhile; in followup mode a summary takes the next
  item's place; after a lost answer a batch that has grown is told again under another key,
  and a summary sent under a key already used is lost. The gateway looks for the key of a
  request (`server-methods/agent.ts:207`), awaits the session store (`:426`), and records
  the key (`:570`): the repetition of a send that timed out meanwhile is run as well. A
  restart in process has a new memory of keys (`server-runtime-state.ts:208`) while the
  queues live on: a repetition after it is run again. The caller ignores that policy "new"
  has refused. `AnnounceKept` excepts these. An announcement that is enqueued between the
  check of a drain and its slice (`subagent-announce-queue.ts:137-147`) goes with the batch
  whatever its target (in the model; no property speaks of an announcement's target).
- *Subagent registry*: in delete mode the announce flow deletes the session although the send
  failed, and the retry finds an orphan and prunes the run: the announcement is lost, where
  `subagent-registry.ts:943` says "Keep both cleanup modes retryable after deferred/failed
  announce" (`SubagentRetryLost.cfg`; `subagent-announce.ts:1479`). A crash during a flow
  leaves the claim in the file, and a crash during a steer its mark: the run is neither
  announced nor completed until it is swept. A sweep takes a run that is still running when
  its time, set at registration, has come, with its session. A timeout of `agent.wait` is
  taken for an end, whose result is lost; a wait that fails when the agent has gone silent
  leaves the run open. A killed child that completes late, after its parent was looked at,
  lets the parent be announced early. A steered message has no key and is given twice after a
  lost answer (not in the model). `RunsKept` and `RunsSettle` except these, each by its name
  in `excused`.

## 7. Not modelled

- *What a turn does* (models, tools, compaction), *channel plugins, providers, browser,
  media, memory*: I/O and data of outside services. They appear as choices of success,
  failure, throw or hang.
- *Configuration, secrets, audit, protocol validation*: pure functions of files and
  requests with large data and little state.
- *CLI, terminal UI, wizard, daemon installation*: presentation, or one-shot.
- *Real time*: deadlines, backoffs, cooldowns and TTLs are choices, bounded by fairness
  where liveness needs it.
- *Logging, diagnostics, warnings, wording*.

## 8. What is left

To model: `KeyedQueue` with the ACP manager (turns of one session in order, none on an
evicted runtime); `Supervisor`, a small machine with a timer against an exit; `Pairing`,
`AuthCooldown` and the session store, on the locks; two cron services on one store after a
reload; starts that fail beside reloads; and the wakes that cron requests composed with
`HeartbeatWake`.

To prove: nothing of the present invariants; the proofs follow the modules above as they are
written. Liveness stays with TLC.
