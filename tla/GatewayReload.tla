---------------------------- MODULE GatewayReload ----------------------------
(***************************************************************************)
(* The configuration of a running gateway: the reloader that watches the   *)
(* file (src/src/gateway/config-reload.ts), the hot reload and the request *)
(* to restart (gateway/server-reload-handlers.ts, and onHotReload and      *)
(* onRestart of gateway/server.impl.ts), the restarts asked for by method  *)
(* or by the reloader (infra/restart.ts), and what start and close make of *)
(* the cron service.  A restart within the process leaves the reloads,     *)
(* checks and polls of the former life under way.                          *)
(*                                                                         *)
(* A configuration is its reload mode, what the cron service reads of it,  *)
(* and what only a restart changes.  The work that delays a restart is the *)
(* replies of ReplyDispatcher.  A cron service has jobs with dates, so     *)
(* that armTimer arms it; its stop only clears the timer, and whatever is  *)
(* under way in it (its start, a tick, a run by hand, an edit) arms it     *)
(* again at its end.  SIGUSR1 is emitted in process and handled at once,   *)
(* so that its authorization and the marks of its cycle leave nothing      *)
(* behind; what the run loop then does is in GatewayRunLoop.               *)
(***************************************************************************)
EXTENDS ReplyDispatcher, Sequences, FiniteSets

CONSTANTS
    Config,        \* [mode, cron, cold] records
    FirstConfig,   \* the file at the first start
    Missing, Invalid,   \* no file, and one that cannot be read
    MaxEvents,     \* bound: changes of the file, and restarts asked for by method
    MaxFaults,     \* bound: reloads, checks, watchers and cron starts that fail
    MaxSections    \* bound: ticks of cron services, and requests to them

ASSUME ConfigAssumption ==
    /\ FirstConfig \in Config /\ {Missing, Invalid} \cap Config = {}
    /\ \A c \in Config : c.mode \in {"hybrid", "hot", "restart", "off"}

ASSUME EventsAssumption == MaxEvents \in Nat

\* MISSING_CONFIG_MAX_RETRIES
MaxRetries == 2
\* Bound on lives, which StartLoads meets never: every restart answers an edit or a
\* request, and none is answered twice.
Life == 1..1 + MaxEvents

VARIABLES
    file,          \* of the configuration: a Config, Missing or Invalid
    phase,         \* of the gateway: "serving", "draining", "closing", "down", "starting"
    life,          \* which start it is
    gateway,       \* of each life: its reloader, its flags and its cron services
    crons,         \* the cron services that were built: what each read of its config
    armed,         \* those whose timer is armed
    starting,      \* those whose start has yet to end
    working,       \* those in which a tick or a request is under way
    restartTimer,  \* pendingRestartTimer
    polls,         \* deferrals of restarts asked for by method, each with its interval
    events, faults, sections,   \* bounded counters
    timedOut,      \* history: the last signal was sent at the deadline of a poll
    loose          \* history: cron services that the code has lost hold of

reloadVars == <<file, phase, life, gateway, crons, armed, starting, working, restartTimer,
                polls, events, faults, sections, timedOut, loose>>
restartVars == <<phase, restartTimer>>
signalVars == <<restartVars, timedOut>>
cronVars == <<crons, armed, starting, working, loose>>
boundVars == <<events, faults, sections>>

\* A life that has loaded c.
Loaded(c) ==
    [loaded |-> c, current |-> c, snapshot |-> c, watching |-> FALSE, unseen |-> FALSE,
     timer |-> FALSE, pending |-> FALSE, at |-> "idle", retries |-> 0, stopped |-> FALSE,
     queued |-> FALSE, checking |-> FALSE, deferred |-> FALSE,
     cron |-> 0, captured |-> 0, next |-> 0, replaces |-> FALSE,
     excused |-> FALSE]

\* A life that serves: its reloader watches, and close and the methods have the cron
\* service that was built at the start.
Served(g, n) == [g EXCEPT !.watching = TRUE, !.cron = n, !.captured = n]

\* What is armed, or will be.
Afoot == armed \cup starting \cup working

ReloadTypeOK ==
    /\ file \in Config \cup {Missing, Invalid}
    /\ phase \in {"serving", "draining", "closing", "down", "starting"}
    /\ life \in Life
    /\ \A l \in Life :
          /\ {gateway[l].loaded, gateway[l].current} \subseteq Config
          /\ gateway[l].at \in {"idle", "read", "handle", "secrets", "channels"}
          /\ gateway[l].retries \in 0..MaxRetries
          /\ {gateway[l].cron, gateway[l].captured, gateway[l].next} \subseteq 0..Len(crons)
    /\ Afoot \subseteq DOMAIN crons /\ loose \subseteq 0..Len(crons)
    /\ polls \in 0..MaxEvents

ReloadInit ==
    /\ file = FirstConfig /\ phase = "serving" /\ life = 1
    /\ gateway = [l \in Life |-> IF l = 1 THEN Served(Loaded(FirstConfig), 1)
                                          ELSE Loaded(FirstConfig)]
    /\ crons = <<FirstConfig.cron>> /\ starting = {1}
    /\ armed = {} /\ working = {} /\ loose = {}
    /\ restartTimer = FALSE /\ polls = 0
    /\ events = 0 /\ faults = 0 /\ sections = 0
    /\ timedOut = FALSE

-----------------------------------------------------------------------------
(* The reloader *)

\* schedule, scheduleAfter: one timer, none after stop.
Scheduled(g) == [g EXCEPT !.timer = ~g.stopped]

\* Mutant: what came during the run is forgotten.
Finished_Forgets(g) ==
    [g EXCEPT !.at = "idle", !.pending = FALSE, !.snapshot = g.current, !.next = 0,
              !.replaces = FALSE]

\* The end of runReload, and of its variables: what came during the run is scheduled anew.
Finished(g) ==
    LET over == [g EXCEPT !.at = "idle", !.pending = FALSE,
                          !.snapshot = g.current, !.next = 0, !.replaces = FALSE]
    IN  IF g.pending THEN Scheduled(over) ELSE over

\* Somebody writes, spoils or removes the file.  A watcher will hear of it; while the
\* gateway starts, there is none.
Edit(c) ==
    /\ c # file /\ events < MaxEvents
    /\ file' = c /\ events' = events + 1
    /\ gateway' = [l \in Life |->
          [gateway[l] EXCEPT !.unseen = @ \/ gateway[l].watching,
                             !.excused = @ \/ (l = life /\ phase = "starting")]]
    /\ UNCHANGED <<signalVars, cronVars, life, polls, faults, sections>>

WatchEvent(l) ==
    /\ gateway[l].watching /\ gateway[l].unseen
    /\ gateway' = [gateway EXCEPT ![l] = Scheduled([@ EXCEPT !.unseen = FALSE])]
    /\ UNCHANGED <<signalVars, cronVars, boundVars, file, life, polls>>

WatcherFails(l) ==
    /\ gateway[l].watching /\ faults < MaxFaults
    /\ gateway' = [gateway EXCEPT ![l].watching = FALSE, ![l].unseen = FALSE,
                                  ![l].excused = TRUE]
    /\ faults' = faults + 1
    /\ UNCHANGED <<signalVars, cronVars, file, life, polls, events, sections>>

\* runReload: one at a time, another is noted.
TimerFires(l) ==
    /\ gateway[l].timer
    /\ gateway' = [gateway EXCEPT ![l] =
          IF @.at = "idle" THEN [@ EXCEPT !.timer = FALSE, !.at = "read"]
                           ELSE [@ EXCEPT !.timer = FALSE, !.pending = TRUE]]
    /\ UNCHANGED <<signalVars, cronVars, boundVars, file, life, polls>>

ReadSnapshot(l) ==
    /\ gateway[l].at = "read"
    /\ gateway' = [gateway EXCEPT ![l].at = "handle", ![l].snapshot = file]
    /\ UNCHANGED <<signalVars, cronVars, boundVars, file, life, polls>>

\* handleMissingSnapshot: looked for again, for a while.
FileMissing(l) ==
    LET g == gateway[l]
    IN  /\ g.at = "handle" /\ g.snapshot = Missing
        /\ gateway' = [gateway EXCEPT ![l] =
              IF g.retries < MaxRetries
                THEN Finished(Scheduled([g EXCEPT !.retries = g.retries + 1]))
                ELSE Finished(g)]
        /\ UNCHANGED <<signalVars, cronVars, boundVars, file, life, polls>>

FileInvalid(l) ==
    /\ gateway[l].at = "handle" /\ gateway[l].snapshot = Invalid
    /\ gateway' = [gateway EXCEPT ![l] = Finished([@ EXCEPT !.retries = 0])]
    /\ UNCHANGED <<signalVars, cronVars, boundVars, file, life, polls>>

\* What applySnapshot does with a change from c to n.
Decision(c, n) ==
    IF n = c THEN "nothing"
    ELSE IF n.mode = "off" THEN "declined"
    ELSE IF n.mode = "restart" THEN "restart"
    ELSE IF n.cold # c.cold THEN IF n.mode = "hot" THEN "declined" ELSE "restart"
    ELSE "hot"

\* applySnapshot: the configuration is the current one before anything is done about it.
\* queueRestart: once in a life, unless the check fails.
ApplySnapshot(l) ==
    LET g == gateway[l]
        n == g.snapshot
        decision == Decision(g.current, n)
        taken == [g EXCEPT !.current = n, !.retries = 0]
    IN  /\ g.at = "handle" /\ n \in Config
        /\ gateway' = [gateway EXCEPT ![l] =
              CASE decision = "nothing" -> Finished(taken)
                [] decision = "declined" -> Finished([taken EXCEPT !.excused = TRUE])
                [] decision = "restart" ->
                     Finished([taken EXCEPT !.queued = TRUE, !.checking = g.checking \/ ~g.queued])
                [] decision = "hot" ->
                     [taken EXCEPT !.at = "secrets", !.replaces = n.cron # g.current.cron]]
        /\ UNCHANGED <<signalVars, cronVars, boundVars, file, life, polls>>

-----------------------------------------------------------------------------
(* The hot reload *)

\* activateRuntimeSecrets fails: the change is logged and forgotten.
SecretsFail(l) ==
    /\ gateway[l].at = "secrets" /\ faults < MaxFaults
    /\ gateway' = [gateway EXCEPT ![l] = Finished([@ EXCEPT !.excused = TRUE])]
    /\ faults' = faults + 1
    /\ UNCHANGED <<signalVars, cronVars, file, life, polls, events, sections>>

\* The cron service that a gateway with the life g is to have, while it is up: that of its
\* state, and once a reload has replaced it, the one that is about to come into the state.
Mine(g) ==
    IF phase \in {"closing", "down", "starting"} THEN {}
    ELSE {IF g.at = "channels" THEN g.next ELSE g.cron}

\* Mutant: the service of the state goes on.
StopCron_Never(l) == armed

StopCron(l) == armed \ {gateway[l].cron}

\* Stopped while something is under way in it, or built for a gateway that is closed.
Loosened(stopped, built) == loose \cup (stopped \cap (starting \cup working)) \cup built

\* applyHotReload up to its awaits: the cron service of the state is stopped, and another
\* is built and started; it is put into the state at the end.
ReplaceCron(l) ==
    LET g == gateway[l]
        n == Len(crons) + 1
        tooLate == l # life \/ phase \in {"closing", "down"}
    IN  /\ g.at = "secrets"
        /\ IF g.replaces
             THEN /\ crons' = Append(crons, g.current.cron)
                  /\ armed' = StopCron(l) /\ starting' = starting \cup {n}
                  /\ gateway' = [gateway EXCEPT ![l].at = "channels", ![l].next = n]
                  /\ loose' = Loosened({g.cron}, IF tooLate THEN {n} ELSE {})
                  /\ UNCHANGED working
             ELSE /\ gateway' = [gateway EXCEPT ![l].at = "channels", ![l].next = g.cron]
                  /\ UNCHANGED cronVars
        /\ UNCHANGED <<signalVars, boundVars, file, life, polls>>

\* The rest, with its awaits (browser, mail, channels), and setState.
HotReloaded(l) ==
    /\ gateway[l].at = "channels"
    /\ gateway' = [gateway EXCEPT ![l] = Finished([gateway[l] EXCEPT !.cron = gateway[l].next])]
    /\ UNCHANGED <<signalVars, cronVars, boundVars, file, life, polls>>

\* A channel does not stop or start: the state keeps the service that was stopped.
ChannelsFail(l) ==
    LET g == gateway[l]
    IN  /\ g.at = "channels" /\ faults < MaxFaults
        /\ gateway' = [gateway EXCEPT ![l] = Finished([g EXCEPT !.excused = TRUE])]
        /\ loose' = IF g.replaces THEN loose \cup {g.cron, g.next} ELSE loose
        /\ faults' = faults + 1
        /\ UNCHANGED <<signalVars, file, life, polls, crons, armed, starting, working,
                       events, sections>>

-----------------------------------------------------------------------------
(* The cron services                                                       *)

\* start, at its end, also after a stop.
CronStarted(n) ==
    /\ n \in starting
    /\ starting' = starting \ {n} /\ armed' = armed \cup {n}
    /\ UNCHANGED <<signalVars, boundVars, file, life, gateway, crons, working, loose, polls>>

\* start throws: it is logged, and nobody starts the service again.
CronStartFails(n) ==
    /\ n \in starting /\ faults < MaxFaults
    /\ starting' = starting \ {n} /\ loose' = loose \cup {n} /\ faults' = faults + 1
    /\ UNCHANGED <<signalVars, file, life, gateway, crons, armed, working, polls, events, sections>>

\* onTimer begins; its watchdog keeps the timer armed.
CronTicks(n) ==
    /\ n \in armed /\ sections < MaxSections
    /\ working' = working \cup {n} /\ sections' = sections + 1
    /\ UNCHANGED <<signalVars, file, life, gateway, crons, armed, starting, loose, polls,
                   events, faults>>

\* cron.add, cron.run and the like go to the service that the request context was built
\* with, until the server is closed.
CronRequest ==
    LET n == gateway[life].captured
    IN  /\ phase \in {"serving", "draining", "closing"} /\ sections < MaxSections
        /\ working' = working \cup {n} /\ sections' = sections + 1
        /\ loose' = loose \cup ({n} \ Mine(gateway[life]))
        /\ UNCHANGED <<signalVars, file, life, gateway, crons, armed, starting, polls,
                       events, faults>>

\* One of the things under way ends, and most arm the timer; others may go on.
CronSectionEnds(n) ==
    /\ n \in working
    /\ armed' \in {armed, armed \cup {n}} /\ working' \in {working, working \ {n}}
    /\ UNCHANGED <<signalVars, boundVars, file, life, gateway, crons, starting, loose, polls>>

-----------------------------------------------------------------------------
(* Restarts *)

\* emitGatewayRestart: a timer that is still set is cleared; the run loop ignores a signal
\* during a shutdown, and one during a start leaves the start to go on.
EmitGatewayRestart ==
    /\ restartTimer' = FALSE
    /\ phase' = IF phase = "serving" THEN "draining" ELSE phase

\* onRestart fails in its check of the secrets; a later change may ask again.
CheckFails(l) ==
    /\ gateway[l].checking /\ faults < MaxFaults
    /\ gateway' = [gateway EXCEPT ![l].checking = FALSE, ![l].queued = FALSE,
                                  ![l].excused = TRUE]
    /\ faults' = faults + 1
    /\ UNCHANGED <<restartVars, cronVars, timedOut, file, life, polls, events, sections>>

\* requestGatewayRestart: at once, or when the work is done, with one poll for a life.
RequestGatewayRestart(l) ==
    /\ gateway[l].checking
    /\ IF RepliesPending
         THEN /\ gateway' = [gateway EXCEPT ![l].checking = FALSE, ![l].deferred = TRUE]
              /\ UNCHANGED <<restartVars, timedOut>>
         ELSE /\ gateway' = [gateway EXCEPT ![l].checking = FALSE]
              /\ EmitGatewayRestart /\ timedOut' = FALSE
    /\ UNCHANGED <<cronVars, boundVars, file, life, polls>>

\* scheduleGatewaySigusr1Restart, by a method or a tool: one timer.
ScheduleRestart ==
    /\ phase \in {"serving", "draining"} /\ events < MaxEvents
    /\ restartTimer' = TRUE /\ events' = events + 1
    /\ UNCHANGED <<cronVars, timedOut, file, phase, life, gateway, polls, faults, sections>>

RestartTimerFires ==
    /\ restartTimer
    /\ IF RepliesPending
         THEN /\ restartTimer' = FALSE /\ polls' = polls + 1
              /\ UNCHANGED <<phase, timedOut>>
         ELSE EmitGatewayRestart /\ timedOut' = FALSE /\ UNCHANGED polls
    /\ UNCHANGED <<cronVars, boundVars, file, life, gateway>>

\* deferGatewayRestartUntilIdle: a poll ends when nothing is pending, or at its deadline.
PollEnds ==
    /\ \/ /\ polls > 0 /\ polls' = polls - 1
          /\ UNCHANGED gateway
       \/ /\ \E l \in Life : gateway[l].deferred /\ gateway' = [gateway EXCEPT ![l].deferred = FALSE]
          /\ UNCHANGED polls
    /\ EmitGatewayRestart
    /\ timedOut' = RepliesPending
    /\ UNCHANGED <<cronVars, boundVars, file, life>>

\* The drain is over, and close has come to cron.stop(): of the service that it was built
\* with.
CloseServices ==
    LET g == gateway[life]
    IN  /\ phase = "draining" /\ phase' = "closing"
        /\ armed' = armed \ {g.captured}
        /\ loose' = Loosened({g.captured}, Mine(g) \ {g.captured})
        /\ UNCHANGED <<boundVars, timedOut, restartTimer, crons, starting, working, file, life,
                       gateway, polls>>

\* stop of the reloader; a run that is under way goes on.
CloseReloader ==
    /\ phase = "closing" /\ phase' = "down"
    /\ gateway' = [gateway EXCEPT ![life].stopped = TRUE, ![life].timer = FALSE,
                                  ![life].watching = FALSE, ![life].unseen = FALSE]
    /\ UNCHANGED <<cronVars, boundVars, timedOut, restartTimer, file, life, polls>>

\* The next start reads the file first.  One that finds no valid file is left out.
StartLoads ==
    /\ phase = "down" /\ phase' = "starting" /\ file \in Config
    /\ life + 1 \in Life /\ life' = life + 1
    /\ gateway' = [gateway EXCEPT ![life + 1] = Loaded(file)]
    /\ UNCHANGED <<cronVars, boundVars, timedOut, restartTimer, file, polls>>

\* The cron service is built and started, and the reloader watches for what is yet to come.
StartEnds ==
    LET n == Len(crons) + 1
    IN  /\ phase = "starting" /\ phase' = "serving"
        /\ crons' = Append(crons, gateway[life].loaded.cron) /\ starting' = starting \cup {n}
        /\ gateway' = [gateway EXCEPT ![life] = Served(@, n)]
        /\ UNCHANGED <<boundVars, timedOut, restartTimer, armed, working, loose, file, life,
                       polls>>

-----------------------------------------------------------------------------
Reload(l) ==
    \/ WatchEvent(l) \/ TimerFires(l) \/ ReadSnapshot(l)
    \/ FileMissing(l) \/ FileInvalid(l) \/ ApplySnapshot(l)
    \/ SecretsFail(l) \/ ReplaceCron(l) \/ HotReloaded(l) \/ ChannelsFail(l)

Restart ==
    \/ \E l \in Life : CheckFails(l) \/ RequestGatewayRestart(l)
    \/ RestartTimerFires \/ PollEnds
    \/ CloseServices \/ CloseReloader \/ StartLoads \/ StartEnds

Services ==
    \/ \E n \in DOMAIN crons :
          CronStarted(n) \/ CronStartFails(n) \/ CronTicks(n) \/ CronSectionEnds(n)
    \/ CronRequest

ReloadNext ==
    \/ /\ \/ \E l \in Life : Reload(l)
          \/ Services
          \/ Restart
          \/ \E c \in Config \cup {Missing, Invalid} : Edit(c)
          \/ \E l \in Life : WatcherFails(l)
          \/ ScheduleRestart
       /\ UNCHANGED replyVars
    \/ RepliesNext /\ UNCHANGED reloadVars

ReloadSpec == ReloadInit /\ RepliesInit /\ [][ReloadNext]_<<reloadVars, replyVars>>

-----------------------------------------------------------------------------
(* Properties *)

\* What runs is what the current configuration says.
InForce(g) == crons[g.cron] = g.current.cron /\ g.loaded.cold = g.current.cold

\* The reloader of a gateway that serves has nothing to do.
AtRest(g) ==
    phase = "serving" /\ file \in Config
    /\ g.watching /\ ~g.unseen /\ ~g.timer /\ g.at = "idle"

\* No change of the file is forgotten: a reloader at rest has read the file as it is, and
\* what it says is in force, or else a restart is queued, which has a check or a poll
\* that will bring it about.  Excused are modes that decline changes, failures, and an
\* edit while the gateway starts, when its file has been read and nobody watches it yet.
NoChangeForgotten ==
    LET g == gateway[life]
    IN  /\ ReloadTypeOK /\ RepliesTypeOK
        /\ AtRest(g) /\ ~g.excused => g.current = file /\ (g.queued \/ InForce(g))
        /\ phase = "serving" /\ g.queued => g.checking \/ g.deferred

\* One cron service is armed or about to be, that of the state, and none while the gateway is
\* down: but for those that the code has lost hold of.  They were stopped while something was
\* under way in them, which arms them again; a request or the close had another than the
\* state has; a reload failed after the replacement, or replaced the service of a gateway
\* that was closed; or the start failed.
CronAlone ==
    LET mine == Mine(gateway[life])
    IN  Afoot \subseteq mine \cup loose /\ mine \subseteq armed \cup starting \cup loose

\* A restart that is not forced by a deadline interrupts no reply: what the counters of
\* the dispatchers call idle has handed over and delivered everything.
RestartWaits ==
    [][phase = "serving" /\ phase' = "draining" /\ ~timedOut' =>
          \A d \in Dispatcher \ late : ~Owed(d)]_<<reloadVars, replyVars>>

\* What docs/gateway/configuration.md says of cron, "Restart needed? No": once a change has
\* been applied, cron requests are served by a service that has read it.
CronFollowsConfig ==
    LET g == gateway[life]
    IN  AtRest(g) /\ ~g.excused /\ ~g.queued => crons[g.captured] = g.current.cron
=============================================================================
