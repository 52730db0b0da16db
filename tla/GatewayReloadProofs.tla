------------------------- MODULE GatewayReloadProofs -------------------------
(***************************************************************************)
(* Theorems about ReplyDispatcher and GatewayReload: what the counters of  *)
(* the dispatchers call idle owes no reply, so that a restart which is not *)
(* forced interrupts none.                                                 *)
(***************************************************************************)
EXTENDS GatewayReload, TLAPS

allReload == <<reloadVars, replyVars>>

\* A registered dispatcher counts what is in its chain and its reservation, which it
\* keeps until its run is complete and the chain empty; one that is not has nothing in
\* its chain.
Counts(d) ==
    /\ d \in registered => turn[d] # "none" /\ pending[d] = chain[d] + 1
    /\ d \notin registered => turn[d] # "open" /\ chain[d] = 0
    /\ turn[d] = "none" => d \notin registered
    /\ turn[d] = "complete" /\ d \in registered => chain[d] > 0

CountsInv ==
    /\ turn \in [Dispatcher -> {"none", "open", "marked", "complete"}]
    /\ handed \in [Dispatcher -> Int]
    /\ chain \in [Dispatcher -> Nat]
    /\ pending \in [Dispatcher -> Int]
    /\ \A d \in Dispatcher \ late : Counts(d)

\* Dispatchers are created before they count, and CountsInv holds of none.
LEMMA CountsInit == RepliesInit => CountsInv
  BY DEF RepliesInit, CountsInv, Counts

\* One step of one dispatcher leaves the books of the others alone and keeps its own.
LEMMA OneCounts ==
    ASSUME CountsInv, NEW d \in Dispatcher,
           \/ CreateReplyDispatcher(d) \/ EnqueueReply(d) \/ Delivered(d)
           \/ MarkComplete(d) \/ ClearReservation(d)
    PROVE  CountsInv'
<1>1. CASE CreateReplyDispatcher(d)
  BY <1>1 DEF CountsInv, Counts, CreateReplyDispatcher
<1>2. CASE EnqueueReply(d)
  BY <1>2 DEF CountsInv, Counts, EnqueueReply
<1>3. CASE Delivered(d)
  BY <1>3 DEF CountsInv, Counts, Delivered, CountDown
<1>4. CASE MarkComplete(d)
  BY <1>4 DEF CountsInv, Counts, MarkComplete
<1>5. CASE ClearReservation(d)
  BY <1>5 DEF CountsInv, Counts, ClearReservation, CountDown
<1> QED
  BY <1>1, <1>2, <1>3, <1>4, <1>5

LEMMA CountsStep == CountsInv /\ [ReloadNext]_allReload => CountsInv'
<1> SUFFICES ASSUME CountsInv, [ReloadNext]_allReload
             PROVE  CountsInv'
  OBVIOUS
<1>1. CASE UNCHANGED replyVars
  BY <1>1 DEF CountsInv, Counts, replyVars
<1>2. CASE RepliesNext
  BY <1>2, OneCounts DEF RepliesNext
<1> QED
  BY <1>1, <1>2 DEF ReloadNext, allReload

\* Where no counter is positive, nothing is owed but by those that were handed a reply
\* after they had been forgotten.
LEMMA IdleOwesNothing ==
    CountsInv /\ ~RepliesPending => \A d \in Dispatcher \ late : ~Owed(d)
<1> SUFFICES ASSUME CountsInv, NEW d \in Dispatcher \ late, Owed(d)
             PROVE  RepliesPending
  OBVIOUS
<1>1. chain[d] \in Nat /\ Counts(d)
  BY DEF CountsInv
<1>2. d \in registered /\ pending[d] > 0
  BY <1>1 DEF Counts, Owed
<1> QED
  BY <1>2 DEF RepliesPending

\* What begins to drain has seen no reply pending, or was forced by a deadline.
LEMMA DrainsWhenIdle ==
    ASSUME [ReloadNext]_allReload, phase = "serving", phase' = "draining", ~timedOut'
    PROVE  ~RepliesPending
<1>1. CASE \E l \in Life : Reload(l)
  BY <1>1 DEF Reload, WatchEvent, TimerFires, ReadSnapshot, FileMissing, FileInvalid,
              ApplySnapshot, SecretsFail, ReplaceCron, HotReloaded, ChannelsFail,
              signalVars, restartVars
<1>2. CASE Restart
  <2>1. CASE \E l \in Life : CheckFails(l)
    BY <2>1 DEF CheckFails, restartVars
  <2>2. CASE \E l \in Life : RequestGatewayRestart(l)
    BY <2>2 DEF RequestGatewayRestart, restartVars
  <2>3. CASE RestartTimerFires
    BY <2>3 DEF RestartTimerFires
  <2>4. CASE PollEnds
    BY <2>4 DEF PollEnds
  <2>5. CASE CloseServices \/ CloseReloader \/ StartLoads \/ StartEnds
    BY <2>5 DEF CloseServices, CloseReloader, StartLoads, StartEnds
  <2> QED
    BY <1>2, <2>1, <2>2, <2>3, <2>4, <2>5 DEF Restart
<1>3. CASE \/ \E c \in Config \cup {Missing, Invalid} : Edit(c)
           \/ \E l \in Life : WatcherFails(l)
           \/ Services \/ ScheduleRestart
  BY <1>3 DEF Edit, WatcherFails, Services, CronStarted, CronStartFails, CronTicks,
              CronSectionEnds, CronRequest, ScheduleRestart, signalVars, restartVars
<1>4. CASE UNCHANGED reloadVars
  BY <1>4 DEF reloadVars
<1> QED
  BY <1>1, <1>2, <1>3, <1>4 DEF ReloadNext, allReload

-----------------------------------------------------------------------------
\* The books of every dispatcher are right in every behaviour.
THEOREM BooksAreRight == ReloadSpec => []CountsInv
<1>1. ReloadInit /\ RepliesInit => CountsInv
  BY CountsInit
<1>2. CountsInv /\ [ReloadNext]_allReload => CountsInv'
  BY CountsStep
<1> QED
  BY <1>1, <1>2, PTL DEF ReloadSpec, allReload

\* A restart that no deadline forces interrupts no reply (requestGatewayRestart,
\* deferGatewayRestartUntilIdle and scheduleGatewaySigusr1Restart), for any number of
\* messages, configurations, and faults.
THEOREM RepliesAreAwaited == ReloadSpec => RestartWaits
<1>1. CountsInv /\ [ReloadNext]_allReload =>
          [phase = "serving" /\ phase' = "draining" /\ ~timedOut' =>
               \A d \in Dispatcher \ late : ~Owed(d)]_allReload
  BY DrainsWhenIdle, IdleOwesNothing
<1>2. ReloadSpec => []CountsInv
  BY BooksAreRight
<1> QED
  BY <1>1, <1>2, PTL DEF ReloadSpec, RestartWaits, allReload

-----------------------------------------------------------------------------
\* The types of a life, of the cron services and of the counters.
LifeType ==
    [loaded : Config, current : Config, snapshot : Config \cup {Missing, Invalid},
     watching : BOOLEAN, unseen : BOOLEAN, timer : BOOLEAN, pending : BOOLEAN,
     at : {"idle", "read", "handle", "secrets", "channels"}, retries : 0..MaxRetries,
     stopped : BOOLEAN, queued : BOOLEAN, checking : BOOLEAN, deferred : BOOLEAN,
     cron : Nat, captured : Nat, next : Nat, replaces : BOOLEAN, excused : BOOLEAN]

Typed ==
    /\ file \in Config \cup {Missing, Invalid}
    /\ phase \in {"serving", "draining", "closing", "down", "starting"}
    /\ life \in Life
    /\ gateway \in [Life -> LifeType]
    /\ crons \in Seq({c.cron : c \in Config})
    /\ Afoot \subseteq DOMAIN crons /\ loose \subseteq 0..Len(crons)
    /\ restartTimer \in BOOLEAN /\ timedOut \in BOOLEAN
    /\ polls \in Nat /\ events \in Nat /\ events <= MaxEvents

\* Every poll, and the timer, is of a request of its own.
PollsCounted == polls + (IF restartTimer THEN 1 ELSE 0) <= events

\* A life has cron services that were built; one that replaces none puts its own back.
HasCrons(g) ==
    /\ {g.cron, g.captured, g.next} \subseteq 0..Len(crons)
    /\ g.at = "channels" /\ ~g.replaces => g.next = g.cron

\* While the gateway starts nothing of its reloader is there.
Starting(g) ==
    /\ g.at = "idle" /\ ~g.timer /\ ~g.watching /\ ~g.queued /\ ~g.pending /\ ~g.stopped
    /\ ~g.checking /\ ~g.deferred /\ g.current = g.loaded
    /\ ~g.excused => g.loaded = file

\* The service that the state has, and the one that is about to come into it.
Running(g) ==
    /\ {g.cron, g.captured} \subseteq DOMAIN crons
    /\ g.at = "channels" => g.next \in DOMAIN crons

\* The present file is the current configuration, or what is about to become that, or
\* something is under way that will look at it.
Noticed(g) ==
    g.watching /\ file \in Config =>
        \/ g.at \notin {"read", "handle"} /\ g.current = file
        \/ g.unseen \/ g.timer \/ (g.pending /\ g.at # "idle")
        \/ g.at = "read"
        \/ g.at = "handle" /\ g.snapshot = file

\* The current configuration is in force, or a restart is queued, or a hot reload is on
\* its way to it.
Effective(g) ==
    \/ g.queued
    \/ /\ g.loaded.cold = g.current.cold
       /\ g.at \in {"idle", "read", "handle"} => crons[g.cron] = g.current.cron
       /\ g.at = "secrets" /\ ~g.replaces => crons[g.cron] = g.current.cron
       /\ g.at = "channels" => crons[g.next] = g.current.cron

Serving(g) ==
    /\ ~g.stopped
    /\ g.queued => g.checking \/ g.deferred
    /\ ~g.excused => Noticed(g) /\ Effective(g)

\* What is true of the life that is on.
Present(g) ==
    /\ phase = "starting" => Starting(g)
    /\ phase \in {"serving", "draining", "closing"} => Running(g)
    /\ phase = "serving" => Serving(g)

\* The services that a life may stop.  No two lives have one in common.
OwnCrons(g) == {g.cron, g.next} \ {0}
Apart == \A l, k \in Life : l # k => OwnCrons(gateway[l]) \cap OwnCrons(gateway[k]) = {}

ReloadInv ==
    /\ Typed /\ PollsCounted
    /\ \A l \in Life : HasCrons(gateway[l])
    /\ Apart
    /\ Present(gateway[life])
    /\ CronAlone

\* A life that has loaded a configuration, and one that serves with its n-th service.
LEMMA NewLife ==
    ASSUME NEW c \in Config
    PROVE  Loaded(c) \in LifeType
  BY DEF Loaded, LifeType, MaxRetries

LEMMA ServedLife ==
    ASSUME NEW g \in LifeType, NEW n \in Nat
    PROVE  Served(g, n) \in LifeType
  BY DEF Served, LifeType

LEMMA ReloadInvInit == ReloadInit => ReloadInv
<1> SUFFICES ASSUME ReloadInit PROVE ReloadInv
  OBVIOUS
<1> USE ConfigAssumption, EventsAssumption
<1> DEFINE first == Served(Loaded(FirstConfig), 1)
<1>1. Loaded(FirstConfig) \in LifeType /\ first \in LifeType
  BY NewLife, ServedLife
<1>2. 1 \in Life
  BY DEF Life
<1>3. Len(crons) = 1 /\ crons[1] = FirstConfig.cron /\ DOMAIN crons = {1}
  BY DEF ReloadInit
<1>4. gateway[life] = first /\ life = 1
  BY <1>2 DEF ReloadInit
<1>5. Typed
  <2>1. gateway \in [Life -> LifeType]
    BY <1>1 DEF ReloadInit
  <2>2. crons \in Seq({c.cron : c \in Config})
    BY DEF ReloadInit
  <2>3. Afoot = {1} /\ loose = {} /\ file = FirstConfig /\ phase = "serving"
        /\ polls = 0 /\ events = 0 /\ restartTimer \in BOOLEAN /\ timedOut \in BOOLEAN
    BY DEF ReloadInit, Afoot
  <2> QED
    BY <1>2, <1>3, <1>4, <2>1, <2>2, <2>3 DEF Typed
<1>6. \A l \in Life : HasCrons(gateway[l])
  BY <1>3 DEF HasCrons, ReloadInit, Loaded, Served
<1>7. /\ first.at = "idle" /\ ~first.stopped /\ ~first.queued /\ first.current = FirstConfig
      /\ first.loaded = FirstConfig /\ first.cron = 1 /\ first.captured = 1
  BY DEF Loaded, Served
<1>8. phase = "serving" /\ file = FirstConfig /\ starting = {1} /\ Afoot = {1}
      /\ ~restartTimer /\ polls = 0 /\ events = 0
  BY DEF ReloadInit, Afoot
<1>9. Present(first)
  BY <1>3, <1>7, <1>8 DEF Present, Running, Serving, Noticed, Effective
<1>10. CronAlone /\ PollsCounted
  BY <1>4, <1>7, <1>8 DEF CronAlone, Mine, PollsCounted
<1>11. Apart
  BY <1>2 DEF Apart, OwnCrons, ReloadInit, Loaded, Served
<1> QED
  BY <1>4, <1>5, <1>6, <1>9, <1>10, <1>11 DEF ReloadInv

-----------------------------------------------------------------------------
\* The service of a life g is the only one afoot, but for the loose ones.
ArmedOf(g) ==
    Afoot \subseteq Mine(g) \cup loose' /\ Mine(g) \subseteq armed \cup starting \cup loose'

\* What a step that makes h of life l has to keep.
Keeps(l, h) ==
    /\ h \in LifeType /\ HasCrons(h) /\ OwnCrons(h) \subseteq OwnCrons(gateway[l])
    /\ l = life => Present(h) /\ ArmedOf(h)

\* A step that changes nothing but one life.
LEMMA OneLife ==
    ASSUME ReloadInv, NEW l \in Life, NEW h, Keeps(l, h),
           gateway' = [gateway EXCEPT ![l] = h],
           UNCHANGED <<file, phase, life, crons, armed, starting, working, restartTimer, polls,
                       events, timedOut>>,
           loose \subseteq loose', loose' \subseteq 0..Len(crons)
    PROVE  ReloadInv'
<1>1. Typed'
  BY DEF ReloadInv, Typed, Afoot, Keeps
<1>2. PollsCounted'
  BY DEF ReloadInv, PollsCounted
<1>3. ASSUME NEW k \in Life PROVE HasCrons(gateway[k])'
  <2>1. gateway'[k] = IF k = l THEN h ELSE gateway[k]
    BY DEF ReloadInv, Typed
  <2> QED
    BY <2>1 DEF ReloadInv, HasCrons, Keeps
<1>4. gateway'[life] = IF life = l THEN h ELSE gateway[life]
  BY DEF ReloadInv, Typed
<1>5. Present(gateway[life])'
  BY <1>4 DEF ReloadInv, Keeps, Present, Starting, Running, Serving, Noticed, Effective
<1>6. CronAlone'
  BY <1>4 DEF ReloadInv, Keeps, CronAlone, Afoot, Mine, ArmedOf
<1>7. Apart'
  <2>1. \A k \in Life : OwnCrons(gateway'[k]) \subseteq OwnCrons(gateway[k])
    BY DEF ReloadInv, Typed, Keeps
  <2> QED
    BY <2>1 DEF ReloadInv, Apart, OwnCrons
<1> QED
  BY <1>1, <1>2, <1>3, <1>5, <1>6, <1>7 DEF ReloadInv

\* What Scheduled and Finished make of a life.
LEMMA ScheduledLife ==
    ASSUME NEW g \in LifeType
    PROVE  /\ Scheduled(g) \in LifeType
           /\ Scheduled(g) = [g EXCEPT !.timer = ~g.stopped]
  BY DEF Scheduled, LifeType

LEMMA FinishedLife ==
    ASSUME NEW g \in LifeType
    PROVE  /\ Finished(g) \in LifeType
           /\ Finished(g).at = "idle" /\ Finished(g).next = 0
           /\ Finished(g).timer = IF g.pending THEN ~g.stopped ELSE g.timer
           /\ Finished(g).pending = FALSE
           /\ Finished(g).loaded = g.loaded /\ Finished(g).current = g.current
           /\ Finished(g).watching = g.watching /\ Finished(g).unseen = g.unseen
           /\ Finished(g).stopped = g.stopped /\ Finished(g).queued = g.queued
           /\ Finished(g).checking = g.checking /\ Finished(g).deferred = g.deferred
           /\ Finished(g).cron = g.cron /\ Finished(g).captured = g.captured
           /\ Finished(g).excused = g.excused
<1> DEFINE over == [g EXCEPT !.at = "idle", !.pending = FALSE,
                             !.snapshot = g.current, !.next = 0, !.replaces = FALSE]
<1>1. over \in LifeType
  BY DEF LifeType
<1>2. Finished(g) = IF g.pending THEN Scheduled(over) ELSE over
  BY DEF Finished
<1>3. /\ over.at = "idle" /\ over.next = 0 /\ over.timer = g.timer /\ over.pending = FALSE
      /\ over.loaded = g.loaded /\ over.current = g.current
      /\ over.watching = g.watching /\ over.unseen = g.unseen
      /\ over.stopped = g.stopped /\ over.queued = g.queued
      /\ over.checking = g.checking /\ over.deferred = g.deferred
      /\ over.cron = g.cron /\ over.captured = g.captured /\ over.excused = g.excused
  BY DEF LifeType
<1> HIDE DEF over
<1>4. CASE g.pending
  <2>1. Finished(g) = [over EXCEPT !.timer = ~over.stopped] /\ Finished(g) \in LifeType
    BY <1>1, <1>2, <1>4, ScheduledLife
  <2> QED
    BY <1>1, <1>3, <1>4, <2>1 DEF LifeType
<1>5. CASE ~g.pending
  BY <1>1, <1>2, <1>3, <1>5
<1> QED
  BY <1>4, <1>5

\* A run of the reload that can end: what g would be at rest is true of the present life.
CanEnd(g) ==
    /\ phase # "starting"
    /\ phase \in {"serving", "draining", "closing"} => {g.cron, g.captured} \subseteq DOMAIN crons
    /\ phase = "serving" =>
          /\ ~g.stopped
          /\ g.queued => g.checking \/ g.deferred
          /\ ~g.excused =>
                /\ g.watching /\ file \in Config =>
                      g.current = file \/ g.unseen \/ g.timer \/ g.pending
                /\ \/ g.queued
                   \/ g.loaded.cold = g.current.cold /\ crons[g.cron] = g.current.cron
    /\ LET mine == IF phase \in {"closing", "down", "starting"} THEN {} ELSE {g.cron}
       IN  Afoot \subseteq mine \cup loose' /\ mine \subseteq armed \cup starting \cup loose'

LEMMA FinishedKeeps ==
    ASSUME NEW l, NEW g \in LifeType, HasCrons(g), l = life => CanEnd(g),
           g.cron \in {gateway[l].cron, gateway[l].next},
           crons \in Seq({c.cron : c \in Config})
    PROVE  Keeps(l, Finished(g))
<1> DEFINE h == Finished(g)
<1>1. /\ h \in LifeType /\ h.at = "idle" /\ h.next = 0
      /\ h.timer = IF g.pending THEN ~g.stopped ELSE g.timer
      /\ h.loaded = g.loaded /\ h.current = g.current
      /\ h.watching = g.watching /\ h.unseen = g.unseen
      /\ h.stopped = g.stopped /\ h.queued = g.queued
      /\ h.checking = g.checking /\ h.deferred = g.deferred
      /\ h.cron = g.cron /\ h.captured = g.captured /\ h.excused = g.excused
  BY FinishedLife
<1> HIDE DEF h
<1>2. HasCrons(h)
  BY <1>1 DEF HasCrons
<1>3. ASSUME l = life PROVE Present(h)
  BY <1>1, <1>3 DEF CanEnd, Present, Running, Serving, Noticed, Effective
<1>4. ASSUME l = life PROVE ArmedOf(h)
  BY <1>1, <1>4 DEF CanEnd, ArmedOf, Mine
<1>5. OwnCrons(h) \subseteq OwnCrons(gateway[l])
  BY <1>1 DEF OwnCrons
<1> QED
  BY <1>1, <1>2, <1>3, <1>4, <1>5 DEF Keeps, h

LEMMA WatchEventKeeps ==
    ASSUME ReloadInv, NEW l \in Life, WatchEvent(l)
    PROVE  ReloadInv'
<1> DEFINE g == gateway[l]
           h == Scheduled([g EXCEPT !.unseen = FALSE])
<1>1. g \in LifeType /\ HasCrons(g) /\ g.watching
  BY DEF ReloadInv, Typed, WatchEvent
<1>2. h = [g EXCEPT !.unseen = FALSE, !.timer = ~g.stopped] /\ h \in LifeType
  BY <1>1 DEF Scheduled, LifeType
<1> HIDE DEF h
<1>3. HasCrons(h)
  BY <1>1, <1>2 DEF HasCrons, LifeType
<1>4. ASSUME l = life PROVE Present(h)
  BY <1>1, <1>2, <1>4 DEF ReloadInv, LifeType, Present, Starting, Running, Serving, Noticed,
     Effective
<1>5. ASSUME l = life PROVE ArmedOf(h)
  BY <1>1, <1>2, <1>5 DEF ReloadInv, LifeType, CronAlone, Afoot, Mine, ArmedOf, WatchEvent, cronVars
<1>6. OwnCrons(h) \subseteq OwnCrons(g)
  BY <1>1, <1>2 DEF OwnCrons, LifeType
<1>8. Keeps(l, h)
  BY <1>2, <1>3, <1>4, <1>5, <1>6 DEF Keeps
<1> QED
  BY <1>8, OneLife DEF h, WatchEvent, signalVars, restartVars, cronVars, boundVars, ReloadInv,
     Typed

LEMMA TimerFiresKeeps ==
    ASSUME ReloadInv, NEW l \in Life, TimerFires(l)
    PROVE  ReloadInv'
<1> DEFINE g == gateway[l]
           h == IF g.at = "idle" THEN [g EXCEPT !.timer = FALSE, !.at = "read"]
                                 ELSE [g EXCEPT !.timer = FALSE, !.pending = TRUE]
<1>1. g \in LifeType /\ HasCrons(g) /\ g.timer
  BY DEF ReloadInv, Typed, TimerFires
<1>2. h \in LifeType
  BY <1>1 DEF LifeType
<1>3. HasCrons(h)
  BY <1>1 DEF HasCrons, LifeType
<1>4. ASSUME l = life PROVE Present(h)
  BY <1>1, <1>4 DEF ReloadInv, LifeType, Present, Starting, Running, Serving, Noticed,
     Effective
<1>5. ASSUME l = life PROVE ArmedOf(h)
  BY <1>1, <1>5 DEF ReloadInv, LifeType, CronAlone, Afoot, Mine, ArmedOf, TimerFires, cronVars
<1>6. OwnCrons(h) \subseteq OwnCrons(g)
  BY <1>1, <1>2 DEF OwnCrons, LifeType
<1>8. Keeps(l, h)
  BY <1>2, <1>3, <1>4, <1>5, <1>6 DEF Keeps
<1> QED
  BY <1>8, OneLife DEF TimerFires, signalVars, restartVars, cronVars, boundVars, ReloadInv,
     Typed

LEMMA ReadSnapshotKeeps ==
    ASSUME ReloadInv, NEW l \in Life, ReadSnapshot(l)
    PROVE  ReloadInv'
<1> DEFINE g == gateway[l]
           h == [g EXCEPT !.at = "handle", !.snapshot = file]
<1>1. g \in LifeType /\ HasCrons(g) /\ g.at = "read"
  BY DEF ReloadInv, Typed, ReadSnapshot
<1>2. h \in LifeType
  BY <1>1 DEF ReloadInv, Typed, LifeType
<1>3. HasCrons(h)
  BY <1>1 DEF HasCrons, LifeType
<1>4. ASSUME l = life PROVE Present(h)
  BY <1>1, <1>4 DEF ReloadInv, LifeType, Present, Starting, Running, Serving, Noticed,
     Effective
<1>5. ASSUME l = life PROVE ArmedOf(h)
  BY <1>1, <1>5 DEF ReloadInv, LifeType, CronAlone, Afoot, Mine, ArmedOf, ReadSnapshot, cronVars
<1>6. OwnCrons(h) \subseteq OwnCrons(g)
  BY <1>1, <1>2 DEF OwnCrons, LifeType
<1>8. Keeps(l, h)
  BY <1>2, <1>3, <1>4, <1>5, <1>6 DEF Keeps
<1>7. gateway' = [gateway EXCEPT ![l] = h]
  BY DEF ReadSnapshot, ReloadInv, Typed
<1> QED
  BY <1>7, <1>8, OneLife DEF ReadSnapshot, signalVars, restartVars, cronVars, boundVars,
     ReloadInv, Typed

LEMMA FileMissingKeeps ==
    ASSUME ReloadInv, NEW l \in Life, FileMissing(l)
    PROVE  ReloadInv'
<1> DEFINE g == gateway[l]
           more == [g EXCEPT !.retries = @ + 1]
           again == Scheduled(more)
           h == IF g.retries < MaxRetries THEN Finished(again) ELSE Finished(g)
<1>1. g \in LifeType /\ HasCrons(g) /\ g.at = "handle" /\ g.snapshot = Missing
  BY DEF ReloadInv, Typed, FileMissing
<1>2. crons \in Seq({c.cron : c \in Config})
  BY DEF ReloadInv, Typed
<1>3. ASSUME l = life PROVE CanEnd(g)
  BY <1>1, <1>3, ConfigAssumption DEF ReloadInv, CanEnd, Present, Starting, Running, Serving,
     Noticed, Effective, CronAlone, Mine, Afoot, FileMissing, cronVars
<1>4. ASSUME g.retries < MaxRetries PROVE Keeps(l, Finished(again))
  <2>1. more \in LifeType
    BY <1>1, <1>4 DEF LifeType, MaxRetries
  <2>2. /\ more.at = g.at /\ more.next = g.next /\ more.replaces = g.replaces
        /\ more.loaded = g.loaded /\ more.current = g.current
        /\ more.watching = g.watching /\ more.unseen = g.unseen /\ more.pending = g.pending
        /\ more.stopped = g.stopped /\ more.queued = g.queued
        /\ more.checking = g.checking /\ more.deferred = g.deferred
        /\ more.cron = g.cron /\ more.captured = g.captured /\ more.excused = g.excused
    BY <1>1 DEF LifeType
  <2> HIDE DEF more
  <2>a. again = [more EXCEPT !.timer = ~more.stopped] /\ again \in LifeType
    BY <2>1, ScheduledLife
  <2>b. /\ again.timer = ~more.stopped
        /\ again.at = more.at /\ again.next = more.next /\ again.replaces = more.replaces
        /\ again.loaded = more.loaded /\ again.current = more.current
        /\ again.watching = more.watching /\ again.unseen = more.unseen
        /\ again.pending = more.pending
        /\ again.stopped = more.stopped /\ again.queued = more.queued
        /\ again.checking = more.checking /\ again.deferred = more.deferred
        /\ again.cron = more.cron /\ again.captured = more.captured
        /\ again.excused = more.excused
    BY <2>1, <2>a DEF LifeType
  <2> HIDE DEF again
  <2>3. /\ again.timer = ~g.stopped
        /\ again.at = g.at /\ again.next = g.next /\ again.replaces = g.replaces
        /\ again.loaded = g.loaded /\ again.current = g.current
        /\ again.watching = g.watching /\ again.unseen = g.unseen /\ again.pending = g.pending
        /\ again.stopped = g.stopped /\ again.queued = g.queued
        /\ again.checking = g.checking /\ again.deferred = g.deferred
        /\ again.cron = g.cron /\ again.captured = g.captured /\ again.excused = g.excused
    BY <2>2, <2>b
  <2>4. HasCrons(again)
    BY <1>1, <2>3 DEF HasCrons
  <2>5. l = life => CanEnd(again)
    BY <1>3, <2>3 DEF CanEnd
  <2> QED
    BY <1>2, <1>4, <2>a, <2>3, <2>4, <2>5, FinishedKeeps
<1>5. Keeps(l, Finished(g))
  BY <1>1, <1>2, <1>3, FinishedKeeps
<1>6. Keeps(l, h)
  BY <1>4, <1>5
<1>7. gateway' = [gateway EXCEPT ![l] = h]
  BY <1>1 DEF FileMissing, Finished, Scheduled, LifeType
<1> QED
  BY <1>6, <1>7, OneLife DEF FileMissing, signalVars, restartVars, cronVars, boundVars,
     ReloadInv, Typed

LEMMA FileInvalidKeeps ==
    ASSUME ReloadInv, NEW l \in Life, FileInvalid(l)
    PROVE  ReloadInv'
<1> DEFINE g == gateway[l]
           k == [g EXCEPT !.retries = 0]
<1>1. g \in LifeType /\ HasCrons(g) /\ g.at = "handle" /\ g.snapshot = Invalid
  BY DEF ReloadInv, Typed, FileInvalid
<1>2. crons \in Seq({c.cron : c \in Config})
  BY DEF ReloadInv, Typed
<1>3. k \in LifeType /\ HasCrons(k)
  BY <1>1 DEF LifeType, HasCrons, MaxRetries
<1>4. ASSUME l = life PROVE CanEnd(g)
  BY <1>1, <1>4, ConfigAssumption DEF ReloadInv, CanEnd, Present, Starting, Running, Serving,
     Noticed, Effective, CronAlone, Mine, Afoot, FileInvalid, cronVars
<1>5. l = life => CanEnd(k)
  BY <1>1, <1>4 DEF CanEnd, LifeType
<1>6. Keeps(l, Finished(k))
  BY <1>1, <1>2, <1>3, <1>5, FinishedKeeps DEF LifeType
<1>7. gateway' = [gateway EXCEPT ![l] = Finished(k)]
  BY DEF FileInvalid, ReloadInv, Typed
<1> QED
  BY <1>6, <1>7, OneLife DEF FileInvalid, signalVars, restartVars, cronVars, boundVars,
     ReloadInv, Typed

LEMMA SecretsFailKeeps ==
    ASSUME ReloadInv, NEW l \in Life, SecretsFail(l)
    PROVE  ReloadInv'
<1> DEFINE g == gateway[l]
           k == [g EXCEPT !.excused = TRUE]
<1>1. g \in LifeType /\ HasCrons(g) /\ g.at = "secrets"
  BY DEF ReloadInv, Typed, SecretsFail
<1>2. crons \in Seq({c.cron : c \in Config})
  BY DEF ReloadInv, Typed
<1>3. k \in LifeType /\ HasCrons(k)
  BY <1>1 DEF LifeType, HasCrons
<1>4. ASSUME l = life PROVE CanEnd(k)
  BY <1>1, <1>4 DEF ReloadInv, CanEnd, Present, Starting, Running, Serving, LifeType,
     CronAlone, Mine, Afoot, SecretsFail, cronVars
<1>6. Keeps(l, Finished(k))
  BY <1>1, <1>2, <1>3, <1>4, FinishedKeeps DEF LifeType
<1>7. gateway' = [gateway EXCEPT ![l] = Finished(k)]
  BY DEF SecretsFail, ReloadInv, Typed
<1>8. loose \subseteq loose' /\ loose' \subseteq 0..Len(crons)
  BY <1>1 DEF SecretsFail, cronVars, ReloadInv, Typed
<1> QED
  BY <1>6, <1>7, <1>8, OneLife DEF SecretsFail, signalVars, restartVars, cronVars,
     ReloadInv, Typed

LEMMA HotReloadedKeeps ==
    ASSUME ReloadInv, NEW l \in Life, HotReloaded(l)
    PROVE  ReloadInv'
<1> DEFINE g == gateway[l]
           k == [g EXCEPT !.cron = g.next]
<1>1. g \in LifeType /\ HasCrons(g) /\ g.at = "channels"
  BY DEF ReloadInv, Typed, HotReloaded
<1>2. crons \in Seq({c.cron : c \in Config})
  BY DEF ReloadInv, Typed
<1>3. k \in LifeType /\ HasCrons(k)
  BY <1>1 DEF LifeType, HasCrons
<1>4. ASSUME l = life PROVE CanEnd(k)
  BY <1>1, <1>4 DEF ReloadInv, CanEnd, Present, Starting, Running, Serving, Noticed, Effective,
     LifeType, CronAlone, Mine, Afoot, HotReloaded, cronVars
<1>6. Keeps(l, Finished(k))
  BY <1>1, <1>2, <1>3, <1>4, FinishedKeeps DEF LifeType
<1>7. gateway' = [gateway EXCEPT ![l] = Finished(k)]
  BY DEF HotReloaded, ReloadInv, Typed
<1> QED
  BY <1>6, <1>7, OneLife DEF HotReloaded, signalVars, restartVars, cronVars, boundVars,
     ReloadInv, Typed

LEMMA ChannelsFailKeeps ==
    ASSUME ReloadInv, NEW l \in Life, ChannelsFail(l)
    PROVE  ReloadInv'
<1> DEFINE g == gateway[l]
           k == [g EXCEPT !.excused = TRUE]
<1>1. g \in LifeType /\ HasCrons(g) /\ g.at = "channels"
  BY DEF ReloadInv, Typed, ChannelsFail
<1>2. crons \in Seq({c.cron : c \in Config})
  BY DEF ReloadInv, Typed
<1>3. k \in LifeType /\ HasCrons(k)
  BY <1>1 DEF LifeType, HasCrons
<1>4. ASSUME l = life PROVE CanEnd(k)
  BY <1>1, <1>4 DEF ReloadInv, CanEnd, Present, Starting, Running, Serving, LifeType,
     HasCrons, CronAlone, Mine, Afoot, ChannelsFail
<1>6. Keeps(l, Finished(k))
  BY <1>1, <1>2, <1>3, <1>4, FinishedKeeps DEF LifeType
<1>7. gateway' = [gateway EXCEPT ![l] = Finished(k)]
  BY DEF ChannelsFail, ReloadInv, Typed
<1>8. loose \subseteq loose' /\ loose' \subseteq 0..Len(crons)
  BY <1>1 DEF ChannelsFail, HasCrons, ReloadInv, Typed, LifeType
<1> QED
  BY <1>6, <1>7, <1>8, OneLife DEF ChannelsFail, signalVars, restartVars, ReloadInv, Typed

LEMMA WatcherFailsKeeps ==
    ASSUME ReloadInv, NEW l \in Life, WatcherFails(l)
    PROVE  ReloadInv'
<1> DEFINE g == gateway[l]
           h == [g EXCEPT !.watching = FALSE, !.unseen = FALSE, !.excused = TRUE]
<1>1. g \in LifeType /\ HasCrons(g) /\ g.watching
  BY DEF ReloadInv, Typed, WatcherFails
<1>2. h \in LifeType /\ HasCrons(h)
  <2>1. h \in LifeType
    BY <1>1 DEF LifeType
  <2>2. h.cron = g.cron /\ h.captured = g.captured /\ h.next = g.next /\ h.at = g.at
        /\ h.replaces = g.replaces
    BY <1>1 DEF LifeType
  <2> HIDE DEF h
  <2> QED BY <1>1, <2>1, <2>2 DEF HasCrons
<1>3. ASSUME l = life PROVE Present(h)
  BY <1>1, <1>3 DEF ReloadInv, LifeType, Present, Starting, Running, Serving
<1>4. ASSUME l = life PROVE ArmedOf(h)
  BY <1>1, <1>4 DEF ReloadInv, LifeType, CronAlone, Afoot, Mine, ArmedOf, WatcherFails, cronVars
<1>5. OwnCrons(h) \subseteq OwnCrons(g)
  BY <1>1 DEF OwnCrons, LifeType
<1>9. Keeps(l, h)
  BY <1>2, <1>3, <1>4, <1>5 DEF Keeps
<1>6. gateway' = [gateway EXCEPT ![l] = h]
  BY DEF WatcherFails, ReloadInv, Typed
<1>8. loose \subseteq loose' /\ loose' \subseteq 0..Len(crons)
  BY <1>1 DEF WatcherFails, cronVars, ReloadInv, Typed
<1> QED
  BY <1>6, <1>8, <1>9, OneLife DEF WatcherFails, signalVars, restartVars, cronVars, ReloadInv,
     Typed

LEMMA TakenLife ==
    ASSUME NEW g \in LifeType, NEW n \in Config
    PROVE  [g EXCEPT !.current = n, !.retries = 0] \in LifeType
<1> DEFINE h == [g EXCEPT !.current = n]
<1>1. h \in LifeType
  BY DEF LifeType
<1>2. [h EXCEPT !.retries = 0] \in LifeType
  <2> HIDE DEF h
  <2> QED
    BY <1>1 DEF LifeType, MaxRetries
<1>3. [h EXCEPT !.retries = 0] = [g EXCEPT !.current = n, !.retries = 0]
  OBVIOUS
<1> QED
  BY <1>2, <1>3

LEMMA QueuedLife ==
    ASSUME NEW g \in LifeType, NEW old \in LifeType
    PROVE  [g EXCEPT !.queued = TRUE, !.checking = old.checking \/ ~old.queued] \in LifeType
<1> DEFINE check == old.checking \/ ~old.queued
<1>1. check \in BOOLEAN
  OBVIOUS
<1> HIDE DEF check
<1>2. [g EXCEPT !.queued = TRUE, !.checking = check] \in LifeType
  BY <1>1 DEF LifeType
<1> QED
  BY <1>2 DEF check

\* What applySnapshot decides.
LEMMA ApplySnapshotKeeps ==
    ASSUME ReloadInv, NEW l \in Life, ApplySnapshot(l)
    PROVE  ReloadInv'
<1> DEFINE g == gateway[l]
           n == g.snapshot
           decision == Decision(g.current, n)
           taken == [g EXCEPT !.current = n, !.retries = 0]
           declined == [taken EXCEPT !.excused = TRUE]
           restart == [taken EXCEPT !.queued = TRUE, !.checking = g.checking \/ ~g.queued]
           hot == [taken EXCEPT !.at = "secrets", !.replaces = n.cron # g.current.cron]
<1>1. g \in LifeType /\ HasCrons(g) /\ g.at = "handle" /\ n \in Config
  BY DEF ReloadInv, Typed, ApplySnapshot
<1>2. crons \in Seq({c.cron : c \in Config})
  BY DEF ReloadInv, Typed
<1>3. {taken, declined, restart, hot} \subseteq LifeType
  <2>1. taken \in LifeType
    BY <1>1, TakenLife
  <2> HIDE DEF taken
  <2>2. declined \in LifeType
    BY <2>1 DEF LifeType
  <2>3. restart \in LifeType
    BY <1>1, <2>1, QueuedLife
  <2>4. hot \in LifeType
    BY <2>1 DEF LifeType
  <2> QED
    BY <2>1, <2>2, <2>3, <2>4
<1>4. /\ HasCrons(taken) /\ HasCrons(declined) /\ HasCrons(restart) /\ HasCrons(hot)
  BY <1>1 DEF HasCrons, LifeType
<1>5. l = life => Present(g) /\ phase # "starting" /\ ArmedOf(g)
  BY <1>1 DEF ReloadInv, Present, Starting, CronAlone, Afoot, Mine, ArmedOf, ApplySnapshot, cronVars
<1>a. taken.cron = g.cron /\ declined.cron = g.cron /\ restart.cron = g.cron
  BY <1>1 DEF LifeType
<1>6. ASSUME decision = "nothing" PROVE Keeps(l, Finished(taken))
  <2>1. n = g.current
    BY <1>6 DEF Decision
  <2>2. l = life => CanEnd(taken)
    BY <1>1, <1>5, <2>1 DEF CanEnd, LifeType, Present, Running, Serving, Noticed, Effective,
       ArmedOf, Mine
  <2> QED
    BY <1>2, <1>3, <1>4, <1>a, <2>2, FinishedKeeps
<1>7. ASSUME decision = "declined" PROVE Keeps(l, Finished(declined))
  <2>1. l = life => CanEnd(declined)
    BY <1>1, <1>5 DEF CanEnd, LifeType, Present, Running, Serving, ArmedOf, Mine
  <2> QED
    BY <1>2, <1>3, <1>4, <1>a, <2>1, FinishedKeeps
<1>8. ASSUME decision = "restart" PROVE Keeps(l, Finished(restart))
  <2>1. l = life => CanEnd(restart)
    BY <1>1, <1>5 DEF CanEnd, LifeType, Present, Running, Serving, Noticed, ArmedOf, Mine
  <2> QED
    BY <1>2, <1>3, <1>4, <1>a, <2>1, FinishedKeeps
<1>9. ASSUME decision = "hot" PROVE Keeps(l, hot)
  <2>1. n.cold = g.current.cold
    BY <1>9 DEF Decision
  <2>2. ASSUME l = life PROVE Present(hot)
    BY <1>1, <1>5, <2>1, <2>2 DEF LifeType, Present, Running, Serving, Noticed, Effective
  <2>3. ASSUME l = life PROVE ArmedOf(hot)
    BY <1>1, <1>5, <2>3 DEF LifeType, ArmedOf, Mine
  <2> QED
    BY <1>1, <1>3, <1>4, <2>2, <2>3 DEF Keeps, OwnCrons, LifeType
<1> DEFINE h == CASE decision = "nothing" -> Finished(taken)
                  [] decision = "declined" -> Finished(declined)
                  [] decision = "restart" -> Finished(restart)
                  [] decision = "hot" -> hot
<1>10. decision \in {"nothing", "declined", "restart", "hot"}
  BY DEF Decision
<1>11. Keeps(l, h)
  <2> HIDE DEF decision, taken, declined, restart, hot
  <2> QED
    BY <1>6, <1>7, <1>8, <1>9, <1>10
<1>12. gateway' = [gateway EXCEPT ![l] = h]
  BY DEF ApplySnapshot
<1>13. UNCHANGED <<file, phase, life, crons, armed, starting, working, loose, restartTimer, polls, events,
                   timedOut, faults>>
  BY DEF ApplySnapshot, signalVars, restartVars, cronVars, boundVars
<1> HIDE DEF h
<1> QED
  BY <1>11, <1>12, <1>13, OneLife DEF ReloadInv, Typed

\* The service of the present state is replaced by one that has read the current
\* configuration.
LEMMA ReplaceCronKeeps ==
    ASSUME ReloadInv, NEW l \in Life, ReplaceCron(l)
    PROVE  ReloadInv'
<1> DEFINE g == gateway[l]
           n == Len(crons) + 1
<1>1. g \in LifeType /\ HasCrons(g) /\ g.at = "secrets"
  BY DEF ReloadInv, Typed, ReplaceCron
<1>2. crons \in Seq({c.cron : c \in Config})
  BY DEF ReloadInv, Typed
<1>3. CASE ~g.replaces
  <2> DEFINE h == [g EXCEPT !.at = "channels", !.next = g.cron]
  <2>1. h \in LifeType /\ HasCrons(h)
    BY <1>1 DEF LifeType, HasCrons
  <2>2. gateway' = [gateway EXCEPT ![l] = h] /\ UNCHANGED cronVars
    BY <1>3 DEF ReplaceCron, ReloadInv, Typed
  <2>3. ASSUME l = life PROVE Present(h)
    BY <1>1, <1>3, <2>3 DEF ReloadInv, LifeType, Present, Starting, Running, Serving, Noticed,
       Effective
  <2>4. ASSUME l = life PROVE ArmedOf(h)
    BY <1>1, <2>2, <2>4 DEF ReloadInv, LifeType, CronAlone, Afoot, Mine, ArmedOf, cronVars
  <2>6. OwnCrons(h) \subseteq OwnCrons(g)
    BY <1>1 DEF OwnCrons, LifeType
  <2>5. Keeps(l, h)
    BY <2>1, <2>3, <2>4, <2>6 DEF Keeps
  <2> QED
    BY <2>2, <2>5, OneLife DEF ReplaceCron, signalVars, restartVars, cronVars, boundVars,
       ReloadInv, Typed
<1>4. CASE g.replaces
  <2> DEFINE h == [g EXCEPT !.at = "channels", !.next = n]
  <2>1. n \in Nat /\ h \in LifeType
    <3>1. n \in Nat
      BY <1>2
    <3> HIDE DEF n
    <3> QED
      BY <1>1, <3>1 DEF LifeType
  <2>2. /\ gateway' = [gateway EXCEPT ![l] = h]
        /\ crons' = Append(crons, g.current.cron)
        /\ armed' = armed \ {g.cron} /\ starting' = starting \cup {n} /\ UNCHANGED working
        /\ loose' = loose \cup ({g.cron} \cap (starting \cup working))
                         \cup (IF l # life \/ phase \in {"closing", "down"} THEN {n} ELSE {})
        /\ UNCHANGED <<file, phase, life, restartTimer, polls, events, timedOut>>
    BY <1>4 DEF ReplaceCron, StopCron, Loosened, ReloadInv, Typed, signalVars, restartVars, boundVars
  <2>3. /\ crons' \in Seq({c.cron : c \in Config}) /\ Len(crons') = n
        /\ DOMAIN crons' = 1..n /\ DOMAIN crons = 1..Len(crons)
        /\ crons'[n] = g.current.cron /\ \A i \in DOMAIN crons : crons'[i] = crons[i]
    BY <1>1, <1>2, <2>2 DEF LifeType
  <2>4. Typed'
    <3>1. /\ Afoot' \subseteq Afoot \cup {n} /\ loose' \subseteq loose \cup Afoot \cup {n}
          /\ Afoot \cup {n} \subseteq DOMAIN crons' /\ loose \subseteq 0..Len(crons')
      BY <2>2, <2>3 DEF Afoot, ReloadInv, Typed
    <3>2. Afoot' \subseteq DOMAIN crons' /\ loose' \subseteq 0..Len(crons')
      BY <2>3, <3>1
    <3> QED
      BY <2>1, <2>2, <2>3, <3>2 DEF ReloadInv, Typed
  <2>5. ASSUME NEW k \in Life PROVE HasCrons(gateway[k])'
    <3>1. gateway'[k] = IF k = l THEN h ELSE gateway[k]
      BY <2>2 DEF ReloadInv, Typed
    <3>2. HasCrons(gateway[k])
      BY DEF ReloadInv
    <3>3. /\ Len(crons) \in Nat /\ Len(crons') = Len(crons) + 1
      BY <1>1, <1>2, <2>3 DEF LifeType
    <3>4. CASE k # l
      BY <3>1, <3>2, <3>3, <3>4 DEF HasCrons
    <3>5. CASE k = l
      <4>1. /\ h.cron = g.cron /\ h.captured = g.captured /\ h.next = n
            /\ h.replaces = g.replaces
        BY <1>1 DEF LifeType
      <4>2. g.cron \in 0..Len(crons) /\ g.captured \in 0..Len(crons)
        BY <1>1 DEF HasCrons
      <4>3. gateway'[k] = h
        BY <3>1, <3>5
      <4> HIDE DEF g, h
      <4>4. /\ h.cron \in 0..Len(crons') /\ h.captured \in 0..Len(crons')
            /\ h.next \in 0..Len(crons') /\ h.replaces
        BY <1>4, <3>3, <4>1, <4>2
      <4> QED
        BY <4>3, <4>4 DEF HasCrons
    <3> QED
      BY <3>4, <3>5
  <2>6. gateway'[life] = IF l = life THEN h ELSE gateway[life]
    BY <2>2 DEF ReloadInv, Typed
  <2>7. Present(gateway[life])'
    <3>1. CASE l = life
      BY <1>1, <1>2, <1>4, <2>2, <2>3, <2>6, <3>1 DEF ReloadInv, LifeType, Present, Starting,
         Running, Serving, Noticed, Effective
    <3>2. CASE l # life
      BY <1>2, <2>2, <2>3, <2>6, <3>2 DEF ReloadInv, Present, Starting, Running, Serving,
         Noticed, Effective
    <3> QED
      BY <3>1, <3>2
  <2>8. CronAlone'
    <3>1. CASE l # life \/ phase \in {"closing", "down", "starting"}
      <4>1. phase = "starting" => l # life
        BY <1>1 DEF ReloadInv, Present, Starting
      <4>2. Mine(gateway[life])' = Mine(gateway[life]) /\ n \in loose'
        BY <2>2, <2>6, <3>1, <4>1 DEF Mine
      <4>3. Mine(gateway[life]) \subseteq armed' \cup starting' \cup loose'
        <5>1. CASE phase \in {"closing", "down", "starting"}
          BY <5>1 DEF Mine
        <5>2. CASE l # life /\ phase \notin {"closing", "down", "starting"}
          <6>1. gateway[life].cron # 0 /\ (gateway[life].at = "channels" => gateway[life].next # 0)
            BY <1>2, <5>2 DEF ReloadInv, Typed, Present, Running
          <6>2. g.cron \notin Mine(gateway[life])
            BY <5>2, <6>1 DEF ReloadInv, Typed, Apart, OwnCrons, Mine
          <6> QED
            BY <2>2, <6>2 DEF ReloadInv, CronAlone
        <5> QED
          BY <3>1, <5>1, <5>2
      <4> QED
        BY <2>2, <4>2, <4>3 DEF ReloadInv, CronAlone, Afoot
    <3>2. CASE l = life /\ phase \notin {"closing", "down", "starting"}
      <4>1. Mine(gateway[life])' = {n} /\ Mine(g) = {g.cron}
        <5>1. h.at = "channels" /\ h.next = n
          BY <1>1 DEF LifeType
        <5> HIDE DEF h, n
        <5> QED
          BY <1>1, <2>2, <2>6, <3>2, <5>1 DEF Mine
      <4> QED
        BY <2>2, <3>2, <4>1 DEF ReloadInv, CronAlone, Afoot
    <3> QED
      BY <3>1, <3>2
  <2>9. Apart'
    <3>1. OwnCrons(h) \subseteq OwnCrons(g) \cup {n}
      BY <1>1 DEF OwnCrons, LifeType
    <3>2. \A k \in Life : n \notin OwnCrons(gateway[k])
      BY <1>2 DEF ReloadInv, HasCrons, OwnCrons
    <3>3. \A k \in Life : gateway'[k] = IF k = l THEN h ELSE gateway[k]
      BY <2>2 DEF ReloadInv, Typed
    <3> HIDE DEF h, n
    <3>4. ASSUME NEW i \in Life, NEW k \in Life, i # k
          PROVE  OwnCrons(gateway'[i]) \cap OwnCrons(gateway'[k]) = {}
      BY <3>1, <3>2, <3>3, <3>4 DEF ReloadInv, Apart
    <3> QED
      BY <3>4 DEF Apart, OwnCrons
  <2> QED
    BY <2>2, <2>4, <2>5, <2>7, <2>8, <2>9 DEF ReloadInv, PollsCounted
<1> QED
  BY <1>3, <1>4

-----------------------------------------------------------------------------
\* The file is edited: every watcher will hear of it.
LEMMA EditKeeps ==
    ASSUME ReloadInv, NEW c \in Config \cup {Missing, Invalid}, Edit(c)
    PROVE  ReloadInv'
<1>1. ASSUME NEW l \in Life
      PROVE  LET g == gateway[l]
                 h == gateway'[l]
             IN  /\ h \in LifeType /\ HasCrons(h)
                 /\ h.unseen = (g.unseen \/ g.watching)
                 /\ h.excused = (g.excused \/ (l = life /\ phase = "starting"))
                 /\ h.at = g.at /\ h.next = g.next /\ h.replaces = g.replaces
                 /\ h.timer = g.timer /\ h.pending = g.pending /\ h.snapshot = g.snapshot
                 /\ h.loaded = g.loaded /\ h.current = g.current
                 /\ h.watching = g.watching /\ h.stopped = g.stopped
                 /\ h.queued = g.queued /\ h.checking = g.checking
                 /\ h.deferred = g.deferred /\ h.cron = g.cron /\ h.captured = g.captured
  <2> DEFINE g == gateway[l]
             u == g.unseen \/ g.watching
             e == g.excused \/ (l = life /\ phase = "starting")
             h == [g EXCEPT !.unseen = u, !.excused = e]
  <2>1. g \in LifeType /\ HasCrons(g)
    BY DEF ReloadInv, Typed
  <2>2. u \in BOOLEAN /\ e \in BOOLEAN
    OBVIOUS
  <2>3. gateway'[l] = h
    BY DEF Edit
  <2> HIDE DEF u, e
  <2>4. h \in LifeType
    BY <2>1, <2>2 DEF LifeType
  <2>5. HasCrons(h)
    BY <2>1 DEF LifeType, HasCrons
  <2>6. /\ h.unseen = u /\ h.excused = e
        /\ h.at = g.at /\ h.next = g.next /\ h.replaces = g.replaces /\ h.timer = g.timer
        /\ h.pending = g.pending /\ h.snapshot = g.snapshot /\ h.loaded = g.loaded
        /\ h.current = g.current /\ h.watching = g.watching /\ h.stopped = g.stopped
        /\ h.queued = g.queued /\ h.checking = g.checking /\ h.deferred = g.deferred
        /\ h.cron = g.cron /\ h.captured = g.captured
    BY <2>1 DEF LifeType
  <2> HIDE DEF h
  <2> QED
    BY <2>3, <2>4, <2>5, <2>6 DEF u, e
<1>2. gateway' \in [Life -> LifeType]
  <2>1. gateway' = [l \in Life |-> gateway'[l]]
    BY DEF Edit
  <2> QED
    BY <1>1, <2>1
<1>3. /\ UNCHANGED <<phase, life, crons, armed, starting, working, loose, restartTimer, polls,
                      timedOut>>
      /\ file' = c /\ c # file /\ events' = events + 1 /\ events < MaxEvents
  BY DEF Edit, signalVars, restartVars, cronVars
<1>4. Typed' /\ PollsCounted'
  BY <1>2, <1>3, EventsAssumption DEF ReloadInv, Typed, Afoot, PollsCounted
<1>5. \A l \in Life : HasCrons(gateway[l])'
  BY <1>1, <1>3 DEF HasCrons
<1>6. life \in Life
  BY DEF ReloadInv, Typed
<1> DEFINE g == gateway[life]
           h == gateway'[life]
<1>7. /\ h.unseen = (g.unseen \/ g.watching)
      /\ h.excused = (g.excused \/ phase = "starting")
      /\ h.at = g.at /\ h.next = g.next /\ h.replaces = g.replaces /\ h.timer = g.timer
      /\ h.pending = g.pending /\ h.snapshot = g.snapshot /\ h.loaded = g.loaded
      /\ h.current = g.current /\ h.watching = g.watching /\ h.stopped = g.stopped
      /\ h.queued = g.queued /\ h.checking = g.checking /\ h.deferred = g.deferred
      /\ h.cron = g.cron /\ h.captured = g.captured
  BY <1>1, <1>6
<1>8. Present(gateway[life])'
  BY <1>3, <1>7 DEF ReloadInv, Present, Starting, Running, Serving, Noticed, Effective
<1>9. CronAlone'
  BY <1>3, <1>7 DEF ReloadInv, CronAlone, Mine, Afoot
<1>10. Apart'
  <2>1. \A l \in Life : OwnCrons(gateway'[l]) = OwnCrons(gateway[l])
    BY <1>1 DEF OwnCrons
  <2> QED
    BY <2>1 DEF ReloadInv, Apart, OwnCrons
<1> QED
  BY <1>4, <1>5, <1>8, <1>9, <1>10 DEF ReloadInv

\* A step that changes nothing but the cron services.
LEMMA ServicesKeep ==
    ASSUME ReloadInv,
           UNCHANGED <<file, phase, life, gateway, crons, restartTimer, polls, events, timedOut>>,
           Afoot' \subseteq DOMAIN crons, loose' \subseteq 0..Len(crons),
           LET mine == Mine(gateway[life])
           IN  Afoot' \subseteq mine \cup loose' /\ mine \subseteq armed' \cup starting' \cup loose'
    PROVE  ReloadInv'
<1>1. Typed' /\ PollsCounted'
  BY DEF ReloadInv, Typed, PollsCounted
<1>2. (\A l \in Life : HasCrons(gateway[l]))' /\ Apart' /\ Present(gateway[life])'
  BY DEF ReloadInv, HasCrons, Apart, OwnCrons, Present, Starting, Running, Serving, Noticed,
     Effective
<1>3. CronAlone'
  BY DEF CronAlone, Mine
<1> QED
  BY <1>1, <1>2, <1>3 DEF ReloadInv

\* Starts that end or fail, ticks, and requests to the service that the methods have.
LEMMA CronServicesKeep ==
    ASSUME ReloadInv, Services
    PROVE  ReloadInv'
<1>1. /\ Afoot \subseteq DOMAIN crons /\ loose \subseteq 0..Len(crons) /\ CronAlone
      /\ DOMAIN crons \subseteq 0..Len(crons)
  BY DEF ReloadInv, Typed
<1>2. ASSUME NEW n \in DOMAIN crons, CronStarted(n) PROVE ReloadInv'
  BY <1>1, <1>2, ServicesKeep DEF CronStarted, CronAlone, Afoot, signalVars, restartVars, boundVars
<1>3. ASSUME NEW n \in DOMAIN crons, CronStartFails(n) PROVE ReloadInv'
  BY <1>1, <1>3, ServicesKeep DEF CronStartFails, CronAlone, Afoot, signalVars, restartVars
<1>4. ASSUME NEW n \in DOMAIN crons, CronTicks(n) PROVE ReloadInv'
  BY <1>1, <1>4, ServicesKeep DEF CronTicks, CronAlone, Afoot, signalVars, restartVars
<1>5. ASSUME NEW n \in DOMAIN crons, CronSectionEnds(n) PROVE ReloadInv'
  BY <1>1, <1>5, ServicesKeep
     DEF CronSectionEnds, CronAlone, Afoot, signalVars, restartVars, boundVars
<1>6. ASSUME CronRequest PROVE ReloadInv'
  <2>1. gateway[life].captured \in DOMAIN crons
    BY <1>6 DEF ReloadInv, Present, Running, CronRequest
  <2> QED
    BY <1>1, <1>6, <2>1, ServicesKeep DEF CronRequest, CronAlone, Afoot, signalVars, restartVars
<1> QED
  BY <1>2, <1>3, <1>4, <1>5, <1>6 DEF Services

-----------------------------------------------------------------------------
\* A step that emits the signal while the gateway serves, or leaves its phase, and changes
\* no more of one life than its restart.
LEMMA EmitKeeps ==
    ASSUME ReloadInv, NEW l \in Life, NEW h \in LifeType,
           gateway' = [gateway EXCEPT ![l] = h],
           /\ h.at = gateway[l].at /\ h.next = gateway[l].next
           /\ h.replaces = gateway[l].replaces
           /\ h.cron = gateway[l].cron /\ h.captured = gateway[l].captured,
           \/ phase = "serving" /\ phase' = "draining"
           \/ UNCHANGED phase /\ (l = life => Present(h)),
           UNCHANGED <<file, life, crons, armed, starting, working, loose>>,
           restartTimer' \in BOOLEAN, timedOut' \in BOOLEAN, polls' \in Nat,
           events' \in Nat, events' <= MaxEvents, PollsCounted'
    PROVE  ReloadInv'
<1>1. Typed'
  BY DEF ReloadInv, Typed, Afoot
<1>2. \A k \in Life : gateway'[k] = IF k = l THEN h ELSE gateway[k]
  BY DEF ReloadInv, Typed
<1>3. ASSUME NEW k \in Life PROVE HasCrons(gateway[k])'
  BY <1>2 DEF ReloadInv, HasCrons
<1>4. life \in Life /\ gateway'[life] = IF life = l THEN h ELSE gateway[life]
  BY <1>2 DEF ReloadInv, Typed
<1>5. Present(gateway[life])'
  <2>1. CASE UNCHANGED phase
    BY <1>4, <2>1 DEF ReloadInv, Present, Starting, Running, Serving, Noticed, Effective
  <2>2. CASE phase = "serving" /\ phase' = "draining"
    BY <1>4, <2>2 DEF ReloadInv, Present, Running
  <2> QED
    BY <2>1, <2>2
<1>6. CronAlone'
  BY <1>4 DEF ReloadInv, CronAlone, Mine, Afoot
<1>7. Apart'
  <2>1. \A k \in Life : OwnCrons(gateway'[k]) = OwnCrons(gateway[k])
    BY <1>2 DEF OwnCrons
  <2> QED
    BY <2>1 DEF ReloadInv, Apart, OwnCrons
<1> QED
  BY <1>1, <1>3, <1>5, <1>6, <1>7 DEF ReloadInv

\* The step as EmitKeeps takes it, when no life changes.
LEMMA EmitOnlyKeeps ==
    ASSUME ReloadInv, UNCHANGED gateway,
           (phase = "serving" /\ phase' = "draining") \/ UNCHANGED phase,
           UNCHANGED <<file, life, crons, armed, starting, working, loose>>,
           restartTimer' \in BOOLEAN, timedOut' \in BOOLEAN, polls' \in Nat,
           events' \in Nat, events' <= MaxEvents, PollsCounted'
    PROVE  ReloadInv'
<1>1. life \in Life /\ gateway[life] \in LifeType /\ Present(gateway[life])
  BY DEF ReloadInv, Typed
<1>2. gateway' = [gateway EXCEPT ![life] = gateway[life]]
  BY DEF ReloadInv, Typed
<1> DEFINE h == gateway[life]
<1>3. h \in LifeType /\ gateway' = [gateway EXCEPT ![life] = h] /\ Present(h)
  BY <1>1, <1>2
<1> QED
  BY <1>1, <1>3, EmitKeeps

LEMMA Emits ==
    ASSUME EmitGatewayRestart, ReloadInv
    PROVE  /\ restartTimer' = FALSE
           /\ \/ phase = "serving" /\ phase' = "draining"
              \/ phase # "serving" /\ UNCHANGED phase
  BY DEF EmitGatewayRestart

LEMMA CheckFailsKeeps ==
    ASSUME ReloadInv, NEW l \in Life, CheckFails(l)
    PROVE  ReloadInv'
<1> DEFINE g == gateway[l]
           h == [g EXCEPT !.checking = FALSE, !.queued = FALSE, !.excused = TRUE]
<1>1. g \in LifeType /\ g.checking
  BY DEF ReloadInv, Typed, CheckFails
<1>2. h \in LifeType
  BY <1>1 DEF LifeType
<1>3. gateway' = [gateway EXCEPT ![l] = h]
  BY DEF CheckFails, ReloadInv, Typed
<1>4. l = life => Present(h)
  BY <1>1 DEF ReloadInv, LifeType, Present, Starting, Running, Serving
<1>5. /\ h.at = g.at /\ h.next = g.next /\ h.replaces = g.replaces
      /\ h.cron = g.cron /\ h.captured = g.captured
  BY <1>1 DEF LifeType
<1>6. /\ UNCHANGED <<file, phase, life, crons, armed, starting, working, loose, restartTimer, timedOut,
                      polls, events>>
     
  BY DEF CheckFails, restartVars, cronVars, ReloadInv, Typed
<1>7. /\ restartTimer' \in BOOLEAN /\ timedOut' \in BOOLEAN /\ polls' \in Nat
      /\ events' \in Nat /\ events' <= MaxEvents /\ PollsCounted'
  BY <1>6 DEF ReloadInv, Typed, PollsCounted
<1> HIDE DEF h
<1> QED
  BY <1>2, <1>3, <1>4, <1>5, <1>6, <1>7, EmitKeeps

LEMMA RequestGatewayRestartKeeps ==
    ASSUME ReloadInv, NEW l \in Life, RequestGatewayRestart(l)
    PROVE  ReloadInv'
<1> DEFINE g == gateway[l]
           wait == [g EXCEPT !.checking = FALSE, !.deferred = TRUE]
           go == [g EXCEPT !.checking = FALSE]
<1>1. g \in LifeType /\ g.checking
  BY DEF ReloadInv, Typed, RequestGatewayRestart
<1>2. wait \in LifeType /\ go \in LifeType
  BY <1>1 DEF LifeType
<1>3. /\ wait.at = g.at /\ wait.next = g.next /\ wait.replaces = g.replaces
      /\ wait.cron = g.cron /\ wait.captured = g.captured
      /\ go.at = g.at /\ go.next = g.next /\ go.replaces = g.replaces
      /\ go.cron = g.cron /\ go.captured = g.captured
  BY <1>1 DEF LifeType
<1>4. /\ UNCHANGED <<file, life, crons, armed, starting, working, loose, polls, events>>
      /\ polls' \in Nat /\ events' \in Nat /\ events' <= MaxEvents
  BY DEF RequestGatewayRestart, cronVars, boundVars, ReloadInv, Typed
<1>5. CASE RepliesPending
  <2>1. gateway' = [gateway EXCEPT ![l] = wait]
        /\ UNCHANGED <<phase, restartTimer, timedOut>>
    BY <1>5 DEF RequestGatewayRestart, restartVars, ReloadInv, Typed
  <2>2. l = life => Present(wait)
    BY <1>1 DEF ReloadInv, LifeType, Present, Starting, Running, Serving, Noticed, Effective
  <2>3. restartTimer' \in BOOLEAN /\ timedOut' \in BOOLEAN /\ PollsCounted'
    BY <1>4, <2>1 DEF ReloadInv, Typed, PollsCounted
  <2> HIDE DEF wait
  <2> QED
    BY <1>2, <1>3, <1>4, <2>1, <2>2, <2>3, EmitKeeps
<1>6. CASE ~RepliesPending
  <2>1. gateway' = [gateway EXCEPT ![l] = go] /\ EmitGatewayRestart /\ timedOut' = FALSE
    BY <1>6 DEF RequestGatewayRestart, ReloadInv, Typed
  <2>2. /\ restartTimer' = FALSE
        /\ \/ phase = "serving" /\ phase' = "draining"
           \/ phase # "serving" /\ UNCHANGED phase
    BY <2>1, Emits
  <2>3. l = life /\ phase # "serving" => Present(go)
    BY <1>1 DEF ReloadInv, LifeType, Present, Starting, Running
  <2>4. restartTimer' \in BOOLEAN /\ timedOut' \in BOOLEAN
    BY <2>1, <2>2
  <2>5. PollsCounted'
    BY <1>4, <2>2 DEF ReloadInv, Typed, PollsCounted
  <2> HIDE DEF go
  <2> QED
    BY <1>2, <1>3, <1>4, <2>1, <2>2, <2>3, <2>4, <2>5, EmitKeeps
<1> QED
  BY <1>5, <1>6

LEMMA ScheduleRestartKeeps ==
    ASSUME ReloadInv, ScheduleRestart
    PROVE  ReloadInv'
<1>1. /\ UNCHANGED <<file, phase, life, gateway, crons, armed, starting, working, loose, timedOut, polls,
                      faults>>
      /\ restartTimer' = TRUE /\ events' = events + 1 /\ events < MaxEvents
  BY DEF ScheduleRestart, cronVars
<1>2. /\ restartTimer' \in BOOLEAN /\ timedOut' \in BOOLEAN /\ polls' \in Nat
      /\ events' \in Nat /\ events' <= MaxEvents /\ PollsCounted'
  BY <1>1, EventsAssumption DEF ReloadInv, Typed, PollsCounted
<1> QED
  BY <1>1, <1>2, EmitOnlyKeeps

LEMMA RestartTimerFiresKeeps ==
    ASSUME ReloadInv, RestartTimerFires
    PROVE  ReloadInv'
<1>1. /\ UNCHANGED <<file, life, gateway, crons, armed, starting, working, loose, events>>
      /\ restartTimer
  BY DEF RestartTimerFires, cronVars, boundVars
<1>2. /\ events' \in Nat /\ events' <= MaxEvents
  BY <1>1 DEF ReloadInv, Typed
<1>3. CASE RepliesPending
  <2>1. restartTimer' = FALSE /\ polls' = polls + 1 /\ UNCHANGED <<phase, timedOut>>
    BY <1>3 DEF RestartTimerFires
  <2>2. restartTimer' \in BOOLEAN /\ timedOut' \in BOOLEAN
    BY <2>1 DEF ReloadInv, Typed
  <2>3. polls' \in Nat /\ PollsCounted'
    BY <1>1, <2>1 DEF ReloadInv, Typed, PollsCounted
  <2> QED
    BY <1>1, <1>2, <2>1, <2>2, <2>3, EmitOnlyKeeps
<1>4. CASE ~RepliesPending
  <2>1. EmitGatewayRestart /\ timedOut' = FALSE /\ UNCHANGED polls
    BY <1>4 DEF RestartTimerFires
  <2>2. /\ restartTimer' = FALSE
        /\ (phase = "serving" /\ phase' = "draining") \/ UNCHANGED phase
    BY <2>1, Emits
  <2>3. restartTimer' \in BOOLEAN /\ timedOut' \in BOOLEAN
    BY <2>1, <2>2
  <2>4. polls' \in Nat /\ PollsCounted'
    BY <1>1, <2>1, <2>2 DEF ReloadInv, Typed, PollsCounted
  <2> QED
    BY <1>1, <1>2, <2>2, <2>3, <2>4, EmitOnlyKeeps
<1> QED
  BY <1>3, <1>4

LEMMA PollEndsKeeps ==
    ASSUME ReloadInv, PollEnds
    PROVE  ReloadInv'
<1>1. /\ UNCHANGED <<file, life, crons, armed, starting, working, loose, events>>
      /\ EmitGatewayRestart /\ timedOut' \in BOOLEAN
  BY DEF PollEnds, cronVars, boundVars, RepliesPending
<1>2. /\ events' \in Nat /\ events' <= MaxEvents
  BY <1>1 DEF ReloadInv, Typed
<1>3. /\ restartTimer' = FALSE /\ restartTimer' \in BOOLEAN
      /\ \/ phase = "serving" /\ phase' = "draining"
         \/ phase # "serving" /\ UNCHANGED phase
  BY <1>1, Emits
<1>4. CASE polls > 0 /\ polls' = polls - 1 /\ UNCHANGED gateway
  <2>1. polls' \in Nat /\ PollsCounted'
    BY <1>1, <1>3, <1>4 DEF ReloadInv, Typed, PollsCounted
  <2> QED
    BY <1>1, <1>2, <1>3, <1>4, <2>1, EmitOnlyKeeps
<1>5. ASSUME NEW l \in Life, gateway[l].deferred, UNCHANGED polls,
             gateway' = [gateway EXCEPT ![l].deferred = FALSE]
      PROVE  ReloadInv'
  <2> DEFINE g == gateway[l]
             h == [g EXCEPT !.deferred = FALSE]
  <2>1. g \in LifeType /\ h \in LifeType
    <3>1. g \in LifeType
      BY DEF ReloadInv, Typed
    <3> HIDE DEF g
    <3> QED BY <3>1 DEF LifeType
  <2>2. gateway' = [gateway EXCEPT ![l] = h]
    BY <1>5 DEF ReloadInv, Typed
  <2>3. l = life /\ phase # "serving" => Present(h)
    BY <1>5, <2>1 DEF ReloadInv, LifeType, Present, Starting, Running
  <2>4. /\ h.at = g.at /\ h.next = g.next /\ h.replaces = g.replaces
        /\ h.cron = g.cron /\ h.captured = g.captured
    BY <2>1 DEF LifeType
  <2>5. polls' \in Nat /\ PollsCounted'
    BY <1>1, <1>3, <1>5 DEF ReloadInv, Typed, PollsCounted
  <2> HIDE DEF h
  <2> QED
    BY <1>1, <1>2, <1>3, <2>1, <2>2, <2>3, <2>4, <2>5, EmitKeeps
<1> QED
  BY <1>4, <1>5 DEF PollEnds

-----------------------------------------------------------------------------
\* Close stops the cron service that it was built with; what is under way in it, and another
\* that the state has, are loose.
LEMMA CloseServicesKeeps ==
    ASSUME ReloadInv, CloseServices
    PROVE  ReloadInv'
<1> DEFINE g == gateway[life]
<1>1. /\ UNCHANGED <<file, life, gateway, crons, starting, working, restartTimer, polls,
                      events, timedOut>>
      /\ phase = "draining" /\ phase' = "closing"
      /\ armed' = armed \ {g.captured}
      /\ loose' = loose \cup ({g.captured} \cap (starting \cup working))
                       \cup (Mine(g) \ {g.captured})
  BY DEF CloseServices, Loosened, boundVars
<1>2. Mine(g) \subseteq 0..Len(crons) /\ Afoot \subseteq 0..Len(crons)
  BY DEF ReloadInv, Typed, HasCrons, Mine
<1>3. Typed' /\ PollsCounted'
  BY <1>1, <1>2 DEF ReloadInv, Typed, Afoot, PollsCounted
<1>4. (\A l \in Life : HasCrons(gateway[l]))' /\ Apart' /\ Present(gateway[life])'
  BY <1>1 DEF ReloadInv, HasCrons, Apart, OwnCrons, Present, Running
<1>5. CronAlone'
  BY <1>1 DEF ReloadInv, CronAlone, Mine, Afoot
<1> QED
  BY <1>3, <1>4, <1>5 DEF ReloadInv

LEMMA CloseReloaderKeeps ==
    ASSUME ReloadInv, CloseReloader
    PROVE  ReloadInv'
<1> DEFINE g == gateway[life]
           h == [g EXCEPT !.stopped = TRUE, !.timer = FALSE, !.watching = FALSE,
                          !.unseen = FALSE]
<1>1. g \in LifeType /\ life \in Life
  BY DEF ReloadInv, Typed
<1>2. h \in LifeType /\ h.cron = g.cron /\ h.captured = g.captured /\ h.next = g.next
      /\ h.at = g.at /\ h.replaces = g.replaces
  BY <1>1 DEF LifeType
<1>3. /\ UNCHANGED <<file, life, crons, armed, starting, working, loose, restartTimer, polls, events,
                      timedOut>>
      /\ phase = "closing" /\ phase' = "down"
      /\ gateway' = [gateway EXCEPT ![life] = h]
  BY <1>1 DEF CloseReloader, cronVars, boundVars, ReloadInv, Typed
<1> HIDE DEF h
<1>4. Typed' /\ PollsCounted'
  BY <1>2, <1>3 DEF ReloadInv, Typed, Afoot, PollsCounted
<1>5. ASSUME NEW l \in Life PROVE HasCrons(gateway[l])'
  <2>1. gateway'[l] = IF l = life THEN h ELSE gateway[l]
    BY <1>3 DEF ReloadInv, Typed
  <2> QED
    BY <1>2, <1>3, <2>1 DEF ReloadInv, HasCrons
<1>6. Present(gateway[life])'
  BY <1>3 DEF Present
<1>7. CronAlone'
  BY <1>3 DEF ReloadInv, CronAlone, Mine, Afoot
<1>8. Apart'
  <2>1. \A l \in Life : OwnCrons(gateway'[l]) = OwnCrons(gateway[l])
    BY <1>1, <1>2, <1>3 DEF ReloadInv, Typed, OwnCrons
  <2> QED
    BY <1>3, <2>1 DEF ReloadInv, Apart, OwnCrons
<1> QED
  BY <1>4, <1>5, <1>6, <1>7, <1>8 DEF ReloadInv

LEMMA StartLoadsKeeps ==
    ASSUME ReloadInv, StartLoads
    PROVE  ReloadInv'
<1> DEFINE h == Loaded(file)
<1>1. /\ UNCHANGED <<file, crons, armed, starting, working, loose, restartTimer, polls, events,
                      timedOut>>
      /\ phase = "down" /\ phase' = "starting" /\ file \in Config
      /\ life + 1 \in Life /\ life' = life + 1
      /\ gateway' = [gateway EXCEPT ![life + 1] = h]
  BY DEF StartLoads, cronVars, boundVars
<1>2. h \in LifeType
  BY <1>1, NewLife
<1>3. /\ h.at = "idle" /\ ~h.timer /\ ~h.watching /\ ~h.queued /\ ~h.pending /\ ~h.stopped
      /\ ~h.checking /\ ~h.deferred /\ h.current = file /\ h.loaded = file
      /\ h.cron = 0 /\ h.captured = 0 /\ h.next = 0
  BY DEF Loaded
<1> HIDE DEF h
<1>4. Typed' /\ PollsCounted'
  BY <1>1, <1>2 DEF ReloadInv, Typed, Afoot, PollsCounted
<1>5. \A l \in Life : gateway'[l] = IF l = life' THEN h ELSE gateway[l]
  BY <1>1 DEF ReloadInv, Typed
<1>6. ASSUME NEW l \in Life PROVE HasCrons(gateway[l])'
  <2>1. Len(crons) \in Nat
    BY DEF ReloadInv, Typed
  <2> QED
    BY <1>1, <1>3, <1>5, <2>1 DEF ReloadInv, HasCrons
<1>7. Present(gateway[life])'
  BY <1>1, <1>3, <1>5 DEF Present, Starting
<1>8. CronAlone'
  BY <1>1 DEF ReloadInv, CronAlone, Mine, Afoot
<1>9. Apart'
  <2>1. \A l \in Life : OwnCrons(gateway'[l]) \subseteq OwnCrons(gateway[l])
    BY <1>3, <1>5 DEF OwnCrons
  <2> QED
    BY <2>1 DEF ReloadInv, Apart, OwnCrons
<1> QED
  BY <1>4, <1>6, <1>7, <1>8, <1>9 DEF ReloadInv

\* The start builds the life's first cron service, from the configuration it has loaded.
LEMMA StartEndsKeeps ==
    ASSUME ReloadInv, StartEnds
    PROVE  ReloadInv'
<1> DEFINE g == gateway[life]
           n == Len(crons) + 1
           h == Served(g, n)
<1>1. g \in LifeType /\ life \in Life /\ crons \in Seq({c.cron : c \in Config})
      /\ g.loaded \in Config
  BY DEF ReloadInv, Typed, LifeType
<1>2. n \in Nat /\ n # 0
  BY <1>1
<1>3. /\ crons' = Append(crons, g.loaded.cron)
      /\ phase = "starting" /\ phase' = "serving"
      /\ UNCHANGED <<file, life, restartTimer, polls, events, faults, timedOut>>
  BY DEF StartEnds, boundVars
<1>4. /\ crons' \in Seq({c.cron : c \in Config}) /\ Len(crons') = n
      /\ DOMAIN crons' = 1..n /\ DOMAIN crons = 1..Len(crons)
      /\ crons'[n] = g.loaded.cron
  BY <1>1, <1>3
<1>5. /\ gateway' = [gateway EXCEPT ![life] = h] /\ starting' = starting \cup {n}
      /\ UNCHANGED <<armed, working, loose>>
  BY <1>4 DEF StartEnds, ReloadInv, Typed
<1>6. h = [g EXCEPT !.watching = TRUE, !.cron = n, !.captured = n]
  BY DEF Served
<1>7. h \in LifeType
  BY <1>1, <1>2, ServedLife
<1>8. /\ h.watching /\ h.cron = n /\ h.captured = n
      /\ h.at = g.at /\ h.next = g.next /\ h.replaces = g.replaces /\ h.timer = g.timer
      /\ h.pending = g.pending /\ h.snapshot = g.snapshot /\ h.loaded = g.loaded
      /\ h.current = g.current /\ h.unseen = g.unseen /\ h.stopped = g.stopped
      /\ h.queued = g.queued /\ h.checking = g.checking /\ h.deferred = g.deferred
      /\ h.excused = g.excused
  BY <1>1, <1>6 DEF LifeType
<1> HIDE DEF h
<1>9. Typed' /\ PollsCounted'
  BY <1>3, <1>4, <1>5, <1>7 DEF ReloadInv, Typed, Afoot, PollsCounted
<1>10. \A l \in Life : gateway'[l] = IF l = life THEN h ELSE gateway[l]
  BY <1>5 DEF ReloadInv, Typed
<1>11. Starting(g) /\ \A l \in Life : HasCrons(gateway[l])
  BY <1>3 DEF ReloadInv, Present
<1>12. ASSUME NEW l \in Life PROVE HasCrons(gateway[l])'
  BY <1>1, <1>2, <1>4, <1>8, <1>10, <1>11 DEF HasCrons, Starting
<1>13. gateway'[life'] = h
  BY <1>1, <1>3, <1>10
<1>14. Present(gateway[life])'
  BY <1>2, <1>3, <1>4, <1>8, <1>11, <1>13 DEF Present, Starting, Running, Serving, Noticed,
     Effective
<1>15. CronAlone'
  BY <1>3, <1>5, <1>8, <1>11, <1>13 DEF ReloadInv, CronAlone, Mine, Afoot, Starting
<1>16. Apart'
  <2>1. OwnCrons(h) \subseteq OwnCrons(g) \cup {n}
    BY <1>8 DEF OwnCrons
  <2>2. \A k \in Life : n \notin OwnCrons(gateway[k])
    BY <1>1, <1>11 DEF HasCrons, OwnCrons
  <2> HIDE DEF n
  <2>3. ASSUME NEW i \in Life, NEW k \in Life, i # k
        PROVE  OwnCrons(gateway'[i]) \cap OwnCrons(gateway'[k]) = {}
    BY <1>10, <2>1, <2>2, <2>3 DEF ReloadInv, Apart
  <2> QED
    BY <2>3 DEF Apart, OwnCrons
<1> QED
  BY <1>9, <1>12, <1>14, <1>15, <1>16 DEF ReloadInv

-----------------------------------------------------------------------------
LEMMA ReloadInvStep == ReloadInv /\ [ReloadNext]_allReload => ReloadInv'
<1> SUFFICES ASSUME ReloadInv, [ReloadNext]_allReload
             PROVE  ReloadInv'
  OBVIOUS
<1>1. ASSUME NEW l \in Life, Reload(l) PROVE ReloadInv'
  BY <1>1, WatchEventKeeps, TimerFiresKeeps, ReadSnapshotKeeps, FileMissingKeeps,
     FileInvalidKeeps, ApplySnapshotKeeps, SecretsFailKeeps, ReplaceCronKeeps,
     HotReloadedKeeps, ChannelsFailKeeps DEF Reload
<1>2. ASSUME Restart PROVE ReloadInv'
  BY <1>2, CheckFailsKeeps, RequestGatewayRestartKeeps, RestartTimerFiresKeeps, PollEndsKeeps,
     CloseServicesKeeps, CloseReloaderKeeps, StartLoadsKeeps, StartEndsKeeps DEF Restart
<1>3. CASE \E c \in Config \cup {Missing, Invalid} : Edit(c)
  BY <1>3, EditKeeps
<1>4. CASE \E l \in Life : WatcherFails(l)
  BY <1>4, WatcherFailsKeeps
<1>5. CASE Services \/ ScheduleRestart
  BY <1>5, CronServicesKeep, ScheduleRestartKeeps
<1>6. CASE UNCHANGED reloadVars
  <2>1. Typed' /\ PollsCounted'
    BY <1>6 DEF reloadVars, ReloadInv, Typed, Afoot, PollsCounted
  <2>2. (\A l \in Life : HasCrons(gateway[l]))' /\ Apart'
    BY <1>6 DEF reloadVars, ReloadInv, HasCrons, Apart, OwnCrons
  <2>3. Present(gateway[life])' /\ CronAlone'
    BY <1>6 DEF reloadVars, ReloadInv, Present, Starting, Running, Serving, Noticed, Effective,
       CronAlone, Mine, Afoot
  <2> QED
    BY <2>1, <2>2, <2>3 DEF ReloadInv
<1> QED
  BY <1>1, <1>2, <1>3, <1>4, <1>5, <1>6 DEF ReloadNext, allReload

\* The types of the replies: a chain holds what was handed over.
RepliesTyped ==
    RepliesTypeOK /\ \A d \in Dispatcher : chain[d] <= handed[d]

LEMMA RepliesTypedInit == RepliesInit => RepliesTyped
  BY RepliesAssumption DEF RepliesInit, RepliesTyped, RepliesTypeOK

LEMMA RepliesTypedStep == RepliesTyped /\ [ReloadNext]_allReload => RepliesTyped'
<1> SUFFICES ASSUME RepliesTyped, [ReloadNext]_allReload
             PROVE  RepliesTyped'
  OBVIOUS
<1> USE RepliesAssumption
<1>1. CASE UNCHANGED replyVars
  BY <1>1 DEF RepliesTyped, RepliesTypeOK, replyVars
<1>2. ASSUME NEW d \in Dispatcher, CreateReplyDispatcher(d) PROVE RepliesTyped'
  BY <1>2 DEF RepliesTyped, RepliesTypeOK, CreateReplyDispatcher
<1>3. ASSUME NEW d \in Dispatcher, EnqueueReply(d) PROVE RepliesTyped'
  BY <1>3 DEF RepliesTyped, RepliesTypeOK, EnqueueReply
<1>4. ASSUME NEW d \in Dispatcher, Delivered(d) PROVE RepliesTyped'
  BY <1>4 DEF RepliesTyped, RepliesTypeOK, Delivered, CountDown
<1>5. ASSUME NEW d \in Dispatcher, MarkComplete(d) PROVE RepliesTyped'
  BY <1>5 DEF RepliesTyped, RepliesTypeOK, MarkComplete
<1>6. ASSUME NEW d \in Dispatcher, ClearReservation(d) PROVE RepliesTyped'
  BY <1>6 DEF RepliesTyped, RepliesTypeOK, ClearReservation, CountDown
<1> QED
  BY <1>1, <1>2, <1>3, <1>4, <1>5, <1>6 DEF ReloadNext, RepliesNext, allReload

\* At rest, what has been noticed is current, and what is effective is in force.
LEMMA NothingForgotten == ReloadInv /\ RepliesTyped => NoChangeForgotten
<1> SUFFICES ASSUME ReloadInv, RepliesTyped PROVE NoChangeForgotten
  OBVIOUS
<1> DEFINE g == gateway[life]
<1>1. ReloadTypeOK
  <2>1. \A l \in Life : gateway[l] \in LifeType /\ HasCrons(gateway[l])
    BY DEF ReloadInv, Typed
  <2>2. polls \in 0..MaxEvents
    BY EventsAssumption DEF ReloadInv, Typed, PollsCounted
  <2> QED
    BY <2>1, <2>2 DEF ReloadInv, Typed, ReloadTypeOK, LifeType, HasCrons
<1>2. AtRest(g) /\ ~g.excused => g.current = file /\ (g.queued \/ InForce(g))
  BY DEF ReloadInv, Present, Serving, Noticed, Effective, AtRest, InForce
<1>3. phase = "serving" /\ g.queued => g.checking \/ g.deferred
  BY DEF ReloadInv, Present, Serving
<1> QED
  BY <1>1, <1>2, <1>3 DEF NoChangeForgotten, RepliesTyped

\* The invariant of the configuration holds in every behaviour.
THEOREM ReloadInvariant == ReloadSpec => []ReloadInv
<1>1. ReloadInit /\ RepliesInit => ReloadInv
  BY ReloadInvInit
<1>2. ReloadInv /\ [ReloadNext]_allReload => ReloadInv'
  BY ReloadInvStep
<1> QED
  BY <1>1, <1>2, PTL DEF ReloadSpec, allReload

\* No change of the file is forgotten (startGatewayConfigReloader, applySnapshot and
\* queueRestart), however many reloads and restarts overlap.
THEOREM ChangesAreKept == ReloadSpec => []NoChangeForgotten
<1>1. ReloadInit /\ RepliesInit => RepliesTyped
  BY RepliesTypedInit
<1>2. RepliesTyped /\ [ReloadNext]_allReload => RepliesTyped'
  BY RepliesTypedStep
<1>3. ReloadSpec => []ReloadInv
  BY ReloadInvariant
<1>4. ReloadInv /\ RepliesTyped => NoChangeForgotten
  BY NothingForgotten
<1> QED
  BY <1>1, <1>2, <1>3, <1>4, PTL DEF ReloadSpec, allReload

\* Through reloads, closes and starts no cron service is armed or about to be beside that of
\* the state, but those of which `loose` records how the code lost hold: a stopped service
\* with something under way in it among them (applyHotReload, createGatewayCloseHandler,
\* startGatewayServer; start, onTimer and the operations of the cron service).
THEOREM OneCronService == ReloadSpec => []CronAlone
<1>1. ReloadSpec => []ReloadInv
  BY ReloadInvariant
<1>2. ReloadInv => CronAlone
  BY DEF ReloadInv
<1> QED
  BY <1>1, <1>2, PTL
=============================================================================
