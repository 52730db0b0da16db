--------------------------- MODULE SubagentRegistry ---------------------------
(***************************************************************************)
(* The registry of subagent runs: agents/subagent-registry.ts with its     *)
(* cleanup, queries and state files, the announce flow of                  *)
(* agents/subagent-announce.ts, and the kill and the steer of              *)
(* agents/subagent-control.ts.  A run ends by its events or by the answer  *)
(* to agent.wait, is claimed by one cleanup that announces it to its       *)
(* requester, and is completed, deleted, or tried again.                   *)
(*                                                                         *)
(* A session is spawned once; later runs of it replace the former.  Both   *)
(* callers that spawn a run expect a completion message, so the branches   *)
(* without one are left out, as are the plugins' hooks.  Times are         *)
(* choices; texts, outcomes and attachments are left out; writes of the    *)
(* file and deletions of sessions succeed.  So is the gateway's memory of  *)
(* keys, which stops some sends that are repeated when an answer is lost.  *)
(***************************************************************************)
EXTENDS Naturals, FiniteSets, FiniteSetsExt

CONSTANTS
    MaxRuns,      \* run ids, in the order in which they are given
    Session,      \* child sessions
    requesterOf,  \* session |-> the session that spawns it, or Outside
    Outside,      \* the requester that is no subagent
    Scenes,       \* how the sessions that are spawned are, and the upsets there are no more
    MaxAnnounces, \* MAX_ANNOUNCE_RETRY_COUNT
    MaxUpsets     \* bound on the errors of turns, waits that time out or fail, kills, steers,
                  \* sweeps, failed sends and crashes

\* A session is kept or deleted after its run; an announcement is tried at least once.
ASSUME RegistryAssumption ==
    /\ MaxRuns \in Nat /\ MaxUpsets \in Nat /\ MaxAnnounces \in Nat \ {0}
    /\ \A scene \in Scenes :
          /\ scene.spent \in 0..MaxUpsets
          /\ \A s \in DOMAIN scene.style : scene.style[s].cleanup \in {"keep", "delete"}

VARIABLES
    entries,      \* run id |-> its record; one that is not present has left the map
    disk,         \* run id |-> its record in the file
    sessionOf,    \* run id |-> childSessionKey
    style,        \* session |-> its cleanup, "keep" or "delete", and spawnMode, "run" or "session"
    sessions,     \* sessions in the session store
    turn,         \* run id |-> "none", "running", "failing" or "over": the agent itself
    errorTimers,  \* pendingLifecycleErrorByRunId
    waits,        \* runs whose agent.wait is under way
    freezing,     \* run id |-> completions that await the freeze of the result
    flow,         \* run id |-> where its announce flow is
    final,        \* run id |-> cleanup that a finalization under way was given, or "no"
    retryTimers,  \* runs that a finalization has set a timer for
    resumeTimers, \* runs that resumeSubagentRun has set a timer for
    resumed,      \* resumedRuns
    steering,     \* runs with a steer under way
    sweeping,     \* swept runs whose sessions are being deleted, the file not yet written
    restored,     \* restoreAttempted
    spent,        \* how many of the MaxUpsets have happened
    announced,    \* history: run id |-> times its requester was told, to 2
    excused       \* history: run id |-> what may leave it unannounced, or announced twice

world == <<sessionOf, style, sessions, turn, restored, spent>>
work == <<errorTimers, waits, freezing, flow, final, retryTimers, resumeTimers,
             resumed, steering, sweeping>>
outcomes == <<announced, excused>>
registryVars == <<entries, disk, world, work, outcomes>>

RunId == 1..MaxRuns

Fresh == [present |-> TRUE, ended |-> FALSE, reason |-> "none", suppress |-> "none",
          handled |-> FALSE, completed |-> "no", retries |-> 0, tried |-> FALSE,
          wake |-> FALSE, woken |-> FALSE]
Absent == [Fresh EXCEPT !.present = FALSE]

RegistryInit ==
    /\ entries = [r \in RunId |-> Absent] /\ disk = [r \in RunId |-> Absent]
    /\ sessionOf = [r \in RunId |-> Outside]
    /\ sessions = {} /\ turn = [r \in RunId |-> "none"]
    /\ errorTimers = {} /\ waits = {} /\ retryTimers = {}
    /\ resumeTimers = {} /\ resumed = {} /\ steering = {} /\ sweeping = {}
    /\ freezing = [r \in RunId |-> 0]
    /\ flow = [r \in RunId |-> "no"] /\ final = [r \in RunId |-> "no"]
    /\ restored = TRUE
    /\ \E scene \in Scenes : style = scene.style /\ spent = scene.spent
    /\ announced = [r \in RunId |-> 0]
    /\ excused = [r \in RunId |-> {}]

Upset == spent < MaxUpsets /\ spent' = spent + 1

-----------------------------------------------------------------------------
(* Queries *)

Present == {r \in RunId : entries[r].present}
Used == {r \in RunId : turn[r] # "none"}
IsNext(r) == r \notin Used /\ \A q \in RunId : q < r => q \in Used
Style(r) == style[sessionOf[r]]

\* getSubagentRunsSnapshotForRead: of runs that have left the map, what the file still has.
Snapshot == [r \in RunId |-> IF entries[r].present THEN entries[r] ELSE disk[r]]
Seen == {r \in RunId : Snapshot[r].present}
SeenOf(s) == {r \in Seen : sessionOf[r] = s}

\* countPendingDescendantRuns: those that records lead to and that are not through.
Pending(s) ==
    LET requestedBy(ss) == {r \in Seen : requesterOf[sessionOf[r]] \in ss}
        reached[n \in 0..Cardinality(Session)] ==
            IF n = 0 THEN {s}
            ELSE reached[n - 1] \cup {sessionOf[r] : r \in requestedBy(reached[n - 1])}
    IN  {r \in requestedBy(reached[Cardinality(Session)]) :
            ~Snapshot[r].ended \/ Snapshot[r].completed = "no"}

\* listSubagentRunsForRequester: the children that the run has spawned since it began.
Children(r) ==
    {q \in Present : /\ requesterOf[sessionOf[q]] = sessionOf[r]
                     /\ \A p \in Used : sessionOf[p] = sessionOf[q] => p > r}

\* isEmbeddedPiRunActive of a session.
Busy(s) == \E r \in Used : sessionOf[r] = s /\ turn[r] \in {"running", "failing"}

\* shouldIgnorePostCompletionAnnounceForSession: it has been completed since it ended.
IgnoresAnnouncements(s) ==
    \E r \in SeenOf(s) : /\ style[s].spawnMode # "session"
                         /\ Snapshot[r].ended /\ Snapshot[r].completed \in {"yes", "early"}

\* cleanupCompletedAt, before or after the end of the turn.
Completed(r, e) == [e EXCEPT !.completed = IF turn[r] = "over" THEN "yes" ELSE "early"]

Excuse(r, why) == [excused EXCEPT ![r] = @ \cup {why}]

\* persistSubagentRuns: the file has what the map has.
PersistRuns == disk' = entries'

-----------------------------------------------------------------------------
(* resumeSubagentRun, of each of the runs rs; luck says whether the date of  *)
(* the next retry is still to come.  back is resumedRuns, and timers are     *)
(* those of resumptions, by then.                                            *)

Luck == {"early", "due"}

Resumption(r, e, luck, back) ==
    IF r \in back \/ ~e.present THEN "none"
    ELSE IF sessionOf[r] \notin sessions THEN "prune"
    ELSE IF e.completed # "no" THEN "none"
    ELSE IF e.retries >= MaxAnnounces THEN "giveUp"
    ELSE IF e.tried /\ luck = "early" THEN "later"
    ELSE IF ~e.ended THEN "wait"
    ELSE IF e.suppress = "steer" THEN "park"
    ELSE IF e.handled THEN "none" ELSE "announce"

Resume(rs, from, back, timers) ==
    \E luck \in [rs -> Luck] :
        LET how == [r \in RunId |-> IF r \in rs THEN Resumption(r, from[r], luck[r], back)
                                    ELSE "none"]
            With(k) == {r \in rs : how[r] \in k}
        IN  /\ entries' = [r \in RunId |->
                  IF how[r] = "prune"
                  THEN Absent
                  ELSE IF how[r] = "giveUp" THEN Completed(r, from[r])
                  ELSE IF how[r] = "announce" THEN [from[r] EXCEPT !.handled = TRUE]
                  ELSE from[r]]
            /\ IF entries' = entries THEN UNCHANGED disk ELSE PersistRuns
            /\ resumed' = (back \ With({"prune"})) \cup With({"later", "park", "announce", "wait"})
            /\ resumeTimers' = timers \cup With({"later"})
            /\ waits' = waits \cup With({"wait"})
            /\ flow' = [r \in RunId |-> IF how[r] = "announce" THEN "checking" ELSE flow[r]]
            /\ excused' = [r \in RunId |-> excused[r] \cup
                  IF how[r] = "prune" /\ "deletedEarly" \in excused[r] THEN {"retryLost"}
                  ELSE IF how[r] \in {"giveUp", "prune"} THEN {"letGo"} ELSE {}]

-----------------------------------------------------------------------------
(* Cleanup *)

\* Mutant: a run that is being announced is announced again.
Claimable_Regardless(e) == e.present /\ e.completed = "no"

\* beginSubagentCleanup and the beginning of the flow, if no other has begun.
Claimable(e) == e.present /\ e.completed = "no" /\ ~e.handled

StartFlow(r) ==
    IF Claimable(entries[r])
    THEN /\ entries' = [entries EXCEPT ![r].handled = TRUE] /\ PersistRuns
         /\ flow' = [flow EXCEPT ![r] = "checking"]
         /\ excused' = IF flow[r] = "no" THEN excused ELSE Excuse(r, "overlapped")
    ELSE UNCHANGED <<entries, disk, flow, excused>>

\* completeSubagentRun until it awaits the result, of a turn that is over or not.  A kill gives
\* way to a late completion.  No more than two await the result of a run at once.
Complete(r, why, over) ==
    IF entries[r].present
    THEN LET e == entries[r]
             revived == /\ why = "complete" /\ e.suppress = "killed"
                        /\ e.handled \/ e.completed # "no"
             base == IF revived
                     THEN [e EXCEPT !.suppress = "none", !.handled = FALSE, !.completed = "no"]
                     ELSE IF over /\ e.completed = "early" THEN [e EXCEPT !.completed = "late"]
                     ELSE e
         IN  /\ freezing[r] < 2
             /\ entries' = [entries EXCEPT ![r] = [base EXCEPT !.ended = TRUE, !.reason = why]]
             /\ freezing' = [freezing EXCEPT ![r] = @ + 1]
    ELSE UNCHANGED <<entries, freezing>>

\* The result is frozen and the record written.  The hook waits for the end of the cleanup.
Frozen(r) ==
    /\ freezing[r] > 0
    /\ freezing' = [freezing EXCEPT ![r] = @ - 1]
    /\ IF Claimable(entries[r]) /\ entries[r].suppress # "steer"
       THEN StartFlow(r)
       ELSE UNCHANGED <<entries, flow, excused>> /\ PersistRuns
    /\ UNCHANGED <<world, errorTimers, waits, final, retryTimers, resumeTimers,
                   resumed, steering, sweeping, announced>>

\* replaceSubagentRunAfterSteer: the agent has begun another run in the session.
Replaced(r, next, woken) ==
    /\ IsNext(next)
    /\ entries' = [entries EXCEPT ![r] = Absent, ![next] = [Fresh EXCEPT !.woken = woken]]
    /\ PersistRuns
    /\ sessionOf' = [sessionOf EXCEPT ![next] = sessionOf[r]]
    /\ turn' = [turn EXCEPT ![next] = "running"]
    /\ errorTimers' = errorTimers \ {r} /\ resumed' = resumed \ {r}
    /\ waits' = waits \cup {next}
    /\ excused' = Excuse(r, "letGo")

-----------------------------------------------------------------------------
(* The announce flow *)

\* The requester has gone without a trace.
Gone(up) == up \in Session /\ up \notin sessions /\ SeenOf(up) = {}
Sends(r) == IF Gone(requesterOf[sessionOf[r]]) THEN "deferred" ELSE "sending"

\* The child is still active; or the requester hears no more, or descendants are pending; or the
\* run is woken to read what its children found; or its output is silent; or it is sent.
FlowChecks(r) ==
    /\ flow[r] = "checking"
    /\ LET s == sessionOf[r]
           up == requesterOf[s]
           to(place) == flow' = [flow EXCEPT ![r] = place] /\ UNCHANGED excused
           drop == flow' = [flow EXCEPT ![r] = "done"] /\ excused' = Excuse(r, "letGo")
       IN  IF Busy(s) THEN to("deferred")
           ELSE IF up \in Session /\ IgnoresAnnouncements(up) THEN drop
           ELSE IF Pending(s) # {} THEN to("deferred")
           ELSE IF Children(r) = {} THEN to(Sends(r)) \/ drop
           ELSE to(IF entries[r].wake /\ ~entries[r].woken THEN "waking" ELSE Sends(r))
    /\ UNCHANGED <<entries, disk, world, errorTimers, waits, freezing, final,
                   retryTimers, resumeTimers, resumed, steering, sweeping, announced>>

\* wakeSubagentRunAfterDescendants; the flow of the run that was replaced has nothing to do.
FlowWakes(r) ==
    /\ flow[r] = "waking"
    /\ \/ /\ entries[r].present
          /\ \E next \in RunId : Replaced(r, next, TRUE)
          /\ flow' = [flow EXCEPT ![r] = "deferred"]
       \/ /\ flow' = [flow EXCEPT ![r] = Sends(r)]
          /\ UNCHANGED <<entries, disk, sessionOf, turn, errorTimers, waits, resumed, excused>>
    /\ UNCHANGED <<style, sessions, restored, spent, freezing, final, retryTimers,
                   resumeTimers, steering, sweeping, announced>>

\* deliverSubagentAnnouncement; a send that fails, or whose answer is lost, is an upset.
SendEnds(r) ==
    /\ flow[r] = "sending"
    /\ \E how \in {"told", "failed", "lost"} :
           /\ how # "told" => spent < MaxUpsets
           /\ spent' = IF how # "told" THEN spent + 1 ELSE spent
           /\ announced' = IF how # "failed" /\ announced[r] < 2
                           THEN [announced EXCEPT ![r] = @ + 1] ELSE announced
           /\ excused' = IF how = "lost" THEN Excuse(r, "lost") ELSE excused
           /\ flow' = [flow EXCEPT ![r] = IF how = "told" THEN "done" ELSE "failed"]
    /\ UNCHANGED <<entries, disk, sessionOf, style, sessions, turn, restored, errorTimers, waits,
                   freezing, final, retryTimers, resumeTimers, resumed, steering, sweeping>>

\* Whether the flow deletes the session when it leaves: also after a send that failed.
Deletes(r) == Style(r).cleanup = "delete" /\ flow[r] \in {"done", "failed"}

\* Mutant: the mark stays.
RetryLater_StaysResumed(r) == retryTimers' = retryTimers \cup {r} /\ UNCHANGED resumed

\* Another try is scheduled, and the mark of this one cleared so that it can run.
RetryLater(r) == retryTimers' = retryTimers \cup {r} /\ resumed' = resumed \ {r}

\* The announce flow ends, and finalizeSubagentCleanup goes on until it awaits a hook or the
\* removal of attachments, or has set the timer of another try.
FlowLeaves(r) ==
    /\ flow[r] \in {"done", "failed", "deferred"}
    /\ flow' = [flow EXCEPT ![r] = "no"]
    /\ sessions' = IF Deletes(r) THEN sessions \ {sessionOf[r]} ELSE sessions
    /\ LET early == IF Deletes(r) /\ flow[r] = "failed" THEN {"deletedEarly"} ELSE {}
           excusing(why) == excused' = [excused EXCEPT ![r] = @ \cup early \cup why]
           finalizing(e, cleanup) ==
               /\ entries' = [entries EXCEPT ![r] = [e EXCEPT !.wake = FALSE]]
               /\ final' = [final EXCEPT ![r] = cleanup]
               /\ UNCHANGED <<disk, resumed, retryTimers>>
           counts == Pending(sessionOf[r]) = {}
           tried == IF counts THEN [entries[r] EXCEPT !.retries = @ + 1, !.tried = TRUE]
                    ELSE entries[r]
       IN  \/ /\ ~entries[r].present
              /\ excusing({})
              /\ UNCHANGED <<entries, disk, final, resumed, retryTimers>>
           \/ /\ entries[r].present /\ flow[r] = "done"
              /\ finalizing(entries[r], Style(r).cleanup) /\ excusing({})
           \/ /\ entries[r].present /\ flow[r] # "done"
              /\ finalizing(tried, "keep") /\ excusing({"letGo"})
           \/ /\ entries[r].present /\ flow[r] # "done"
              /\ counts => tried.retries < MaxAnnounces
              /\ entries' = [entries EXCEPT ![r] = [tried EXCEPT !.handled = FALSE, !.tried = TRUE,
                                                                !.wake = @ \/ ~counts]]
              /\ PersistRuns
              /\ RetryLater(r) /\ excusing({}) /\ UNCHANGED final
    /\ UNCHANGED <<sessionOf, style, turn, restored, spent, errorTimers, waits, freezing,
                   resumeTimers, steering, sweeping, announced>>

\* The rest of it: completeCleanupBookkeeping and retryDeferredCompletedAnnounces.
Finalize(r) ==
    /\ final[r] # "no"
    /\ LET after == [entries EXCEPT ![r] = IF final[r] = "delete" THEN Absent
                                           ELSE Completed(r, @)]
           others == {q \in RunId \ {r} : /\ Claimable(after[q]) /\ after[q].ended
                                          /\ after[q].suppress # "steer"}
       IN  Resume(others, after, resumed \ others, resumeTimers)
    /\ final' = [final EXCEPT ![r] = "no"]
    /\ errorTimers' = IF final[r] = "delete" THEN errorTimers \ {r} ELSE errorTimers
    /\ UNCHANGED <<world, freezing, retryTimers, steering, sweeping, announced>>

\* The timers that finalizations and resumptions have set.
RetryTimer(r) ==
    /\ r \in retryTimers
    /\ retryTimers' = retryTimers \ {r}
    /\ Resume({r}, entries, resumed, resumeTimers)
    /\ UNCHANGED <<world, errorTimers, freezing, final, steering, sweeping, announced>>

ResumeTimer(r) ==
    /\ r \in resumeTimers
    /\ Resume({r}, entries, resumed \ {r}, resumeTimers \ {r})
    /\ UNCHANGED <<world, errorTimers, freezing, final, retryTimers, steering,
                   sweeping, announced>>

-----------------------------------------------------------------------------
(* The life of a run *)

\* registerSubagentRun of a session that a turn of its requester, or another, spawns.
Register(r, s) ==
    /\ restored /\ IsNext(r)
    /\ s \in DOMAIN style /\ \A q \in Used : sessionOf[q] # s
    /\ requesterOf[s] = Outside \/ Busy(requesterOf[s])
    /\ entries' = [entries EXCEPT ![r] = Fresh] /\ PersistRuns
    /\ sessionOf' = [sessionOf EXCEPT ![r] = s] /\ sessions' = sessions \cup {s}
    /\ turn' = [turn EXCEPT ![r] = "running"]
    /\ waits' = waits \cup {r}
    /\ UNCHANGED <<style, restored, spent, errorTimers, freezing, flow, final,
                   retryTimers, resumeTimers, resumed, steering, sweeping, outcomes>>

\* The lifecycle events of the agent, and what the listener does with them.
TurnEnds(r) ==
    /\ turn[r] \in {"running", "failing"}
    /\ turn' = [turn EXCEPT ![r] = "over"]
    /\ Complete(r, "complete", TRUE)
    /\ errorTimers' = errorTimers \ {r}
    /\ UNCHANGED <<disk, sessionOf, style, sessions, restored, spent, waits, flow, final,
                   retryTimers, resumeTimers, resumed, steering, sweeping, outcomes>>

TurnErrs(r) ==
    /\ Upset
    /\ turn[r] = "running"
    /\ turn' = [turn EXCEPT ![r] = "failing"]
    /\ errorTimers' = IF entries[r].present THEN errorTimers \cup {r} ELSE errorTimers
    /\ UNCHANGED <<entries, disk, sessionOf, style, sessions, restored, waits, freezing,
                   flow, final, retryTimers, resumeTimers, resumed, steering,
                   sweeping, outcomes>>

\* A failing turn is tried again, or has been its last.
TurnRetries(r) ==
    /\ turn[r] = "failing"
    /\ UNCHANGED entries
    /\ \/ /\ turn' = [turn EXCEPT ![r] = "running"]
          /\ errorTimers' = errorTimers \ {r}
          /\ IF entries[r].present THEN PersistRuns ELSE UNCHANGED disk
       \/ /\ turn' = [turn EXCEPT ![r] = "over"]
          /\ UNCHANGED <<errorTimers, disk>>
    /\ UNCHANGED <<sessionOf, style, sessions, restored, spent, waits, freezing,
                   flow, final, retryTimers, resumeTimers, resumed, steering,
                   sweeping, outcomes>>

\* The grace of an error event has passed.
ErrorTimer(r) ==
    /\ r \in errorTimers
    /\ errorTimers' = errorTimers \ {r}
    /\ IF entries[r].reason = "complete" THEN UNCHANGED <<entries, freezing>>
       ELSE Complete(r, "error", turn[r] = "over")
    /\ UNCHANGED <<disk, world, waits, flow, final, retryTimers, resumeTimers,
                   resumed, steering, sweeping, outcomes>>

\* waitForSubagentCompletion: an end is written before it is completed.  agent.wait may time
\* out at any time, which is taken for an end.
WaitAnswers(r) ==
    /\ r \in waits
    /\ waits' = waits \ {r}
    /\ IF turn[r] = "over" THEN UNCHANGED spent ELSE Upset
    /\ \E why \in {"complete", "error"} :
           /\ why = "error" => turn[r] = "over"
           /\ Complete(r, why, turn[r] = "over")
    /\ errorTimers' = errorTimers \ {r}
    /\ disk' = IF entries[r].present
               THEN [entries EXCEPT ![r].ended = TRUE] ELSE disk
    /\ UNCHANGED <<sessionOf, style, sessions, turn, restored, flow, final, retryTimers,
                   resumeTimers, resumed, steering, sweeping, outcomes>>

\* Or it fails, which is ignored: the events of the agent remain, if it has not ended yet.
WaitFails(r) ==
    /\ Upset
    /\ r \in waits
    /\ waits' = waits \ {r}
    /\ excused' = IF turn[r] = "over" /\ r \notin errorTimers /\ ~entries[r].ended
                  THEN Excuse(r, "unheard") ELSE excused
    /\ UNCHANGED <<entries, disk, sessionOf, style, sessions, turn, restored, errorTimers,
                   freezing, flow, final, retryTimers, resumeTimers, resumed, steering,
                   sweeping, announced>>

-----------------------------------------------------------------------------
(* What others do *)

\* markSubagentRunTerminated, of the run of a session.
Kill(r) ==
    /\ Upset
    /\ entries[r].present /\ ~entries[r].ended
    /\ errorTimers' = errorTimers \ {r}
    /\ entries' = [entries EXCEPT ![r] =
          Completed(r, [@ EXCEPT !.ended = TRUE, !.reason = "killed", !.handled = TRUE,
                                 !.suppress = "killed"])]
    /\ PersistRuns
    /\ UNCHANGED <<sessionOf, style, sessions, turn, restored, waits, freezing, flow, final,
                   retryTimers, resumeTimers, resumed, steering, sweeping, outcomes>>

\* steerControlledSubagentRun: the mark, and after the abort the new run, or none.
SteerBegins(r) ==
    /\ Upset
    /\ entries[r].present /\ ~entries[r].ended
    /\ entries' = [entries EXCEPT ![r].suppress = "steer"] /\ PersistRuns
    /\ steering' = steering \cup {r}
    /\ UNCHANGED <<sessionOf, style, sessions, turn, restored, errorTimers, waits, freezing,
                   flow, final, retryTimers, resumeTimers, resumed, sweeping, outcomes>>

SteerDone(r) == r \in steering /\ steering' = steering \ {r}

SteerRestarts(r) ==
    /\ SteerDone(r)
    /\ \E next \in RunId : Replaced(r, next, FALSE)
    /\ UNCHANGED <<style, sessions, restored, spent, freezing, flow, final,
                   retryTimers, resumeTimers, sweeping, announced>>

\* clearSubagentRunSteerRestart after a restart that failed.
SteerFails(r) ==
    /\ SteerDone(r)
    /\ IF entries[r].present /\ entries[r].suppress = "steer"
       THEN LET cleared == [entries EXCEPT ![r].suppress = "none"]
                again == IF entries[r].ended /\ entries[r].completed = "no" THEN {r} ELSE {}
            IN  Resume(again, cleared, resumed \ {r}, resumeTimers)
       ELSE UNCHANGED <<entries, disk, resumed, resumeTimers, waits, flow, excused>>
    /\ UNCHANGED <<world, errorTimers, freezing, final, retryTimers, sweeping, announced>>

\* sweepSubagentRuns: archiveAtMs has come, whether or not the run has ended; the file is
\* written when the sessions have been deleted.
Sweep(r) ==
    /\ Upset
    /\ entries[r].present /\ Style(r).spawnMode = "run"
    /\ errorTimers' = errorTimers \ {r}
    /\ entries' = [entries EXCEPT ![r] = Absent]
    /\ sweeping' = sweeping \cup {r}
    /\ excused' = Excuse(r, "letGo")
    /\ UNCHANGED <<disk, sessionOf, style, sessions, turn, restored, waits, freezing, flow,
                   final, retryTimers, resumeTimers, resumed, steering, announced>>

SweepEnds(r) ==
    /\ r \in sweeping
    /\ sweeping' = sweeping \ {r}
    /\ sessions' = sessions \ {sessionOf[r]}
    /\ entries' = entries
    /\ IF sweeping = {r} THEN PersistRuns ELSE UNCHANGED disk
    /\ UNCHANGED <<sessionOf, style, turn, restored, spent, errorTimers, waits, freezing, flow,
                   final, retryTimers, resumeTimers, resumed, steering, outcomes>>

\* The process ends; of the turns nothing is heard any more.
GatewayDies ==
    /\ Upset /\ restored
    /\ restored' = FALSE
    /\ entries' = [r \in RunId |-> Absent]
    /\ turn' = [r \in RunId |-> IF turn[r] = "none" THEN "none" ELSE "over"]
    /\ errorTimers' = {} /\ waits' = {} /\ retryTimers' = {}
    /\ resumeTimers' = {} /\ resumed' = {} /\ steering' = {} /\ sweeping' = {}
    /\ freezing' = [r \in RunId |-> 0]
    /\ flow' = [r \in RunId |-> "no"] /\ final' = [r \in RunId |-> "no"]
    /\ excused' = [r \in RunId |-> excused[r] \cup
          IF disk[r].present /\ disk[r].completed = "no"
             /\ (disk[r].handled \/ disk[r].suppress = "steer")
          THEN {"crashed"} ELSE {}]
    /\ UNCHANGED <<disk, sessionOf, style, sessions, announced>>

\* restoreSubagentRunsOnce: orphans are pruned, the others resumed.
Restore ==
    /\ ~restored /\ restored' = TRUE
    /\ Resume({r \in RunId : disk[r].present}, disk, {}, {})
    /\ UNCHANGED <<sessionOf, style, sessions, turn, spent, errorTimers, freezing, final,
                   retryTimers, steering, sweeping, announced>>

-----------------------------------------------------------------------------
Turns(r) == TurnEnds(r) \/ TurnErrs(r) \/ TurnRetries(r)
Waits(r) == WaitAnswers(r) \/ WaitFails(r)
Cleanup(r) == Frozen(r) \/ FlowChecks(r) \/ FlowWakes(r) \/ SendEnds(r) \/ Finalize(r)
Timers(r) == RetryTimer(r) \/ ErrorTimer(r)
Others(r) == Kill(r) \/ SteerBegins(r) \/ Sweep(r)
Ends(r) == SteerRestarts(r) \/ SteerFails(r) \/ SweepEnds(r)

RegistryNext ==
    \/ \E r \in RunId :
          \/ \E s \in Session : Register(r, s)
          \/ Turns(r) \/ Waits(r) \/ Timers(r) \/ ResumeTimer(r)
          \/ Cleanup(r) \/ FlowLeaves(r) \/ Others(r) \/ Ends(r)
    \/ GatewayDies \/ Restore

\* Turns end, promises settle and timers fire.  A resumption is not early for ever, and what
\* has not been announced is given up half an hour later.
GivesUp(r) == FlowLeaves(r) /\ final'[r] # "no"
Resumes(r) == ResumeTimer(r) /\ r \notin resumeTimers'
Settles(r) == Cleanup(r) \/ FlowLeaves(r) \/ Timers(r) \/ WaitAnswers(r) \/ Ends(r)
RegistryFairness ==
    /\ WF_registryVars(Restore)
    /\ \A r \in RunId :
          /\ WF_registryVars(Settles(r)) /\ WF_registryVars(TurnEnds(r))
          /\ WF_registryVars(Resumes(r)) /\ SF_registryVars(GivesUp(r))

RegistrySpec == RegistryInit /\ [][RegistryNext]_registryVars /\ RegistryFairness

-----------------------------------------------------------------------------
RegistryTypeOK ==
    /\ entries \in [RunId -> [present : BOOLEAN, ended : BOOLEAN,
             reason : {"none", "complete", "error", "killed"},
             suppress : {"none", "steer", "killed"},
             handled : BOOLEAN, completed : {"no", "yes", "early", "late"},
             retries : 0..MaxAnnounces, tried : BOOLEAN, wake : BOOLEAN, woken : BOOLEAN]]
    /\ flow \in [RunId -> {"no", "checking", "waking", "sending", "done", "failed", "deferred"}]
    /\ final \in [RunId -> {"no", "keep", "delete"}]
    /\ sessions \subseteq Session /\ announced \in [RunId -> 0..2] /\ spent \in 0..MaxUpsets

\* A run that is claimed has a flow or a finalization under way that will release it: only
\* a crash leaves the claim behind, in the file.
ClaimedHasWorker ==
    \A r \in Present :
        entries[r].handled /\ entries[r].completed = "no" =>
            flow[r] # "no" \/ final[r] # "no" \/ "crashed" \in excused[r]

\* A run that nobody has claimed has something that will come back to it: a completion, a timer
\* or a steer when it has ended, its agent or the wait for it before.
OpenHasWaker ==
    \A r \in Present :
        /\ entries[r].ended /\ Claimable(entries[r]) =>
              \/ freezing[r] > 0 \/ r \in retryTimers \cup resumeTimers \cup steering
              \/ "crashed" \in excused[r]
        /\ ~entries[r].ended =>
              \/ r \in waits \cup resumeTimers \cup errorTimers \/ turn[r] # "over"
              \/ "unheard" \in excused[r]

\* Two flows never announce one run at once.
NoOverlap == \A r \in RunId : "overlapped" \notin excused[r]

\* A requester is told once of a run, unless the answer of a send is lost.
AnnouncedOnce == \A r \in RunId : announced[r] <= 1 \/ "lost" \in excused[r]

\* A run that has been completed, other than by a kill, or that has left the map, has been
\* announced, or was let go: silent, given up, swept, replaced, an orphan, or of a requester that
\* hears no more.  An orphan that the flow has made itself is the exception of delete mode.
Accounted ==
    \A r \in Used :
        \/ entries[r].completed # "no" /\ entries[r].suppress # "killed"
        \/ restored /\ ~entries[r].present
        => announced[r] > 0 \/ excused[r] \cap {"letGo", "retryLost"} # {}

\* All of it: each run that ends is cleaned up by one flow at a time and announced once,
\* whatever events, waits, kills, steers, sweeps and crashes come between.
RunsKept ==
    /\ RegistryTypeOK
    /\ ClaimedHasWorker /\ OpenHasWaker /\ NoOverlap /\ AnnouncedOnce /\ Accounted

\* No retry finds that the flow itself has deleted the session in delete mode, which the code
\* does not keep.
NoRetryLost == \A r \in RunId : "retryLost" \notin excused[r]

\* Every run is completed or leaves the map in the end, unless a crash left its claim or its
\* steer behind, or the wait for it failed when its agent had gone silent.
RunsSettle ==
    \A r \in RunId :
        entries[r].present ~>
            \/ ~entries[r].present \/ entries[r].completed # "no"
            \/ excused[r] \cap {"crashed", "unheard"} # {}
=============================================================================
