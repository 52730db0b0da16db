---------------------------- MODULE HeartbeatWake ----------------------------
(***************************************************************************)
(* The heartbeat wake scheduler of src/src/infra/heartbeat-wake.ts: wake    *)
(* requests are kept per target, the most urgent reason winning, until a   *)
(* timer hands them as a batch to the registered handler, which answers    *)
(* one by one.  A handler that finds the main lane busy, or throws, gets   *)
(* them again after a cooldown.  An in-process restart registers another   *)
(* handler while a batch of the old one may still be under way.            *)
(*                                                                         *)
(* Time is abstracted: a pending timer may fire at any moment, and which   *)
(* of two timers would fire sooner is open, except that a retry timer is   *)
(* never replaced.  A batch is handled in any order.                       *)
(***************************************************************************)
EXTENDS Integers, FiniteSets

CONSTANTS
    Target,        \* agent and session a wake is for
    Priority,      \* the priorities of the reasons that are used, of 0..3
    MaxHandlers,   \* bound: handlers registered
    MaxRequests,   \* bound: calls of requestHeartbeatNow
    MaxBatches     \* bound: batches under way at one time

ASSUME PriorityAssumption == Priority # {} /\ Priority \subseteq 0..3
ASSUME BoundsAssumption ==
    MaxHandlers \in Nat \ {0} /\ MaxRequests \in Nat /\ MaxBatches \in Nat \ {0}

NoWake == -1
Wakes == [Target -> Priority \cup {NoWake}]
NoWakes == [k \in Target |-> NoWake]
Batch == 1..MaxBatches

VARIABLES
    handler,      \* the registered handler, 0 for none
    registered,   \* handlers are numbered in the order of registration
    disposed,     \* handlers whose disposer has been called
    pendingWakes, \* target |-> priority of its pending reason
    timer,        \* "none", or the kind of the pending timer
    running,
    scheduled,
    batch,        \* batch under way |-> its handler, its wakes, those left
    requests,     \* calls so far
    owed,         \* history: target |-> most urgent request not yet answered
    cooling       \* history: targets to be offered again after a cooldown

vars == <<handler, registered, disposed, pendingWakes, timer, running,
          scheduled, batch, requests, owed, cooling>>

NoBatch == [by |-> 0, all |-> NoWakes, left |-> NoWakes]

TypeOK ==
    /\ registered \in 0..MaxHandlers /\ handler \in 0..registered
    /\ disposed \subseteq 1..registered
    /\ pendingWakes \in Wakes /\ owed \in Wakes
    /\ timer \in {"none", "normal", "retry"}
    /\ running \in BOOLEAN /\ scheduled \in BOOLEAN
    /\ batch \in [Batch -> [by : 0..MaxHandlers, all : Wakes, left : Wakes]]
    /\ \A b \in Batch : (batch[b].by = 0) <=> (batch[b].left = NoWakes)
    /\ requests \in 0..MaxRequests
    /\ cooling \subseteq Target

Init ==
    /\ handler = 0 /\ registered = 0 /\ disposed = {}
    /\ pendingWakes = NoWakes /\ owed = NoWakes
    /\ timer = "none"
    /\ running = FALSE /\ scheduled = FALSE
    /\ batch = [b \in Batch |-> NoBatch]
    /\ requests = 0 /\ cooling = {}

Urgent(p, q) == IF p > q THEN p ELSE q

\* Mutant: the last reason wins.
Coalesced_Last(wakes, k, p) == [wakes EXCEPT ![k] = p]

\* queuePendingWakeReason
Coalesced(wakes, k, p) == [wakes EXCEPT ![k] = Urgent(@, p)]

\* schedule(delay, kind): what the timer may be afterwards.
Rearmed(kind) ==
    CASE timer = "none"   -> {kind}
      [] timer = "retry"  -> {"retry"}
      [] timer = "normal" -> {"normal", kind}

-----------------------------------------------------------------------------
RequestHeartbeatNow(k, p) ==
    /\ requests < MaxRequests
    /\ requests' = requests + 1
    /\ pendingWakes' = Coalesced(pendingWakes, k, p)
    /\ owed' = [owed EXCEPT ![k] = Urgent(@, p)]
    /\ timer' \in Rearmed("normal")
    /\ UNCHANGED <<handler, registered, disposed, running, scheduled,
                   batch, cooling>>

\* A new lifecycle: forget the old one's timer and flags.
SetHeartbeatWakeHandler ==
    /\ registered < MaxHandlers
    /\ registered' = registered + 1
    /\ handler' = registered'
    /\ timer' = IF pendingWakes = NoWakes THEN "none" ELSE "normal"
    /\ running' = FALSE /\ scheduled' = FALSE
    /\ cooling' = {}
    /\ UNCHANGED <<disposed, pendingWakes, batch, requests, owed>>

\* Mutant: a stale disposer clears the newer handler.
Dispose_Unguarded(h) ==
    /\ h \notin disposed
    /\ disposed' = disposed \cup {h}
    /\ handler' = 0
    /\ UNCHANGED <<registered, pendingWakes, timer, running, scheduled,
                   batch, requests, owed, cooling>>

\* The function that setHeartbeatWakeHandler returned to runner h.
Dispose(h) ==
    /\ h \notin disposed
    /\ disposed' = disposed \cup {h}
    /\ handler' = IF handler = h THEN 0 ELSE handler
    /\ UNCHANGED <<registered, pendingWakes, timer, running, scheduled,
                   batch, requests, owed, cooling>>

-----------------------------------------------------------------------------
(* The timer's callback *)

FiresUnhandled ==
    /\ timer # "none" /\ handler = 0
    /\ timer' = "none" /\ scheduled' = FALSE
    /\ UNCHANGED <<handler, registered, disposed, pendingWakes, running,
                   batch, requests, owed, cooling>>

\* The same timer again, until the batch under way is over.
FiresWhileRunning ==
    /\ timer # "none" /\ handler # 0 /\ running
    /\ scheduled' = TRUE
    /\ UNCHANGED <<handler, registered, disposed, pendingWakes, timer,
                   running, batch, requests, owed, cooling>>

MayStart == timer # "none" /\ handler # 0 /\ ~running

\* A timer that starts a batch never finds nothing pending (TypeOK).
StartBatch(b) ==
    /\ MayStart
    /\ batch[b] = NoBatch /\ \A c \in 1..b - 1 : batch[c] # NoBatch
    /\ batch' = [batch EXCEPT ![b] =
                   [by |-> handler, all |-> pendingWakes, left |-> pendingWakes]]
    /\ pendingWakes' = NoWakes
    /\ timer' = "none" /\ scheduled' = FALSE
    /\ running' = TRUE
    /\ cooling' = IF timer = "retry" THEN {} ELSE cooling
    /\ UNCHANGED <<handler, registered, disposed, requests, owed>>

-----------------------------------------------------------------------------
(* The handler's answer to wake k of batch b, and, after the last one, the  *)
(* finally block.                                                          *)

Without(b, k) == [batch[b].left EXCEPT ![k] = NoWake]
LastAnswer(b, k) == Without(b, k) = NoWakes
Waiting(b, k) == batch[b].left[k] # NoWake

RemoveWake(b, k) ==
    /\ batch' = [batch EXCEPT ![b] =
                   IF LastAnswer(b, k) THEN NoBatch ELSE [@ EXCEPT !.left = Without(b, k)]]
    /\ running' = IF LastAnswer(b, k) THEN FALSE ELSE running

\* ran, failed, or skipped for good.
Answered(b, k) ==
    /\ Waiting(b, k)
    /\ RemoveWake(b, k)
    /\ owed' = [owed EXCEPT ![k] =
                  IF batch[b].left[k] >= @ THEN pendingWakes[k] ELSE @]
    /\ timer' \in IF LastAnswer(b, k) /\ (pendingWakes # NoWakes \/ scheduled)
                  THEN Rearmed("normal") ELSE {timer}
    /\ UNCHANGED <<handler, registered, disposed, pendingWakes, scheduled,
                   requests, cooling>>

\* schedule(DEFAULT_RETRY_MS, "retry"); the schedule(delay, "normal") of a
\* finally block that follows may only bring a normal timer forward.
Retry == timer' \in Rearmed("retry")

\* skipped: requests-in-flight
AnsweredBusy(b, k) ==
    /\ Waiting(b, k)
    /\ RemoveWake(b, k)
    /\ pendingWakes' = Coalesced(pendingWakes, k, batch[b].left[k])
    /\ cooling' = cooling \cup {k}
    /\ Retry
    /\ UNCHANGED <<handler, registered, disposed, scheduled, requests, owed>>

\* The whole batch is tried again, also what has been answered.
AnswerThrows(b, k) ==
    /\ Waiting(b, k)
    /\ batch' = [batch EXCEPT ![b] = NoBatch]
    /\ running' = FALSE
    /\ pendingWakes' = [j \in Target |-> Urgent(pendingWakes[j], batch[b].all[j])]
    /\ cooling' = cooling \cup {j \in Target : batch[b].all[j] # NoWake}
    /\ Retry
    /\ UNCHANGED <<handler, registered, disposed, scheduled, requests, owed>>

-----------------------------------------------------------------------------
Fires ==
    \/ FiresUnhandled \/ FiresWhileRunning
    \/ \E b \in Batch : StartBatch(b)

AnswerTo(b, k) == Answered(b, k) \/ AnsweredBusy(b, k) \/ AnswerThrows(b, k)

Next ==
    \/ \E k \in Target, p \in Priority : RequestHeartbeatNow(k, p)
    \/ SetHeartbeatWakeHandler
    \/ \E h \in 1..registered : Dispose(h)
    \/ Fires
    \/ \E b \in Batch, k \in Target : Answered(b, k)
    \/ \E b \in Batch, k \in Target : AnsweredBusy(b, k)
    \/ \E b \in Batch, k \in Target : AnswerThrows(b, k)

Spec == Init /\ [][Next]_vars

\* The most urgent wake of k is answered, and no other try of it is pending.
AnswersOwed(k) ==
    /\ pendingWakes[k] = NoWake
    /\ \E b \in Batch : batch[b].left[k] >= owed[k] /\ Answered(b, k)

\* Timers fire, a handler's promise settles, and the main lane is not busy, nor
\* the handler failing, every time that the most urgent wake of a target is tried.
Fairness ==
    /\ WF_vars(Fires)
    /\ \A b \in Batch : WF_vars(\E k \in Target : AnswerTo(b, k))
    /\ \A k \in Target : SF_vars(AnswersOwed(k))

FairSpec == Spec /\ Fairness

-----------------------------------------------------------------------------
(* Properties *)

\* One batch is under way at a time, so that two heartbeats never run at once, until
\* a second registration forgets the batch of the first.
OneBatch == registered <= 1 => Cardinality({b \in Batch : batch[b] # NoBatch}) <= 1

\* No wake is lost or loses its urgency: the most urgent unanswered request for
\* a target is pending or in a batch under way, with its priority or a higher,
\* across retries, throws and registrations of handlers.  And what is pending never
\* sits still beside a handler: a timer will fire, or a batch is under way whose
\* end will set one.
WakesKept ==
    /\ TypeOK
    /\ \A k \in Target : owed[k] # NoWake =>
          \/ pendingWakes[k] >= owed[k]
          \/ \E b \in Batch : batch[b].left[k] >= owed[k]
    /\ handler # 0 /\ pendingWakes # NoWakes =>
          timer # "none" \/ \E b \in Batch : batch[b] # NoBatch
    /\ OneBatch

\* A wake is answered in the end if there is a handler whose runner has not
\* disposed of it, whatever older runners dispose of, and when.
WakeAnswered ==
    <>[](registered > 0 /\ registered \notin disposed) =>
        \A k \in Target : owed[k] # NoWake ~> owed[k] = NoWake

\* "Keep retry cooldown as a hard minimum delay": a target whose handler was busy
\* or threw is offered again when the retry timer fires, not by an earlier one.
CooldownKept ==
    [][timer = "normal" /\ (\E b \in Batch : batch[b] = NoBatch /\ batch'[b] # NoBatch) =>
          \A k \in cooling : pendingWakes[k] = NoWake]_vars
=============================================================================
