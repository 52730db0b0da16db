---------------------------- MODULE FollowupQueue ----------------------------
(***************************************************************************)
(* The followup queue of one session key:                                  *)
(* src/src/auto-reply/reply/queue/{state,enqueue,drain,cleanup}.ts with    *)
(* src/src/utils/queue-helpers.ts.  Messages that arrive while the session *)
(* is busy wait in a queue object in the map FOLLOWUP_QUEUES; a drain loop *)
(* runs them one by one, or collected into one prompt, when the session is *)
(* free; what does not fit is dropped by policy, or dropped and summarised.*)
(*                                                                         *)
(* A drain loop captures its queue object, while enqueue and clear go      *)
(* through the map, so the objects have identities: a cleared object lives *)
(* on in its drain loop beside a new one.  The loop runs atomically from   *)
(* one `await` to the next: after the debounce it checks what to run; with *)
(* nothing to run message by message it awaits the answer of the check,    *)
(* and only then takes the batch; after the run it removes what it         *)
(* believes it ran, and awaits that too.  A run that throws is seen only   *)
(* when the loop catches it.  Debounce times are abstracted: the step      *)
(* after the debounce may happen at any time.                              *)
(***************************************************************************)
EXTENDS Integers, Sequences, FiniteSets

CONSTANTS
    Msg,          \* inbound messages, each with its own message id
    Route,        \* message |-> origin channel, target and thread
    Unkeyed,      \* the route of a message without origin
    Unroutable,   \* the route of a message whose origin cannot be routed to
    Settings,     \* queue settings that enqueues come with
    Policies,     \* the drop policies among them
    MaxQueues     \* bound: queue objects alive at one time

Object == 1..MaxQueues
NoQueue == 0

ASSUME SettingsAssumption ==
    /\ Policies \subseteq {"new", "old", "summarize"}
    /\ Settings \subseteq [mode : {"collect", "followup"}, cap : Nat \ {0},
                           dropPolicy : Policies]
    /\ MaxQueues \in Nat \ {0}

VARIABLES
    current,   \* the object in the map, or NoQueue
    queue,     \* object |-> its state and its drain loop's
    callback,  \* FOLLOWUP_RUN_CALLBACKS has one
    recent,    \* RECENT_QUEUE_MESSAGE_IDS (no redelivery after its TTL)
    accepted,  \* history: messages put in a queue
    runs,      \* history: message |-> runs that had its prompt (up to 2)
    gone,      \* history: accepted messages summarised to the user, dropped by
               \* policy "old", or cleared
    upsets     \* history: what happened to a queue under its drain loop

vars == <<current, queue, callback, recent, accepted, runs, gone, upsets>>

\* Messages were dropped during a run; a summary was run; a queue was cleared
\* while it drained.
Upset == {"dropInRun", "summaryRun", "clearInDrain"}

Elems(s) == {s[i] : i \in 1..Len(s)}

\* The drain loop of an object: "idle" is draining = false.
\* At "next" it awaits a step that has its result already: a run that is over, or one
\* that ran nothing since there is a batch to collect ("skipped") or no item ("empty").
Pc == {"idle", "debounce", "run", "next"}
Kind == {"single", "collect", "summary", "skipped", "empty"}

Fresh == [items |-> <<>>, droppedMsgs |-> {}, mode |-> "collect", cap |-> 1,
          dropPolicy |-> "summarize", lastRun |-> FALSE,
          pc |-> "idle", kind |-> "single", batch |-> <<>>, noted |-> {},
          late |-> {},  \* history: put in between the check and the batch
          force |-> FALSE]

TypeOK ==
    /\ current \in Object \cup {NoQueue}
    /\ \A o \in Object :
          /\ queue[o].items \in Seq(Msg) /\ queue[o].batch \in Seq(Msg)
          /\ Cardinality(Elems(queue[o].items)) = Len(queue[o].items)
          /\ queue[o].droppedMsgs \subseteq Msg /\ queue[o].noted \subseteq Msg
          /\ queue[o].late \subseteq Msg
          /\ queue[o].pc \in Pc /\ queue[o].kind \in Kind
          /\ queue[o].lastRun \in BOOLEAN /\ queue[o].force \in BOOLEAN
    /\ callback \in BOOLEAN
    /\ recent \subseteq Msg /\ accepted \subseteq Msg /\ gone \subseteq Msg
    /\ runs \in [Msg -> 0..2]
    /\ upsets \subseteq Upset

Init ==
    /\ current = NoQueue
    /\ queue = [o \in Object |-> Fresh]
    /\ callback = FALSE
    /\ recent = {} /\ accepted = {} /\ gone = {}
    /\ runs = [m \in Msg |-> 0]
    /\ upsets = {}

Draining(q) == q.pc # "idle"
HasWork(q) == q.items # <<>> \/ q.droppedMsgs # {}

-----------------------------------------------------------------------------
(* scheduleFollowupDrain(key, ...) on the objects qs with cur in the map:   *)
(* beginQueueDrain, remember the callback, enter the loop or, with nothing  *)
(* to do, leave it through its finally block.                               *)

CanBegin(qs, cur) == cur # NoQueue /\ ~Draining(qs[cur])

Scheduled(qs, cur) ==
    IF CanBegin(qs, cur) /\ HasWork(qs[cur])
    THEN [qs EXCEPT ![cur].pc = "debounce", ![cur].force = FALSE] ELSE qs

MapScheduled(qs, cur) ==
    IF CanBegin(qs, cur) /\ ~HasWork(qs[cur]) THEN NoQueue ELSE cur

\* Mutant: the end of a run schedules nothing when a queue exists.
ScheduleFollowupDrain_OnlyEmpty ==
    /\ CanBegin(queue, current) /\ ~HasWork(queue[current])
    /\ current' = NoQueue /\ callback' = TRUE
    /\ UNCHANGED <<queue, recent, accepted, runs, gone, upsets>>

\* finalizeWithFollowup: an agent run of the session has ended.
ScheduleFollowupDrain ==
    /\ CanBegin(queue, current)
    /\ queue' = Scheduled(queue, current)
    /\ current' = MapScheduled(queue, current)
    /\ callback' = TRUE
    /\ UNCHANGED <<recent, accepted, runs, gone, upsets>>

-----------------------------------------------------------------------------
(* enqueueFollowupRun *)

\* applyQueueDropPolicy: how many of the oldest must go for one more to fit.
DropCount(q) == IF Len(q.items) < q.cap THEN 0 ELSE Len(q.items) - q.cap + 1

\* getFollowupQueue: the object in the map, or one that nobody uses any more.
Target ==
    IF current # NoQueue THEN current
    ELSE CHOOSE o \in Object : ~Draining(queue[o])

HasTarget == current # NoQueue \/ \E o \in Object : ~Draining(queue[o])  \* bound

\* The settings come first, even when the message is then refused.
Configured(s) ==
    LET q == IF current # NoQueue THEN queue[current] ELSE Fresh
    IN  [q EXCEPT !.mode = s.mode, !.cap = s.cap, !.dropPolicy = s.dropPolicy]

IsDuplicate(m) ==
    m \in recent \/ (current # NoQueue /\ m \in Elems(queue[current].items))

EnqueueDuplicate(m, s) ==
    /\ HasTarget /\ IsDuplicate(m)
    /\ queue' = [queue EXCEPT ![Target] = Configured(s)]
    /\ current' = Target
    /\ UNCHANGED <<callback, recent, accepted, runs, gone, upsets>>

Refuses(q) == DropCount(q) > 0 /\ q.dropPolicy = "new"

EnqueueRefused(m, s) ==
    /\ HasTarget /\ ~IsDuplicate(m) /\ Refuses(Configured(s))
    /\ queue' = [queue EXCEPT ![Target] = [Configured(s) EXCEPT !.lastRun = TRUE]]
    /\ current' = Target
    /\ UNCHANGED <<callback, recent, accepted, runs, gone, upsets>>

Remember(m) == recent \cup {m}

\* kickFollowupDrainIfIdle
Kicked(qs) == IF callback THEN Scheduled(qs, Target) ELSE qs

\* The loop has checked the routes and not yet taken the batch.
Checked(q) == q.pc = "next" /\ q.kind = "skipped"

\* A summary is under way that will be cleared.
Summarising(q) == q.pc = "run" \/ (q.pc = "next" /\ q.kind = "summary")

\* Make room, push, and kick an idle drain with the cached callback.
EnqueueAccepted(m, s) ==
    LET q == Configured(s)
        out == Elems(SubSeq(q.items, 1, DropCount(q)))
        filled == [q EXCEPT
            !.lastRun = TRUE,
            !.items = Append(SubSeq(q.items, DropCount(q) + 1, Len(q.items)), m),
            !.droppedMsgs = IF q.dropPolicy = "summarize" THEN q.droppedMsgs \cup out
                            ELSE q.droppedMsgs,
            !.late = IF Checked(q) THEN q.late \cup {m} ELSE q.late]
        qs == [queue EXCEPT ![Target] = filled]
    IN  /\ HasTarget /\ ~IsDuplicate(m) /\ ~Refuses(q)
        /\ queue' = Kicked(qs)
        /\ current' = Target
        /\ recent' = Remember(m)
        /\ accepted' = accepted \cup {m}
        /\ gone' = IF q.dropPolicy = "old" THEN gone \cup out ELSE gone
        /\ upsets' = IF out # {} /\ Summarising(q) THEN upsets \cup {"dropInRun"} ELSE upsets
        /\ UNCHANGED <<callback, runs>>

-----------------------------------------------------------------------------
(* The drain loop *)

HasCrossChannelItems(items) ==
    LET routes == {Route[m] : m \in Elems(items)}
    IN  \/ Unroutable \in routes
        \/ routes # {Unkeyed} /\ Cardinality(routes) > 1

\* The loop's own variables go with a run, or with the loop.
Left(q, pc) == [q EXCEPT !.pc = pc, !.kind = "single", !.batch = <<>>, !.noted = {},
                         !.late = {}, !.force = IF pc = "idle" THEN FALSE ELSE q.force]

\* The loop ends with object o in state q: the finally block.  It deletes the
\* key, whatever object is there, or schedules the key again.
Ended(o, q) ==
    LET qs == [queue EXCEPT ![o] = Left(q, "idle")]
    IN  IF HasWork(q)
        THEN /\ queue' = Scheduled(qs, current)
             /\ current' = MapScheduled(qs, current)
             /\ callback' = (callback \/ CanBegin(qs, current))
        ELSE /\ queue' = qs
             /\ current' = NoQueue
             /\ UNCHANGED callback

\* Mutant: the key is deleted when the run starts.
StartRun_Unmaps(o, kind, batch, noted, force) ==
    /\ queue' = [queue EXCEPT ![o] = [@ EXCEPT !.pc = "run", !.kind = kind,
                    !.batch = batch, !.noted = noted, !.force = force]]
    /\ current' = NoQueue
    /\ UNCHANGED callback

StartRun(o, kind, batch, noted, force) ==
    /\ queue' = [queue EXCEPT ![o] = [@ EXCEPT !.pc = "run", !.kind = kind,
                    !.batch = batch, !.noted = noted, !.force = force]]
    /\ UNCHANGED <<current, callback>>

Summary(q) == IF q.dropPolicy = "summarize" THEN q.droppedMsgs ELSE {}

\* Mutant: messages of different origins are collected.
Individually_Never(q) == FALSE
\* In collect mode a mixed batch, and all that follows it in this drain, is run
\* message by message.
Individually(q) == q.force \/ HasCrossChannelItems(q.items)

\* The step is over without a run; the loop goes on when it has the promise's answer.
Waits(o, kind) ==
    /\ queue' = [queue EXCEPT ![o].pc = "next", ![o].kind = kind]
    /\ UNCHANGED <<current, callback>>

CollectStep(o) ==
    LET q == queue[o]
    IN  CASE ~Individually(q) -> Waits(o, "skipped")
          [] Individually(q) /\ q.items # <<>> ->
                StartRun(o, "single", <<Head(q.items)>>, {}, TRUE)
          [] OTHER -> Waits(o, "empty")

\* With a summary the first item only lends its routing to the summary's run.
FollowupStep(o) ==
    LET q == queue[o]
    IN  CASE Summary(q) # {} /\ ~q.lastRun -> Ended(o, q)
          [] Summary(q) # {} /\ q.lastRun /\ q.items # <<>> ->
                StartRun(o, "summary", <<Head(q.items)>>, Summary(q), q.force)
          [] Summary(q) = {} /\ q.items # <<>> ->
                StartRun(o, "single", <<Head(q.items)>>, {}, q.force)
          [] OTHER -> Waits(o, "empty")

DrainStep(o) ==
    /\ queue[o].pc = "debounce"
    /\ IF queue[o].mode = "collect" THEN CollectStep(o) ELSE FollowupStep(o)
    /\ upsets' = IF queue'[o].pc = "run" /\ queue'[o].kind = "summary"
                 THEN upsets \cup {"summaryRun"} ELSE upsets
    /\ UNCHANGED <<recent, accepted, runs, gone>>

\* The head of the loop, with its object in state q.
LoopsOn(o, q) ==
    IF HasWork(q)
    THEN /\ queue' = [queue EXCEPT ![o] = Left(q, "debounce")]
         /\ UNCHANGED <<current, callback>>
    ELSE Ended(o, q)

\* The run is over: items.shift(), or items.splice(0, n) and clear the summary.
AfterRun(q) ==
    LET left == SubSeq(q.items, Len(q.batch) + 1, Len(q.items))
    IN  [q EXCEPT !.items = left,
                  !.droppedMsgs = IF q.kind = "collect" /\ q.noted # {} THEN {}
                                  ELSE q.droppedMsgs,
                  !.batch = <<>>, !.noted = {}, !.late = {}]

RunEnds(o) ==
    LET q == queue[o]
        told == IF q.kind = "summary" THEN {} ELSE Elems(q.batch)
        after == AfterRun(q)
    IN  /\ q.pc = "run"
        /\ runs' = [m \in Msg |-> IF m \in told /\ runs[m] < 2 THEN runs[m] + 1
                                  ELSE runs[m]]
        /\ gone' = gone \cup q.noted
        /\ IF q.kind = "collect" THEN LoopsOn(o, after)
           ELSE /\ queue' = [queue EXCEPT ![o] = [after EXCEPT !.pc = "next"]]
                /\ UNCHANGED <<current, callback>>
        /\ UNCHANGED <<recent, accepted, upsets>>

\* The loop has the answer of its step.  The batch and its summary are what the queue
\* holds now; the summary of a followup run is cleared now.
StepDone(o) ==
    LET q == queue[o]
    IN  /\ q.pc = "next"
        /\ CASE q.kind = "skipped" /\ (q.items # <<>> \/ q.lastRun) ->
                    StartRun(o, "collect", q.items, Summary(q), q.force)
              [] q.kind = "single" -> LoopsOn(o, q)
              [] q.kind = "summary" -> LoopsOn(o, [q EXCEPT !.droppedMsgs = {}])
              [] OTHER -> Ended(o, q)
        /\ UNCHANGED <<recent, accepted, runs, gone, upsets>>

\* Mutant: a failed run is not tried again.
RunThrows_Forgets(o) ==
    /\ queue[o].pc = "run"
    /\ Ended(o, AfterRun(queue[o]))
    /\ UNCHANGED <<recent, accepted, runs, gone, upsets>>

RunThrows(o) ==
    /\ queue[o].pc = "run"
    /\ Ended(o, queue[o])
    /\ UNCHANGED <<recent, accepted, runs, gone, upsets>>

-----------------------------------------------------------------------------
\* clearSessionQueues: empty the object, take it out of the map, forget the
\* callback.  Its drain loop is not told.
ClearSessionQueues ==
    /\ IF current = NoQueue THEN UNCHANGED <<queue, gone>>
       ELSE /\ queue' = [queue EXCEPT ![current] =
                  [@ EXCEPT !.items = <<>>, !.droppedMsgs = {}, !.lastRun = FALSE]]
            /\ gone' = gone \cup Elems(queue[current].items)
                            \cup queue[current].droppedMsgs
    /\ current' = NoQueue
    /\ callback' = FALSE
    /\ upsets' = IF current # NoQueue /\ Draining(queue[current])
                 THEN upsets \cup {"clearInDrain"} ELSE upsets
    /\ UNCHANGED <<recent, accepted, runs>>

Next ==
    \/ ScheduleFollowupDrain
    \/ \E m \in Msg, s \in Settings : EnqueueDuplicate(m, s)
    \/ \E m \in Msg, s \in Settings : EnqueueRefused(m, s)
    \/ \E m \in Msg, s \in Settings : EnqueueAccepted(m, s)
    \/ \E o \in Object : DrainStep(o)
    \/ \E o \in Object : RunEnds(o)
    \/ \E o \in Object : StepDone(o)
    \/ \E o \in Object : RunThrows(o)
    \/ ClearSessionQueues

Spec == Init /\ [][Next]_vars

\* Timers fire, a session that is busy becomes free (and calls finalize), a run
\* ends, and one that is tried again and again does not fail for ever.
Fairness ==
    /\ WF_vars(ScheduleFollowupDrain)
    /\ \A o \in Object :
          /\ WF_vars(DrainStep(o)) /\ WF_vars(StepDone(o))
          /\ WF_vars(RunEnds(o) \/ RunThrows(o))
    /\ \A o \in Object : SF_vars(RunEnds(o))

FairSpec == Spec /\ Fairness

-----------------------------------------------------------------------------
(* Properties *)

\* What will still be run or reported: the queue in the map and the queues that
\* a drain loop is working on.
Live == {o \in Object : o = current \/ Draining(queue[o])}

Held == UNION {Elems(queue[o].items) \cup queue[o].droppedMsgs \cup
               Elems(queue[o].batch) \cup queue[o].noted : o \in Live}

\* No accepted message vanishes: it waits, or its prompt was run, or it was
\* reported in a summary, dropped by policy "old", or cleared on request.
NoSilentLoss ==
    \A m \in accepted : m \in Held \/ runs[m] > 0 \/ m \in gone

\* Each accepted message has its prompt run at most once, though the channel
\* delivers it again and a run is retried; and none vanishes as long as no message
\* is dropped while the drain loop awaits a run, no summary takes the place of a
\* message, and no queue is cleared while it drains.
HandledOnce ==
    /\ TypeOK
    /\ \A m \in Msg : runs[m] < 2
    /\ upsets = {} => NoSilentLoss

\* A queue with messages and a callback to run them is being drained, and one drain
\* loop works for the key, unless a cleared one has still to notice.
DrainedByOne ==
    /\ current # NoQueue /\ HasWork(queue[current]) /\ callback =>
          Draining(queue[current])
    /\ "clearInDrain" \in upsets \/
          Cardinality({o \in Object : Draining(queue[o])}) <= 1

\* A batch that is run as one prompt has one target for its reply, but for messages that
\* arrive while the loop awaits the answer of its check: the batch is taken only then.
CollectedHaveOneTarget ==
    \A o \in Object : queue[o].pc = "run" /\ queue[o].kind = "collect" =>
        Cardinality({Route[m] : m \in Elems(queue[o].batch) \ queue[o].late}) <= 1

\* Every accepted message is run, reported, dropped by policy or into the summary,
\* or cleared, unless the queue was upset.
EventuallyHandled ==
    \A m \in Msg : m \in accepted ~>
        \/ runs[m] > 0 \/ m \in gone \/ upsets # {}
        \/ \E o \in Object : m \in queue[o].droppedMsgs
=============================================================================
