---------------------------- MODULE DeliveryQueue ----------------------------
(***************************************************************************)
(* The write-ahead queue of outbound messages:                             *)
(* src/src/infra/outbound/delivery-queue.ts, with deliverOutboundPayloads  *)
(* of deliver.ts, its live user, and recoverPendingDeliveries, which the   *)
(* gateway starts next to the live senders at every startup.               *)
(*                                                                         *)
(* A delivery is a file {id}.json in the queue directory, written before   *)
(* the first payload is sent and removed after the last.  The actors are   *)
(* one live sender per delivery and one recovery for each start of the     *)
(* gateway in this process: a restart in process starts another and stops  *)
(* neither the former nor the live senders.  Each file operation and each  *)
(* send is one action, because each is awaited.  The end of the process    *)
(* loses the actors and keeps the files.  A payload that a message_sending *)
(* hook cancels counts as sent.                                            *)
(***************************************************************************)
EXTENDS Integers, Sequences, FiniteSets

CONSTANTS
    Delivery,     \* calls of deliverOutboundPayloads; the call names its file
    Payloads,     \* number of payloads of each delivery
    MaxRetries,   \* MAX_RETRIES
    MaxStarts,    \* bound: starts of the gateway in one process
    MaxCrashes    \* bound: number of crashes

Recoverer == 1..MaxStarts
Actor == Delivery \cup Recoverer

ASSUME PayloadsAssumption == Payloads \in Nat \ {0}
ASSUME MaxRetriesAssumption == MaxRetries \in Nat
ASSUME StartsAssumption == MaxStarts \in Nat \ {0}
ASSUME CrashesAssumption == MaxCrashes \in Nat
ASSUME DeliveryAssumption == IsFiniteSet(Delivery) /\ Delivery \cap Recoverer = {}

NoFile == [retryCount |-> -1, attempted |-> FALSE]
\* Recoveries that overlap may count past the limit.
Entry == [retryCount : Nat, attempted : BOOLEAN]

VARIABLES
    bestEffort,  \* deliveries with bestEffort
    withOnError, \* deliveries whose live caller passes onError
    json,     \* delivery |-> content of {id}.json, or NoFile
    marker,   \* deliveries with a {id}.delivered file
    failed,   \* deliveries with a file in failed/
    age,      \* deliveries in the order of enqueuedAt
    pc,       \* actor |-> where it is
    job,      \* actor |-> the delivery it handles
    next,     \* actor |-> the next payload to send
    partial,  \* live sender |-> hadPartialFailure
    copy,     \* actor |-> the entry failDelivery has read
    queueId,  \* live senders whose enqueueDelivery succeeded
    pending,  \* recovery |-> what its loadPendingDeliveries returned and is yet to do
    sent,     \* delivery |-> the payloads that have been sent, once or more
    aborted,  \* deliveries given up by their caller
    ackedBy,  \* delivery |-> who passed phase 1 of ackDelivery
    shared,   \* deliveries a recovery has loaded while another actor had them
    crashes   \* crashes so far

params == <<bestEffort, withOnError>>
files == <<json, marker, failed, age>>
actors == <<pc, job, next, partial, copy>>
history == <<sent, aborted, ackedBy, shared>>
rest == <<params, queueId, pending, history, crashes>>
vars == <<files, actors, rest>>

Payload == 1..Payloads
PC == {"idle", "send", "ack", "unlink", "read", "write", "move", "scan", "done"}

TypeOK ==
    /\ bestEffort \subseteq Delivery /\ withOnError \subseteq Delivery
    /\ json \in [Delivery -> Entry \cup {NoFile}]
    /\ marker \subseteq Delivery /\ failed \subseteq Delivery
    /\ age \in Seq(Delivery)
    /\ pc \in [Actor -> PC]
    /\ job \in [Actor -> Delivery]
    /\ next \in [Actor -> 1..Payloads + 1]
    /\ partial \in [Actor -> BOOLEAN]
    /\ copy \in [Actor -> Entry \cup {NoFile}]
    /\ queueId \subseteq Delivery
    /\ pending \in [Recoverer -> [Delivery -> Entry \cup {NoFile}]]
    /\ sent \in [Delivery -> SUBSET Payload]
    /\ aborted \subseteq Delivery
    /\ ackedBy \in [Delivery -> SUBSET {"live", "recovery"}]
    /\ shared \subseteq Delivery
    /\ crashes \in 0..MaxCrashes

NoFiles == [d \in Delivery |-> NoFile]
NothingPending == [r \in Recoverer |-> NoFiles]

Init ==
    /\ bestEffort \in SUBSET Delivery /\ withOnError \in SUBSET Delivery
    /\ json = NoFiles /\ marker = {} /\ failed = {} /\ age = <<>>
    /\ pc = [a \in Actor |-> "idle"]
    /\ \E any \in Delivery : job = [a \in Actor |-> IF a \in Recoverer THEN any ELSE a]
    /\ next = [a \in Actor |-> 1]
    /\ partial = [a \in Actor |-> FALSE]
    /\ copy = [a \in Actor |-> NoFile]
    /\ queueId = {} /\ pending = NothingPending
    /\ sent = [d \in Delivery |-> {}]
    /\ aborted = {} /\ ackedBy = [d \in Delivery |-> {}]
    /\ shared = {}
    /\ crashes = 0

Exists(d) == json[d] # NoFile
AllSent(d) == sent[d] = Payload

\* Where an actor goes when it is through with its entry.
Through(a) == IF a \in Recoverer THEN "scan" ELSE "done"
Goto(a, l) == pc' = [pc EXCEPT ![a] = l]
\* deliverOutboundPayloadsCore is over: what it counted is forgotten.
Leaves(a, l) ==
    /\ Goto(a, l)
    /\ next' = [next EXCEPT ![a] = 1]
    /\ partial' = [partial EXCEPT ![a] = FALSE]
Who(a) == IF a \in Recoverer THEN "recovery" ELSE "live"
Acked(a) == ackedBy' = [ackedBy EXCEPT ![job[a]] = @ \cup {Who(a)}]

-----------------------------------------------------------------------------
(* deliverOutboundPayloads before the core: write to a temporary file,     *)
(* rename; a failure to write does not block the delivery.                 *)

Persist(d) ==
    /\ pc[d] = "idle"
    /\ json' = [json EXCEPT ![d] = [retryCount |-> 0, attempted |-> FALSE]]
    /\ age' = Append(age, d)
    /\ queueId' = queueId \cup {d}
    /\ Goto(d, "send")
    /\ UNCHANGED <<marker, failed, job, next, partial, copy, params, pending, history,
                   crashes>>

PersistFails(d) ==
    /\ pc[d] = "idle"
    /\ Goto(d, "send")
    /\ UNCHANGED <<files, job, next, partial, copy, rest>>

-----------------------------------------------------------------------------
(* deliverOutboundPayloadsCore, run by a live sender or by the recovery *)

Sending(a) == pc[a] = "send" /\ next[a] <= Payloads

SendOk(a) ==
    /\ Sending(a)
    /\ sent' = [sent EXCEPT ![job[a]] = @ \cup {next[a]}]
    /\ next' = [next EXCEPT ![a] = @ + 1]
    /\ UNCHANGED <<files, pc, job, partial, copy, params, queueId, pending, aborted,
                   ackedBy, shared, crashes>>

\* With bestEffort the loop goes on; only a caller with onError has the failure
\* noted.  The recovery passes none.
SendFailsQuietly(a) ==
    /\ Sending(a)
    /\ job[a] \in bestEffort
    /\ next' = [next EXCEPT ![a] = @ + 1]
    /\ partial' = [partial EXCEPT ![a] = @ \/ a \in withOnError]
    /\ UNCHANGED <<files, pc, job, copy, rest>>

\* The core throws: at a payload, before the first one (no channel handler) or
\* after the last (the transcript mirror).
CoreThrows(a) ==
    /\ pc[a] = "send"
    /\ job[a] \notin bestEffort \/ next[a] \in {1, Payloads + 1}

\* Mutant: a failed delivery is cleaned up like a finished one.
LiveThrows_Acks(d) ==
    /\ CoreThrows(d)
    /\ Leaves(d, IF d \in queueId THEN "ack" ELSE "done")
    /\ UNCHANGED <<files, job, copy, rest>>

\* The catch block of deliverOutboundPayloads.
LiveThrows(d) ==
    /\ CoreThrows(d)
    /\ Leaves(d, IF d \in queueId THEN "read" ELSE "done")
    /\ UNCHANGED <<files, job, copy, rest>>

\* Its other branch: isAbortError.
LiveAborted(d) ==
    /\ Sending(d) /\ d \notin bestEffort
    /\ aborted' = aborted \cup {d}
    /\ Leaves(d, IF d \in queueId THEN "ack" ELSE "done")
    /\ UNCHANGED <<files, job, copy, params, queueId, pending, sent,
                   ackedBy, shared, crashes>>

\* The catch block of recoverPendingDeliveries: some errors are permanent.
RecoveryThrows(r, permanent) ==
    /\ CoreThrows(r)
    /\ Leaves(r, IF permanent THEN "move" ELSE "read")
    /\ UNCHANGED <<files, job, copy, rest>>

CoreReturns(a) ==
    /\ pc[a] = "send" /\ next[a] = Payloads + 1
    /\ Leaves(a, IF a \in Recoverer THEN "ack"
                 ELSE IF a \notin queueId THEN "done"
                 ELSE IF partial[a] THEN "read" ELSE "ack")
    /\ UNCHANGED <<files, job, copy, rest>>

-----------------------------------------------------------------------------
(* ackDelivery *)

\* rename {id}.json to {id}.delivered; when there is no {id}.json, remove a
\* marker that an earlier attempt may have left.
AckPhase1(a) ==
    /\ pc[a] = "ack"
    /\ IF Exists(job[a])
       THEN /\ json' = [json EXCEPT ![job[a]] = NoFile]
            /\ marker' = marker \cup {job[a]}
            /\ Acked(a)
            /\ Goto(a, "unlink")
       ELSE /\ marker' = marker \ {job[a]}
            /\ Goto(a, Through(a))
            /\ UNCHANGED <<json, ackedBy>>
    /\ UNCHANGED <<failed, age, job, next, partial, copy, params, queueId, pending,
                   sent, aborted, shared, crashes>>

\* rename fails otherwise: a live sender ignores it, in the recovery it counts
\* as a failed attempt.
AckFails(a) ==
    /\ pc[a] = "ack" /\ Exists(job[a])
    /\ Goto(a, IF a \in Recoverer THEN "read" ELSE "done")
    /\ UNCHANGED <<files, job, next, partial, copy, rest>>

AckPhase2(a) ==
    /\ pc[a] = "unlink"
    /\ marker' = marker \ {job[a]}
    /\ Goto(a, Through(a))
    /\ UNCHANGED <<json, failed, age, job, next, partial, copy, rest>>

-----------------------------------------------------------------------------
(* failDelivery: read, then write a temporary file and rename it.  When the *)
(* file is gone the read fails, which both callers ignore.                  *)

FailRead(a) ==
    /\ pc[a] = "read"
    /\ copy' = [copy EXCEPT ![a] = json[job[a]]]
    /\ Goto(a, IF Exists(job[a]) THEN "write" ELSE Through(a))
    /\ UNCHANGED <<files, job, next, partial, rest>>

\* Mutant: the attempt is not counted.
FailWrite_NoCount(a) ==
    /\ pc[a] = "write"
    /\ json' = [json EXCEPT ![job[a]] =
                   [retryCount |-> copy[a].retryCount, attempted |-> TRUE]]
    /\ Goto(a, Through(a))
    /\ copy' = [copy EXCEPT ![a] = NoFile]
    /\ UNCHANGED <<marker, failed, age, job, next, partial, rest>>

FailWrite(a) ==
    /\ pc[a] = "write"
    /\ json' = [json EXCEPT ![job[a]] =
                   [retryCount |-> copy[a].retryCount + 1, attempted |-> TRUE]]
    /\ Goto(a, Through(a))
    /\ copy' = [copy EXCEPT ![a] = NoFile]
    /\ UNCHANGED <<marker, failed, age, job, next, partial, rest>>

\* moveToFailed; a file that is gone is only logged.
MoveToFailed(r) ==
    /\ pc[r] = "move"
    /\ LET d == job[r] IN
       IF Exists(d)
       THEN json' = [json EXCEPT ![d] = NoFile] /\ failed' = failed \cup {d}
       ELSE UNCHANGED <<json, failed>>
    /\ Goto(r, "scan")
    /\ UNCHANGED <<marker, age, job, next, partial, copy, rest>>

-----------------------------------------------------------------------------
(* recoverPendingDeliveries *)

\* a may still change the file of its delivery.
Working(a) == pc[a] \in {"send", "ack", "read", "write", "move"}

\* a is at work on d, or has it on its list.
HasInHand(a, d) ==
    \/ job[a] = d /\ Working(a)
    \/ a \in Recoverer /\ pending[a][d] # NoFile

\* Every start of the gateway starts a recovery, next to those it finds under way.
Starts(r) ==
    /\ pc[r] = "idle"
    /\ \A earlier \in 1..r - 1 : pc[earlier] # "idle"
    /\ shared' = shared \cup
           {d \in Delivery : Exists(d) /\ \E a \in Actor \ {r} : HasInHand(a, d)}

\* Mutant: a leftover marker is taken for a pending entry.
Load_Markers(r) ==
    /\ Starts(r)
    /\ pending' = [pending EXCEPT ![r] = [d \in Delivery |->
                      IF d \in marker THEN [retryCount |-> 0, attempted |-> FALSE]
                      ELSE json[d]]]
    /\ marker' = {}
    /\ Goto(r, "scan")
    /\ UNCHANGED <<json, failed, age, job, next, partial, copy, params, queueId,
                   sent, aborted, ackedBy, crashes>>

\* loadPendingDeliveries: remove the markers, read the files.
Load(r) ==
    /\ Starts(r)
    /\ pending' = [pending EXCEPT ![r] = json]
    /\ marker' = {}
    /\ Goto(r, "scan")
    /\ UNCHANGED <<json, failed, age, job, next, partial, copy, params, queueId,
                   sent, aborted, ackedBy, crashes>>

\* d is the oldest entry that is left.
Oldest(r, d) ==
    \E i \in 1..Len(age) :
        /\ age[i] = d /\ pending[r][d] # NoFile
        /\ \A j \in 1..i - 1 : pending[r][age[j]] = NoFile

Take(r, d, l) ==
    /\ pc[r] = "scan"
    /\ Oldest(r, d)
    /\ pending' = [pending EXCEPT ![r][d] = NoFile]
    /\ job' = [job EXCEPT ![r] = d]
    /\ next' = [next EXCEPT ![r] = 1]
    /\ Goto(r, l)
    /\ UNCHANGED <<files, partial, copy, params, queueId, history, crashes>>

\* retryCount >= MAX_RETRIES, on the entry as it was loaded.
GiveUp(r, d) == pending[r][d].retryCount >= MaxRetries

\* isEntryEligibleForRecoveryRetry.  The first replay after a crash is always
\* eligible, any other when its backoff has elapsed, which depends on time.
FirstReplay(r, d) == pending[r][d].retryCount = 0 /\ ~pending[r][d].attempted

TakeExhausted(r, d) == GiveUp(r, d) /\ Take(r, d, "move")
TakeEligible(r, d) == ~GiveUp(r, d) /\ Take(r, d, "send")
TakeDeferred(r, d) == ~GiveUp(r, d) /\ ~FirstReplay(r, d) /\ Take(r, d, "scan")

\* Nothing is left, or the time budget is exceeded.
RecoveryEnds(r) ==
    /\ pc[r] = "scan"
    /\ pending' = [pending EXCEPT ![r] = NoFiles]
    /\ Goto(r, "done")
    /\ UNCHANGED <<files, job, next, partial, copy, params, queueId, history, crashes>>

-----------------------------------------------------------------------------
(* The process ends and another starts: the files are left.  It may crash   *)
(* at any point; a quiet gateway is restarted any number of times, in       *)
(* another process or, which is the same then, in its own.                  *)

NewProcess ==
    /\ pc' = [a \in Actor |->
                 IF a \in Recoverer \/ pc[a] = "idle" THEN "idle" ELSE "done"]
    /\ pending' = NothingPending
    /\ partial' = [a \in Actor |-> FALSE]
    /\ copy' = [a \in Actor |-> NoFile]
    /\ next' = [a \in Actor |-> 1]
    /\ UNCHANGED <<files, job, params, queueId, history>>

Crash ==
    /\ crashes < MaxCrashes
    /\ crashes' = crashes + 1
    /\ NewProcess

Quiet == pc[1] = "done" /\ \A a \in Actor : pc[a] \in {"idle", "done"}

QuietRestart == Quiet /\ NewProcess /\ UNCHANGED crashes

\* What an actor does once it has a delivery.
Work(a) ==
    \/ SendOk(a)
    \/ SendFailsQuietly(a)
    \/ CoreReturns(a)
    \/ AckPhase1(a)
    \/ AckFails(a)
    \/ AckPhase2(a)
    \/ FailRead(a)
    \/ FailWrite(a)

LiveNext(d) == Persist(d) \/ PersistFails(d) \/ LiveThrows(d) \/ LiveAborted(d) \/ Work(d)

RecoveryWork(r) ==
    \/ Work(r)
    \/ \E permanent \in BOOLEAN : RecoveryThrows(r, permanent)
    \/ MoveToFailed(r)
    \/ RecoveryEnds(r)

RecoveryNext(r) ==
    \/ Load(r)
    \/ RecoveryWork(r)
    \/ \E d \in Delivery : TakeExhausted(r, d) \/ TakeEligible(r, d) \/ TakeDeferred(r, d)

Next ==
    \/ \E d \in Delivery : LiveNext(d)
    \/ \E r \in Recoverer : RecoveryNext(r)
    \/ Crash
    \/ QuietRestart

Spec == Init /\ [][Next]_vars

\* Senders and recoveries run on, every process starts one, the gateway is restarted
\* now and then, and an entry whose turn comes again and again is some time found to be
\* eligible: its backoff is at most 10 minutes from its last attempt.
Tries(d) == \E r \in Recoverer : TakeEligible(r, d) \/ TakeExhausted(r, d)

Fairness ==
    /\ \A d \in Delivery : WF_vars(LiveNext(d))
    /\ WF_vars(Load(1))
    /\ \A r \in Recoverer : WF_vars(RecoveryWork(r))
    /\ WF_vars(QuietRestart)
    /\ \A d \in Delivery : SF_vars(Tries(d))

FairSpec == Spec /\ Fairness

-----------------------------------------------------------------------------
(* Properties *)

\* At least once: from the moment a delivery is persisted, either its file is in
\* the queue directory or in failed/, or all its payloads have been sent, or its
\* caller gave it up; whoever crashes or races.  With bestEffort nobody tells the
\* recovery of a failure; but a live sender that hears of it ("so we can call
\* failDelivery instead of ackDelivery") acknowledges only what has been sent.
NoLoss ==
    /\ TypeOK
    /\ \A d \in queueId \ bestEffort :
          Exists(d) \/ d \in failed \/ AllSent(d) \/ d \in aborted
    /\ \A d \in bestEffort \cap withOnError :
          "live" \in ackedBy[d] => AllSent(d) \/ d \in aborted

\* Once phase 1 of ackDelivery is done, no recovery takes the delivery up again, of this
\* process or a later one, whenever it dies; unless a recovery has loaded it while its
\* live sender, or the recovery of an earlier start in the same process, still had it.
AckedNotReplayed ==
    [][\A r \in Recoverer, d \in Delivery :
          pending[r][d] = NoFile /\ pending'[r][d] # NoFile =>
              ackedBy[d] = {} \/ d \in shared']_vars

\* A persisted delivery leaves the queue directory for good: sent, given up or
\* moved to failed/.
EventuallyOut ==
    \A d \in Delivery : d \in queueId ~> [](~Exists(d))
=============================================================================
