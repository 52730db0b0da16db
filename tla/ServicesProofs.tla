--------------------------- MODULE ServicesProofs ---------------------------
(***************************************************************************)
(* Theorems about four services that share nothing: HeartbeatWake, for     *)
(* any targets, priorities, handlers, requests and batches, no wake is     *)
(* lost; ExecApprovals, for any number of registrations, an approval is    *)
(* what an operator or the timeout made of it; AnnounceQueue, for any      *)
(* announcements, routes and settings, what is lost or told twice; and     *)
(* LockFile, for any callers, processes and faults and for each kind of    *)
(* lock file: one process is inside, and its count is right, until         *)
(* something happens that the code lets through.                           *)
(***************************************************************************)
EXTENDS HeartbeatWake, ExecApprovals, AnnounceQueue, LockFile, FiniteSetTheorems, SequenceTheorems, TLAPS

-----------------------------------------------------------------------------
(* Heartbeat wakes *)

Typed ==
    /\ registered \in 0..MaxHandlers /\ handler \in 0..registered
    /\ disposed \subseteq 1..registered
    /\ pendingWakes \in Wakes /\ owed \in Wakes
    /\ timer \in {"none", "normal", "retry"}
    /\ running \in BOOLEAN /\ scheduled \in BOOLEAN
    /\ batch \in [Batch -> [by : 0..MaxHandlers, all : Wakes, left : Wakes]]
    /\ requests \in 0..MaxRequests
    /\ cooling \subseteq Target

\* A batch that is under way has a handler and a wake left, each as it was handed out.
BatchesTrue ==
    \A b \in Batch :
        /\ batch[b] = NoBatch \/ (batch[b].by # 0 /\ batch[b].left # NoWakes)
        /\ \A k \in Target : batch[b].left[k] \in {NoWake, batch[b].all[k]}

\* A timer is set, or a firing noted, only for wakes that are still pending.
TimerTrue == timer # "none" \/ scheduled => pendingWakes # NoWakes

\* One handler has one batch at most, and `running` tells of it.
Alone ==
    /\ registered = 0 => \A b \in Batch : batch[b] = NoBatch
    /\ registered <= 1 =>
          \A b, c \in Batch : batch[b] # NoBatch => running /\ (batch[c] # NoBatch => b = c)

\* The two parts of WakesKept: wakes are somewhere, and something will move them.
Kept ==
    \A k \in Target : owed[k] # NoWake =>
        \/ pendingWakes[k] >= owed[k]
        \/ \E b \in Batch : batch[b].left[k] >= owed[k]
Moving ==
    handler # 0 /\ pendingWakes # NoWakes => timer # "none" \/ \E b \in Batch : batch[b] # NoBatch

WakeInv == Typed /\ BatchesTrue /\ TimerTrue /\ Alone /\ Kept /\ Moving

-----------------------------------------------------------------------------
(* Wakes *)

\* Priorities are numbers of at least 0, and "no wake" is less.
LEMMA PriorityNumbers ==
    /\ NoWake \in Int /\ NoWake \notin Priority
    /\ \A p \in Priority : p \in Int /\ p > NoWake
BY PriorityAssumption DEF NoWake

\* The more urgent of two wakes.
LEMMA UrgentIsMax ==
    ASSUME NEW p \in Priority \cup {NoWake}, NEW q \in Priority \cup {NoWake}
    PROVE  /\ Urgent(p, q) \in Priority \cup {NoWake}
           /\ Urgent(p, q) >= p /\ Urgent(p, q) >= q
           /\ Urgent(p, q) \in {p, q}
           /\ p # NoWake \/ q # NoWake => Urgent(p, q) # NoWake
BY PriorityNumbers DEF Urgent

\* The pending wakes after one has been added.
LEMMA CoalescedWakes ==
    ASSUME NEW w \in Wakes, NEW k \in Target, NEW p \in Priority
    PROVE  /\ Coalesced(w, k, p) \in Wakes
           /\ Coalesced(w, k, p) # NoWakes
           /\ \A j \in Target : Coalesced(w, k, p)[j] >= w[j]
           /\ Coalesced(w, k, p)[k] >= p
           /\ Coalesced(w, k, p) = [w EXCEPT ![k] = Urgent(w[k], p)]
<1>1. /\ w[k] \in Priority \cup {NoWake}
      /\ \A j \in Target : w[j] \in Int
  BY PriorityNumbers DEF Wakes
<1>2. Urgent(w[k], p) \in Priority \cup {NoWake} /\ Urgent(w[k], p) >= w[k]
      /\ Urgent(w[k], p) >= p /\ Urgent(w[k], p) # NoWake
  BY <1>1, UrgentIsMax, PriorityNumbers
<1>3. Coalesced(w, k, p) = [w EXCEPT ![k] = Urgent(w[k], p)]
  BY DEF Coalesced
<1>4. Coalesced(w, k, p)[k] = Urgent(w[k], p)
      /\ \A j \in Target : j # k => Coalesced(w, k, p)[j] = w[j]
  BY <1>3 DEF Wakes
<1>5. Coalesced(w, k, p) \in Wakes
  BY <1>2, <1>3 DEF Wakes
<1>6. Coalesced(w, k, p) # NoWakes
  BY <1>2, <1>4 DEF NoWakes
<1> QED BY <1>1, <1>2, <1>3, <1>4, <1>5, <1>6

\* Rearmed leaves a timer of one of the two kinds.
LEMMA RearmedSets ==
    ASSUME Typed, NEW delay \in {"normal", "retry"}, timer' \in Rearmed(delay)
    PROVE  timer' \in {"normal", "retry"}
BY DEF Rearmed, Typed

-----------------------------------------------------------------------------
(* The steps *)

\* Nothing is requested at first.
LEMMA InitWakeInv == Init => WakeInv
<1> SUFFICES ASSUME Init
             PROVE  WakeInv
  OBVIOUS
<1>1. NoWakes \in Wakes /\ NoBatch \in [by : 0..MaxHandlers, all : Wakes, left : Wakes]
  BY BoundsAssumption DEF Wakes, NoWakes, NoBatch
<1>2. Typed
  <2>1. /\ registered \in 0..MaxHandlers /\ handler \in 0..registered
        /\ requests \in 0..MaxRequests
    BY BoundsAssumption DEF Init
  <2>2. batch \in [Batch -> [by : 0..MaxHandlers, all : Wakes, left : Wakes]]
    BY <1>1 DEF Init
  <2> QED BY <1>1, <2>1, <2>2 DEF Init, Typed
<1>3. BatchesTrue /\ Alone
  BY DEF Init, BatchesTrue, Alone, NoBatch, NoWakes
<1>4. TimerTrue /\ Kept /\ Moving
  BY DEF Init, TimerTrue, Kept, Moving, NoWakes
<1> QED BY <1>2, <1>3, <1>4 DEF WakeInv

\* The wakes of a batch are priorities or none.
LEMMA BatchTypes ==
    ASSUME Typed, NEW b \in Batch
    PROVE  /\ batch[b].by \in 0..MaxHandlers
           /\ batch[b].all \in Wakes /\ batch[b].left \in Wakes
           /\ NoBatch \in [by : 0..MaxHandlers, all : Wakes, left : Wakes]
BY BoundsAssumption DEF Typed, NoBatch, NoWakes, Wakes

\* A request is owed, and pending.
LEMMA RequestKeeps ==
    ASSUME WakeInv, NEW k \in Target, NEW p \in Priority, RequestHeartbeatNow(k, p)
    PROVE  WakeInv'
<1> DEFINE new == Coalesced(pendingWakes, k, p)
<1>0. /\ pendingWakes' = new /\ owed' = [owed EXCEPT ![k] = Urgent(owed[k], p)]
      /\ timer' \in {"normal", "retry"}
      /\ requests' \in 0..MaxRequests
      /\ UNCHANGED <<handler, registered, disposed, running, scheduled, batch, cooling>>
  BY RearmedSets, BoundsAssumption DEF RequestHeartbeatNow, WakeInv, Typed
<1>1. /\ new \in Wakes /\ new # NoWakes /\ new[k] = Urgent(pendingWakes[k], p)
      /\ \A j \in Target : new[j] >= pendingWakes[j] /\ (j # k => new[j] = pendingWakes[j])
  BY CoalescedWakes DEF WakeInv, Typed, Wakes
<1>2. /\ owed[k] \in Priority \cup {NoWake} /\ pendingWakes[k] \in Priority \cup {NoWake}
      /\ owed' \in Wakes /\ owed'[k] = Urgent(owed[k], p)
      /\ \A j \in Target : j # k => owed'[j] = owed[j]
  BY <1>0, UrgentIsMax DEF WakeInv, Typed, Wakes
<1> HIDE DEF new
<1>3. Typed'
  BY <1>0, <1>1, <1>2 DEF WakeInv, Typed
<1>4. Kept'
  <2>1. \A b \in Batch : batch[b].left[k] \in Int
    BY BatchTypes, PriorityNumbers DEF WakeInv, Wakes
  <2>2. \/ new[k] >= owed'[k]
        \/ \E b \in Batch : batch[b].left[k] >= owed'[k]
    BY <1>1, <1>2, <2>1, PriorityNumbers DEF WakeInv, Kept, Urgent
  <2> QED BY <1>0, <1>1, <1>2, <2>2 DEF WakeInv, Kept
<1>5. BatchesTrue' /\ TimerTrue' /\ Alone' /\ Moving'
  BY <1>0, <1>1 DEF WakeInv, BatchesTrue, TimerTrue, Alone, Moving
<1> QED BY <1>3, <1>4, <1>5 DEF WakeInv

\* A new handler finds the pending wakes with a timer.
LEMMA RegistrationKeeps == WakeInv /\ SetHeartbeatWakeHandler => WakeInv'
<1> SUFFICES ASSUME WakeInv, SetHeartbeatWakeHandler
             PROVE  WakeInv'
  OBVIOUS
<1>1. Typed'
  <2>1. /\ registered' \in 0..MaxHandlers /\ handler' \in 0..registered'
        /\ 1..registered \subseteq 1..registered'
    BY BoundsAssumption DEF WakeInv, Typed, SetHeartbeatWakeHandler
  <2>2. timer' \in {"none", "normal", "retry"}
    BY DEF SetHeartbeatWakeHandler
  <2> QED BY <2>1, <2>2 DEF WakeInv, Typed, SetHeartbeatWakeHandler
<1>2. Alone'
  BY DEF WakeInv, Typed, Alone, SetHeartbeatWakeHandler
<1>3. BatchesTrue' /\ TimerTrue' /\ Kept' /\ Moving'
  BY DEF WakeInv, BatchesTrue, TimerTrue, Kept, Moving, SetHeartbeatWakeHandler
<1> QED BY <1>1, <1>2, <1>3 DEF WakeInv

\* Without a handler nothing need move.
LEMMA DisposeKeeps ==
    ASSUME WakeInv, NEW h \in 1..registered, Dispose(h)
    PROVE  WakeInv'
BY BoundsAssumption
   DEF WakeInv, Typed, BatchesTrue, TimerTrue, Alone, Kept, Moving, Dispose

\* A timer that starts no batch.
LEMMA IdleFiringKeeps == WakeInv /\ (FiresUnhandled \/ FiresWhileRunning) => WakeInv'
BY DEF WakeInv, Typed, BatchesTrue, TimerTrue, Alone, Kept, Moving, FiresUnhandled,
       FiresWhileRunning

\* All that is pending goes into the batch.
LEMMA StartKeeps ==
    ASSUME WakeInv, NEW b \in Batch, StartBatch(b)
    PROVE  WakeInv'
<1> DEFINE new == [by |-> handler, all |-> pendingWakes, left |-> pendingWakes]
<1>0. /\ batch[b] = NoBatch /\ ~running /\ handler # 0 /\ timer # "none"
      /\ batch' = [batch EXCEPT ![b] = new]
      /\ pendingWakes' = NoWakes /\ timer' = "none" /\ scheduled' = FALSE /\ running' = TRUE
      /\ cooling' \in {{}, cooling}
      /\ UNCHANGED <<handler, registered, disposed, requests, owed>>
  BY DEF StartBatch, MayStart
<1>1. new \in [by : 0..MaxHandlers, all : Wakes, left : Wakes] /\ NoWakes \in Wakes
  BY BoundsAssumption DEF WakeInv, Typed, Wakes, NoWakes
<1>2. /\ pendingWakes # NoWakes
      /\ batch'[b] = new /\ \A c \in Batch : c # b => batch'[c] = batch[c]
  BY <1>0 DEF WakeInv, TimerTrue, Typed
<1>3. Typed'
  BY <1>0, <1>1 DEF WakeInv, Typed
<1>4. BatchesTrue'
  BY <1>0, <1>2 DEF WakeInv, BatchesTrue
<1>5. Alone'
  BY <1>0, <1>2 DEF WakeInv, Alone, Typed
<1>6. Kept'
  <2> SUFFICES ASSUME NEW k \in Target, owed[k] # NoWake
               PROVE  \E c \in Batch : batch'[c].left[k] >= owed[k]
    BY <1>0 DEF Kept
  <2>1. CASE pendingWakes[k] >= owed[k]
    BY <1>2, <2>1
  <2>2. ASSUME NEW c \in Batch, batch[c].left[k] >= owed[k]
        PROVE  \E d \in Batch : batch'[d].left[k] >= owed[k]
    <3>1. owed[k] \in Priority
      BY DEF WakeInv, Typed, Wakes
    <3>2. c # b
      BY <1>0, <2>2, <3>1, PriorityNumbers DEF NoBatch, NoWakes
    <3> QED BY <1>2, <2>2, <3>2
  <2> QED BY <2>1, <2>2 DEF WakeInv, Kept
<1>7. TimerTrue' /\ Moving'
  BY <1>0 DEF TimerTrue, Moving
<1> QED BY <1>3, <1>4, <1>5, <1>6, <1>7 DEF WakeInv

-----------------------------------------------------------------------------
(* Answers *)

\* What RemoveWake leaves of a batch.
LEMMA RemoveMoves ==
    ASSUME WakeInv, NEW b \in Batch, NEW k \in Target, Waiting(b, k), RemoveWake(b, k)
    PROVE  /\ batch' \in [Batch -> [by : 0..MaxHandlers, all : Wakes, left : Wakes]]
           /\ BatchesTrue'
           /\ running' \in BOOLEAN
           /\ \A c \in Batch : c # b => batch'[c] = batch[c]
           /\ batch[b] # NoBatch /\ (LastAnswer(b, k) <=> batch'[b] = NoBatch)
           /\ \A j \in Target : j # k => batch'[b].left[j] = batch[b].left[j]
           /\ batch'[b].left[k] = NoWake
           /\ running' = IF LastAnswer(b, k) THEN FALSE ELSE running
<1> DEFINE left == Without(b, k)
           new == IF LastAnswer(b, k) THEN NoBatch ELSE [batch[b] EXCEPT !.left = left]
<1>0. batch' = [batch EXCEPT ![b] = new] /\ running' = IF LastAnswer(b, k) THEN FALSE ELSE running
  BY DEF RemoveWake
<1>1. /\ batch[b].by \in 0..MaxHandlers /\ batch[b].all \in Wakes /\ batch[b].left \in Wakes
      /\ NoBatch \in [by : 0..MaxHandlers, all : Wakes, left : Wakes]
  BY BatchTypes DEF WakeInv
<1>2. left \in Wakes /\ left[k] = NoWake /\ \A j \in Target : j # k => left[j] = batch[b].left[j]
  BY <1>1 DEF Without, Wakes
<1>3. batch[b] # NoBatch
  BY DEF Waiting, NoBatch, NoWakes
<1>4. batch[b] \in [by : 0..MaxHandlers, all : Wakes, left : Wakes]
  BY DEF WakeInv, Typed
<1>5. /\ ~LastAnswer(b, k) => /\ new = [batch[b] EXCEPT !.left = left]
                        /\ new.by = batch[b].by /\ new.all = batch[b].all /\ new.left = left
                        /\ left # NoWakes
      /\ LastAnswer(b, k) => new = NoBatch /\ left = NoWakes
  BY <1>4 DEF LastAnswer
<1> HIDE DEF new, left
<1>6. batch'[b] = new /\ \A c \in Batch : c # b => batch'[c] = batch[c]
  BY <1>0 DEF WakeInv, Typed
<1>7. batch' \in [Batch -> [by : 0..MaxHandlers, all : Wakes, left : Wakes]]
  <2>1. new \in [by : 0..MaxHandlers, all : Wakes, left : Wakes]
    BY <1>1, <1>2, <1>4, <1>5
  <2> QED BY <1>0, <2>1 DEF WakeInv, Typed
<1>8. new = NoBatch <=> LastAnswer(b, k)
  BY <1>5 DEF NoBatch
<1>9. new.left = left
  BY <1>5 DEF NoBatch
<1>10. BatchesTrue'
  <2>1. new = NoBatch \/ (new.by # 0 /\ new.left # NoWakes)
    BY <1>3, <1>5 DEF WakeInv, BatchesTrue
  <2>2. \A j \in Target : new.left[j] \in {NoWake, new.all[j]}
    BY <1>2, <1>5 DEF WakeInv, BatchesTrue, NoBatch, NoWakes
  <2> QED BY <1>6, <2>1, <2>2 DEF WakeInv, BatchesTrue
<1>11. running' \in BOOLEAN
  BY <1>0 DEF WakeInv, Typed
<1> QED BY <1>0, <1>2, <1>3, <1>6, <1>7, <1>8, <1>9, <1>10, <1>11

\* A batch that goes on or ends leaves its handler with one batch at most.
LEMMA RemoveKeepsAlone ==
    ASSUME WakeInv, NEW b \in Batch, batch[b] # NoBatch, registered' = registered,
           \A c \in Batch : c # b => batch'[c] = batch[c],
           batch'[b] # NoBatch => running' = running
    PROVE  Alone'
BY DEF WakeInv, Alone, Typed

\* An answer pays what it answers, and leaves what has been asked since.
LEMMA AnsweredKeeps ==
    ASSUME WakeInv, NEW b \in Batch, NEW k \in Target, Answered(b, k)
    PROVE  WakeInv'
<1>0. /\ Waiting(b, k) /\ RemoveWake(b, k)
      /\ owed' = [owed EXCEPT ![k] = IF batch[b].left[k] >= owed[k] THEN pendingWakes[k]
                                     ELSE owed[k]]
      /\ UNCHANGED <<handler, registered, disposed, pendingWakes, scheduled, requests, cooling>>
      /\ IF LastAnswer(b, k) /\ (pendingWakes # NoWakes \/ scheduled)
         THEN timer' \in {"normal", "retry"} ELSE timer' = timer
  BY RearmedSets DEF Answered, WakeInv
<1>1. /\ batch' \in [Batch -> [by : 0..MaxHandlers, all : Wakes, left : Wakes]]
      /\ BatchesTrue' /\ running' \in BOOLEAN
      /\ \A c \in Batch : c # b => batch'[c] = batch[c]
      /\ batch[b] # NoBatch /\ (LastAnswer(b, k) <=> batch'[b] = NoBatch)
      /\ \A j \in Target : j # k => batch'[b].left[j] = batch[b].left[j]
      /\ running' = IF LastAnswer(b, k) THEN FALSE ELSE running
  BY <1>0, RemoveMoves
<1>2. /\ owed' \in Wakes
      /\ owed'[k] = IF batch[b].left[k] >= owed[k] THEN pendingWakes[k] ELSE owed[k]
      /\ \A j \in Target : j # k => owed'[j] = owed[j]
  BY <1>0 DEF WakeInv, Typed, Wakes
<1>3. Typed'
  BY <1>0, <1>1, <1>2 DEF WakeInv, Typed
<1>4. Alone'
  BY <1>0, <1>1, RemoveKeepsAlone
<1>5. Kept'
  <2>1. ASSUME NEW j \in Target, j # k, owed'[j] # NoWake
        PROVE  \/ pendingWakes'[j] >= owed'[j]
               \/ \E c \in Batch : batch'[c].left[j] >= owed'[j]
    <3>1. \A c \in Batch : batch'[c].left[j] = batch[c].left[j]
      BY <1>1, <2>1
    <3> QED BY <1>0, <1>2, <2>1, <3>1 DEF WakeInv, Kept
  <2>2. ASSUME owed'[k] # NoWake
        PROVE  \/ pendingWakes'[k] >= owed'[k]
               \/ \E c \in Batch : batch'[c].left[k] >= owed'[k]
    <3>1. CASE batch[b].left[k] >= owed[k]
      <4>1. pendingWakes[k] \in Int
        BY PriorityNumbers DEF WakeInv, Typed, Wakes
      <4> QED BY <1>0, <1>2, <3>1, <4>1
    <3>2. CASE ~(batch[b].left[k] >= owed[k])
      BY <1>0, <1>1, <1>2, <2>2, <3>2 DEF WakeInv, Kept
    <3> QED BY <3>1, <3>2
  <2> QED BY <2>1, <2>2 DEF Kept
<1>6. TimerTrue' /\ Moving'
  BY <1>0, <1>1 DEF WakeInv, TimerTrue, Moving
<1> QED BY <1>1, <1>3, <1>4, <1>5, <1>6 DEF WakeInv

\* A wake that finds the lane busy is pending again, before it leaves its batch.
LEMMA BusyKeeps ==
    ASSUME WakeInv, NEW b \in Batch, NEW k \in Target, AnsweredBusy(b, k)
    PROVE  WakeInv'
<1> DEFINE p == batch[b].left[k]
           new == Coalesced(pendingWakes, k, p)
<1>0. /\ Waiting(b, k) /\ RemoveWake(b, k)
      /\ pendingWakes' = new /\ cooling' = cooling \cup {k}
      /\ timer' \in {"normal", "retry"}
      /\ UNCHANGED <<handler, registered, disposed, scheduled, requests, owed>>
  BY RearmedSets DEF AnsweredBusy, Retry, WakeInv
<1>1. /\ batch' \in [Batch -> [by : 0..MaxHandlers, all : Wakes, left : Wakes]]
      /\ BatchesTrue' /\ running' \in BOOLEAN
      /\ \A c \in Batch : c # b => batch'[c] = batch[c]
      /\ batch[b] # NoBatch /\ (LastAnswer(b, k) <=> batch'[b] = NoBatch)
      /\ \A j \in Target : j # k => batch'[b].left[j] = batch[b].left[j]
      /\ running' = IF LastAnswer(b, k) THEN FALSE ELSE running
  BY <1>0, RemoveMoves
<1>2. p \in Priority
  BY <1>0, BatchTypes DEF WakeInv, Waiting, Wakes
<1>3. /\ new \in Wakes /\ new # NoWakes /\ new[k] >= p
      /\ \A j \in Target : new[j] >= pendingWakes[j]
  BY <1>2, CoalescedWakes DEF WakeInv, Typed
<1> HIDE DEF p, new
<1>4. Typed'
  BY <1>0, <1>1, <1>3 DEF WakeInv, Typed
<1>5. Alone'
  BY <1>0, <1>1, RemoveKeepsAlone
<1>6. Kept'
  <2> SUFFICES ASSUME NEW j \in Target, owed[j] # NoWake
               PROVE  \/ new[j] >= owed[j]
                      \/ \E c \in Batch : batch'[c].left[j] >= owed[j]
    BY <1>0 DEF Kept
  <2>0. owed[j] \in Int /\ pendingWakes[j] \in Int /\ new[j] \in Int
    BY <1>3, PriorityNumbers DEF WakeInv, Typed, Wakes
  <2>1. CASE pendingWakes[j] >= owed[j]
    BY <1>3, <2>0, <2>1
  <2>2. ASSUME NEW c \in Batch, batch[c].left[j] >= owed[j]
        PROVE  \/ new[j] >= owed[j]
               \/ \E d \in Batch : batch'[d].left[j] >= owed[j]
    <3>1. CASE c = b /\ j = k
      <4>1. p \in Int /\ p >= owed[k]
        BY <1>2, <2>2, <3>1, PriorityNumbers DEF p
      <4> QED BY <1>3, <2>0, <3>1, <4>1
    <3>2. CASE c # b \/ j # k
      BY <1>1, <2>2, <3>2
    <3> QED BY <3>1, <3>2
  <2> QED BY <2>1, <2>2 DEF WakeInv, Kept
<1>7. TimerTrue' /\ Moving'
  BY <1>0, <1>3 DEF TimerTrue, Moving
<1> QED BY <1>1, <1>4, <1>5, <1>6, <1>7 DEF WakeInv

\* After a throw all of the batch is pending again.
LEMMA ThrowKeeps ==
    ASSUME WakeInv, NEW b \in Batch, NEW k \in Target, AnswerThrows(b, k)
    PROVE  WakeInv'
<1> DEFINE new == [j \in Target |-> Urgent(pendingWakes[j], batch[b].all[j])]
<1>0. /\ Waiting(b, k) /\ batch' = [batch EXCEPT ![b] = NoBatch] /\ running' = FALSE
      /\ pendingWakes' = new /\ cooling' \subseteq cooling \cup Target
      /\ timer' \in {"normal", "retry"}
      /\ UNCHANGED <<handler, registered, disposed, scheduled, requests, owed>>
  BY RearmedSets DEF AnswerThrows, Retry, WakeInv
<1>1. batch[b].all \in Wakes /\ NoBatch \in [by : 0..MaxHandlers, all : Wakes, left : Wakes]
  BY BatchTypes DEF WakeInv
<1>2. \A j \in Target :
         /\ pendingWakes[j] \in Priority \cup {NoWake} /\ batch[b].all[j] \in Priority \cup {NoWake}
         /\ new[j] \in Priority \cup {NoWake}
         /\ new[j] >= pendingWakes[j] /\ new[j] >= batch[b].all[j]
         /\ batch[b].all[j] # NoWake => new[j] # NoWake
  BY <1>1, UrgentIsMax DEF WakeInv, Typed, Wakes
<1>3. new \in Wakes
  BY <1>2 DEF Wakes
<1>4. batch[b] # NoBatch /\ batch[b].all[k] # NoWake
  BY <1>0 DEF Waiting, NoBatch, NoWakes, WakeInv, BatchesTrue
<1>5. new # NoWakes
  BY <1>2, <1>4 DEF NoWakes
<1> HIDE DEF new
<1>6. batch'[b] = NoBatch /\ \A c \in Batch : c # b => batch'[c] = batch[c]
  BY <1>0 DEF WakeInv, Typed
<1>7. Typed'
  BY <1>0, <1>1, <1>3 DEF WakeInv, Typed
<1>8. Alone'
  BY <1>0, <1>4, <1>6, RemoveKeepsAlone
<1>9. Kept'
  <2> SUFFICES ASSUME NEW j \in Target, owed[j] # NoWake
               PROVE  \/ new[j] >= owed[j]
                      \/ \E c \in Batch : batch'[c].left[j] >= owed[j]
    BY <1>0 DEF Kept
  <2>0. owed[j] \in Int /\ owed[j] > NoWake /\ pendingWakes[j] \in Int /\ new[j] \in Int
        /\ batch[b].all[j] \in Int /\ NoWake \in Int
    BY <1>2, <1>3, PriorityNumbers DEF WakeInv, Typed, Wakes
  <2>1. CASE pendingWakes[j] >= owed[j]
    BY <1>2, <2>0, <2>1
  <2>2. ASSUME NEW c \in Batch, batch[c].left[j] >= owed[j]
        PROVE  \/ new[j] >= owed[j]
               \/ \E d \in Batch : batch'[d].left[j] >= owed[j]
    <3>1. CASE c = b
      <4>1. batch[b].left[j] = batch[b].all[j]
        BY <2>0, <2>2, <3>1 DEF WakeInv, BatchesTrue
      <4> QED BY <1>2, <2>0, <2>2, <3>1, <4>1
    <3>2. CASE c # b
      BY <1>6, <2>2, <3>2
    <3> QED BY <3>1, <3>2
  <2> QED BY <2>1, <2>2 DEF WakeInv, Kept
<1>10. TimerTrue' /\ Moving'
  BY <1>0, <1>5 DEF TimerTrue, Moving
<1>11. BatchesTrue'
  BY <1>6 DEF WakeInv, BatchesTrue, NoBatch, NoWakes
<1> QED BY <1>7, <1>8, <1>9, <1>10, <1>11 DEF WakeInv

-----------------------------------------------------------------------------
(* The theorems *)

\* Every step keeps the invariant.
LEMMA NextWakeInv == WakeInv /\ [Next]_vars => WakeInv'
<1>1. WakeInv /\ UNCHANGED vars => WakeInv'
  BY DEF vars, WakeInv, Typed, BatchesTrue, TimerTrue, Alone, Kept, Moving
<1> QED
  BY <1>1, RequestKeeps, RegistrationKeeps, DisposeKeeps, IdleFiringKeeps, StartKeeps,
     AnsweredKeeps, BusyKeeps, ThrowKeeps DEF Next, Fires

\* The inductive invariant of the scheduler (heartbeat-wake.ts).
THEOREM WakeInvariant == Spec => []WakeInv
<1>1. Init => WakeInv
  BY InitWakeInv
<1>2. WakeInv /\ [Next]_vars => WakeInv'
  BY NextWakeInv
<1> QED BY <1>1, <1>2, PTL DEF Spec

\* Two heartbeats never run at once until a second registration forgets the first batch
\* (`running` in schedule's callback, setHeartbeatWakeHandler).
THEOREM BatchesAlone == Spec => []OneBatch
<1>1. WakeInv => OneBatch
  <2> SUFFICES ASSUME WakeInv, registered <= 1
               PROVE  Cardinality({b \in Batch : batch[b] # NoBatch}) <= 1
    BY DEF OneBatch
  <2> DEFINE S == {b \in Batch : batch[b] # NoBatch}
  <2>1. CASE S = {}
    BY <2>1, FS_EmptySet
  <2>2. ASSUME NEW b \in S
        PROVE  Cardinality(S) = 1
    <3>1. S = {b}
      BY DEF WakeInv, Alone
    <3> QED BY <3>1, FS_Singleton
  <2> QED BY <2>1, <2>2
<1> QED BY <1>1, WakeInvariant, PTL

\* No wake is lost or loses its urgency, and none sits still beside a handler, across
\* retries, throws and registrations (queuePendingWakeReason, schedule).
THEOREM WakesAreKept == Spec => []WakesKept
<1>1. WakeInv => TypeOK
  <2> SUFFICES ASSUME WakeInv, NEW b \in Batch
               PROVE  (batch[b].by = 0) <=> (batch[b].left = NoWakes)
    BY DEF WakeInv, Typed, TypeOK
  <2> QED BY DEF WakeInv, BatchesTrue, NoBatch
<1>2. WakeInv /\ OneBatch => WakesKept
  BY <1>1 DEF WakeInv, Kept, Moving, WakesKept
<1> QED BY <1>2, WakeInvariant, BatchesAlone, PTL

-----------------------------------------------------------------------------
(* Approvals *)

\* A registration to come has left no trace.
Untouched(r) ==
    /\ record[r] = Fresh /\ promise[r] = "open"
    /\ asker[r] = "idle" /\ waitsOn[r] = 0 /\ answer[r] = "none"
    /\ ruling[r] = "none" /\ runs[r] = 0

\* What a record says follows from whether, and how, an operator ruled; an allow-once that
\* was consumed has lost its decision, but not who ruled.
RecordTrue(r) ==
    /\ ~record[r].resolved => promise[r] = "open" /\ record[r] = Fresh
    /\ record[r].resolved /\ ruling[r] = "none" =>
          /\ promise[r] = "null" /\ record[r].decision = "undefined"
          /\ record[r].by # "operator"
    /\ ruling[r] # "none" =>
          /\ promise[r] = ruling[r]
          /\ record[r].resolved /\ record[r].by = "operator"
          /\ record[r].decision = ruling[r]
             \/ (ruling[r] = "allow-once" /\ record[r].decision = "undefined")

\* The runs that a record has let through.
RunsTrue(r) ==
    /\ runs[r] > 0 /\ ruling[r] = "none" => record[r].by = "null"
    /\ ruling[r] = "allow-once" =>
          runs[r] <= (IF record[r].decision = "allow-once" THEN 0 ELSE 1)
    /\ ruling[r] = "deny" => runs[r] = 0

\* An asker waits for the promise that was in the map when it came, and is told what it
\* resolved to.
AskerTrue(r) ==
    /\ asker[r] = "waiting" => waitsOn[r] # 0
    /\ asker[r] # "answered" => answer[r] = "none"
    /\ answer[r] \in Decision \cup {"null"} =>
          waitsOn[r] # 0 /\ promise[waitsOn[r]] = answer[r]
    /\ waitsOn[r] <= registrations
    /\ waitsOn[r] \notin {0, r} => entry # r

ApprovalInv ==
    /\ ApprovalTypeOK
    /\ \A r \in Registration :
          /\ r > registrations => Untouched(r)
          /\ RecordTrue(r)
          /\ RunsTrue(r)
          /\ AskerTrue(r)

-----------------------------------------------------------------------------
\* Nothing is registered yet.
LEMMA InitInv == ApprovalInit => ApprovalInv
<1> SUFFICES ASSUME ApprovalInit PROVE ApprovalInv
  OBVIOUS
<1>1. ApprovalTypeOK
  BY RegistrationsAssumption
  DEF ApprovalInit, ApprovalTypeOK, Decision, Record, Place, Outcome, Fresh
<1> QED
  BY <1>1 DEF ApprovalInit, ApprovalInv, Untouched, RecordTrue, RunsTrue, AskerTrue, Fresh,
              Decision

\* The invariant is strong enough for the property of the runs.
LEMMA InvImplies == ApprovalInv => ApprovalsHonoured
<1> SUFFICES ASSUME ApprovalInv, NEW r \in Registration
             PROVE  /\ ruling[r] = "allow-once" => runs[r] <= 1
                    /\ runs[r] > 0 /\ ruling[r] = "none" => record[r].by = "null"
                    /\ runs[r] > 0 => ruling[r] # "deny"
                    /\ ruling[r] # "none" => promise[r] = ruling[r]
                    /\ waitsOn[r] \notin {0, r} => entry # r
                    /\ answer[r] \in Decision => answer[r] = ruling[waitsOn[r]]
                    /\ answer[r] = "null" => ruling[waitsOn[r]] = "none"
  BY DEF ApprovalInv, ApprovalsHonoured
<1> /\ runs[r] \in 0..2 /\ waitsOn[r] \in 0..MaxRegistrations
    /\ RecordTrue(r) /\ RunsTrue(r) /\ AskerTrue(r)
  BY DEF ApprovalInv, ApprovalTypeOK
<1>1. /\ ruling[r] = "allow-once" => runs[r] <= 1
      /\ runs[r] > 0 /\ ruling[r] = "none" => record[r].by = "null"
      /\ runs[r] > 0 => ruling[r] # "deny"
  BY DEF RunsTrue
<1>2. ruling[r] # "none" => promise[r] = ruling[r]
  BY DEF RecordTrue
<1>3. waitsOn[r] \notin {0, r} => entry # r
  BY DEF AskerTrue
<1>4. ASSUME answer[r] \in Decision \cup {"null"}
      PROVE  /\ answer[r] \in Decision => answer[r] = ruling[waitsOn[r]]
             /\ answer[r] = "null" => ruling[waitsOn[r]] = "none"
  <2>1. waitsOn[r] \in Registration /\ promise[waitsOn[r]] = answer[r]
    BY <1>4, RegistrationsAssumption DEF AskerTrue, Registration
  <2>2. RecordTrue(waitsOn[r]) /\ ruling[waitsOn[r]] \in Decision \cup {"none"}
    BY <2>1 DEF ApprovalInv, ApprovalTypeOK
  <2> QED
    BY <1>4, <2>1, <2>2 DEF RecordTrue, Decision
<1> QED
  BY <1>1, <1>2, <1>3, <1>4 DEF Decision
-----------------------------------------------------------------------------
(* What resolve and expire do to the entry *)

\* Either rules as an operator, or expires without a decision.
Rules(d, by) ==
    \/ d \in Decision /\ by = "operator" /\ ruling' = [ruling EXCEPT ![entry] = d]
    \/ d = "undefined" /\ by \in {"null", "no-approval-route"} /\ ruling' = ruling

\* The entry of the map is a registration that was made.
LEMMA EntryIn ==
    ASSUME ApprovalTypeOK, entry # 0
    PROVE  /\ entry \in Registration /\ entry <= registrations
           /\ \A s \in Registration : s > registrations => s # entry
<1>1. /\ registrations \in 0..MaxRegistrations /\ entry \in 0..registrations
  BY DEF ApprovalTypeOK
<1> QED
  BY <1>1, RegistrationsAssumption DEF Registration

\* resolve keeps types.
LEMMA ResolveEntryType ==
    ASSUME ApprovalTypeOK, Open, NEW d, NEW by, Rules(d, by), ResolveEntry(d, by)
    PROVE  /\ record' \in [Registration -> Record]
           /\ promise' \in [Registration -> Decision \cup {"open", "null"}]
           /\ ruling' \in [Registration -> Decision \cup {"none"}]
           /\ expiryTimers' \subseteq Registration /\ graceTimers' \subseteq Registration
<1>1. entry \in Registration
  BY EntryIn DEF Open
<1>2. [resolved |-> TRUE, decision |-> d, by |-> by] \in Record
  BY DEF Rules, Record
<1>3. (IF d = "undefined" THEN "null" ELSE d) \in Decision \cup {"open", "null"}
  BY DEF Rules
<1>4. record' \in [Registration -> Record]
  BY <1>1, <1>2 DEF ResolveEntry, ApprovalTypeOK
<1>5. promise' \in [Registration -> Decision \cup {"open", "null"}]
  BY <1>1, <1>3 DEF ResolveEntry, ApprovalTypeOK, Settled
<1>6. ruling' \in [Registration -> Decision \cup {"none"}]
  BY <1>1 DEF Rules, ApprovalTypeOK
<1> QED
  BY <1>1, <1>4, <1>5, <1>6 DEF ResolveEntry, ApprovalTypeOK

\* What a record says stays true; no promise that was resolved changes.
LEMMA ResolveEntryTrue ==
    ASSUME ApprovalInv, Open, NEW d, NEW by, Rules(d, by), ResolveEntry(d, by), runs' = runs,
           NEW s \in Registration
    PROVE  /\ s > registrations => record'[s] = record[s] /\ promise'[s] = promise[s]
                                   /\ ruling'[s] = ruling[s]
           /\ RecordTrue(s)' /\ RunsTrue(s)'
           /\ promise[s] # "open" => promise'[s] = promise[s]
<1>1. entry \in Registration /\ entry <= registrations /\ ~record[entry].resolved
  BY EntryIn DEF Open, ApprovalInv
<1>2. RecordTrue(s) /\ RunsTrue(s) /\ RecordTrue(entry) /\ RunsTrue(entry)
  BY <1>1 DEF ApprovalInv
<1>3. CASE s # entry
  <2>1. record'[s] = record[s] /\ promise'[s] = promise[s] /\ ruling'[s] = ruling[s]
    BY <1>1, <1>3 DEF ResolveEntry, Settled, Rules, ApprovalInv, ApprovalTypeOK
  <2> QED
    BY <1>2, <2>1 DEF RecordTrue, RunsTrue
<1>4. CASE s = entry
  <2>1. /\ record'[s] = [resolved |-> TRUE, decision |-> d, by |-> by]
        /\ promise'[s] = IF d = "undefined" THEN "null" ELSE d
    BY <1>1, <1>4 DEF ResolveEntry, Settled, ApprovalInv, ApprovalTypeOK
  <2>2. /\ promise[s] = "open" /\ ruling[s] = "none"
        /\ runs[s] = 0 /\ ~(s > registrations)
    <3>1. record[s] = Fresh /\ promise[s] = "open" /\ ruling[s] = "none"
      BY <1>1, <1>2, <1>4 DEF RecordTrue
    <3>2. runs[s] \in 0..2
      BY DEF ApprovalInv, ApprovalTypeOK
    <3>3. runs[s] = 0
      BY <1>2, <1>4, <3>1, <3>2 DEF RunsTrue, Fresh
    <3> QED
      BY <1>4, <3>1, <3>3, EntryIn DEF Open, ApprovalInv
  <2>3. ruling'[s] = IF d \in Decision THEN d ELSE "none"
    BY <1>1, <1>4, <2>2 DEF Rules, ApprovalInv, ApprovalTypeOK, Decision
  <2>4. RecordTrue(s)'
    BY <2>1, <2>3 DEF RecordTrue, Rules, Decision
  <2>5. RunsTrue(s)'
    BY <2>2 DEF RunsTrue
  <2> QED
    BY <2>2, <2>4, <2>5
<1> QED
  BY <1>3, <1>4

\* The same of expire, which does nothing to an entry that is resolved, or gone.
LEMMA ExpireEntryTrue ==
    ASSUME ApprovalInv, NEW by \in {"null", "no-approval-route"}, ExpireEntry(by),
           runs' = runs, ruling' = ruling
    PROVE  /\ record' \in [Registration -> Record]
           /\ promise' \in [Registration -> Decision \cup {"open", "null"}]
           /\ expiryTimers' \subseteq Registration /\ graceTimers' \subseteq Registration
           /\ \A s \in Registration :
                 /\ s > registrations => record'[s] = record[s] /\ promise'[s] = promise[s]
                 /\ RecordTrue(s)' /\ RunsTrue(s)'
                 /\ promise[s] # "open" => promise'[s] = promise[s]
<1>1. CASE Open
  <2>1. Rules("undefined", by) /\ ResolveEntry("undefined", by)
    BY <1>1 DEF ExpireEntry, Rules
  <2> QED
    BY <1>1, <2>1, ResolveEntryType, ResolveEntryTrue DEF ApprovalInv
<1>2. CASE ~Open
  BY <1>2 DEF ExpireEntry, ApprovalInv, ApprovalTypeOK, RecordTrue, RunsTrue
<1> QED
  BY <1>1, <1>2

-----------------------------------------------------------------------------
(* Every step *)

\* An asker whose own part does not change stays true to what it was told.
LEMMA AskerKept ==
    ASSUME ApprovalInv, NEW s \in Registration,
           asker'[s] = asker[s], waitsOn'[s] = waitsOn[s], answer'[s] = answer[s],
           registrations' = registrations, entry' \in {entry, 0},
           \A r \in Registration : promise[r] # "open" => promise'[r] = promise[r]
    PROVE  AskerTrue(s)'
<1>1. AskerTrue(s) /\ waitsOn[s] \in 0..MaxRegistrations /\ s # 0
  BY RegistrationsAssumption DEF ApprovalInv, ApprovalTypeOK, Registration
<1>2. waitsOn[s] # 0 => waitsOn[s] \in Registration
  BY <1>1, RegistrationsAssumption DEF Registration
<1> QED
  BY <1>1, <1>2 DEF AskerTrue, Decision

\* Every step keeps the invariant: one case per action.
LEMMA StepInv == ApprovalInv /\ [ApprovalNext]_approvalVars => ApprovalInv'
<1> SUFFICES ASSUME ApprovalInv, [ApprovalNext]_approvalVars PROVE ApprovalInv'
  OBVIOUS
<1> USE RegistrationsAssumption
<1>t. ApprovalTypeOK
  BY DEF ApprovalInv
<1>i. ASSUME NEW s \in Registration
      PROVE  /\ s > registrations => Untouched(s)
             /\ RecordTrue(s) /\ RunsTrue(s) /\ AskerTrue(s)
  BY DEF ApprovalInv
<1>1. ASSUME Request PROVE ApprovalInv'
  <2> DEFINE r == registrations + 1
  <2>1. /\ r \in Registration /\ registrations' = r /\ entry' = r
        /\ asker' = [asker EXCEPT ![r] = "forwarding"]
    BY <1>t, <1>1 DEF Request, ApprovalTypeOK, Registration
  <2>2. asker' \in [Registration -> Place]
    BY <1>t, <2>1 DEF ApprovalTypeOK, Place
  <2>3. ApprovalTypeOK'
    BY <1>t, <1>1, <2>1, <2>2 DEF Request, ApprovalTypeOK, Registration
  <2>4. ASSUME NEW s \in Registration
        PROVE  /\ s > registrations' => Untouched(s)'
               /\ RecordTrue(s)' /\ RunsTrue(s)' /\ AskerTrue(s)'
    <3>1. /\ record'[s] = record[s] /\ promise'[s] = promise[s] /\ ruling'[s] = ruling[s]
          /\ runs'[s] = runs[s] /\ waitsOn' = waitsOn /\ answer'[s] = answer[s]
          /\ promise' = promise
          /\ asker'[s] = IF s = r THEN "forwarding" ELSE asker[s]
      BY <1>t, <1>1, <2>1 DEF Request, ApprovalTypeOK
    <3>2. s > registrations' => s > registrations /\ s # r
      BY <1>t, <2>1 DEF ApprovalTypeOK, Registration
    <3>3. s > registrations' => Untouched(s)'
      BY <1>i, <3>1, <3>2 DEF Untouched, Fresh
    <3>4. RecordTrue(s)' /\ RunsTrue(s)'
      BY <1>i, <3>1 DEF RecordTrue, RunsTrue, Fresh, Decision
    <3>5. AskerTrue(s)'
      <4>1. AskerTrue(s) /\ waitsOn[s] \in 0..MaxRegistrations /\ (s = r => waitsOn[s] = 0)
        BY <1>i, <1>t, <2>1 DEF ApprovalTypeOK, Untouched, Registration
      <4>2. waitsOn[s] <= registrations' /\ registrations' # 0
        <5>1. registrations \in Nat /\ waitsOn[s] \in Nat /\ waitsOn[s] <= registrations
          BY <1>t, <4>1 DEF ApprovalTypeOK, AskerTrue
        <5> QED BY <5>1, <2>1
      <4>3. CASE s = r
        <5>1. answer[s] = "none"
          BY <1>i, <1>t, <2>1, <4>3 DEF ApprovalTypeOK, Untouched
        <5> QED BY <4>1, <4>2, <4>3, <5>1, <3>1 DEF AskerTrue, Decision
      <4>4. CASE s # r
        BY <4>1, <4>2, <4>4, <2>1, <3>1 DEF AskerTrue
      <4> QED BY <4>3, <4>4
    <3> QED BY <3>3, <3>4, <3>5
  <2> QED BY <2>3, <2>4 DEF ApprovalInv
<1>2. ASSUME NEW r \in Registration, NoRoute(r) PROVE ApprovalInv'
  <2>1. /\ ExpireEntry("no-approval-route") /\ runs' = runs /\ ruling' = ruling
        /\ asker[r] = "forwarding"
        /\ asker' = [asker EXCEPT ![r] = "answered"]
        /\ answer' = [answer EXCEPT ![r] = "no route"]
        /\ waitsOn' = waitsOn /\ registrations' = registrations /\ entry' = entry
    BY <1>2 DEF NoRoute, Tell
  <2>2. /\ asker' \in [Registration -> Place] /\ answer' \in [Registration -> Outcome]
        /\ record' \in [Registration -> Record]
        /\ promise' \in [Registration -> Decision \cup {"open", "null"}]
        /\ expiryTimers' \subseteq Registration /\ graceTimers' \subseteq Registration
    BY <1>t, <2>1, ExpireEntryTrue DEF ApprovalTypeOK, Place, Outcome
  <2>3. ApprovalTypeOK'
    BY <1>t, <1>2, <2>1, <2>2 DEF NoRoute, ApprovalTypeOK
  <2>4. ASSUME NEW s \in Registration
        PROVE  /\ s > registrations' => Untouched(s)'
               /\ RecordTrue(s)' /\ RunsTrue(s)' /\ AskerTrue(s)'
    <3>1. /\ s > registrations => record'[s] = record[s] /\ promise'[s] = promise[s]
          /\ RecordTrue(s)' /\ RunsTrue(s)'
          /\ \A q \in Registration : promise[q] # "open" => promise'[q] = promise[q]
      BY <2>1, ExpireEntryTrue
    <3>2. CASE s = r
      <4>1. asker'[s] = "answered" /\ answer'[s] = "no route" /\ ~(s > registrations)
        BY <1>i, <1>t, <2>1, <3>2 DEF ApprovalTypeOK, Untouched
      <4>2. AskerTrue(s)'
        BY <1>i, <2>1, <4>1 DEF AskerTrue, Decision
      <4> QED BY <2>1, <3>1, <4>1, <4>2
    <3>3. CASE s # r
      <4>1. asker'[s] = asker[s] /\ answer'[s] = answer[s]
        BY <1>t, <2>1, <3>3 DEF ApprovalTypeOK
      <4>2. AskerTrue(s)'
        BY <2>1, <3>1, <4>1, AskerKept
      <4>3. s > registrations' => Untouched(s)'
        BY <1>i, <2>1, <3>1, <4>1 DEF Untouched, Fresh
      <4> QED BY <3>1, <4>2, <4>3
    <3> QED BY <3>2, <3>3
  <2> QED BY <2>3, <2>4 DEF ApprovalInv
<1>3. ASSUME NEW r \in Registration, Routed(r) PROVE ApprovalInv'
  <2>1. /\ record' = record /\ promise' = promise /\ runs' = runs /\ ruling' = ruling
        /\ registrations' = registrations /\ entry' = entry
        /\ asker[r] # "idle"
        /\ \A s \in Registration \ {r} :
              asker'[s] = asker[s] /\ answer'[s] = answer[s] /\ waitsOn'[s] = waitsOn[s]
    BY <1>t, <1>3 DEF Routed, ApprovalTypeOK
  <2>2. /\ asker' \in [Registration -> Place] /\ answer' \in [Registration -> Outcome]
        /\ waitsOn' \in [Registration -> 0..MaxRegistrations]
    <3>1. answer' \in [Registration -> Outcome]
      BY <1>t, <1>3 DEF Routed, ApprovalTypeOK
    <3>2. asker' \in [Registration -> Place]
      BY <1>t, <1>3 DEF Routed, ApprovalTypeOK, Place
    <3>3. r \in 0..MaxRegistrations
      BY DEF Registration
    <3>4. waitsOn' = waitsOn \/ waitsOn' = [waitsOn EXCEPT ![r] = r]
      BY <1>3 DEF Routed
    <3>5. waitsOn' \in [Registration -> 0..MaxRegistrations]
      BY <1>t, <3>3, <3>4 DEF ApprovalTypeOK
    <3> QED BY <3>1, <3>2, <3>5
  <2>3. ApprovalTypeOK'
    BY <1>t, <1>3, <2>1, <2>2 DEF Routed, ApprovalTypeOK
  <2>4. AskerTrue(r)' /\ ~(r > registrations)
    <3>1. /\ ~(r > registrations) /\ r # 0 /\ r \in Nat /\ r <= registrations
          /\ waitsOn'[r] \in {waitsOn[r], r} /\ answer'[r] = answer[r]
          /\ asker'[r] = "waiting" => waitsOn'[r] = r
          /\ answer[r] = "none"
      BY <1>i, <1>t, <1>3, <2>1 DEF Routed, Untouched, ApprovalTypeOK, Registration, AskerTrue
    <3> QED BY <1>i, <2>1, <3>1 DEF AskerTrue, Decision
  <2>5. ASSUME NEW s \in Registration
        PROVE  /\ s > registrations' => Untouched(s)'
               /\ RecordTrue(s)' /\ RunsTrue(s)' /\ AskerTrue(s)'
    <3>1. RecordTrue(s)' /\ RunsTrue(s)'
      BY <1>i, <2>1 DEF RecordTrue, RunsTrue
    <3>2. AskerTrue(s)'
      BY <2>1, <2>4, AskerKept
    <3>3. s > registrations' => Untouched(s)'
      BY <1>i, <2>1, <2>4 DEF Untouched
    <3> QED BY <3>1, <3>2, <3>3
  <2> QED BY <2>3, <2>5 DEF ApprovalInv
<1>4. ASSUME NEW r \in Registration, WaitDecision(r) PROVE ApprovalInv'
  <2>1. /\ record' = record /\ promise' = promise /\ runs' = runs /\ ruling' = ruling
        /\ registrations' = registrations /\ entry' = entry
        /\ asker[r] # "idle"
        /\ \A s \in Registration \ {r} :
              asker'[s] = asker[s] /\ answer'[s] = answer[s] /\ waitsOn'[s] = waitsOn[s]
    BY <1>t, <1>4 DEF WaitDecision, Tell, ApprovalTypeOK
  <2>2. /\ asker' \in [Registration -> Place] /\ answer' \in [Registration -> Outcome]
        /\ waitsOn' \in [Registration -> 0..MaxRegistrations]
    <3>1. CASE entry = 0
      BY <1>t, <1>4, <3>1 DEF WaitDecision, Tell, ApprovalTypeOK, Place, Outcome
    <3>2. CASE entry # 0
      <4>1. entry \in 0..MaxRegistrations
        BY <1>t, <3>2, EntryIn DEF Registration
      <4> QED BY <1>t, <1>4, <3>2, <4>1 DEF WaitDecision, ApprovalTypeOK, Place
    <3> QED BY <3>1, <3>2
  <2>3. ApprovalTypeOK'
    BY <1>t, <1>4, <2>1, <2>2 DEF WaitDecision, ApprovalTypeOK
  <2>4. AskerTrue(r)' /\ ~(r > registrations)
    <3>1. /\ ~(r > registrations)
          /\ \/ asker'[r] = "answered" /\ answer'[r] = "not found" /\ waitsOn'[r] = waitsOn[r]
             \/ /\ asker'[r] = "waiting" /\ waitsOn'[r] = entry /\ entry # 0
                /\ answer'[r] = "none"
      <4>1. ~(r > registrations)
        BY <1>i, <2>1 DEF Untouched
      <4>2. asker[r] = "accepted" /\ answer[r] = "none"
        BY <1>i, <1>4 DEF WaitDecision, AskerTrue
      <4>3. CASE entry = 0
        BY <1>t, <1>4, <4>1, <4>3 DEF WaitDecision, Tell, ApprovalTypeOK
      <4>4. CASE entry # 0
        BY <1>t, <1>4, <4>1, <4>2, <4>4 DEF WaitDecision, ApprovalTypeOK
      <4> QED BY <4>3, <4>4
    <3>2. entry <= registrations
      BY <1>t DEF ApprovalTypeOK
    <3> QED BY <1>i, <2>1, <3>1, <3>2 DEF AskerTrue, Decision
  <2>5. ASSUME NEW s \in Registration
        PROVE  /\ s > registrations' => Untouched(s)'
               /\ RecordTrue(s)' /\ RunsTrue(s)' /\ AskerTrue(s)'
    <3>1. RecordTrue(s)' /\ RunsTrue(s)'
      BY <1>i, <2>1 DEF RecordTrue, RunsTrue
    <3>2. AskerTrue(s)'
      BY <2>1, <2>4, AskerKept
    <3>3. s > registrations' => Untouched(s)'
      BY <1>i, <2>1, <2>4 DEF Untouched
    <3> QED BY <3>1, <3>2, <3>3
  <2> QED BY <2>3, <2>5 DEF ApprovalInv
<1>5. ASSUME NEW r \in Registration, Answer(r) PROVE ApprovalInv'
  <2>1. /\ record' = record /\ promise' = promise /\ runs' = runs /\ ruling' = ruling
        /\ registrations' = registrations /\ entry' = entry
        /\ asker[r] # "idle"
        /\ \A s \in Registration \ {r} :
              asker'[s] = asker[s] /\ answer'[s] = answer[s] /\ waitsOn'[s] = waitsOn[s]
    BY <1>t, <1>5 DEF Answer, Tell, ApprovalTypeOK
  <2>2. /\ asker' \in [Registration -> Place] /\ answer' \in [Registration -> Outcome]
        /\ waitsOn' \in [Registration -> 0..MaxRegistrations]
    <3>1. waitsOn[r] \in Registration
      BY <1>t, <1>i, <1>5 DEF Answer, ApprovalTypeOK, AskerTrue, Registration
    <3> QED BY <3>1, <1>t, <1>5 DEF Answer, Tell, ApprovalTypeOK, Place, Outcome
  <2>3. ApprovalTypeOK'
    BY <1>t, <1>5, <2>1, <2>2 DEF Answer, ApprovalTypeOK
  <2>4. AskerTrue(r)' /\ ~(r > registrations)
    <3>1. /\ ~(r > registrations) /\ waitsOn[r] # 0 /\ waitsOn'[r] = waitsOn[r]
          /\ asker'[r] = "answered" /\ answer'[r] = promise[waitsOn[r]]
      BY <1>i, <1>t, <1>5, <2>1 DEF Answer, Tell, Untouched, ApprovalTypeOK, AskerTrue
    <3> QED BY <1>i, <2>1, <3>1 DEF AskerTrue
  <2>5. ASSUME NEW s \in Registration
        PROVE  /\ s > registrations' => Untouched(s)'
               /\ RecordTrue(s)' /\ RunsTrue(s)' /\ AskerTrue(s)'
    <3>1. RecordTrue(s)' /\ RunsTrue(s)'
      BY <1>i, <2>1 DEF RecordTrue, RunsTrue
    <3>2. AskerTrue(s)'
      BY <2>1, <2>4, AskerKept
    <3>3. s > registrations' => Untouched(s)'
      BY <1>i, <2>1, <2>4 DEF Untouched
    <3> QED BY <3>1, <3>2, <3>3
  <2> QED BY <2>3, <2>5 DEF ApprovalInv
<1>6. ASSUME NEW d \in Decision, Resolve(d) PROVE ApprovalInv'
  <2>1. /\ asker' = asker /\ waitsOn' = waitsOn /\ answer' = answer
        /\ registrations' = registrations /\ entry' \in {entry, 0}
    BY <1>6 DEF Resolve
  <2>2. \A s \in Registration :
           /\ s > registrations => /\ record'[s] = record[s] /\ promise'[s] = promise[s]
                                   /\ ruling'[s] = ruling[s] /\ runs'[s] = runs[s]
           /\ RecordTrue(s)' /\ RunsTrue(s)'
           /\ promise[s] # "open" => promise'[s] = promise[s]
    <3>1. Open /\ Rules(d, "operator") /\ ResolveEntry(d, "operator") /\ runs' = runs
      <4>1. Open /\ ResolveEntry(d, "operator") /\ runs' = runs
            /\ ruling' = [ruling EXCEPT ![entry] = IF @ = "none" THEN d ELSE @]
        BY <1>6 DEF Resolve, MayResolve
      <4>2. ruling[entry] = "none"
        BY <1>i, <1>t, <4>1, EntryIn DEF Open, RecordTrue
      <4> QED BY <4>1, <4>2 DEF Rules
    <3> QED BY <3>1, ResolveEntryTrue
  <2>3. ApprovalTypeOK'
    <3>1. Open /\ Rules(d, "operator") /\ ResolveEntry(d, "operator")
      <4>1. Open /\ ResolveEntry(d, "operator")
            /\ ruling' = [ruling EXCEPT ![entry] = IF @ = "none" THEN d ELSE @]
        BY <1>6 DEF Resolve, MayResolve
      <4>2. ruling[entry] = "none"
        BY <1>i, <1>t, <4>1, EntryIn DEF Open, RecordTrue
      <4> QED BY <4>1, <4>2 DEF Rules
    <3> QED BY <3>1, <1>t, <1>6, ResolveEntryType DEF Resolve, ApprovalTypeOK
  <2>4. ASSUME NEW s \in Registration
        PROVE  /\ s > registrations' => Untouched(s)'
               /\ RecordTrue(s)' /\ RunsTrue(s)' /\ AskerTrue(s)'
    <3>1. AskerTrue(s)'
      BY <2>1, <2>2, AskerKept
    <3>2. s > registrations' => Untouched(s)'
      BY <1>i, <2>1, <2>2 DEF Untouched, Fresh
    <3> QED BY <2>2, <3>1, <3>2
  <2> QED BY <2>3, <2>4 DEF ApprovalInv
<1>7. ASSUME NEW f \in BOOLEAN, NodeRuns(f) PROVE ApprovalInv'
  <2>1. /\ asker' = asker /\ waitsOn' = waitsOn /\ answer' = answer
        /\ registrations' = registrations /\ entry' \in {entry, 0}
    BY <1>7 DEF NodeRuns
  <2>2. \A s \in Registration :
           /\ s > registrations => /\ record'[s] = record[s] /\ promise'[s] = promise[s]
                                   /\ ruling'[s] = ruling[s] /\ runs'[s] = runs[s]
           /\ RecordTrue(s)' /\ RunsTrue(s)'
           /\ promise[s] # "open" => promise'[s] = promise[s]
    <3>1. /\ entry \in Registration /\ entry <= registrations /\ entry' = entry
          /\ promise' = promise /\ ruling' = ruling
          /\ \A s \in Registration \ {entry} : record'[s] = record[s] /\ runs'[s] = runs[s]
      BY <1>t, <1>7, EntryIn DEF NodeRuns, ApprovalTypeOK
    <3>2. ASSUME NEW s \in Registration, s # entry
          PROVE  RecordTrue(s)' /\ RunsTrue(s)'
      BY <1>i, <3>1, <3>2 DEF RecordTrue, RunsTrue
    <3>3. RecordTrue(entry)' /\ RunsTrue(entry)'
      <4>1. /\ runs[entry] \in 0..2 /\ runs'[entry] \in 0..2
            /\ runs'[entry] = IF runs[entry] = 2 THEN 2 ELSE runs[entry] + 1
            /\ ruling[entry] \in Decision \cup {"none"} /\ record[entry] \in Record
        BY <1>t, <1>7, <3>1 DEF NodeRuns, ApprovalTypeOK
      <4>2. \/ /\ record[entry].decision = "allow-once"
               /\ record'[entry] = [record[entry] EXCEPT !.decision = "undefined"]
            \/ record[entry].decision = "allow-always" /\ record'[entry] = record[entry]
            \/ TimedOut /\ record'[entry] = record[entry]
        BY <1>t, <1>7, <3>1 DEF NodeRuns, ApprovalTypeOK
      <4>0. RecordTrue(entry) /\ RunsTrue(entry)
        BY <1>i, <3>1
      <4>3. CASE record[entry].decision = "allow-once"
        <5>1. /\ record'[entry].resolved = record[entry].resolved
              /\ record'[entry].decision = "undefined" /\ record'[entry].by = record[entry].by
          BY <4>1, <4>2, <4>3 DEF Record, TimedOut
        <5>2. ruling[entry] = "allow-once" /\ record[entry].resolved /\ runs[entry] = 0
          BY <4>0, <4>1, <4>3 DEF RecordTrue, RunsTrue, Fresh, Decision
        <5> QED
          BY <4>0, <3>1, <4>1, <5>1, <5>2 DEF RecordTrue, RunsTrue
      <4>4. CASE record[entry].decision = "allow-always" /\ record'[entry] = record[entry]
        <5>1. ruling[entry] = "allow-always"
          BY <4>0, <4>1, <4>4 DEF RecordTrue, Fresh, Decision
        <5> QED
          BY <4>0, <3>1, <4>4, <5>1 DEF RecordTrue, RunsTrue
      <4>5. CASE TimedOut /\ record'[entry] = record[entry]
        <5>1. ruling[entry] = "none"
          BY <4>0, <4>5 DEF RecordTrue, TimedOut
        <5> QED
          BY <4>0, <3>1, <4>5, <5>1 DEF RecordTrue, RunsTrue, TimedOut
      <4> QED BY <4>2, <4>3, <4>4, <4>5
    <3>4. \A s \in Registration : s > registrations => s # entry
      BY <1>t, <1>7, EntryIn DEF NodeRuns
    <3> QED BY <3>1, <3>2, <3>3, <3>4
  <2>3. ApprovalTypeOK'
    <3>1. entry \in Registration
      BY <1>t, <1>7, EntryIn DEF NodeRuns
    <3>2. record' \in [Registration -> Record]
      <4>1. [record[entry] EXCEPT !.decision = "undefined"] \in Record
        BY <1>t, <3>1 DEF ApprovalTypeOK, Record
      <4>2. record' = record
            \/ record' = [record EXCEPT ![entry] = [record[entry] EXCEPT !.decision = "undefined"]]
        BY <1>7 DEF NodeRuns
      <4> QED BY <1>t, <3>1, <4>1, <4>2 DEF ApprovalTypeOK
    <3>3. runs' \in [Registration -> 0..2]
      BY <1>t, <1>7, <3>1 DEF NodeRuns, ApprovalTypeOK
    <3> QED BY <1>t, <1>7, <3>2, <3>3 DEF NodeRuns, ApprovalTypeOK
  <2>4. ASSUME NEW s \in Registration
        PROVE  /\ s > registrations' => Untouched(s)'
               /\ RecordTrue(s)' /\ RunsTrue(s)' /\ AskerTrue(s)'
    <3>1. AskerTrue(s)'
      BY <2>1, <2>2, AskerKept
    <3>2. s > registrations' => Untouched(s)'
      BY <1>i, <2>1, <2>2 DEF Untouched, Fresh
    <3> QED BY <2>2, <3>1, <3>2
  <2> QED BY <2>3, <2>4 DEF ApprovalInv
<1>8. ASSUME TimePasses PROVE ApprovalInv'
  <2>1. /\ asker' = asker /\ waitsOn' = waitsOn /\ answer' = answer
        /\ registrations' = registrations /\ entry' \in {entry, 0}
    BY <1>8 DEF TimePasses
  <2>2. \A s \in Registration :
           /\ s > registrations => /\ record'[s] = record[s] /\ promise'[s] = promise[s]
                                   /\ ruling'[s] = ruling[s] /\ runs'[s] = runs[s]
           /\ RecordTrue(s)' /\ RunsTrue(s)'
           /\ promise[s] # "open" => promise'[s] = promise[s]
    BY <1>i, <1>8 DEF TimePasses, RecordTrue, RunsTrue
  <2>3. ApprovalTypeOK'
    BY <1>t, <1>8 DEF TimePasses, ApprovalTypeOK
  <2>4. ASSUME NEW s \in Registration
        PROVE  /\ s > registrations' => Untouched(s)'
               /\ RecordTrue(s)' /\ RunsTrue(s)' /\ AskerTrue(s)'
    <3>1. AskerTrue(s)'
      BY <2>1, <2>2, AskerKept
    <3>2. s > registrations' => Untouched(s)'
      BY <1>i, <2>1, <2>2 DEF Untouched, Fresh
    <3> QED BY <2>2, <3>1, <3>2
  <2> QED BY <2>3, <2>4 DEF ApprovalInv
<1>9. ASSUME NEW r \in Registration, Expires(r) PROVE ApprovalInv'
  <2>1. /\ asker' = asker /\ waitsOn' = waitsOn /\ answer' = answer
        /\ registrations' = registrations /\ entry' \in {entry, 0}
    BY <1>9 DEF Expires
  <2>2. \A s \in Registration :
           /\ s > registrations => /\ record'[s] = record[s] /\ promise'[s] = promise[s]
                                   /\ ruling'[s] = ruling[s] /\ runs'[s] = runs[s]
           /\ RecordTrue(s)' /\ RunsTrue(s)'
           /\ promise[s] # "open" => promise'[s] = promise[s]
    BY <1>9, ExpireEntryTrue DEF Expires
  <2>3. ApprovalTypeOK'
    <3>1. /\ record' \in [Registration -> Record]
          /\ promise' \in [Registration -> Decision \cup {"open", "null"}]
          /\ expiryTimers' \subseteq Registration /\ graceTimers' \subseteq Registration
      BY <1>9, ExpireEntryTrue DEF Expires
    <3> QED BY <1>t, <1>9, <3>1 DEF Expires, ApprovalTypeOK
  <2>4. ASSUME NEW s \in Registration
        PROVE  /\ s > registrations' => Untouched(s)'
               /\ RecordTrue(s)' /\ RunsTrue(s)' /\ AskerTrue(s)'
    <3>1. AskerTrue(s)'
      BY <2>1, <2>2, AskerKept
    <3>2. s > registrations' => Untouched(s)'
      BY <1>i, <2>1, <2>2 DEF Untouched, Fresh
    <3> QED BY <2>2, <3>1, <3>2
  <2> QED BY <2>3, <2>4 DEF ApprovalInv
<1>10. ASSUME NEW r \in Registration, GraceEnds(r) PROVE ApprovalInv'
  <2>1. /\ asker' = asker /\ waitsOn' = waitsOn /\ answer' = answer
        /\ registrations' = registrations /\ entry' \in {entry, 0}
    BY <1>10 DEF GraceEnds
  <2>2. \A s \in Registration :
           /\ s > registrations => /\ record'[s] = record[s] /\ promise'[s] = promise[s]
                                   /\ ruling'[s] = ruling[s] /\ runs'[s] = runs[s]
           /\ RecordTrue(s)' /\ RunsTrue(s)'
           /\ promise[s] # "open" => promise'[s] = promise[s]
    BY <1>i, <1>10 DEF GraceEnds, RecordTrue, RunsTrue
  <2>3. ApprovalTypeOK'
    BY <1>t, <1>10 DEF GraceEnds, ApprovalTypeOK
  <2>4. ASSUME NEW s \in Registration
        PROVE  /\ s > registrations' => Untouched(s)'
               /\ RecordTrue(s)' /\ RunsTrue(s)' /\ AskerTrue(s)'
    <3>1. AskerTrue(s)'
      BY <2>1, <2>2, AskerKept
    <3>2. s > registrations' => Untouched(s)'
      BY <1>i, <2>1, <2>2 DEF Untouched, Fresh
    <3> QED BY <2>2, <3>1, <3>2
  <2> QED BY <2>3, <2>4 DEF ApprovalInv
<1>11. ASSUME UNCHANGED approvalVars PROVE ApprovalInv'
  <2>1. /\ asker' = asker /\ waitsOn' = waitsOn /\ answer' = answer
        /\ registrations' = registrations /\ entry' \in {entry, 0}
    BY <1>11 DEF approvalVars
  <2>2. \A s \in Registration :
           /\ s > registrations => /\ record'[s] = record[s] /\ promise'[s] = promise[s]
                                   /\ ruling'[s] = ruling[s] /\ runs'[s] = runs[s]
           /\ RecordTrue(s)' /\ RunsTrue(s)'
           /\ promise[s] # "open" => promise'[s] = promise[s]
    BY <1>i, <1>11 DEF approvalVars, RecordTrue, RunsTrue
  <2>3. ApprovalTypeOK'
    BY <1>t, <1>11 DEF approvalVars, ApprovalTypeOK
  <2>4. ASSUME NEW s \in Registration
        PROVE  /\ s > registrations' => Untouched(s)'
               /\ RecordTrue(s)' /\ RunsTrue(s)' /\ AskerTrue(s)'
    <3>1. AskerTrue(s)'
      BY <2>1, <2>2, AskerKept
    <3>2. s > registrations' => Untouched(s)'
      BY <1>i, <2>1, <2>2 DEF Untouched, Fresh
    <3> QED BY <2>2, <3>1, <3>2
  <2> QED BY <2>3, <2>4 DEF ApprovalInv
<1> QED
  BY <1>1, <1>2, <1>3, <1>4, <1>5, <1>6, <1>7, <1>8, <1>9, <1>10, <1>11 DEF ApprovalNext, Answers

-----------------------------------------------------------------------------
(* The theorems *)

\* The inductive invariant: what a record, its promise and its askers say agrees with who
\* ruled, through expiries, graces and registrations anew.
THEOREM ApprovalInvariant == ApprovalSpec => []ApprovalInv
  BY InitInv, StepInv, PTL DEF ApprovalSpec

\* Every variable keeps its type.
THEOREM ApprovalsTyped == ApprovalSpec => []ApprovalTypeOK
<1>1. ApprovalInv => ApprovalTypeOK
  BY DEF ApprovalInv
<1> QED BY ApprovalInvariant, <1>1, PTL

\* What an operator decided is done, and an allow-once once (consumeAllowOnce), however
\* often the id is registered.
THEOREM RulingsAreHonoured == ApprovalSpec => []ApprovalsHonoured
  BY ApprovalInvariant, InvImplies, PTL

-----------------------------------------------------------------------------
(* Announcements *)

Key == {<<a>> : a \in Announcement}
Requests == [tells : SUBSET Announcement, sums : SUBSET Announcement, key : Key,
             former : BOOLEAN, nth : Nat]

\* A request is late once an answer was lost, and former once keys were forgotten.
AnnounceTyped ==
    /\ items \in Seq(Announcement) /\ dropped \subseteq Announcement
    /\ settings \in Settings
    /\ drain \in {"none", "debounce", "checked", "send", "spin"}
    /\ forced \in BOOLEAN
    /\ keys \subseteq Announcement /\ reported \subseteq Announcement
    /\ told \in [Announcement -> 0..2]
    /\ over \in [seen : SUBSET Announcement, gone : SUBSET Announcement]
    /\ over.gone \subseteq over.seen
    /\ upsets \subseteq {"overflow", "lent", "answerLost", "regrouped", "batch", "keyUsed",
                   "window", "forgotten"}
    /\ drain = "none" <=> items = <<>> /\ dropped = {}
    /\ drain # "send" => sending = Nothing
    /\ drain = "send" =>
          sending \in [tells : SUBSET Announcement, sums : SUBSET Announcement,
                       removes : Nat \ {0}, key : Key, at : {"way", "past", "answered", "gone"}]
    /\ late \subseteq Requests /\ mishaps \in Nat
    /\ late # {} => "answerLost" \in upsets
    /\ \A r \in late : r.former => "forgotten" \in upsets

\* An announcement comes once, and what a send takes away has all that it tells.
Ordered ==
    /\ \A i, j \in 1..Len(items) : items[i] = items[j] => i = j
    /\ \A i \in 1..Len(items) : items[i] \in over.seen
    /\ dropped \subseteq over.seen /\ keys \subseteq over.seen
    /\ \A a \in Announcement : told[a] > 0 => a \in over.seen
    /\ drain = "send" =>
          /\ sending.tells \subseteq over.seen /\ sending.key[1] \in over.seen
          /\ \A i \in 1..Len(items) : i > sending.removes => items[i] \notin sending.tells
    /\ \A r \in late : r.tells \subseteq over.seen /\ r.key[1] \in over.seen

\* What waits although it was told: the send under way has its answer, and removes it.
Removes(a) == drain = "send" /\ sending.at = "answered" /\ a \in sending.tells

\* As long as answers come, nothing else that waits was told.
Answering == "answerLost" \notin upsets =>
    /\ \A a \in Announcement : told[a] <= 1
    /\ \A i \in 1..Len(items) : told[items[i]] > 0 => Removes(items[i])
    /\ drain = "send" /\ sending.at # "answered" => \A a \in sending.tells : told[a] = 0

\* As long as nothing comes between a send and its repetition, this has the same key, and
\* so has a request that is late.
Collects == settings.mode = "collect" /\ ~forced /\ ~Cross
Alike(req) ==
    \/ Collects /\ req.key = <<items[Len(items)]>> /\ req.tells \subseteq ToTell
    \/ /\ ~Collects /\ req.key = <<items[1]>> /\ req.tells \subseteq {items[1]}
       /\ settings.mode = "collect" => forced
Grouped == upsets \cap {"regrouped", "window", "forgotten"} = {} =>
    /\ \A a \in Announcement : told[a] <= 1
    /\ \A i \in 1..Len(items) : told[items[i]] > 0 =>
          \/ Collects /\ items[Len(items)] \in keys
          \/ i = 1 /\ items[1] \in keys /\ settings.mode # "collect"
          \/ Removes(items[i])
    /\ drain = "send" =>
          /\ Len(items) > 0 /\ Alike(sending)
          /\ sending.removes = IF Collects THEN Len(items) ELSE 1
          /\ sending.at = "answered" => sending.key[1] \in keys
    /\ \A r \in late :
          \/ r.key[1] \in keys
          \/ Len(items) > 0 /\ Alike(r) /\ (settings.mode = "collect" => Collects)

\* As long as none is collected, a key stands for the announcement it is of.
OneByOne == upsets \cap {"batch", "window", "forgotten"} = {} =>
    /\ \A a \in Announcement : told[a] <= 1
    /\ \A i \in 1..Len(items) : told[items[i]] > 0 => items[i] \in keys
    /\ drain = "send" => \A a \in sending.tells : sending.key = <<a>> /\ (told[a] > 0 => a \in keys)
    /\ \A r \in late : \A a \in r.tells : r.key = <<a>> /\ (told[a] > 0 => a \in keys)

\* Until one of the causes of a loss: a key that was used stands for the item and all before
\* it, and a send takes away what it tells.
Undamaged == upsets \cap {"overflow", "lent", "keyUsed"} = {}
Covered == Undamaged =>
    /\ \A a \in over.seen :
          a \in ToTell \cup dropped \cup reported \cup over.gone \/ told[a] > 0
    /\ \A i, j \in 1..Len(items) : i <= j /\ items[j] \in keys => told[items[i]] > 0
    /\ drain = "send" =>
          /\ sending.removes <= Len(items)
          /\ sending.key = <<items[sending.removes]>>
          /\ \A i \in 1..sending.removes : items[i] \in sending.tells
          /\ sending.sums \in {{}, dropped}
          /\ sending.at = "answered" =>
                sending.sums \subseteq reported /\ \A i \in 1..sending.removes : told[items[i]] > 0
    /\ \A r \in late : \A i, j \in 1..Len(items) :
          ~r.former /\ i <= j /\ r.key = <<items[j]>> => items[i] \in r.tells

AnnounceInv ==
    AnnounceTyped /\ Ordered /\ Answering /\ Grouped /\ OneByOne /\ Covered

\* The elements of a sequence.
LEMMA ToSetIs ==
    ASSUME NEW S, NEW s \in Seq(S)
    PROVE  ToSet(s) = {s[i] : i \in 1..Len(s)} /\ ToSet(s) \subseteq S
  BY DEF ToSet

\* A sequence without its first n.
LEMMA WithoutFirst ==
    ASSUME NEW S, NEW s \in Seq(S), NEW n \in Nat
    PROVE  LET t == SubSeq(s, n + 1, Len(s)) IN
           /\ t \in Seq(S) /\ Len(t) \in Nat /\ Len(t) = IF n <= Len(s) THEN Len(s) - n ELSE 0
           /\ \A i \in 1..Len(t) : i + n \in 1..Len(s) /\ t[i] = s[i + n]
<1> DEFINE t == SubSeq(s, n + 1, Len(s))
<1>1. CASE n >= Len(s)
  <2>1. t \in Seq(S) /\ Len(t) = 0
    BY <1>1, SubSeqProperties
  <2> QED BY <1>1, <2>1
<1>2. CASE n < Len(s)
  <2>1. n + 1 \in 1..Len(s) + 1 /\ Len(s) \in n..Len(s)
    BY <1>2
  <2>2. t \in Seq(S) /\ Len(t) = Len(s) - n /\ \A i \in 1..Len(s) - n : t[i] = s[n + 1 + i - 1]
    BY <1>2, <2>1, SubSeqProperties
  <2> HIDE DEF t
  <2>3. \A i \in 1..Len(t) : i + n \in 1..Len(s) /\ t[i] = s[i + n]
    BY <1>2, <2>2
  <2> QED BY <1>2, <2>2, <2>3 DEF t
<1> QED BY <1>1, <1>2

\* What waits, as a set; with the same items, the same route.
LEMMA ToTellIs ==
    ASSUME items \in Seq(Announcement)
    PROVE  ToTell = {items[i] : i \in 1..Len(items)} /\ ToTell \subseteq Announcement
  BY ToSetIs DEF ToTell

\* The same of what waits after a step.
LEMMA ToTellIsPrime ==
    ASSUME items' \in Seq(Announcement)
    PROVE  ToTell' = {items'[i] : i \in 1..Len(items')} /\ ToTell' \subseteq Announcement
  BY ToSetIs DEF ToTell

\* What the types say of the items, the send under way and the requests that are late.
LEMMA AnnounceFacts ==
    ASSUME AnnounceTyped
    PROVE  /\ items \in Seq(Announcement) /\ Len(items) \in Nat
           /\ \A i \in 1..Len(items) : items[i] \in Announcement
           /\ ToTell = {items[i] : i \in 1..Len(items)} /\ ToTell \subseteq Announcement
           /\ \A a \in Announcement : told[a] \in 0..2
           /\ drain = "send" =>
                 /\ sending.tells \subseteq Announcement /\ sending.sums \subseteq Announcement
                 /\ sending.key[1] \in Announcement /\ sending.key = <<sending.key[1]>>
                 /\ sending.removes \in Nat \ {0}
                 /\ sending.at \in {"way", "past", "answered", "gone"}
           /\ \A r \in late :
                 /\ r \in Requests /\ r.tells \subseteq Announcement /\ r.sums \subseteq Announcement
                 /\ r.key[1] \in Announcement /\ r.key = <<r.key[1]>>
<1>1. \A k \in Key : k[1] \in Announcement /\ k = <<k[1]>>
  BY DEF Key
<1>2. items \in Seq(Announcement) /\ Len(items) \in Nat
      /\ \A i \in 1..Len(items) : items[i] \in Announcement
  BY LenProperties, ElementOfSeq DEF AnnounceTyped
<1>3. ToTell = {items[i] : i \in 1..Len(items)} /\ ToTell \subseteq Announcement
  BY <1>2, ToTellIs
<1>4. \A a \in Announcement : told[a] \in 0..2
  BY DEF AnnounceTyped
<1>5. drain = "send" =>
         /\ sending.tells \subseteq Announcement /\ sending.sums \subseteq Announcement
         /\ sending.key \in Key /\ sending.removes \in Nat \ {0}
         /\ sending.at \in {"way", "past", "answered", "gone"}
  BY DEF AnnounceTyped
<1>6. \A r \in late : r \in Requests /\ r.tells \subseteq Announcement
                      /\ r.sums \subseteq Announcement /\ r.key \in Key
  BY DEF AnnounceTyped, Requests
<1> QED BY <1>1, <1>2, <1>3, <1>4, <1>5, <1>6

\* Nothing waits, and nothing was told, at first.
LEMMA InitAnnounceInv == AnnounceInit => AnnounceInv
<1> SUFFICES ASSUME AnnounceInit PROVE AnnounceInv
  OBVIOUS
<1>1. /\ Len(items) = 0 /\ items = <<>> /\ items \in Seq(Announcement)
      /\ settings \in Settings
  BY AnnounceAssumption DEF AnnounceInit
<1>2. AnnounceTyped
  <2>1. told \in [Announcement -> 0..2] /\ over \in [seen : SUBSET Announcement, gone : SUBSET Announcement]
        /\ over.gone \subseteq over.seen
    BY DEF AnnounceInit
  <2>2. forced \in BOOLEAN /\ late = {} /\ mishaps \in Nat
    BY DEF AnnounceInit
  <2> QED BY <1>1, <2>1, <2>2 DEF AnnounceInit, AnnounceTyped
<1>3. \A a \in Announcement : told[a] = 0
  BY DEF AnnounceInit
<1>4. drain # "send" /\ dropped = {} /\ keys = {} /\ over.seen = {} /\ late = {}
  BY DEF AnnounceInit
<1>5. 1..Len(items) = {}
  BY <1>1
<1> QED
  BY <1>2, <1>3, <1>4, <1>5 DEF AnnounceInv, Ordered, Answering, Grouped, OneByOne, Covered

-----------------------------------------------------------------------------
\* A drain that finds that all goes together, or that spins, changes nothing that is kept.
LEMMA MovesKeep ==
    ASSUME AnnounceInv, Check \/ Spin
    PROVE  AnnounceInv'
<1>1. /\ drain # "send" /\ drain' \in {"checked", "spin"} /\ (drain = "none" <=> drain' = "none")
      /\ items' = items /\ dropped' = dropped /\ settings' = settings /\ forced' = forced
      /\ sending' = sending /\ late' = late /\ mishaps' = mishaps /\ keys' = keys
      /\ told' = told /\ reported' = reported /\ over' = over /\ upsets' = upsets
  BY DEF Check, Spin
<1>2. ToTell' = ToTell /\ (Cross' <=> Cross)
  BY <1>1 DEF ToTell, Cross
<1>3. AnnounceTyped'
  BY <1>1 DEF AnnounceInv, AnnounceTyped
<1>4. Ordered' /\ Answering'
  BY <1>1 DEF AnnounceInv, Ordered, Answering, Removes
<1>5. Grouped'
  BY <1>1, <1>2 DEF AnnounceInv, Grouped, Collects, Alike, Removes
<1>6. OneByOne' /\ Covered'
  BY <1>1, <1>2 DEF AnnounceInv, OneByOne, Covered, Undamaged
<1> QED BY <1>3, <1>4, <1>5, <1>6 DEF AnnounceInv

-----------------------------------------------------------------------------
\* A refusal adds to what is gone for good.
LEMMA RefuseKeeps ==
    ASSUME AnnounceInv, NEW a \in Announcement, NEW s \in Settings, Enqueue(a, s), Refuse(a, s)
    PROVE  AnnounceInv'
<1>1. /\ items' = items /\ dropped' = dropped /\ drain' = drain
      /\ over'.seen = over.seen \cup {a} /\ over'.gone = over.gone \cup {a}
      /\ over' \in [seen : SUBSET Announcement, gone : SUBSET Announcement]
      /\ upsets' = upsets \cup Newcomer /\ settings' = s
      /\ forced' = forced /\ sending' = sending /\ keys' = keys /\ told' = told
      /\ reported' = reported /\ late' = late /\ mishaps' = mishaps
  BY DEF Enqueue, Refuse, AnnounceInv, AnnounceTyped
<1>2. upsets \subseteq upsets' /\ upsets' \subseteq upsets \cup {"regrouped"}
  BY <1>1 DEF Newcomer
<1>3. AnnounceTyped'
  BY <1>1, <1>2 DEF AnnounceInv, AnnounceTyped
<1>4. Ordered'
  BY <1>1 DEF AnnounceInv, Ordered
<1>5. Answering'
  BY <1>1, <1>2 DEF AnnounceInv, Answering, Removes
<1>6. Grouped'
  <2> SUFFICES ASSUME "regrouped" \notin upsets' PROVE Grouped'
    BY DEF Grouped
  <2>1. drain # "send" /\ "answerLost" \notin upsets
    BY <1>1 DEF Newcomer
  <2>2. late = {}
    BY <2>1 DEF AnnounceInv, AnnounceTyped
  <2>3. /\ \A b \in Announcement : told[b] <= 1
        /\ \A i \in 1..Len(items) : ~(told[items[i]] > 0)
    BY <2>1 DEF AnnounceInv, Answering, Removes
  <2> QED BY <1>1, <2>1, <2>2, <2>3 DEF Grouped
<1>7. OneByOne'
  BY <1>1, <1>2 DEF AnnounceInv, OneByOne
<1>8. Covered'
  <2> SUFFICES ASSUME Undamaged' PROVE Covered'
    BY DEF Covered
  <2>1. Undamaged
    BY <1>2 DEF Undamaged
  <2>2. ToTell' = ToTell
    BY <1>1 DEF ToTell
  <2> QED BY <1>1, <2>1, <2>2 DEF AnnounceInv, Covered
<1> QED BY <1>3, <1>4, <1>5, <1>6, <1>7, <1>8 DEF AnnounceInv

\* What an acceptance does to the items: the first n make room, and a comes last.
Accepted(n, a, s) ==
    /\ items' \in Seq(Announcement) /\ Len(items') = Len(items) - n + 1
    /\ \A i \in 1..Len(items) - n : i + n \in 1..Len(items) /\ items'[i] = items[i + n]
    /\ items'[Len(items) - n + 1] = a
    /\ n > 0 => s.dropPolicy # "new"
    /\ dropped' = IF s.dropPolicy = "summarize" THEN dropped \cup {items[i] : i \in 1..n}
                  ELSE dropped
    /\ over' = [seen |-> over.seen \cup {a},
                gone |-> IF s.dropPolicy = "old" THEN over.gone \cup {items[i] : i \in 1..n}
                         ELSE over.gone]
    /\ upsets \subseteq upsets' /\ ("regrouped" \notin upsets' => Newcomer = {})
    /\ upsets' \subseteq upsets \cup {"overflow", "regrouped"}
    /\ "overflow" \notin upsets' /\ drain = "send" => n = 0
    /\ drain' # "none" /\ (drain' = "send" <=> drain = "send")
    /\ drain' \in {"debounce", "checked", "send", "spin"}

\* An acceptance is of that form.
LEMMA AcceptIs ==
    ASSUME AnnounceTyped, NEW a \in Announcement, NEW s \in Settings, Enqueue(a, s), Accept(a, s)
    PROVE  \E n \in 0..Len(items) : Accepted(n, a, s)
<1> DEFINE n == IF Overflows(s) THEN Len(items) - s.cap + 1 ELSE 0
           front == ToSet(SubSeq(items, 1, n))
           left == SubSeq(items, n + 1, Len(items))
<1>1. items \in Seq(Announcement) /\ Len(items) \in Nat /\ s.cap \in Nat \ {0}
      /\ drain \in {"none", "debounce", "checked", "send", "spin"}
  BY AnnounceAssumption, LenProperties DEF AnnounceTyped
<1>2. n \in 0..Len(items) /\ (n > 0 => Overflows(s))
  BY <1>1 DEF Overflows
<1>3. /\ items' = Append(left, a)
      /\ dropped' = IF s.dropPolicy = "summarize" THEN dropped \cup front ELSE dropped
      /\ over' = [seen |-> over.seen \cup {a},
                  gone |-> IF s.dropPolicy = "old" THEN over.gone \cup front ELSE over.gone]
      /\ upsets' = upsets \cup (IF n > 0 /\ drain = "send" THEN {"overflow"} ELSE {}) \cup Newcomer
      /\ drain' = IF drain = "none" THEN "debounce" ELSE drain
      /\ ~(Overflows(s) /\ s.dropPolicy = "new")
  BY DEF Accept
<1> HIDE DEF n
<1>4. /\ left \in Seq(Announcement) /\ Len(left) = Len(items) - n
      /\ \A i \in 1..Len(left) : i + n \in 1..Len(items) /\ left[i] = items[i + n]
  <2>1. n \in Nat /\ n <= Len(items)
    BY <1>1, <1>2
  <2> QED BY <1>1, <2>1, WithoutFirst
<1>5. front = {items[i] : i \in 1..n}
  <2>1. SubSeq(items, 1, n) \in Seq(Announcement) /\ Len(SubSeq(items, 1, n)) = n
        /\ \A i \in 1..n : SubSeq(items, 1, n)[i] = items[i]
    BY <1>1, <1>2
  <2>2. ToSet(SubSeq(items, 1, n)) = {SubSeq(items, 1, n)[i] : i \in 1..Len(SubSeq(items, 1, n))}
    BY <2>1, ToSetIs
  <2> QED BY <2>1, <2>2
<1> HIDE DEF left, front
<1>6. /\ items' \in Seq(Announcement) /\ Len(items') = Len(left) + 1
      /\ \A i \in 1..Len(left) : items'[i] = left[i]
      /\ items'[Len(left) + 1] = a
  BY <1>3, <1>4, AppendProperties
<1>7. n > 0 => s.dropPolicy # "new"
  BY <1>2, <1>3
<1>8. /\ upsets \subseteq upsets' /\ ("regrouped" \notin upsets' => Newcomer = {})
      /\ upsets' \subseteq upsets \cup {"overflow", "regrouped"}
      /\ "overflow" \notin upsets' /\ drain = "send" => n = 0
  <2>1. Newcomer \in {{}, {"regrouped"}}
    BY DEF Newcomer
  <2>2. "overflow" \notin upsets' /\ drain = "send" => ~(n > 0)
    BY <1>3
  <2>3. ~(n > 0) => n = 0
    BY <1>1, <1>2
  <2> QED BY <1>3, <2>1, <2>2, <2>3
<1>9. drain' # "none" /\ (drain' = "send" <=> drain = "send")
  BY <1>3
<1>10. drain' \in {"debounce", "checked", "send", "spin"}
  BY <1>1, <1>3
<1>11. Accepted(n, a, s)
  BY <1>2, <1>3, <1>4, <1>5, <1>6, <1>7, <1>8, <1>9, <1>10 DEF Accepted
<1> QED BY <1>2, <1>11

\* Who makes room goes to the summary or for good, and a newcomer has no key and no run.
LEMMA AcceptKeeps ==
    ASSUME AnnounceInv, NEW a \in Announcement, NEW s \in Settings, Enqueue(a, s), Accept(a, s)
    PROVE  AnnounceInv'
<1>0. AnnounceTyped
  BY DEF AnnounceInv
<1>1. /\ items \in Seq(Announcement) /\ Len(items) \in Nat /\ dropped \subseteq Announcement
      /\ over \in [seen : SUBSET Announcement, gone : SUBSET Announcement]
      /\ over.gone \subseteq over.seen
      /\ \A i \in 1..Len(items) : items[i] \in Announcement
  BY <1>0, AnnounceFacts DEF AnnounceTyped
<1>2a. PICK n \in 0..Len(items) : Accepted(n, a, s)
  BY <1>0, AcceptIs
<1>2. /\ items' \in Seq(Announcement) /\ Len(items') = Len(items) - n + 1
      /\ \A i \in 1..Len(items) - n : i + n \in 1..Len(items) /\ items'[i] = items[i + n]
      /\ items'[Len(items) - n + 1] = a
      /\ n > 0 => s.dropPolicy # "new"
      /\ dropped' = IF s.dropPolicy = "summarize" THEN dropped \cup {items[i] : i \in 1..n}
                    ELSE dropped
      /\ over' = [seen |-> over.seen \cup {a},
                  gone |-> IF s.dropPolicy = "old" THEN over.gone \cup {items[i] : i \in 1..n}
                                ELSE over.gone]
      /\ upsets \subseteq upsets' /\ ("regrouped" \notin upsets' => Newcomer = {})
      /\ upsets' \subseteq upsets \cup {"overflow", "regrouped"}
      /\ "overflow" \notin upsets' /\ drain = "send" => n = 0
      /\ drain' # "none" /\ (drain' = "send" <=> drain = "send")
      /\ drain' \in {"debounce", "checked", "send", "spin"}
  BY <1>2a DEF Accepted
<1>3. /\ forced' = forced /\ sending' = sending /\ keys' = keys /\ told' = told
      /\ reported' = reported /\ settings' = s /\ a \notin over.seen
      /\ late' = late /\ mishaps' = mishaps
  BY DEF Enqueue
<1> DEFINE made == {items[i] : i \in 1..n}
<1>4. /\ over'.seen = over.seen \cup {a}
      /\ over'.gone = IF s.dropPolicy = "old" THEN over.gone \cup made ELSE over.gone
      /\ dropped' = IF s.dropPolicy = "summarize" THEN dropped \cup made ELSE dropped
      /\ s.dropPolicy \in {"new", "old", "summarize"}
  BY <1>2, AnnounceAssumption
<1>5. made \subseteq Announcement /\ made \subseteq over.seen
  <2>1. \A i \in 1..n : i \in 1..Len(items)
    BY <1>1
  <2> QED BY <1>1, <2>1 DEF AnnounceInv, Ordered
<1>6. \A i \in 1..Len(items') : 
         \/ i = Len(items') /\ items'[i] = a
         \/ i < Len(items') /\ i + n \in 1..Len(items) /\ items'[i] = items[i + n]
  <2>1. ASSUME NEW i \in 1..Len(items'), i # Len(items')
        PROVE  i \in 1..Len(items) - n
    BY <1>1, <1>2, <2>1
  <2> QED BY <1>1, <1>2, <2>1
<1>7. items' # <<>>
  BY <1>1, <1>2
<1> HIDE DEF made
<1>8. AnnounceTyped'
  <2>1. upsets' \subseteq {"overflow", "lent", "answerLost", "regrouped", "batch", "keyUsed",
                     "window", "forgotten"}
    BY <1>0, <1>2 DEF AnnounceTyped
  <2>2. over' \in [seen : SUBSET Announcement, gone : SUBSET Announcement]
        /\ over'.gone \subseteq over'.seen
    <3>1. over'.seen \in SUBSET Announcement /\ over'.gone \in SUBSET Announcement
          /\ over'.gone \subseteq over'.seen
      BY <1>1, <1>4, <1>5
    <3> QED BY <1>2, <3>1
  <2>3. dropped' \subseteq Announcement
    BY <1>1, <1>4, <1>5
  <2>4. /\ late' # {} => "answerLost" \in upsets'
        /\ \A r \in late' : r.former => "forgotten" \in upsets'
    BY <1>0, <1>2, <1>3 DEF AnnounceTyped
  <2> QED BY <1>0, <1>2, <1>3, <1>7, <2>1, <2>2, <2>3, <2>4 DEF AnnounceTyped
<1>9. Ordered'
  <2>1. \A i, j \in 1..Len(items') : items'[i] = items'[j] => i = j
    <3> SUFFICES ASSUME NEW i \in 1..Len(items'), NEW j \in 1..Len(items'), items'[i] = items'[j]
                 PROVE  i = j
      OBVIOUS
    <3>1. \A k \in 1..Len(items) : items[k] # a
      BY <1>3 DEF AnnounceInv, Ordered
    <3>2. i + n \in 1..Len(items) /\ j + n \in 1..Len(items) /\ items[i + n] = items[j + n] => i + n = j + n
      BY DEF AnnounceInv, Ordered
    <3> QED BY <1>6, <3>1, <3>2
  <2>2. \A i \in 1..Len(items') : items'[i] \in over'.seen
    BY <1>4, <1>6 DEF AnnounceInv, Ordered
  <2>3. dropped' \subseteq over'.seen /\ keys' \subseteq over'.seen
    BY <1>3, <1>4, <1>5 DEF AnnounceInv, Ordered
  <2>4. \A b \in Announcement : told'[b] > 0 => b \in over'.seen
    BY <1>3, <1>4 DEF AnnounceInv, Ordered
  <2>5. ASSUME drain' = "send"
        PROVE  /\ sending'.tells \subseteq over'.seen /\ sending'.key[1] \in over'.seen
               /\ \A i \in 1..Len(items') : i > sending'.removes => items'[i] \notin sending'.tells
    <3>1. drain = "send" /\ sending.removes \in Nat
      BY <1>0, <1>2, <2>5, AnnounceFacts
    <3>2. sending.tells \subseteq over.seen /\ sending.key[1] \in over.seen
      BY <3>1 DEF AnnounceInv, Ordered
    <3>3. ASSUME NEW i \in 1..Len(items'), i > sending.removes
          PROVE  items'[i] \notin sending.tells
      <4>1. CASE items'[i] = a
        BY <1>3, <3>2, <4>1
      <4>2. CASE i + n \in 1..Len(items) /\ items'[i] = items[i + n]
        <5>1. i + n > sending.removes
          BY <3>1, <3>3
        <5> QED BY <3>1, <4>2, <5>1 DEF AnnounceInv, Ordered
      <4> QED BY <1>6, <4>1, <4>2
    <3> QED BY <1>3, <1>4, <3>2, <3>3
  <2>6. \A r \in late' : r.tells \subseteq over'.seen /\ r.key[1] \in over'.seen
    BY <1>3, <1>4 DEF AnnounceInv, Ordered
  <2> QED BY <2>1, <2>2, <2>3, <2>4, <2>5, <2>6 DEF Ordered
<1>10. told[a] = 0
  <2>1. told[a] \in 0..2 /\ ~(told[a] > 0)
    BY <1>0, <1>3, AnnounceFacts DEF AnnounceInv, Ordered
  <2> QED BY <2>1
<1>11. Answering'
  <2> SUFFICES ASSUME "answerLost" \notin upsets' PROVE Answering'
    BY DEF Answering
  <2>1. "answerLost" \notin upsets
    BY <1>2
  <2>2. \A i \in 1..Len(items) : told[items[i]] > 0 => Removes(items[i])
    BY <2>1 DEF AnnounceInv, Answering
  <2>3. ASSUME NEW i \in 1..Len(items'), told[items'[i]] > 0 
        PROVE  drain = "send" /\ sending.at = "answered" /\ items'[i] \in sending.tells
    <3>1. items'[i] # a
      BY <1>10, <2>3
    <3> QED BY <1>6, <2>2, <2>3, <3>1 DEF Removes
  <2>6. /\ \A b \in Announcement : told[b] <= 1
        /\ drain = "send" /\ sending.at # "answered" => \A b \in sending.tells : told[b] = 0
    BY <2>1 DEF AnnounceInv, Answering
  <2> QED BY <1>2, <1>3, <2>3, <2>6 DEF Answering, Removes
<1>12. Grouped'
  <2> SUFFICES ASSUME "regrouped" \notin upsets' PROVE Grouped'
    BY DEF Grouped
  <2>1. drain' # "send" /\ drain # "send" /\ "answerLost" \notin upsets
    BY <1>2 DEF Newcomer
  <2>2. /\ \A b \in Announcement : told[b] <= 1
        /\ \A i \in 1..Len(items) : ~(told[items[i]] > 0)
    BY <2>1 DEF AnnounceInv, Answering, Removes
  <2>3. \A i \in 1..Len(items') : ~(told[items'[i]] > 0)
    BY <1>6, <1>10, <2>2
  <2>4. late' = {}
    BY <1>0, <1>3, <2>1 DEF AnnounceTyped
  <2> QED BY <1>3, <2>1, <2>2, <2>3, <2>4 DEF Grouped
<1>13. OneByOne'
  <2> SUFFICES ASSUME upsets' \cap {"batch", "window", "forgotten"} = {} PROVE OneByOne'
    BY DEF OneByOne
  <2>1. upsets \cap {"batch", "window", "forgotten"} = {}
    BY <1>2
  <2>2. /\ \A b \in Announcement : told[b] <= 1
        /\ \A i \in 1..Len(items) : told[items[i]] > 0 => items[i] \in keys
        /\ drain = "send" => \A b \in sending.tells : sending.key = <<b>> /\ (told[b] > 0 => b \in keys)
        /\ \A r \in late : \A b \in r.tells : r.key = <<b>> /\ (told[b] > 0 => b \in keys)
    BY <2>1 DEF AnnounceInv, OneByOne
  <2>3. \A i \in 1..Len(items') : told[items'[i]] > 0 => items'[i] \in keys
    BY <1>6, <1>10, <2>2
  <2> QED BY <1>2, <1>3, <2>2, <2>3 DEF OneByOne
<1>14. Covered'
  <2> SUFFICES ASSUME Undamaged' PROVE Covered'
    BY DEF Covered
  <2>1. Undamaged /\ "overflow" \notin upsets'
    BY <1>2 DEF Undamaged
  <2>2. ToTell = {items[i] : i \in 1..Len(items)} /\ ToTell' = {items'[i] : i \in 1..Len(items')}
    BY <1>1, <1>2, ToTellIs, ToTellIsPrime
  <2>3. ASSUME NEW i \in 1..Len(items)
        PROVE  items[i] \in ToTell' \cup made
    <3>1. CASE i <= n
      BY <3>1 DEF made
    <3>2. CASE i > n
      <4>1. i \in Nat /\ n \in Nat /\ Len(items) \in Nat /\ i <= Len(items)
            /\ Len(items') = Len(items) - n + 1
        BY <1>1, <1>2
      <4>2. i - n \in 1..Len(items) - n /\ i - n + n = i /\ i - n \in 1..Len(items')
        BY <3>2, <4>1
      <4>3. items'[i - n] = items[i - n + n]
        BY <1>2, <4>2
      <4> QED BY <2>2, <4>2, <4>3
    <3> QED BY <3>1, <3>2
  <2>4. made \subseteq dropped' \cup over'.gone
    <3>1. CASE s.dropPolicy = "new"
      <4>1. n = 0
        BY <1>1, <1>2, <3>1
      <4> QED BY <4>1 DEF made
    <3> QED BY <1>4, <3>1
  <2>5. ASSUME NEW b \in over'.seen
        PROVE  b \in ToTell' \cup dropped' \cup reported' \cup over'.gone \/ told'[b] > 0
    <3>1. CASE b = a
      <4>1. Len(items') \in 1..Len(items') /\ items'[Len(items')] = a
        BY <1>1, <1>2
      <4> QED BY <2>2, <3>1, <4>1
    <3>2. CASE b \in over.seen
      <4>1. b \in ToTell \cup dropped \cup reported \cup over.gone \/ told[b] > 0
        BY <2>1, <3>2 DEF AnnounceInv, Covered
      <4>2. b \in ToTell => b \in ToTell' \cup made
        BY <2>2, <2>3
      <4> QED BY <1>3, <1>4, <2>4, <4>1, <4>2
    <3> QED BY <1>4, <3>1, <3>2
  <2>6. ASSUME NEW i \in 1..Len(items'), NEW j \in 1..Len(items'), i <= j, items'[j] \in keys
        PROVE  told[items'[i]] > 0
    <3>1. items'[j] # a
      BY <1>3, <2>6 DEF AnnounceInv, Ordered
    <3>2. j < Len(items') /\ j + n \in 1..Len(items) /\ items'[j] = items[j + n]
      BY <1>6, <3>1
    <3>3. i < Len(items')
      BY <1>1, <1>2, <2>6, <3>2
    <3>4. i + n \in 1..Len(items) /\ items'[i] = items[i + n]
      BY <1>1, <1>2, <1>6, <3>3
    <3>5. i + n <= j + n
      BY <2>6
    <3> QED BY <2>1, <2>6, <3>2, <3>4, <3>5 DEF AnnounceInv, Covered
  <2>7. ASSUME drain' = "send"
        PROVE  /\ sending.removes <= Len(items')
               /\ sending.key = <<items'[sending.removes]>>
               /\ \A i \in 1..sending.removes : items'[i] \in sending.tells
               /\ sending.sums \in {{}, dropped'}
               /\ sending.at = "answered" =>
                     /\ sending.sums \subseteq reported
                     /\ \A i \in 1..sending.removes : told[items'[i]] > 0
    <3>1. drain = "send" /\ n = 0
      BY <1>2, <2>1, <2>7
    <3>2. sending.removes \in Nat \ {0}
      BY <1>0, <3>1, AnnounceFacts
    <3>3. /\ sending.removes <= Len(items)
          /\ sending.key = <<items[sending.removes]>>
          /\ \A i \in 1..sending.removes : items[i] \in sending.tells
          /\ sending.sums \in {{}, dropped}
          /\ sending.at = "answered" =>
                /\ sending.sums \subseteq reported
                /\ \A i \in 1..sending.removes : told[items[i]] > 0
      BY <2>1, <3>1 DEF AnnounceInv, Covered
    <3>4. \A i \in 1..Len(items) : items'[i] = items[i]
      <4>1. \A i \in 1..Len(items) : i + n = i /\ i \in 1..Len(items) - n
        BY <1>1, <3>1
      <4> QED BY <1>2, <4>1
    <3>5. sending.removes \in 1..Len(items) /\ sending.removes <= Len(items')
          /\ \A i \in 1..sending.removes : i \in 1..Len(items)
      BY <1>1, <1>2, <3>1, <3>2, <3>3
    <3>6. dropped' = dropped
      <4>1. made = {}
        BY <3>1 DEF made
      <4> QED BY <1>4, <4>1
    <3> QED BY <3>3, <3>4, <3>5, <3>6
  <2>8. ASSUME NEW r \in late', NEW i \in 1..Len(items'), NEW j \in 1..Len(items'),
               ~r.former, i <= j, r.key = <<items'[j]>>
        PROVE  items'[i] \in r.tells
    <3>1. items'[j] # a
      <4>1. r.key[1] \in over.seen /\ r.key[1] = items'[j]
        BY <1>3, <2>8 DEF AnnounceInv, Ordered
      <4> QED BY <1>3, <4>1
    <3>2. j < Len(items') /\ j + n \in 1..Len(items) /\ items'[j] = items[j + n]
      BY <1>6, <3>1
    <3>3. i < Len(items')
      BY <1>1, <1>2, <2>8, <3>2
    <3>4. i + n \in 1..Len(items) /\ items'[i] = items[i + n]
      BY <1>1, <1>2, <1>6, <3>3
    <3>5. i + n <= j + n
      BY <2>8
    <3> QED BY <1>3, <2>1, <2>8, <3>2, <3>4, <3>5 DEF AnnounceInv, Covered
  <2> QED BY <1>3, <2>5, <2>6, <2>7, <2>8 DEF Covered
<1> QED BY <1>8, <1>9, <1>11, <1>12, <1>13, <1>14 DEF AnnounceInv

-----------------------------------------------------------------------------
\* What holds as a send begins: it changes nothing but where the drain is, and what went
\* wrong before did so for what is sent now.
LEMMA SendBegins ==
    ASSUME AnnounceInv, items # <<>>, NEW T, NEW U, NEW r, NEW k, Send(T, U, r, k)
    PROVE  /\ Len(items) \in Nat \ {0} /\ items \in Seq(Announcement)
           /\ \A i \in 1..Len(items) : items[i] \in Announcement
           /\ ToTell = {items[i] : i \in 1..Len(items)} /\ ToTell \subseteq Announcement
           /\ Last(items) = items[Len(items)] /\ Head(items) = items[1]
           /\ ToTell' = ToTell /\ (Cross' <=> Cross)
           /\ items' = items /\ dropped' = dropped /\ settings' = settings /\ keys' = keys
           /\ told' = told /\ reported' = reported /\ over' = over /\ late' = late
           /\ mishaps' = mishaps
           /\ drain' = "send" /\ sending'.tells = T /\ sending'.sums = U
           /\ sending'.removes = r /\ sending'.key = <<k>> /\ sending'.key[1] = k
           /\ sending'.at = "way"
           /\ sending' = [tells |-> T, sums |-> U, removes |-> r, key |-> <<k>>, at |-> "way"]
           /\ Summary \subseteq Announcement /\ Summary \in {{}, dropped}
<1>1. items \in Seq(Announcement) /\ dropped \subseteq Announcement
  BY DEF AnnounceInv, AnnounceTyped
<1>2. Len(items) \in Nat \ {0} /\ \A i \in 1..Len(items) : items[i] \in Announcement
  BY <1>1, EmptySeq, LenProperties, ElementOfSeq
<1>3. ToTell = {items[i] : i \in 1..Len(items)} /\ ToTell \subseteq Announcement
  BY <1>1, ToTellIs
<1>4. Last(items) = items[Len(items)] /\ Head(items) = items[1]
  BY <1>1, <1>2 DEF Last
<1>5. /\ items' = items /\ dropped' = dropped /\ settings' = settings /\ keys' = keys
      /\ told' = told /\ reported' = reported /\ over' = over /\ drain' = "send"
      /\ late' = late /\ mishaps' = mishaps
      /\ sending' = [tells |-> T, sums |-> U, removes |-> r, key |-> <<k>>, at |-> "way"]
  BY DEF Send
<1>6. sending'.tells = T /\ sending'.sums = U /\ sending'.removes = r /\ sending'.key = <<k>>
      /\ sending'.key[1] = k /\ sending'.at = "way"
  BY <1>5
<1>7. ToTell' = ToTell
  BY <1>5 DEF ToTell
<1>8. Cross' <=> Cross
  BY <1>7 DEF Cross
<1>9. Summary \subseteq Announcement /\ Summary \in {{}, dropped}
  BY <1>1 DEF Summary
<1> QED BY <1>1, <1>2, <1>3, <1>4, <1>5, <1>6, <1>7, <1>8, <1>9

\* All that waits goes out under the key of the last.
LEMMA SendCollectedKeeps ==
    ASSUME AnnounceInv, SendCollected
    PROVE  AnnounceInv'
<1>1. /\ drain = "checked" /\ items # <<>>
      /\ Send(ToTell, Summary, Len(items), Last(items)) /\ forced' = forced
      /\ upsets' = upsets \cup {"batch"}
           \cup (IF settings.mode # "collect" \/ Individual THEN {"regrouped"} ELSE {})
  BY DEF SendCollected
<1> DEFINE last == items[Len(items)]
<1>2. /\ Len(items) \in Nat \ {0} /\ items \in Seq(Announcement)
      /\ \A i \in 1..Len(items) : items[i] \in Announcement
      /\ ToTell = {items[i] : i \in 1..Len(items)} /\ ToTell \subseteq Announcement
      /\ Last(items) = last /\ ToTell' = ToTell /\ (Cross' <=> Cross)
      /\ items' = items /\ dropped' = dropped /\ settings' = settings /\ keys' = keys
      /\ told' = told /\ reported' = reported /\ over' = over /\ late' = late
      /\ mishaps' = mishaps
      /\ drain' = "send" /\ sending'.tells = ToTell /\ sending'.sums = Summary
      /\ sending'.removes = Len(items) /\ sending'.key = <<last>> /\ sending'.key[1] = last
      /\ sending'.at = "way"
      /\ sending' = [tells |-> ToTell, sums |-> Summary, removes |-> Len(items), key |-> <<last>>,
                     at |-> "way"]
      /\ Summary \subseteq Announcement /\ Summary \in {{}, dropped}
  BY <1>1, SendBegins
<1>3. last \in Announcement /\ last \in ToTell
  BY <1>2
<1> HIDE DEF last
<1>4. upsets \subseteq upsets' /\ "batch" \in upsets' /\ upsets' \subseteq upsets \cup {"batch", "regrouped"}
      /\ ("regrouped" \notin upsets' => settings.mode = "collect" /\ ~Individual)
  BY <1>1
<1>5. AnnounceTyped'
  <2>1. sending' \in [tells : SUBSET Announcement, sums : SUBSET Announcement,
                      removes : Nat \ {0}, key : Key, at : {"way", "past", "answered", "gone"}]
    <3>1. <<last>> \in Key
      BY <1>3 DEF Key
    <3> QED BY <1>2, <3>1
  <2>2. items' # <<>>
    BY <1>1, <1>2
  <2> QED BY <1>1, <1>2, <1>4, <2>1, <2>2 DEF AnnounceInv, AnnounceTyped
<1>6. Ordered'
  <2>1. ToTell \subseteq over.seen /\ last \in over.seen
    BY <1>2, <1>3 DEF AnnounceInv, Ordered
  <2>2. \A i \in 1..Len(items) : ~(i > Len(items))
    BY <1>2
  <2> QED BY <1>2, <2>1, <2>2 DEF AnnounceInv, Ordered
<1>7. Answering'
  <2> SUFFICES ASSUME "answerLost" \notin upsets' PROVE Answering'
    BY DEF Answering
  <2>1. "answerLost" \notin upsets
    BY <1>4
  <2>2. /\ \A b \in Announcement : told[b] <= 1
        /\ \A i \in 1..Len(items) : ~(told[items[i]] > 0)
    BY <1>1, <2>1 DEF AnnounceInv, Answering, Removes
  <2>3. \A b \in Announcement : told[b] \in 0..2
    BY AnnounceFacts DEF AnnounceInv
  <2>4. \A b \in ToTell : told[b] = 0
    BY <1>2, <2>2, <2>3
  <2> QED BY <1>2, <2>2, <2>4 DEF Answering
<1>8. Grouped'
  <2> SUFFICES ASSUME upsets' \cap {"regrouped", "window", "forgotten"} = {} PROVE Grouped'
    BY DEF Grouped
  <2>1. upsets \cap {"regrouped", "window", "forgotten"} = {}
    BY <1>4
  <2>2. Collects' /\ Collects
    BY <1>1, <1>2, <1>4 DEF Collects, Individual
  <2>3. Len(items) > 0 /\ items[Len(items)] = last
    BY <1>2 DEF last
  <2>4. /\ \A a \in Announcement : told[a] <= 1
        /\ \A i \in 1..Len(items) : told[items[i]] > 0 =>
              \/ Collects /\ items[Len(items)] \in keys
              \/ i = 1 /\ items[1] \in keys /\ settings.mode # "collect"
        /\ \A r \in late :
              r.key[1] \in keys \/ Alike(r)
    BY <1>1, <2>1 DEF AnnounceInv, Grouped, Removes
  <2>5. Alike(sending)'
    BY <1>2, <2>2, <2>3 DEF Alike
  <2>6. \A r \in late : r.key[1] \in keys \/ Alike(r)'
    BY <1>2, <2>2, <2>4 DEF Alike
  <2> QED BY <1>2, <2>2, <2>3, <2>4, <2>5, <2>6 DEF Grouped
<1>9. OneByOne'
  BY <1>4 DEF OneByOne
<1>10. Covered'
  <2> SUFFICES ASSUME Undamaged' PROVE Covered'
    BY DEF Covered
  <2>1. Undamaged
    BY <1>4 DEF Undamaged
  <2>2. /\ \A a \in over.seen : a \in ToTell \cup dropped \cup reported \cup over.gone \/ told[a] > 0
        /\ \A i, j \in 1..Len(items) : i <= j /\ items[j] \in keys => told[items[i]] > 0
        /\ \A r \in late : \A i, j \in 1..Len(items) :
              ~r.former /\ i <= j /\ r.key = <<items[j]>> => items[i] \in r.tells
    BY <2>1 DEF AnnounceInv, Covered
  <2>3. Len(items) <= Len(items) /\ items[Len(items)] = last
    BY <1>2 DEF last
  <2> QED BY <1>2, <2>1, <2>2, <2>3 DEF Covered
<1> QED BY <1>5, <1>6, <1>7, <1>8, <1>9, <1>10 DEF AnnounceInv

\* The first goes out, under its key: alone, or with the summary in place of its prompt.
LEMMA SendFirstKeeps ==
    ASSUME AnnounceInv, drain = "debounce", items # <<>>,
           NEW T, T \in {{}, {Head(items)}}, NEW U, U \in {{}, Summary},
           Send(T, U, 1, Head(items)),
           forced' \in BOOLEAN, forced => forced',
           settings.mode = "collect" => forced' /\ (forced \/ Cross),
           upsets' \in {upsets, upsets \cup {"lent"}},
           "lent" \notin upsets' => T = {Head(items)} /\ U = {}
    PROVE  AnnounceInv'
<1> DEFINE first == items[1]
<1>1. /\ Len(items) \in Nat \ {0} /\ items \in Seq(Announcement)
      /\ \A i \in 1..Len(items) : items[i] \in Announcement
      /\ Head(items) = first /\ ToTell' = ToTell /\ (Cross' <=> Cross)
      /\ items' = items /\ dropped' = dropped /\ settings' = settings /\ keys' = keys
      /\ told' = told /\ reported' = reported /\ over' = over /\ late' = late
      /\ mishaps' = mishaps
      /\ drain' = "send" /\ sending'.tells = T /\ sending'.sums = U
      /\ sending'.removes = 1 /\ sending'.key = <<first>> /\ sending'.key[1] = first
      /\ sending'.at = "way"
      /\ sending' = [tells |-> T, sums |-> U, removes |-> 1, key |-> <<first>>, at |-> "way"]
      /\ Summary \subseteq Announcement /\ Summary \in {{}, dropped}
  BY SendBegins
<1>2. first \in Announcement /\ 1 \in 1..Len(items) /\ T \subseteq {first}
      /\ ("lent" \notin upsets' => T = {first})
  BY <1>1
<1>3. first \in over.seen
  BY <1>2 DEF AnnounceInv, Ordered
<1>4. told[first] \in 0..2
  BY <1>2, AnnounceFacts DEF AnnounceInv
<1> HIDE DEF first
<1>5. upsets \subseteq upsets' /\ upsets' \subseteq upsets \cup {"lent"}
  OBVIOUS
<1>6. AnnounceTyped'
  <2>1. sending' \in [tells : SUBSET Announcement, sums : SUBSET Announcement,
                      removes : Nat \ {0}, key : Key, at : {"way", "past", "answered", "gone"}]
    <3>1. <<first>> \in Key /\ T \subseteq Announcement /\ U \subseteq Announcement
          /\ 1 \in Nat \ {0}
      BY <1>1, <1>2 DEF Key
    <3> QED BY <1>1, <3>1
  <2>2. items' # <<>>
    BY <1>1
  <2> QED BY <1>1, <1>2, <1>5, <2>1, <2>2 DEF AnnounceInv, AnnounceTyped
<1>7. Ordered'
  <2>1. \A i \in 1..Len(items) : i > 1 => items[i] # first
    BY <1>2 DEF AnnounceInv, Ordered, first
  <2> QED BY <1>1, <1>2, <1>3, <2>1 DEF AnnounceInv, Ordered
<1>8. Answering'
  <2> SUFFICES ASSUME "answerLost" \notin upsets' PROVE Answering'
    BY DEF Answering
  <2>1. "answerLost" \notin upsets
    BY <1>5
  <2>2. /\ \A b \in Announcement : told[b] <= 1
        /\ \A i \in 1..Len(items) : ~(told[items[i]] > 0)
    BY <2>1 DEF AnnounceInv, Answering, Removes
  <2>3. told[first] = 0
    BY <1>2, <1>4, <2>2 DEF first
  <2> QED BY <1>1, <1>2, <2>2, <2>3 DEF Answering
<1>9. Grouped'
  <2> SUFFICES ASSUME upsets' \cap {"regrouped", "window", "forgotten"} = {} PROVE Grouped'
    BY DEF Grouped
  <2>1. upsets \cap {"regrouped", "window", "forgotten"} = {}
    BY <1>5
  <2>2. ~Collects' /\ ~Collects
    BY <1>1 DEF Collects
  <2>3. Len(items) > 0 /\ items[1] = first
    BY <1>1 DEF first
  <2>4. /\ \A a \in Announcement : told[a] <= 1
        /\ \A i \in 1..Len(items) : told[items[i]] > 0 =>
              i = 1 /\ items[1] \in keys /\ settings.mode # "collect"
        /\ \A r \in late : r.key[1] \in keys \/ (Alike(r) /\ settings.mode # "collect")
    BY <2>1, <2>2 DEF AnnounceInv, Grouped, Removes
  <2>5. Alike(sending)'
    BY <1>1, <1>2, <2>2, <2>3 DEF Alike
  <2>6. \A r \in late : r.key[1] \in keys \/ (Alike(r)' /\ settings.mode # "collect")
    BY <1>1, <2>2, <2>4 DEF Alike
  <2> QED BY <1>1, <2>2, <2>3, <2>4, <2>5, <2>6 DEF Grouped
<1>10. OneByOne'
  <2> SUFFICES ASSUME upsets' \cap {"batch", "window", "forgotten"} = {} PROVE OneByOne'
    BY DEF OneByOne
  <2>1. upsets \cap {"batch", "window", "forgotten"} = {}
    BY <1>5
  <2>2. /\ \A b \in Announcement : told[b] <= 1
        /\ \A i \in 1..Len(items) : told[items[i]] > 0 => items[i] \in keys
        /\ \A r \in late : \A b \in r.tells : r.key = <<b>> /\ (told[b] > 0 => b \in keys)
    BY <2>1 DEF AnnounceInv, OneByOne
  <2>3. \A b \in T : <<first>> = <<b>> /\ (told[b] > 0 => b \in keys)
    BY <1>2, <2>2 DEF first
  <2> QED BY <1>1, <2>2, <2>3 DEF OneByOne
<1>11. Covered'
  <2> SUFFICES ASSUME Undamaged' PROVE Covered'
    BY DEF Covered
  <2>1. Undamaged /\ T = {first} /\ U = {}
    BY <1>2, <1>5 DEF Undamaged
  <2>2. /\ \A a \in over.seen : a \in ToTell \cup dropped \cup reported \cup over.gone \/ told[a] > 0
        /\ \A i, j \in 1..Len(items) : i <= j /\ items[j] \in keys => told[items[i]] > 0
        /\ \A r \in late : \A i, j \in 1..Len(items) :
              ~r.former /\ i <= j /\ r.key = <<items[j]>> => items[i] \in r.tells
    BY <2>1 DEF AnnounceInv, Covered
  <2>3. 1 <= Len(items) /\ items[1] = first /\ \A i \in 1..1 : i = 1
    BY <1>1 DEF first
  <2> QED BY <1>1, <2>1, <2>2, <2>3 DEF Covered
<1> QED BY <1>6, <1>7, <1>8, <1>9, <1>10, <1>11 DEF AnnounceInv

\* The next item goes out alone.
LEMMA SendNextKeeps ==
    ASSUME AnnounceInv, SendNext
    PROVE  AnnounceInv'
<1>1. /\ drain = "debounce" /\ items # <<>> /\ Send({Head(items)}, {}, 1, Head(items))
      /\ upsets' = upsets /\ forced' = (Individual \/ forced)
      /\ Individual \/ settings.mode # "collect"
  BY DEF SendNext
<1>2. forced \in BOOLEAN
  BY DEF AnnounceInv, AnnounceTyped
<1>3. /\ forced' \in BOOLEAN /\ (forced => forced')
      /\ settings.mode = "collect" => forced' /\ (forced \/ Cross)
  BY <1>1, <1>2 DEF Individual
<1> QED BY <1>1, <1>3, SendFirstKeeps

\* The summary goes out in place of the next item.
LEMMA SendSummaryKeeps ==
    ASSUME AnnounceInv, SendSummary
    PROVE  AnnounceInv'
<1>1. /\ drain = "debounce" /\ items # <<>> /\ Send({}, Summary, 1, Head(items))
      /\ upsets' = upsets \cup {"lent"} /\ forced' = forced /\ settings.mode # "collect"
  BY DEF SendSummary
<1>2. forced' \in BOOLEAN
  BY <1>1 DEF AnnounceInv, AnnounceTyped
<1> QED BY <1>1, <1>2, SendFirstKeeps

-----------------------------------------------------------------------------
\* The gateway looks for the key: a known one stands for what was told under it.
LEMMA ArrivesKeeps ==
    ASSUME AnnounceInv, Arrives
    PROVE  AnnounceInv'
<1> DEFINE k == sending.key[1]
           known == k \in keys
<1>1. /\ drain = "send" /\ sending.at = "way"
      /\ sending' = [sending EXCEPT !.at = IF known THEN "answered" ELSE "past"]
      /\ upsets' = IF known /\ ~(sending.sums \subseteq reported) THEN upsets \cup {"keyUsed"}
                   ELSE upsets
      /\ items' = items /\ dropped' = dropped /\ settings' = settings /\ drain' = drain
      /\ forced' = forced /\ late' = late /\ mishaps' = mishaps /\ keys' = keys
      /\ told' = told /\ reported' = reported /\ over' = over
  BY DEF Arrives
<1>2. /\ sending \in [tells : SUBSET Announcement, sums : SUBSET Announcement,
                      removes : Nat \ {0}, key : Key, at : {"way", "past", "answered", "gone"}]
      /\ sending.key = <<k>> /\ k \in Announcement
      /\ Len(items) \in Nat
  BY <1>1, AnnounceFacts DEF AnnounceInv, AnnounceTyped
<1>3. /\ sending'.tells = sending.tells /\ sending'.sums = sending.sums
      /\ sending'.removes = sending.removes /\ sending'.key = sending.key
      /\ sending'.at \in {"past", "answered"} /\ (sending'.at = "answered" <=> known)
      /\ sending' \in [tells : SUBSET Announcement, sums : SUBSET Announcement,
                       removes : Nat \ {0}, key : Key, at : {"way", "past", "answered", "gone"}]
  BY <1>1, <1>2
<1>4. ToTell' = ToTell /\ (Cross' <=> Cross)
  BY <1>1 DEF ToTell, Cross
<1>5. upsets \subseteq upsets' /\ upsets' \subseteq upsets \cup {"keyUsed"}
      /\ ("keyUsed" \notin upsets' => ~known \/ sending.sums \subseteq reported)
  BY <1>1
<1>6. Collects' <=> Collects
  BY <1>1, <1>4 DEF Collects
<1>7. AnnounceTyped'
  BY <1>1, <1>3, <1>5 DEF AnnounceInv, AnnounceTyped
<1>8. Ordered'
  BY <1>1, <1>3 DEF AnnounceInv, Ordered
<1>9. Answering'
  <2> SUFFICES ASSUME "answerLost" \notin upsets' PROVE Answering'
    BY DEF Answering
  <2>1. /\ \A a \in Announcement : told[a] <= 1
        /\ \A i \in 1..Len(items) : ~(told[items[i]] > 0)
        /\ \A a \in sending.tells : told[a] = 0
    BY <1>1, <1>5 DEF AnnounceInv, Answering, Removes
  <2> QED BY <1>1, <1>3, <2>1 DEF Answering
<1>10. Grouped'
  <2> SUFFICES ASSUME upsets' \cap {"regrouped", "window", "forgotten"} = {} PROVE Grouped'
    BY DEF Grouped
  <2>1. /\ \A a \in Announcement : told[a] <= 1
        /\ \A i \in 1..Len(items) : told[items[i]] > 0 =>
              \/ Collects /\ items[Len(items)] \in keys
              \/ i = 1 /\ items[1] \in keys /\ settings.mode # "collect"
        /\ Len(items) > 0 /\ Alike(sending)
        /\ sending.removes = IF Collects THEN Len(items) ELSE 1
        /\ \A r \in late :
              r.key[1] \in keys \/ (Alike(r) /\ (settings.mode = "collect" => Collects))
    BY <1>1, <1>5 DEF AnnounceInv, Grouped, Removes
  <2>2. Alike(sending)' /\ \A r \in late : Alike(r) => Alike(r)'
    BY <1>1, <1>3, <1>4, <1>6, <2>1 DEF Alike
  <2> QED BY <1>1, <1>3, <1>6, <2>1, <2>2 DEF Grouped
<1>11. OneByOne'
  BY <1>1, <1>3, <1>5 DEF AnnounceInv, OneByOne
<1>12. Covered'
  <2> SUFFICES ASSUME Undamaged' PROVE Covered'
    BY DEF Covered
  <2>1. Undamaged /\ (known => sending.sums \subseteq reported)
    BY <1>5 DEF Undamaged
  <2>2. /\ \A a \in over.seen : a \in ToTell \cup dropped \cup reported \cup over.gone \/ told[a] > 0
        /\ \A i, j \in 1..Len(items) : i <= j /\ items[j] \in keys => told[items[i]] > 0
        /\ sending.removes <= Len(items)
        /\ sending.key = <<items[sending.removes]>>
        /\ \A i \in 1..sending.removes : items[i] \in sending.tells
        /\ sending.sums \in {{}, dropped}
        /\ \A r \in late : \A i, j \in 1..Len(items) :
              ~r.former /\ i <= j /\ r.key = <<items[j]>> => items[i] \in r.tells
    BY <1>1, <2>1 DEF AnnounceInv, Covered
  <2>3. ASSUME known PROVE \A i \in 1..sending.removes : told[items[i]] > 0
    <3>1. sending.removes \in 1..Len(items) /\ items[sending.removes] = k
          /\ \A i \in 1..sending.removes : i \in 1..Len(items) /\ i <= sending.removes
      BY <1>2, <2>2
    <3> QED BY <2>2, <2>3, <3>1
  <2> QED BY <1>1, <1>3, <1>4, <2>1, <2>2, <2>3 DEF Covered
<1> QED BY <1>7, <1>8, <1>9, <1>10, <1>11, <1>12 DEF AnnounceInv

-----------------------------------------------------------------------------
\* A run tells what its request tells, once more.
LEMMA RunsIs ==
    ASSUME AnnounceTyped, NEW req, req.tells \subseteq Announcement, req.sums \subseteq Announcement,
           Runs(req)
    PROVE  /\ told' \in [Announcement -> 0..2] /\ reported' \subseteq Announcement
           /\ reported' = reported \cup req.sums
           /\ \A a \in Announcement :
                 /\ told[a] \in 0..2 /\ told'[a] \in 0..2
                 /\ a \in req.tells => told'[a] > 0
                 /\ a \notin req.tells => told'[a] = told[a]
                 /\ told[a] > 0 => told'[a] > 0
                 /\ told[a] = 0 => told'[a] <= 1
<1>1. /\ told' = [a \in Announcement |->
                    IF a \in req.tells /\ told[a] < 2 THEN told[a] + 1 ELSE told[a]]
      /\ reported' = reported \cup req.sums
  BY DEF Runs
<1>2. \A a \in Announcement : told[a] \in 0..2
  BY DEF AnnounceTyped
<1>3. told' \in [Announcement -> 0..2] /\ reported' \subseteq Announcement
  BY <1>1, <1>2 DEF AnnounceTyped
<1> QED BY <1>1, <1>2, <1>3

\* What a request tells under a key that is not known was not told.
LEMMA NotToldYet ==
    ASSUME AnnounceInv, upsets \cap {"regrouped", "window", "forgotten"} = {}, NEW req,
           req \in late \/ (drain = "send" /\ req = sending /\ sending.at # "answered"),
           req.key[1] \notin keys
    PROVE  /\ Len(items) > 0 /\ Alike(req)
           /\ \A a \in req.tells : a \in Announcement /\ told[a] = 0
<1>1. /\ items \in Seq(Announcement) /\ Len(items) \in Nat
      /\ \A i \in 1..Len(items) : items[i] \in Announcement
      /\ ToTell = {items[i] : i \in 1..Len(items)}
      /\ \A a \in Announcement : told[a] \in 0..2
  BY AnnounceFacts DEF AnnounceInv
<1>2. /\ \A i \in 1..Len(items) : told[items[i]] > 0 =>
            \/ Collects /\ items[Len(items)] \in keys
            \/ i = 1 /\ items[1] \in keys /\ settings.mode # "collect"
            \/ Removes(items[i])
      /\ drain = "send" => Len(items) > 0 /\ Alike(sending)
                           /\ (sending.at = "answered" => sending.key[1] \in keys)
      /\ \A r \in late : r.key[1] \in keys \/ (Len(items) > 0 /\ Alike(r))
  BY DEF AnnounceInv, Grouped
<1>3. Len(items) > 0 /\ Alike(req) /\ 1 \in 1..Len(items)
  BY <1>1, <1>2
<1>4. ASSUME NEW i \in 1..Len(items), items[i] \in req.tells, told[items[i]] > 0
      PROVE  FALSE
  <2>1. CASE Collects
    <3>1. req.key[1] = items[Len(items)] /\ settings.mode = "collect"
      BY <1>3, <2>1 DEF Alike, Collects
    <3>2. Removes(items[i])
      BY <1>2, <1>4, <3>1
    <3>3. sending.key[1] = items[Len(items)] /\ sending.key[1] \in keys
      BY <1>2, <2>1, <3>2 DEF Removes, Alike
    <3> QED BY <3>1, <3>3
  <2>2. CASE ~Collects
    <3>1. req.key[1] = items[1]
      BY <1>3, <2>2 DEF Alike
    <3>2. Removes(items[i])
      BY <1>2, <1>4, <2>2, <3>1
    <3>3. sending.key[1] = items[1] /\ sending.key[1] \in keys
      BY <1>2, <2>2, <3>2 DEF Removes, Alike
    <3> QED BY <3>1, <3>3
  <2> QED BY <2>1, <2>2
<1>5. \A a \in req.tells : \E i \in 1..Len(items) : a = items[i]
  BY <1>1, <1>3 DEF Alike
<1>6. ASSUME NEW a \in req.tells PROVE a \in Announcement /\ told[a] = 0
  <2>1. PICK i \in 1..Len(items) : a = items[i]
    BY <1>5
  <2>2. ~(told[a] > 0)
    BY <1>4, <2>1
  <2> QED BY <1>1, <2>1, <2>2
<1> QED BY <1>3, <1>6

\* If each has a key of its own, a run whose key was not known tells it for the first time.
LEMMA ToldOneByOne ==
    ASSUME AnnounceInv, upsets \cap {"batch", "window", "forgotten"} = {}, NEW req,
           req \in late \/ (drain = "send" /\ req = sending), req.key[1] \notin keys,
           Runs(req), keys' = keys \cup {req.key[1]}
    PROVE  /\ \A a \in Announcement : told'[a] <= 1
           /\ \A a \in Announcement : (told[a] > 0 => a \in keys) => (told'[a] > 0 => a \in keys')
<1>1. /\ req.tells \subseteq Announcement /\ req.sums \subseteq Announcement
      /\ req.key = <<req.key[1]>>
  BY AnnounceFacts DEF AnnounceInv
<1>2. /\ \A a \in Announcement : told[a] <= 1
      /\ \A a \in req.tells : req.key = <<a>> /\ (told[a] > 0 => a \in keys)
  BY DEF AnnounceInv, OneByOne
<1>3. \A a \in Announcement :
         /\ told[a] \in 0..2 /\ told'[a] \in 0..2
         /\ a \notin req.tells => told'[a] = told[a]
         /\ told[a] = 0 => told'[a] <= 1
  BY <1>1, RunsIs DEF AnnounceInv
<1>4. \A a \in req.tells : a = req.key[1]
  BY <1>2
<1>5. \A a \in req.tells : told[a] = 0 /\ a \in keys'
  BY <1>1, <1>2, <1>3, <1>4
<1>6. \A a \in Announcement : told'[a] <= 1
  BY <1>2, <1>3, <1>5
<1>7. \A a \in Announcement : (told[a] > 0 => a \in keys) => (told'[a] > 0 => a \in keys')
  BY <1>3, <1>5
<1> QED BY <1>6, <1>7

\* The run of the send under way.
LEMMA RecordsKeeps ==
    ASSUME AnnounceInv, Records
    PROVE  AnnounceInv'
<1> DEFINE k == sending.key[1]
<1>1. /\ drain = "send" /\ sending.at = "past" /\ Runs(sending) /\ keys' = keys \cup {k}
      /\ upsets' = upsets \cup KeyTwice(sending)
      /\ sending' = [sending EXCEPT !.at = "answered"]
      /\ items' = items /\ dropped' = dropped /\ settings' = settings /\ drain' = drain
      /\ forced' = forced /\ late' = late /\ mishaps' = mishaps /\ over' = over
  BY DEF Records
<1>2. /\ sending \in [tells : SUBSET Announcement, sums : SUBSET Announcement,
                      removes : Nat \ {0}, key : Key, at : {"way", "past", "answered", "gone"}]
      /\ sending.tells \subseteq Announcement /\ sending.sums \subseteq Announcement
      /\ sending.key = <<k>> /\ k \in Announcement
      /\ Len(items) \in Nat /\ \A i \in 1..Len(items) : items[i] \in Announcement
  BY <1>1, AnnounceFacts DEF AnnounceInv, AnnounceTyped
<1>3. /\ sending'.tells = sending.tells /\ sending'.sums = sending.sums
      /\ sending'.removes = sending.removes /\ sending'.key = sending.key
      /\ sending'.at = "answered"
      /\ sending' \in [tells : SUBSET Announcement, sums : SUBSET Announcement,
                       removes : Nat \ {0}, key : Key, at : {"way", "past", "answered", "gone"}]
  BY <1>1, <1>2
<1>4. /\ told' \in [Announcement -> 0..2] /\ reported' \subseteq Announcement
      /\ reported' = reported \cup sending.sums
      /\ \A a \in Announcement :
            /\ told[a] \in 0..2 /\ told'[a] \in 0..2
            /\ a \in sending.tells => told'[a] > 0
            /\ a \notin sending.tells => told'[a] = told[a]
            /\ told[a] > 0 => told'[a] > 0
            /\ told[a] = 0 => told'[a] <= 1
  BY <1>1, <1>2, RunsIs DEF AnnounceInv
<1>5. ToTell' = ToTell /\ (Cross' <=> Cross)
  BY <1>1 DEF ToTell, Cross
<1>6. upsets \subseteq upsets' /\ upsets' \subseteq upsets \cup {"window"}
      /\ ("window" \notin upsets' => k \notin keys)
  BY <1>1 DEF KeyTwice
<1>7. Collects' <=> Collects
  BY <1>1, <1>5 DEF Collects
<1>8. AnnounceTyped'
  BY <1>1, <1>2, <1>3, <1>4, <1>6 DEF AnnounceInv, AnnounceTyped
<1>9. Ordered'
  <2>1. /\ sending.tells \subseteq over.seen /\ k \in over.seen /\ keys \subseteq over.seen
        /\ \A a \in Announcement : told[a] > 0 => a \in over.seen
    BY <1>1 DEF AnnounceInv, Ordered
  <2>2. \A a \in Announcement : told'[a] > 0 => a \in over.seen
    BY <1>4, <2>1
  <2> QED BY <1>1, <1>3, <2>1, <2>2 DEF AnnounceInv, Ordered
<1>10. Answering'
  <2> SUFFICES ASSUME "answerLost" \notin upsets' PROVE Answering'
    BY DEF Answering
  <2>1. /\ \A a \in Announcement : told[a] <= 1
        /\ \A i \in 1..Len(items) : ~(told[items[i]] > 0)
        /\ \A a \in sending.tells : told[a] = 0
    BY <1>1, <1>6 DEF AnnounceInv, Answering, Removes
  <2>2. \A a \in Announcement : told'[a] <= 1
    BY <1>4, <2>1
  <2>3. \A i \in 1..Len(items) : told'[items[i]] > 0 => items[i] \in sending.tells
    BY <1>2, <1>4, <2>1
  <2> QED BY <1>1, <1>3, <2>2, <2>3 DEF Answering, Removes
<1>11. Grouped'
  <2> SUFFICES ASSUME upsets' \cap {"regrouped", "window", "forgotten"} = {} PROVE Grouped'
    BY DEF Grouped
  <2>1. upsets \cap {"regrouped", "window", "forgotten"} = {} /\ k \notin keys
    BY <1>6
  <2>2. /\ \A a \in Announcement : told[a] <= 1
        /\ \A i \in 1..Len(items) : told[items[i]] > 0 =>
              \/ Collects /\ items[Len(items)] \in keys
              \/ i = 1 /\ items[1] \in keys /\ settings.mode # "collect"
        /\ Len(items) > 0 /\ Alike(sending)
        /\ sending.removes = IF Collects THEN Len(items) ELSE 1
        /\ \A r \in late :
              r.key[1] \in keys \/ (Alike(r) /\ (settings.mode = "collect" => Collects))
    BY <1>1, <2>1 DEF AnnounceInv, Grouped, Removes
  <2>3. \A a \in sending.tells : told[a] = 0
    BY <1>1, <2>1, NotToldYet
  <2>4. \A a \in Announcement : told'[a] <= 1
    BY <1>4, <2>2, <2>3
  <2>5. Alike(sending)' /\ \A r \in late : Alike(r) => Alike(r)'
    BY <1>1, <1>3, <1>5, <1>7, <2>2 DEF Alike
  <2>6. \A i \in 1..Len(items) : told'[items[i]] > 0 =>
           items[i] \in sending.tells \/ told[items[i]] > 0
    BY <1>2, <1>4
  <2> QED BY <1>1, <1>3, <1>7, <2>2, <2>4, <2>5, <2>6 DEF Grouped, Removes
<1>12. OneByOne'
  <2> SUFFICES ASSUME upsets' \cap {"batch", "window", "forgotten"} = {} PROVE OneByOne'
    BY DEF OneByOne
  <2>1. upsets \cap {"batch", "window", "forgotten"} = {} /\ k \notin keys
    BY <1>6
  <2>2. /\ \A a \in Announcement : told'[a] <= 1
        /\ \A a \in Announcement : (told[a] > 0 => a \in keys) => (told'[a] > 0 => a \in keys')
    BY <1>1, <2>1, ToldOneByOne
  <2>3. /\ \A i \in 1..Len(items) : told[items[i]] > 0 => items[i] \in keys
        /\ \A a \in sending.tells : sending.key = <<a>> /\ (told[a] > 0 => a \in keys)
        /\ \A r \in late : r.tells \subseteq Announcement
              /\ \A a \in r.tells : r.key = <<a>> /\ (told[a] > 0 => a \in keys)
    BY <1>1, <2>1, AnnounceFacts DEF AnnounceInv, OneByOne
  <2>4. \A i \in 1..Len(items) : told'[items[i]] > 0 => items[i] \in keys'
    BY <1>2, <2>2, <2>3
  <2>5. \A a \in sending.tells : sending.key = <<a>> /\ (told'[a] > 0 => a \in keys')
    BY <1>2, <2>2, <2>3
  <2>6. \A r \in late : \A a \in r.tells : r.key = <<a>> /\ (told'[a] > 0 => a \in keys')
    BY <2>2, <2>3
  <2> QED BY <1>1, <1>3, <2>2, <2>4, <2>5, <2>6 DEF OneByOne
<1>13. Covered'
  <2> SUFFICES ASSUME Undamaged' PROVE Covered'
    BY DEF Covered
  <2>1. Undamaged
    BY <1>6 DEF Undamaged
  <2>2. /\ \A a \in over.seen : a \in ToTell \cup dropped \cup reported \cup over.gone \/ told[a] > 0
        /\ \A i, j \in 1..Len(items) : i <= j /\ items[j] \in keys => told[items[i]] > 0
        /\ sending.removes <= Len(items)
        /\ sending.key = <<items[sending.removes]>>
        /\ \A i \in 1..sending.removes : items[i] \in sending.tells
        /\ sending.sums \in {{}, dropped}
        /\ \A r \in late : \A i, j \in 1..Len(items) :
              ~r.former /\ i <= j /\ r.key = <<items[j]>> => items[i] \in r.tells
    BY <1>1, <2>1 DEF AnnounceInv, Covered
  <2>3. sending.removes \in 1..Len(items) /\ items[sending.removes] = k
        /\ \A i \in 1..sending.removes : i \in 1..Len(items)
    BY <1>2, <2>2
  <2>4. over.seen \subseteq Announcement
    BY DEF AnnounceInv, AnnounceTyped
  <2>5. \A a \in over.seen : a \in ToTell \cup dropped \cup reported' \cup over.gone \/ told'[a] > 0
    BY <1>4, <2>2, <2>4
  <2>6. ASSUME NEW i \in 1..Len(items), NEW j \in 1..Len(items), i <= j, items[j] \in keys'
        PROVE  told'[items[i]] > 0
    <3>1. CASE items[j] \in keys
      BY <1>2, <1>4, <2>2, <2>6, <3>1
    <3>2. CASE items[j] = k
      <4>1. j = sending.removes
        BY <2>3, <3>2 DEF AnnounceInv, Ordered
      <4> QED BY <1>2, <1>4, <2>2, <2>6, <4>1
    <3> QED BY <1>1, <2>6, <3>1, <3>2
  <2>7. sending.sums \subseteq reported' /\ \A i \in 1..sending.removes : told'[items[i]] > 0
    BY <1>2, <1>4, <2>2, <2>3
  <2> QED BY <1>1, <1>3, <1>5, <2>2, <2>5, <2>6, <2>7 DEF Covered
<1> QED BY <1>8, <1>9, <1>10, <1>11, <1>12, <1>13 DEF AnnounceInv

\* The run of a request that is late: what waits and was told by it is sent again under
\* its key.
LEMMA RecordsLateKeeps ==
    ASSUME AnnounceInv, NEW req \in late, RecordsLate(req)
    PROVE  AnnounceInv'
<1> DEFINE k == req.key[1]
<1>1. /\ Runs(req) /\ keys' = IF req.former THEN keys ELSE keys \cup {k}
      /\ upsets' = upsets \cup KeyTwice(req) /\ late' = late \ {req}
      /\ items' = items /\ dropped' = dropped /\ settings' = settings /\ drain' = drain
      /\ forced' = forced /\ sending' = sending /\ mishaps' = mishaps /\ over' = over
  BY DEF RecordsLate
<1>2. /\ req.tells \subseteq Announcement /\ req.sums \subseteq Announcement
      /\ req.key = <<k>> /\ k \in Announcement
      /\ Len(items) \in Nat /\ \A i \in 1..Len(items) : items[i] \in Announcement
      /\ "answerLost" \in upsets /\ (req.former => "forgotten" \in upsets)
      /\ drain = "send" => sending.tells \subseteq Announcement /\ sending.removes \in Nat \ {0}
      /\ \A r \in late : r.tells \subseteq Announcement
  BY AnnounceFacts DEF AnnounceInv, AnnounceTyped
<1>3. /\ told' \in [Announcement -> 0..2] /\ reported' \subseteq Announcement
      /\ reported' = reported \cup req.sums
      /\ \A a \in Announcement :
            /\ told[a] \in 0..2 /\ told'[a] \in 0..2
            /\ a \in req.tells => told'[a] > 0
            /\ a \notin req.tells => told'[a] = told[a]
            /\ told[a] > 0 => told'[a] > 0
            /\ told[a] = 0 => told'[a] <= 1
  BY <1>1, <1>2, RunsIs DEF AnnounceInv
<1>4. ToTell' = ToTell /\ (Cross' <=> Cross)
  BY <1>1 DEF ToTell, Cross
<1>5. upsets \subseteq upsets' /\ upsets' \subseteq upsets \cup {"window"}
      /\ ("window" \notin upsets' => k \notin keys)
  BY <1>1 DEF KeyTwice
<1>6. Collects' <=> Collects
  BY <1>1, <1>4 DEF Collects
<1>7. keys' \subseteq keys \cup {k} /\ keys \subseteq keys' /\ late' \subseteq late
      /\ (~req.former => k \in keys')
  BY <1>1
<1>8. AnnounceTyped'
  BY <1>1, <1>2, <1>3, <1>5, <1>7 DEF AnnounceInv, AnnounceTyped
<1>9. Ordered'
  <2>1. /\ req.tells \subseteq over.seen /\ k \in over.seen /\ keys \subseteq over.seen
        /\ \A a \in Announcement : told[a] > 0 => a \in over.seen
    BY DEF AnnounceInv, Ordered
  <2>2. \A a \in Announcement : told'[a] > 0 => a \in over.seen
    BY <1>3, <2>1
  <2> QED BY <1>1, <1>7, <2>1, <2>2 DEF AnnounceInv, Ordered
<1>10. Answering'
  BY <1>2, <1>5 DEF Answering
<1>11. Grouped'
  <2> SUFFICES ASSUME upsets' \cap {"regrouped", "window", "forgotten"} = {} PROVE Grouped'
    BY DEF Grouped
  <2>1. upsets \cap {"regrouped", "window", "forgotten"} = {} /\ k \notin keys /\ k \in keys'
    BY <1>2, <1>5, <1>7
  <2>2. /\ \A a \in Announcement : told[a] <= 1
        /\ \A i \in 1..Len(items) : told[items[i]] > 0 =>
              \/ Collects /\ items[Len(items)] \in keys
              \/ i = 1 /\ items[1] \in keys /\ settings.mode # "collect"
              \/ Removes(items[i])
        /\ drain = "send" =>
              /\ Len(items) > 0 /\ Alike(sending)
              /\ sending.removes = IF Collects THEN Len(items) ELSE 1
              /\ sending.at = "answered" => sending.key[1] \in keys
        /\ \A r \in late :
              \/ r.key[1] \in keys
              \/ Len(items) > 0 /\ Alike(r) /\ (settings.mode = "collect" => Collects)
    BY <2>1 DEF AnnounceInv, Grouped
  <2>3. Len(items) > 0 /\ Alike(req) /\ \A a \in req.tells : told[a] = 0
    BY <2>1, NotToldYet
  <2>4. \A a \in Announcement : told'[a] <= 1
    BY <1>3, <2>2, <2>3
  <2>5. /\ drain = "send" => Alike(sending)'
        /\ \A r \in late : Alike(r) => Alike(r)'
    BY <1>1, <1>4, <1>6, <2>2 DEF Alike
  <2>6. ASSUME NEW i \in 1..Len(items), told'[items[i]] > 0
        PROVE  \/ Collects /\ items[Len(items)] \in keys'
               \/ i = 1 /\ items[1] \in keys' /\ settings.mode # "collect"
               \/ Removes(items[i])
    <3>1. CASE items[i] \notin req.tells
      BY <1>2, <1>3, <1>7, <2>2, <2>6, <3>1
    <3>2. CASE items[i] \in req.tells /\ Collects
      BY <2>1, <2>3, <3>2 DEF Alike
    <3>3. CASE items[i] \in req.tells /\ ~Collects
      <4>1. items[i] = items[1] /\ k = items[1] /\ settings.mode # "collect" /\ 1 \in 1..Len(items)
        BY <1>2, <2>1, <2>2, <2>3, <3>3 DEF Alike
      <4>2. i = 1
        BY <4>1 DEF AnnounceInv, Ordered
      <4> QED BY <2>1, <4>1, <4>2
    <3> QED BY <3>1, <3>2, <3>3
  <2> QED BY <1>1, <1>6, <1>7, <2>2, <2>4, <2>5, <2>6 DEF Grouped, Removes
<1>12. OneByOne'
  <2> SUFFICES ASSUME upsets' \cap {"batch", "window", "forgotten"} = {} PROVE OneByOne'
    BY DEF OneByOne
  <2>1. /\ upsets \cap {"batch", "window", "forgotten"} = {} /\ k \notin keys
        /\ keys' = keys \cup {k}
    BY <1>1, <1>2, <1>5
  <2>2. /\ \A a \in Announcement : told'[a] <= 1
        /\ \A a \in Announcement : (told[a] > 0 => a \in keys) => (told'[a] > 0 => a \in keys')
    BY <1>1, <2>1, ToldOneByOne
  <2>3. /\ \A i \in 1..Len(items) : told[items[i]] > 0 => items[i] \in keys
        /\ drain = "send" =>
              \A a \in sending.tells : sending.key = <<a>> /\ (told[a] > 0 => a \in keys)
        /\ \A r \in late : \A a \in r.tells : r.key = <<a>> /\ (told[a] > 0 => a \in keys)
    BY <2>1 DEF AnnounceInv, OneByOne
  <2>4. \A i \in 1..Len(items) : told'[items[i]] > 0 => items[i] \in keys'
    BY <1>2, <2>2, <2>3
  <2>5. drain = "send" =>
           \A a \in sending.tells : sending.key = <<a>> /\ (told'[a] > 0 => a \in keys')
    BY <1>2, <2>2, <2>3
  <2>6. \A r \in late : \A a \in r.tells : r.key = <<a>> /\ (told'[a] > 0 => a \in keys')
    BY <1>2, <2>2, <2>3
  <2> QED BY <1>1, <1>7, <2>2, <2>4, <2>5, <2>6 DEF OneByOne
<1>13. Covered'
  <2> SUFFICES ASSUME Undamaged' PROVE Covered'
    BY DEF Covered
  <2>1. Undamaged
    BY <1>5 DEF Undamaged
  <2>2. /\ \A a \in over.seen : a \in ToTell \cup dropped \cup reported \cup over.gone \/ told[a] > 0
        /\ \A i, j \in 1..Len(items) : i <= j /\ items[j] \in keys => told[items[i]] > 0
        /\ drain = "send" =>
              /\ sending.removes <= Len(items)
              /\ sending.key = <<items[sending.removes]>>
              /\ \A i \in 1..sending.removes : items[i] \in sending.tells
              /\ sending.sums \in {{}, dropped}
              /\ sending.at = "answered" =>
                    /\ sending.sums \subseteq reported
                    /\ \A i \in 1..sending.removes : told[items[i]] > 0
        /\ \A r \in late : \A i, j \in 1..Len(items) :
              ~r.former /\ i <= j /\ r.key = <<items[j]>> => items[i] \in r.tells
    BY <2>1 DEF AnnounceInv, Covered
  <2>3. over.seen \subseteq Announcement
    BY DEF AnnounceInv, AnnounceTyped
  <2>4. \A a \in over.seen : a \in ToTell \cup dropped \cup reported' \cup over.gone \/ told'[a] > 0
    BY <1>3, <2>2, <2>3
  <2>5. ASSUME NEW i \in 1..Len(items), NEW j \in 1..Len(items), i <= j, items[j] \in keys'
        PROVE  told'[items[i]] > 0
    <3>1. CASE items[j] \in keys
      BY <1>2, <1>3, <2>2, <2>5, <3>1
    <3>2. CASE items[j] \notin keys
      <4>1. items[j] = k /\ ~req.former
        BY <1>1, <2>5, <3>2
      <4>2. req.key = <<items[j]>>
        BY <1>2, <4>1
      <4>3. items[i] \in req.tells
        BY <2>2, <2>5, <4>1, <4>2
      <4> QED BY <1>2, <1>3, <4>3
    <3> QED BY <3>1, <3>2
  <2>6. drain = "send" =>
          (sending.at = "answered" =>
              /\ sending.sums \subseteq reported'
              /\ \A i \in 1..sending.removes : told'[items[i]] > 0)
    <3>1. drain = "send" => \A i \in 1..sending.removes : i \in 1..Len(items)
      BY <1>2, <2>2
    <3> QED BY <1>2, <1>3, <2>2, <3>1
  <2> QED BY <1>1, <1>4, <1>7, <2>2, <2>4, <2>5, <2>6 DEF Covered
<1> QED BY <1>8, <1>9, <1>10, <1>11, <1>12, <1>13 DEF AnnounceInv

-----------------------------------------------------------------------------
\* Of the requests that are late after a step, each was late before or is that of the send
\* under way.
LEMMA LateAre ==
    ASSUME AnnounceTyped, NEW former \in BOOLEAN,
           \/ GoesOn(former)
           \/ late' = {[other EXCEPT !.former = TRUE] : other \in late} /\ former = TRUE
    PROVE  /\ late' \subseteq Requests /\ (former => \A r \in late' : r.former)
           /\ \A r \in late' :
                 \/ \E other \in late :
                       /\ r.tells = other.tells /\ r.key = other.key
                       /\ r.former = (other.former \/ former)
                 \/ /\ drain = "send" /\ sending.at = "past" /\ GoesOn(former)
                    /\ r.tells = sending.tells /\ r.key = sending.key /\ r.former = former
<1> DEFINE req == [tells |-> sending.tells, sums |-> sending.sums, key |-> sending.key,
                   former |-> former, nth |-> mishaps]
<1>1. \A other \in late :
         /\ other \in Requests
         /\ [other EXCEPT !.former = @ \/ former] \in Requests
         /\ [other EXCEPT !.former = @ \/ former].tells = other.tells
         /\ [other EXCEPT !.former = @ \/ former].key = other.key
         /\ [other EXCEPT !.former = @ \/ former].former = (other.former \/ former)
         /\ [other EXCEPT !.former = TRUE] \in Requests
         /\ [other EXCEPT !.former = TRUE].tells = other.tells
         /\ [other EXCEPT !.former = TRUE].key = other.key
         /\ [other EXCEPT !.former = TRUE].former = TRUE
  BY DEF AnnounceTyped, Requests
<1>2. ASSUME GoesOn(former)
      PROVE  /\ drain = "send" /\ sending.at = "past" /\ req \in Requests
             /\ late' = {[other EXCEPT !.former = @ \/ former] : other \in late} \cup {req}
  <2>1. sending.at = "past"
    BY <1>2 DEF GoesOn
  <2>2. drain = "send"
    BY <2>1 DEF AnnounceTyped, Nothing
  <2>3. /\ sending.tells \in SUBSET Announcement /\ sending.sums \in SUBSET Announcement
        /\ sending.key \in Key /\ mishaps \in Nat
    BY <2>2 DEF AnnounceTyped
  <2>4. req \in Requests
    BY <2>3 DEF Requests
  <2>5. late' = {[other EXCEPT !.former = @ \/ former] : other \in late} \cup {req}
    BY <1>2 DEF GoesOn
  <2> QED BY <2>1, <2>2, <2>4, <2>5
<1>3. req.tells = sending.tells /\ req.key = sending.key /\ req.former = former
  OBVIOUS
<1> HIDE DEF req
<1>4. ASSUME NEW r \in late'
      PROVE  /\ r \in Requests /\ (former => r.former)
             /\ \/ \E other \in late :
                      /\ r.tells = other.tells /\ r.key = other.key
                      /\ r.former = (other.former \/ former)
                \/ /\ drain = "send" /\ sending.at = "past" /\ GoesOn(former)
                   /\ r.tells = sending.tells /\ r.key = sending.key /\ r.former = former
  <2>1. CASE GoesOn(former)
    <3>1. CASE r = req
      BY <1>2, <1>3, <2>1, <3>1
    <3>2. CASE r # req
      <4>1. PICK other \in late : r = [other EXCEPT !.former = @ \/ former]
        BY <1>2, <1>4, <2>1, <3>2
      <4> QED BY <1>1, <4>1
    <3> QED BY <3>1, <3>2
  <2>2. CASE late' = {[other EXCEPT !.former = TRUE] : other \in late} /\ former = TRUE
    <3>1. PICK other \in late : r = [other EXCEPT !.former = TRUE]
      BY <1>4, <2>2
    <3> QED BY <1>1, <2>2, <3>1
  <2> QED BY <2>1, <2>2
<1> QED BY <1>4

\* A restart forgets keys; what was told under one is told again only if its answer was
\* lost, before or by this.
LEMMA RestartKeeps ==
    ASSUME AnnounceInv, Restart
    PROVE  AnnounceInv'
<1>0. AnnounceTyped /\ Ordered
  BY DEF AnnounceInv
<1>1. /\ drain # "spin" /\ mishaps' = mishaps + 1 /\ keys' = {}
      /\ \/ GoesOn(TRUE) /\ {"forgotten", "answerLost"} \subseteq upsets'
         \/ late' = {[other EXCEPT !.former = TRUE] : other \in late}
      /\ upsets \subseteq upsets' /\ upsets' \subseteq upsets \cup {"forgotten", "answerLost", "regrouped"}
      /\ "forgotten" \notin upsets' => drain # "send" /\ "answerLost" \notin upsets
      /\ sending' = IF sending.at \in {"way", "past"} THEN [sending EXCEPT !.at = "gone"] ELSE sending
      /\ items' = items /\ dropped' = dropped /\ settings' = settings /\ drain' = drain
      /\ forced' = forced /\ told' = told /\ reported' = reported /\ over' = over
  <2>1. \/ GoesOn(TRUE) /\ upsets' = upsets \cup {"forgotten"} \cup AnswerLost
        \/ /\ late' = {[other EXCEPT !.former = TRUE] : other \in late}
           /\ upsets' = upsets
                \cup IF drain = "send" \/ "answerLost" \in upsets THEN {"forgotten"} ELSE {}
    BY DEF Restart
  <2>2. {"answerLost"} \subseteq AnswerLost /\ AnswerLost \subseteq {"answerLost", "regrouped"}
    BY DEF AnswerLost
  <2> QED BY <2>1, <2>2 DEF Restart, Mishap
<1>2. /\ drain = "send" =>
            /\ sending.tells \subseteq Announcement /\ sending.key[1] \in Announcement
            /\ sending.at \in {"way", "past", "answered", "gone"}
      /\ Len(items) \in Nat /\ mishaps \in Nat
  BY <1>0, AnnounceFacts DEF AnnounceTyped
<1>3. /\ drain # "send" => sending' = Nothing
      /\ drain = "send" =>
            /\ sending' \in [tells : SUBSET Announcement, sums : SUBSET Announcement,
                             removes : Nat \ {0}, key : Key, at : {"way", "past", "answered", "gone"}]
            /\ sending'.tells = sending.tells /\ sending'.sums = sending.sums
            /\ sending'.removes = sending.removes /\ sending'.key = sending.key
            /\ (sending'.at = "answered" <=> sending.at = "answered")
  <2>1. Nothing.at = "none"
    BY DEF Nothing
  <2> QED BY <1>0, <1>1, <2>1 DEF AnnounceTyped
<1>4. /\ late' \subseteq Requests /\ \A r \in late' : r.former
      /\ \A r \in late' :
            \/ \E other \in late : r.tells = other.tells /\ r.key = other.key
            \/ drain = "send" /\ r.tells = sending.tells /\ r.key = sending.key
  <2>1. ASSUME NEW former \in BOOLEAN, former = TRUE,
               GoesOn(former) \/ late' = {[other EXCEPT !.former = TRUE] : other \in late}
        PROVE  /\ late' \subseteq Requests /\ \A r \in late' : r.former
               /\ \A r \in late' :
                     \/ \E other \in late : r.tells = other.tells /\ r.key = other.key
                     \/ drain = "send" /\ r.tells = sending.tells /\ r.key = sending.key
    <3>1. /\ late' \subseteq Requests /\ (former => \A r \in late' : r.former)
          /\ \A r \in late' :
                \/ \E other \in late :
                      /\ r.tells = other.tells /\ r.key = other.key
                      /\ r.former = (other.former \/ former)
                \/ /\ drain = "send" /\ sending.at = "past" /\ GoesOn(former)
                   /\ r.tells = sending.tells /\ r.key = sending.key /\ r.former = former
      BY <1>0, <2>1, LateAre
    <3> QED BY <2>1, <3>1
  <2>2. GoesOn(TRUE) \/ late' = {[other EXCEPT !.former = TRUE] : other \in late}
    BY <1>1
  <2> QED BY <2>1, <2>2
<1>5. late' # {} => {"answerLost", "forgotten"} \subseteq upsets'
  <2>1. CASE GoesOn(TRUE) /\ {"forgotten", "answerLost"} \subseteq upsets'
    BY <2>1
  <2>2. CASE late' = {[other EXCEPT !.former = TRUE] : other \in late}
    <3>1. ASSUME late' # {} PROVE "answerLost" \in upsets
      BY <1>0, <2>2, <3>1 DEF AnnounceTyped
    <3> QED BY <1>1, <3>1
  <2> QED BY <1>1, <2>1, <2>2
<1>6. ToTell' = ToTell
  BY <1>1 DEF ToTell
<1>7. AnnounceTyped'
  <2>1. mishaps' \in Nat /\ keys' \subseteq Announcement
    BY <1>1, <1>2
  <2>2. upsets' \subseteq {"overflow", "lent", "answerLost", "regrouped", "batch", "keyUsed",
                     "window", "forgotten"}
    BY <1>0, <1>1 DEF AnnounceTyped
  <2> QED BY <1>0, <1>1, <1>3, <1>4, <1>5, <2>1, <2>2 DEF AnnounceTyped
<1>8. Ordered'
  BY <1>0, <1>1, <1>3, <1>4 DEF Ordered
<1>9. Answering'
  <2> SUFFICES ASSUME "answerLost" \notin upsets' PROVE Answering'
    BY DEF Answering
  <2>1. /\ \A a \in Announcement : told[a] <= 1
        /\ \A i \in 1..Len(items) : told[items[i]] > 0 => Removes(items[i])
        /\ drain = "send" /\ sending.at # "answered" => \A a \in sending.tells : told[a] = 0
    BY <1>1 DEF AnnounceInv, Answering
  <2> QED BY <1>1, <1>3, <2>1 DEF Answering, Removes
<1>10. ASSUME "forgotten" \notin upsets'
       PROVE  /\ late' = {} /\ drain' # "send"
              /\ \A a \in Announcement : told[a] <= 1
              /\ \A i \in 1..Len(items) : ~(told[items[i]] > 0)
  <2>1. drain # "send" /\ "answerLost" \notin upsets
    BY <1>1, <1>10
  <2> QED BY <1>1, <1>5, <1>10, <2>1 DEF AnnounceInv, Answering, Removes
<1>11. Grouped' /\ OneByOne'
  BY <1>1, <1>10 DEF Grouped, OneByOne
<1>12. Covered'
  <2> SUFFICES ASSUME Undamaged' PROVE Covered'
    BY DEF Covered
  <2>1. Undamaged
    BY <1>1 DEF Undamaged
  <2> QED BY <1>1, <1>3, <1>4, <1>6, <2>1 DEF AnnounceInv, Covered
<1> QED BY <1>7, <1>8, <1>9, <1>11, <1>12 DEF AnnounceInv

-----------------------------------------------------------------------------
\* The answer: the send takes away what it told, and the summary is cleared.
LEMMA SentKeeps ==
    ASSUME AnnounceInv, Sent
    PROVE  AnnounceInv'
<1> DEFINE r == sending.removes
<1>0. AnnounceTyped /\ Ordered
  BY DEF AnnounceInv
<1>1. /\ drain = "send" /\ sending.at = "answered" /\ items' = Left /\ sending' = Nothing
      /\ dropped' = IF sending.sums = {} THEN dropped ELSE {}
      /\ drain' = Rescheduled /\ forced' \in {forced, FALSE}
      /\ (drain' # "none" => forced' = forced)
      /\ settings' = settings /\ over' = over /\ upsets' = upsets /\ late' = late
      /\ mishaps' = mishaps /\ keys' = keys /\ told' = told /\ reported' = reported
  BY DEF Sent
<1>2. /\ items \in Seq(Announcement) /\ Len(items) \in Nat /\ dropped \subseteq Announcement
      /\ \A i \in 1..Len(items) : items[i] \in Announcement
      /\ r \in Nat \ {0} /\ forced \in BOOLEAN
      /\ ToTell = {items[i] : i \in 1..Len(items)}
  BY <1>0, <1>1, AnnounceFacts DEF AnnounceTyped
<1>3. /\ items' \in Seq(Announcement) /\ Len(items') \in Nat
      /\ Len(items') = IF r <= Len(items) THEN Len(items) - r ELSE 0
      /\ \A i \in 1..Len(items') : i + r \in 1..Len(items) /\ items'[i] = items[i + r]
  <2>1. r \in Nat /\ items' = SubSeq(items, r + 1, Len(items))
    BY <1>1, <1>2 DEF Left
  <2> HIDE DEF r
  <2> DEFINE left == SubSeq(items, r + 1, Len(items))
  <2>2. /\ left \in Seq(Announcement) /\ Len(left) \in Nat
        /\ Len(left) = IF r <= Len(items) THEN Len(items) - r ELSE 0
        /\ \A i \in 1..Len(left) : i + r \in 1..Len(items) /\ left[i] = items[i + r]
    BY <1>2, <2>1, WithoutFirst
  <2> HIDE DEF left
  <2>3. items' = left
    BY <2>1 DEF left
  <2> QED BY <2>2, <2>3
<1> HIDE DEF r
<1>4. dropped' \subseteq dropped /\ drain' \in {"none", "debounce"} /\ drain' # "send"
      /\ (drain' = "none" <=> items' = <<>> /\ dropped' = {}) /\ forced' \in BOOLEAN
  BY <1>1, <1>2 DEF Rescheduled
<1>5. \A i, j \in 1..Len(items) : items[i] = items[j] => i = j
  BY <1>0 DEF Ordered
<1>6. \A i \in 1..Len(items') : items'[i] \in Announcement \ sending.tells
  <2>1. \A i \in 1..Len(items) : i > r => items[i] \notin sending.tells
    BY <1>0, <1>1 DEF Ordered, r
  <2>2. \A i \in 1..Len(items') : i + r > r
    BY <1>2, <1>3
  <2> QED BY <1>2, <1>3, <2>1, <2>2
<1>7. AnnounceTyped'
  BY <1>0, <1>1, <1>3, <1>4 DEF AnnounceTyped
<1>8. Ordered'
  <2>1. \A i, j \in 1..Len(items') : items'[i] = items'[j] => i = j
    <3> SUFFICES ASSUME NEW i \in 1..Len(items'), NEW j \in 1..Len(items'), items'[i] = items'[j]
                 PROVE  i = j
      OBVIOUS
    <3>1. i + r = j + r
      BY <1>3, <1>5
    <3> QED BY <1>2, <1>3, <3>1
  <2>2. \A i \in 1..Len(items') : items'[i] \in over'.seen
    BY <1>0, <1>1, <1>3 DEF Ordered
  <2> QED BY <1>0, <1>1, <1>4, <2>1, <2>2 DEF Ordered
<1>9. Answering'
  <2> SUFFICES ASSUME "answerLost" \notin upsets PROVE Answering'
    BY <1>1 DEF Answering
  <2>1. /\ \A a \in Announcement : told[a] <= 1
        /\ \A i \in 1..Len(items) : told[items[i]] > 0 => items[i] \in sending.tells
    BY DEF AnnounceInv, Answering, Removes
  <2>2. \A i \in 1..Len(items') : ~(told[items'[i]] > 0)
    BY <1>3, <1>6, <2>1
  <2> QED BY <1>1, <1>4, <2>1, <2>2 DEF Answering
<1>10. Grouped'
  <2> SUFFICES ASSUME upsets \cap {"regrouped", "window", "forgotten"} = {} PROVE Grouped'
    BY <1>1 DEF Grouped
  <2>1. /\ \A a \in Announcement : told[a] <= 1
        /\ \A i \in 1..Len(items) : told[items[i]] > 0 =>
              Collects \/ i = 1 \/ items[i] \in sending.tells
        /\ Len(items) > 0 /\ Alike(sending) /\ sending.key[1] \in keys
        /\ r = IF Collects THEN Len(items) ELSE 1
        /\ \A q \in late : q.key[1] \in keys \/ Alike(q)
    BY <1>1 DEF AnnounceInv, Grouped, Removes, r
  <2>2. ASSUME NEW i \in 1..Len(items') PROVE ~(told[items'[i]] > 0)
    <3>1. i + r \in 1..Len(items) /\ items'[i] = items[i + r] /\ i + r # 1
      BY <1>2, <1>3
    <3>2. ~Collects
      BY <1>2, <1>3, <2>1
    <3> QED BY <1>6, <2>1, <3>1, <3>2
  <2>3. \A q \in late : q.key[1] \in keys
    BY <2>1 DEF Alike
  <2> QED BY <1>1, <1>4, <2>1, <2>2, <2>3 DEF Grouped
<1>11. OneByOne'
  <2> SUFFICES ASSUME upsets \cap {"batch", "window", "forgotten"} = {} PROVE OneByOne'
    BY <1>1 DEF OneByOne
  <2>1. /\ \A a \in Announcement : told[a] <= 1
        /\ \A i \in 1..Len(items) : told[items[i]] > 0 => items[i] \in keys
        /\ \A q \in late : \A a \in q.tells : q.key = <<a>> /\ (told[a] > 0 => a \in keys)
    BY DEF AnnounceInv, OneByOne
  <2>2. \A i \in 1..Len(items') : told[items'[i]] > 0 => items'[i] \in keys
    BY <1>3, <2>1
  <2> QED BY <1>1, <1>4, <2>1, <2>2 DEF OneByOne
<1>12. Covered'
  <2> SUFFICES ASSUME Undamaged PROVE Covered'
    BY <1>1 DEF Covered, Undamaged
  <2>1. /\ \A a \in over.seen : a \in ToTell \cup dropped \cup reported \cup over.gone \/ told[a] > 0
        /\ \A i, j \in 1..Len(items) : i <= j /\ items[j] \in keys => told[items[i]] > 0
        /\ r <= Len(items) /\ sending.sums \in {{}, dropped} /\ sending.sums \subseteq reported
        /\ \A i \in 1..r : told[items[i]] > 0
        /\ \A q \in late : \A i, j \in 1..Len(items) :
              ~q.former /\ i <= j /\ q.key = <<items[j]>> => items[i] \in q.tells
    BY <1>1 DEF AnnounceInv, Covered, r
  <2>2. ToTell' = {items'[i] : i \in 1..Len(items')}
    BY <1>3, ToTellIsPrime
  <2>3. ASSUME NEW i \in 1..Len(items)
        PROVE  items[i] \in ToTell' \/ told[items[i]] > 0
    <3>1. CASE i <= r
      BY <1>2, <2>1, <3>1
    <3>2. CASE i > r
      <4>1. i - r \in 1..Len(items') /\ i - r + r = i
        BY <1>2, <1>3, <2>1, <3>2
      <4>2. items'[i - r] = items[i - r + r]
        BY <1>3, <4>1
      <4> QED BY <2>2, <4>1, <4>2
    <3> QED BY <1>2, <3>1, <3>2
  <2>4. dropped \subseteq dropped' \cup reported
    BY <1>1, <2>1
  <2>5. \A a \in over.seen : a \in ToTell' \cup dropped' \cup reported \cup over.gone \/ told[a] > 0
    BY <1>2, <2>1, <2>3, <2>4
  <2>6. \A i, j \in 1..Len(items') : i <= j =>
           /\ i + r \in 1..Len(items) /\ j + r \in 1..Len(items) /\ i + r <= j + r
           /\ items'[i] = items[i + r] /\ items'[j] = items[j + r]
    BY <1>2, <1>3
  <2>7. \A i, j \in 1..Len(items') : i <= j /\ items'[j] \in keys => told[items'[i]] > 0
    BY <2>1, <2>6
  <2>8. \A q \in late : \A i, j \in 1..Len(items') :
           ~q.former /\ i <= j /\ q.key = <<items'[j]>> => items'[i] \in q.tells
    BY <2>1, <2>6
  <2> QED BY <1>1, <1>4, <2>5, <2>7, <2>8 DEF Covered
<1> QED BY <1>7, <1>8, <1>9, <1>10, <1>11, <1>12 DEF AnnounceInv

\* The send throws: what it told waits to be sent again, under the same key if nothing
\* comes between.
LEMMA SendThrowsKeeps ==
    ASSUME AnnounceInv, SendThrows
    PROVE  AnnounceInv'
<1>0. AnnounceTyped /\ Ordered
  BY DEF AnnounceInv
<1>1. /\ drain = "send" /\ items' = items /\ dropped' = dropped /\ settings' = settings
      /\ keys' = keys /\ told' = told /\ reported' = reported /\ over' = over
      /\ drain' = Rescheduled /\ forced' = FALSE /\ sending' = Nothing
      /\ mishaps' \in {mishaps, mishaps + 1}
      /\ upsets' \in {upsets, upsets \cup AnswerLost}
      /\ late' = late \/ (GoesOn(FALSE) /\ upsets' = upsets \cup AnswerLost)
      /\ sending.at = "answered" => upsets' = upsets \cup AnswerLost
  <2>1. sending.at = "answered" => ~GoesOn(FALSE)
    BY DEF GoesOn
  <2> QED BY <2>1 DEF SendThrows, Retained, Mishap
<1>2. /\ upsets \subseteq upsets' /\ upsets' \subseteq upsets \cup {"answerLost", "regrouped"}
      /\ sending.at = "answered" =>
            "answerLost" \in upsets' /\ ("regrouped" \notin upsets' => ~forced)
      /\ late' = late \/ (GoesOn(FALSE) /\ "answerLost" \in upsets'
                          /\ ("regrouped" \notin upsets' => ~forced))
  BY <1>1 DEF AnswerLost
<1>3. /\ Len(items) \in Nat /\ \A i \in 1..Len(items) : items[i] \in Announcement
      /\ sending.tells \subseteq Announcement /\ sending.key = <<sending.key[1]>>
      /\ sending.removes \in Nat \ {0} /\ mishaps \in Nat /\ forced \in BOOLEAN
  BY <1>0, <1>1, AnnounceFacts DEF AnnounceTyped
\* A request that is late was so before, or is that of this send.
<1>4. /\ late' \subseteq Requests /\ (late' # {} => "answerLost" \in upsets')
      /\ \A r \in late' :
            \/ \E other \in late :
                  r.tells = other.tells /\ r.key = other.key /\ r.former = other.former
            \/ /\ r.tells = sending.tells /\ r.key = sending.key /\ r.former = FALSE
               /\ "regrouped" \notin upsets' => ~forced
  <2>1. CASE late' = late
    <3>1. late # {} => "answerLost" \in upsets
      BY <1>0 DEF AnnounceTyped
    <3> QED BY <1>0, <1>2, <2>1, <3>1 DEF AnnounceTyped
  <2>2. CASE GoesOn(FALSE) /\ "answerLost" \in upsets' /\ ("regrouped" \notin upsets' => ~forced)
    <3>1. ASSUME NEW former \in BOOLEAN, former = FALSE, GoesOn(former)
          PROVE  /\ late' \subseteq Requests
                 /\ \A r \in late' :
                       \/ \E other \in late :
                             r.tells = other.tells /\ r.key = other.key /\ r.former = other.former
                       \/ r.tells = sending.tells /\ r.key = sending.key /\ r.former = FALSE
      <4>1. /\ late' \subseteq Requests
            /\ \A r \in late' :
                  \/ \E other \in late :
                        /\ r.tells = other.tells /\ r.key = other.key
                        /\ r.former = (other.former \/ former)
                  \/ /\ drain = "send" /\ sending.at = "past" /\ GoesOn(former)
                     /\ r.tells = sending.tells /\ r.key = sending.key /\ r.former = former
        BY <1>0, <3>1, LateAre
      <4>2. \A other \in late : other.former \in BOOLEAN
        BY <1>0 DEF AnnounceTyped, Requests
      <4> QED BY <3>1, <4>1, <4>2
    <3> QED BY <2>2, <3>1
  <2> QED BY <1>2, <2>1, <2>2
<1>5. /\ drain' \in {"none", "debounce"} /\ drain' # "send"
      /\ (drain' = "none" <=> items' = <<>> /\ dropped' = {})
  BY <1>1 DEF Rescheduled
<1>6. ToTell' = ToTell /\ (Cross' <=> Cross)
  BY <1>1 DEF ToTell, Cross
<1>7. AnnounceTyped'
  <2>1. \A r \in late' : r.former => "forgotten" \in upsets'
    BY <1>0, <1>2, <1>4 DEF AnnounceTyped
  <2>2. mishaps' \in Nat
    BY <1>1, <1>3
  <2>3. upsets' \subseteq {"overflow", "lent", "answerLost", "regrouped", "batch", "keyUsed",
                     "window", "forgotten"}
    BY <1>0, <1>2 DEF AnnounceTyped
  <2> QED BY <1>0, <1>1, <1>4, <1>5, <2>1, <2>2, <2>3 DEF AnnounceTyped
<1>8. Ordered'
  BY <1>0, <1>1, <1>4, <1>5 DEF Ordered
<1>9. Answering'
  <2> SUFFICES ASSUME "answerLost" \notin upsets' PROVE Answering'
    BY DEF Answering
  <2>1. sending.at # "answered" /\ "answerLost" \notin upsets
    BY <1>2
  <2>2. /\ \A a \in Announcement : told[a] <= 1
        /\ \A i \in 1..Len(items) : ~(told[items[i]] > 0)
    BY <2>1 DEF AnnounceInv, Answering, Removes
  <2> QED BY <1>1, <1>5, <2>2 DEF Answering
<1>10. Grouped'
  <2> SUFFICES ASSUME upsets' \cap {"regrouped", "window", "forgotten"} = {} PROVE Grouped'
    BY DEF Grouped
  <2>1. upsets \cap {"regrouped", "window", "forgotten"} = {}
    BY <1>2
  <2>2. /\ \A a \in Announcement : told[a] <= 1
        /\ \A i \in 1..Len(items) : told[items[i]] > 0 =>
              \/ Collects /\ items[Len(items)] \in keys
              \/ i = 1 /\ items[1] \in keys /\ settings.mode # "collect"
              \/ Removes(items[i])
        /\ Len(items) > 0 /\ Alike(sending)
        /\ sending.at = "answered" => sending.key[1] \in keys
        /\ \A r \in late :
              r.key[1] \in keys \/ (Alike(r) /\ (settings.mode = "collect" => Collects))
    BY <1>1, <2>1 DEF AnnounceInv, Grouped
  <2>3. /\ Collects => Collects'
        /\ settings.mode # "collect" => ~Collects' /\ ~Collects
    BY <1>1, <1>6 DEF Collects
  <2>4. ~forced => (Collects \/ settings.mode # "collect")
    BY <2>2 DEF Alike
  <2>5. ASSUME NEW i \in 1..Len(items), told[items[i]] > 0
        PROVE  \/ Collects /\ items[Len(items)] \in keys
               \/ i = 1 /\ items[1] \in keys /\ settings.mode # "collect"
    <3>1. CASE Removes(items[i])
      <4>1. /\ sending.at = "answered" /\ items[i] \in sending.tells /\ sending.key[1] \in keys
            /\ Collects \/ settings.mode # "collect"
        BY <1>2, <2>2, <2>4, <3>1 DEF Removes
      <4>2. CASE Collects
        BY <2>2, <4>1, <4>2 DEF Alike
      <4>3. CASE ~Collects
        <5>1. items[i] = items[1] /\ sending.key[1] = items[1] /\ 1 \in 1..Len(items)
          BY <1>3, <2>2, <4>1, <4>3 DEF Alike
        <5>2. i = 1
          BY <1>0, <5>1 DEF Ordered
        <5> QED BY <4>1, <4>3, <5>1, <5>2
      <4> QED BY <4>2, <4>3
    <3> QED BY <2>2, <2>5, <3>1
  <2>6. ASSUME NEW r \in late'
        PROVE  r.key[1] \in keys \/ (Alike(r)' /\ (settings.mode = "collect" => Collects'))
    <3>1. \A req : (Collects \/ settings.mode # "collect") /\ Alike(req)
                    /\ r.key = req.key /\ r.tells = req.tells =>
             Alike(r)' /\ (settings.mode = "collect" => Collects')
      BY <1>1, <1>6, <2>3 DEF Alike
    <3>2. CASE \E other \in late : r.tells = other.tells /\ r.key = other.key
      <4>1. PICK other \in late : r.tells = other.tells /\ r.key = other.key
        BY <3>2
      <4> QED BY <2>2, <3>1, <4>1
    <3>3. CASE r.tells = sending.tells /\ r.key = sending.key /\ ~forced
      BY <2>2, <2>4, <3>1, <3>3
    <3> QED BY <1>4, <2>6, <3>2, <3>3
  <2>7. \A i \in 1..Len(items) : told[items[i]] > 0 =>
           \/ Collects' /\ items[Len(items)] \in keys
           \/ i = 1 /\ items[1] \in keys /\ settings.mode # "collect"
    BY <2>3, <2>5
  <2> QED BY <1>1, <1>5, <2>2, <2>6, <2>7 DEF Grouped
<1>11. OneByOne'
  <2> SUFFICES ASSUME upsets' \cap {"batch", "window", "forgotten"} = {} PROVE OneByOne'
    BY DEF OneByOne
  <2>1. /\ \A a \in Announcement : told[a] <= 1
        /\ \A i \in 1..Len(items) : told[items[i]] > 0 => items[i] \in keys
        /\ \A a \in sending.tells : sending.key = <<a>> /\ (told[a] > 0 => a \in keys)
        /\ \A r \in late : \A a \in r.tells : r.key = <<a>> /\ (told[a] > 0 => a \in keys)
    BY <1>1, <1>2 DEF AnnounceInv, OneByOne
  <2>2. \A r \in late' : \A a \in r.tells : r.key = <<a>> /\ (told[a] > 0 => a \in keys)
    BY <1>4, <2>1
  <2> QED BY <1>1, <1>5, <2>1, <2>2 DEF OneByOne
<1>12. Covered'
  <2> SUFFICES ASSUME Undamaged' PROVE Covered'
    BY DEF Covered
  <2>1. Undamaged
    BY <1>2 DEF Undamaged
  <2>2. /\ \A a \in over.seen : a \in ToTell \cup dropped \cup reported \cup over.gone \/ told[a] > 0
        /\ \A i, j \in 1..Len(items) : i <= j /\ items[j] \in keys => told[items[i]] > 0
        /\ sending.removes <= Len(items)
        /\ sending.key = <<items[sending.removes]>>
        /\ \A i \in 1..sending.removes : items[i] \in sending.tells
        /\ \A r \in late : \A i, j \in 1..Len(items) :
              ~r.former /\ i <= j /\ r.key = <<items[j]>> => items[i] \in r.tells
    BY <1>1, <2>1 DEF AnnounceInv, Covered
  <2>3. ASSUME NEW i \in 1..Len(items), NEW j \in 1..Len(items), i <= j,
               sending.key = <<items[j]>>
        PROVE  items[i] \in sending.tells
    <3>1. sending.removes \in 1..Len(items) /\ items[j] = items[sending.removes]
      BY <1>3, <2>2, <2>3
    <3>2. j = sending.removes
      BY <1>0, <3>1 DEF Ordered
    <3> QED BY <2>2, <2>3, <3>2
  <2>4. \A r \in late' : \A i, j \in 1..Len(items) :
           ~r.former /\ i <= j /\ r.key = <<items[j]>> => items[i] \in r.tells
    <3> SUFFICES ASSUME NEW r \in late', NEW i \in 1..Len(items), NEW j \in 1..Len(items),
                        ~r.former, i <= j, r.key = <<items[j]>>
                 PROVE  items[i] \in r.tells
      OBVIOUS
    <3>1. CASE \E other \in late :
                  r.tells = other.tells /\ r.key = other.key /\ r.former = other.former
      BY <2>2, <3>1
    <3>2. CASE r.tells = sending.tells /\ r.key = sending.key
      BY <2>3, <3>2
    <3> QED BY <1>4, <3>1, <3>2
  <2> QED BY <1>1, <1>5, <1>6, <2>2, <2>4 DEF Covered
<1> QED BY <1>7, <1>8, <1>9, <1>10, <1>11, <1>12 DEF AnnounceInv

-----------------------------------------------------------------------------
\* The inductive invariant of the announce queue, for all announcements, routes and settings:
\* what waits comes once and in order, and a key stands for what a request under it told or
\* will tell, however late it does, until a restart or a second request forgets or repeats it.
THEOREM AnnounceInvariant == AnnounceSpec => []AnnounceInv
<1>1. AnnounceInv /\ [AnnounceNext]_announceVars => AnnounceInv'
  <2> SUFFICES ASSUME AnnounceInv, [AnnounceNext]_announceVars PROVE AnnounceInv'
    OBVIOUS
  <2>1. ASSUME NEW a \in Announcement, NEW s \in Settings, Enqueue(a, s)
        PROVE  AnnounceInv'
    <3>1. Refuse(a, s) \/ Accept(a, s)
      BY <2>1 DEF Enqueue
    <3> QED BY <2>1, <3>1, RefuseKeeps, AcceptKeeps
  <2>2. CASE UNCHANGED announceVars
    BY <2>2 DEF announceVars, AnnounceInv, AnnounceTyped, Ordered, Answering, Grouped, Collects,
                Alike, Removes, OneByOne, Covered, Undamaged, ToTell, Cross
  <2> QED
    BY <2>1, <2>2, MovesKeep, SendCollectedKeeps, SendNextKeeps, SendSummaryKeeps, ArrivesKeeps,
       RecordsKeeps, RecordsLateKeeps, RestartKeeps, SentKeeps, SendThrowsKeeps DEF AnnounceNext
<1> QED BY <1>1, InitAnnounceInv, PTL DEF AnnounceSpec

\* No announcement is lost, and none is told twice, but for the causes that AnnounceKept names.
THEOREM AnnouncementsKept == AnnounceSpec => []AnnounceKept
<1>1. AnnounceInv => AnnounceKept
  <2> SUFFICES ASSUME AnnounceInv PROVE AnnounceKept
    OBVIOUS
  <2>1. AnnounceTypeOK
    <3>1. Nothing.at = "none" /\ Nothing.tells = {} /\ Nothing.sums = {}
      BY DEF Nothing
    <3>2. drain = "send" <=> sending # Nothing
      BY <3>1 DEF AnnounceInv, AnnounceTyped
    <3>3. sending.tells \subseteq Announcement /\ sending.sums \subseteq Announcement
          /\ sending.at \in {"none", "way", "past", "answered", "gone"}
      BY <3>1 DEF AnnounceInv, AnnounceTyped
    <3>4. over.seen \subseteq Announcement
      BY DEF AnnounceInv, AnnounceTyped
    <3> QED BY <3>2, <3>3, <3>4 DEF AnnounceInv, AnnounceTyped, AnnounceTypeOK
  <2>2. ASSUME NEW a \in over.seen, upsets \cap {"overflow", "lent", "keyUsed"} = {}
        PROVE  a \in ToTell \cup dropped \cup reported \cup over.gone \/ told[a] > 0
    BY <2>2 DEF AnnounceInv, Covered, Undamaged
  <2>3. ASSUME NEW a \in Announcement, ~({"answerLost", "regrouped", "batch"} \subseteq upsets),
               "window" \notin upsets, "forgotten" \notin upsets
        PROVE  told[a] <= 1
    BY <2>3 DEF AnnounceInv, Answering, Grouped, OneByOne
  <2> QED BY <2>1, <2>2, <2>3 DEF AnnounceKept
<1> QED BY <1>1, AnnounceInvariant, PTL

-----------------------------------------------------------------------------
(* Lock files *)

\* Who may remove the file, or has yet to tell that it is in: a caller that creates or
\* removes it, and a gateway's that is inside, which has no entry in HELD_LOCKS.
Gripping(c) == at[c] \in {"write", "closing"} \/ (kind = "gateway" /\ at[c] = "in")

\* Callers of a process that are inside and have not been put out by force; and those whose
\* release will count.
Inside(p) == {c \in Caller : processOf[c] = p /\ at[c] = "in"}
Counting(c) == In(c) /\ (Session => mine[c] = held[processOf[c]].id)
Crowd(p) == {c \in Caller : processOf[c] = p /\ Counting(c)}

LockTyped ==
    /\ kind \in Kinds
    /\ lock \in File \cup {NoFile}
    /\ held \in [Process -> [id : Id \cup {0}, count : Nat]]
    /\ alive \subseteq Process /\ letGo \subseteq Process
    /\ at \in [Caller -> {"idle", "open", "write", "undo", "read", "judge", "stat", "rm", "delay",
                          "in", "lost", "closing", "dead", "sweep", "sweepRm"}]
    /\ mine \in [Caller -> Id \cup {0}]
    /\ saw \in [Caller -> Seen \cup {NoFile}]
    /\ faults \in 0..MaxFaults
    /\ causes \subseteq {"leftover", "old", "vanished", "silent", "forced", "swept"}

\* The objects of HELD_LOCKS, and what each kind of lock does not have.
Entries ==
    /\ \A p \in Process : held[p].id = 0 <=> held[p].count = 0
    /\ kind = "gateway" => \A p \in Process : held[p] = NoLock
    /\ kind = "registry" => \A p \in Process : held[p].count <= 1
    /\ \A c \in Caller :
          /\ at[c] \in {"write", "in", "lost"} => mine[c] \in Id
          /\ at[c] = "lost" => Session /\ "forced" \in causes
    /\ letGo # {} \/ "forced" \in causes => Session

\* A file that was just created is nobody else's, and what was let go by force is not what
\* the process holds since.
Apart ==
    /\ \A c \in Caller : at[c] = "write" =>
          /\ \A d \in Caller : d # c => mine[d] # mine[c]
          /\ \A p \in Process : held[p].id # mine[c]
    /\ \A c \in Caller : at[c] = "lost" => held[processOf[c]].id # mine[c]

CountBound == \A p \in Process : held[p].count <= Cardinality(Crowd(p))

\* As long as locks are let go by force at most: nobody takes a file for stale.
Quiet == causes \subseteq {"forced"}
Calm ==
    /\ alive = Process
    /\ lock # NoFile => lock.owner \in Process /\ ~lock.old
    /\ \A c \in Caller : saw[c] # NoFile => saw[c].owner \in Process /\ ~saw[c].old
    /\ \A c \in Caller : at[c] \notin {"rm", "undo", "dead", "sweepRm"}

\* One caller grips the file, or one process holds it, or one watchdog will remove it.
OneGrips ==
    /\ lock = NoFile =>
          letGo = {} /\ (\A c \in Caller : ~Gripping(c)) /\ \A p \in Process : held[p] = NoLock
    /\ \A c, d \in Caller : Gripping(c) /\ Gripping(d) => c = d
    /\ \A c \in Caller, p \in Process : Gripping(c) => held[p] = NoLock /\ p \notin letGo
    /\ \A p, q \in Process : held[p] # NoLock /\ held[q] # NoLock => p = q
    /\ \A p, q \in letGo : p = q
    /\ \A p \in Process, q \in letGo : held[p] = NoLock

Counted ==
    \A p \in Process :
        /\ held[p].count = Cardinality(Inside(p))
        /\ \A c \in Inside(p) : mine[c] = held[p].id

LockInv ==
    /\ LockTyped /\ Entries /\ Apart /\ CountBound
    /\ Quiet => Calm /\ OneGrips /\ (kind # "gateway" => Counted)

-----------------------------------------------------------------------------
\* There are names enough: a file that is created gets one that nothing refers to.
LEMMA FreshIdNew ==
    ASSUME LockTyped
    PROVE  /\ FreshId \in Id
           /\ \A d \in Caller : FreshId # mine[d]
           /\ \A p \in Process : FreshId # held[p].id
<1> DEFINE M == {mine[d] : d \in Caller}
           ids == [p \in Process |-> held[p].id]
           H == {ids[p] : p \in Process}
<1>1. IsFiniteSet(M) /\ Cardinality(M) <= Cardinality(Caller)
  <2>1. mine \in Surjection(Caller, M)
    BY DEF LockTyped, Surjection
  <2> QED
    BY <2>1, LockAssumption, FS_Surjection
<1>2. IsFiniteSet(H) /\ Cardinality(H) <= Cardinality(Process)
  <2>1. ids \in Surjection(Process, H)
    BY DEF Surjection
  <2> QED
    BY <2>1, LockAssumption, FS_Surjection
<1>3. IsFiniteSet(M \cup H) /\ Cardinality(M \cup H) <= Cardinality(M) + Cardinality(H)
  <2>1. /\ Cardinality(M \cup H) = Cardinality(M) + Cardinality(H) - Cardinality(M \cap H)
        /\ IsFiniteSet(M \cup H)
    BY <1>1, <1>2, FS_Union
  <2>2. Cardinality(M \cap H) \in Nat
    BY <1>1, FS_Intersection, FS_CardinalityType
  <2> HIDE DEF M, H
  <2> QED
    BY <1>1, <1>2, <2>1, <2>2, FS_CardinalityType
<1>4. \E i \in Id : i \notin M \cup H
  <2> SUFFICES ASSUME Id \in SUBSET (M \cup H) PROVE FALSE
    OBVIOUS
  <2>1. Cardinality(Id) <= Cardinality(M \cup H) /\ IsFiniteSet(Id)
    BY <1>3, FS_Subset
  <2>2. /\ Cardinality(Caller) \in Nat /\ Cardinality(Process) \in Nat
        /\ Cardinality(M) \in Nat /\ Cardinality(H) \in Nat /\ Cardinality(M \cup H) \in Nat
        /\ Cardinality(Id) \in Nat
    BY <1>1, <1>2, <1>3, <2>1, LockAssumption, FS_CardinalityType
  <2> HIDE DEF M, H
  <2> QED
    BY <1>1, <1>2, <1>3, <2>1, <2>2, LockAssumption
<1>5. PICK i \in Id : i \notin M \cup H
  BY <1>4
<1>6. (\A d \in Caller : i # mine[d]) /\ \A p \in Process : i # held[p].id
  BY <1>5
<1> QED
  BY <1>6 DEF FreshId

\* The sets that the counts are compared with are finite.
LEMMA CrowdFinite ==
    ASSUME NEW p \in Process
    PROVE  /\ IsFiniteSet(Crowd(p)) /\ IsFiniteSet(Inside(p))
           /\ Cardinality(Crowd(p)) \in Nat /\ Cardinality(Inside(p)) \in Nat
           /\ IsFiniteSet(Crowd(p)') /\ Cardinality(Crowd(p)') \in Nat
           /\ Cardinality(Crowd(p)) <= Cardinality(Caller)
<1>1. /\ Crowd(p) \in SUBSET Caller /\ Inside(p) \in SUBSET Caller
      /\ Crowd(p)' \in SUBSET Caller
  BY DEF Crowd, Inside
<1> QED
  BY <1>1, LockAssumption, FS_Subset, FS_CardinalityType

\* It holds at first, also with a file that a process that is gone has left.
LEMMA LockInitInv == LockInit => LockInv
<1> SUFFICES ASSUME LockInit PROVE LockInv
  OBVIOUS
<1>1. LockTyped
  BY LockAssumption DEF LockInit, LockTyped, NoLock, NoFile, Kinds
<1>2. Entries /\ Apart
  BY DEF LockInit, Entries, Apart, NoLock
<1>3. \A p \in Process : held[p].count = 0 /\ Inside(p) = {}
  BY DEF LockInit, NoLock, Inside
<1>4. CountBound /\ Counted
  BY <1>3, CrowdFinite, FS_EmptySet DEF CountBound, Counted
<1>5. Calm /\ OneGrips
  BY LockAssumption DEF LockInit, Calm, OneGrips, Gripping
<1> QED
  BY <1>1, <1>2, <1>4, <1>5 DEF LockInv

-----------------------------------------------------------------------------
(* Steps of callers that are neither inside nor have the file in their hands *)

Aside == {"idle", "open", "undo", "read", "judge", "stat", "rm", "delay", "sweep", "sweepRm"}

\* A step that moves one caller outside of the lock, and leaves the file and the entries.
LEMMA AsideKeeps ==
    ASSUME LockInv, NEW c \in Caller, NEW pc \in Aside, at[c] \in Aside, Goto(c, pc),
           UNCHANGED <<kind, held, alive, letGo, mine>>,
           lock' \in {lock, NoFile}, saw' \in [Caller -> Seen \cup {NoFile}],
           faults' \in 0..MaxFaults,
           causes' \subseteq {"leftover", "old", "vanished", "silent", "forced", "swept"},
           causes \subseteq causes', "forced" \in causes' => "forced" \in causes,
           Quiet' => /\ pc \notin {"rm", "undo", "sweepRm"} /\ lock' = lock
                     /\ \A d \in Caller : saw'[d] # NoFile =>
                           saw'[d].owner \in Process /\ ~saw'[d].old
    PROVE  LockInv'
<1>0. LockTyped /\ Entries /\ Apart /\ CountBound
  BY DEF LockInv
<1>1. LockTyped'
  BY <1>0 DEF LockTyped, Goto, Aside
<1>2. \A d \in Caller : at'[d] = IF d = c THEN pc ELSE at[d]
  BY <1>0 DEF LockTyped, Goto
<1> DEFINE Hands == {"write", "in", "lost", "closing"}
<1>3. pc \notin Hands /\ at[c] \notin Hands /\ pc # "dead"
  BY DEF Aside
<1>4. \A d \in Caller : at'[d] = at[d] \/ (at'[d] \notin Hands /\ at[d] \notin Hands)
  BY <1>2, <1>3
<1>a. /\ \A d \in Caller : at'[d] = "write" <=> at[d] = "write"
      /\ \A d \in Caller : at'[d] = "in" <=> at[d] = "in"
      /\ \A d \in Caller : at'[d] = "lost" <=> at[d] = "lost"
      /\ \A d \in Caller : at'[d] = "closing" <=> at[d] = "closing"
  BY <1>4
<1>b. Entries'
  BY <1>0, <1>a DEF Entries, Session
<1>c. Apart'
  BY <1>0, <1>a DEF Apart
<1>5. \A p \in Process : Crowd(p)' = Crowd(p) /\ Inside(p)' = Inside(p)
  BY <1>a DEF Crowd, Counting, Inside, In, Session
<1>6. CountBound'
  BY <1>0, <1>5 DEF CountBound
<1>7. ASSUME Quiet' PROVE Calm' /\ OneGrips' /\ (kind' # "gateway" => Counted')
  <2>1. Quiet /\ lock' = lock /\ Calm /\ OneGrips /\ (kind # "gateway" => Counted)
    BY <1>7 DEF Quiet, LockInv
  <2>2. Calm'
    BY <1>2, <1>3, <1>7, <2>1 DEF Calm
  <2>3. OneGrips'
    BY <1>a, <2>1 DEF OneGrips, Gripping
  <2>4. kind' # "gateway" => Counted'
    BY <1>5, <1>a, <2>1 DEF Counted, Inside
  <2> QED BY <2>2, <2>3, <2>4
<1> QED
  BY <1>1, <1>b, <1>c, <1>6, <1>7 DEF LockInv

\* What a caller has seen, and the judgement that leads to a removal.
LEMMA ReadKeeps ==
    ASSUME LockInv, NEW c \in Caller, Read(c)
    PROVE  LockInv'
<1>0. LockTyped
  BY DEF LockInv
<1>1. saw' \in [Caller -> Seen \cup {NoFile}]
  <2>1. CASE lock = NoFile
    BY <1>0, <2>1 DEF Read, LockTyped
  <2>2. CASE lock # NoFile
    <3> DEFINE v == [owner |-> lock.owner, written |-> lock.written, old |-> lock.old]
    <3>1. lock \in File
      BY <1>0, <2>2 DEF LockTyped
    <3>2. v \in Seen
      BY <3>1 DEF File, Seen
    <3>3. saw' = [saw EXCEPT ![c] = v]
      BY <2>2 DEF Read
    <3> HIDE DEF v
    <3> QED BY <1>0, <3>2, <3>3 DEF LockTyped
  <2> QED BY <2>1, <2>2
<1>2. ASSUME Quiet', NEW d \in Caller, saw'[d] # NoFile
      PROVE  saw'[d].owner \in Process /\ ~saw'[d].old
  <2>1. Calm
    BY <1>2 DEF LockInv, Quiet, Read, NoFault
  <2>2. saw'[d] = IF d # c THEN saw[d] ELSE IF lock = NoFile THEN NoFile
                  ELSE [owner |-> lock.owner, written |-> lock.written, old |-> lock.old]
    BY <1>0 DEF Read, LockTyped
  <2> QED
    BY <1>2, <2>1, <2>2 DEF Calm
<1>3. "judge" \in Aside /\ at[c] \in Aside /\ Goto(c, "judge") /\ lock' = lock
      /\ UNCHANGED <<kind, held, alive, letGo, mine, faults, causes>>
  BY DEF Read, Aside, NoFault
<1> QED
  BY <1>0, <1>1, <1>2, <1>3, AsideKeeps DEF LockTyped

\* The owner of the file is judged: while no process is gone, none is found stale.
LEMMA JudgementKeeps ==
    ASSUME LockInv, NEW c \in Caller, JudgeByPort(c) \/ Judge(c)
    PROVE  LockInv'
<1>0. LockTyped /\ at[c] = "judge" /\ at[c] \in Aside
  BY DEF LockInv, JudgeByPort, Judge, Aside
<1>1. /\ saw' = [saw EXCEPT ![c] = NoFile]
      /\ saw' \in [Caller -> Seen \cup {NoFile}]
      /\ \A d \in Caller : saw'[d] # NoFile => saw'[d] = saw[d]
      /\ UNCHANGED <<kind, lock, held, alive, mine, letGo, faults>>
  BY <1>0 DEF JudgeByPort, Judge, LockTyped, NoFault
<1>2. ASSUME Quiet' PROVE Quiet /\ Calm
  BY <1>2 DEF LockInv, Quiet, JudgeByPort, Judge, NoFault
<1>3. CASE JudgeByPort(c)
  <2>1. Quiet' => FALSE
    <3>1. saw[c] # NoFile /\ "silent" \notin {"forced"}
      BY <1>3 DEF JudgeByPort, Payload
    <3> QED
      BY <1>2, <1>3, <3>1 DEF JudgeByPort, OwnerDead, Quiet, Calm
  <2>2. Goto(c, "rm") /\ "rm" \in Aside
    BY <1>3 DEF JudgeByPort, Aside
  <2>3. causes' \in {causes, causes \cup {"silent"}}
    BY <1>3 DEF JudgeByPort
  <2> QED
    BY <1>0, <1>1, <2>1, <2>2, <2>3, AsideKeeps DEF LockTyped
<1>4. CASE Judge(c)
  <2> DEFINE pc == AfterJudgement(c)
  <2>1. pc \in {"stat", "rm", "delay"} /\ pc \in Aside
    BY DEF AfterJudgement, Aside
  <2>2. Quiet' => pc # "rm"
    BY <1>2 DEF AfterJudgement, Payload, OwnerDead, Calm
  <2>3. Goto(c, pc) /\ UNCHANGED causes
    BY <1>4 DEF Judge, NoFault
  <2>4. Quiet' => \A d \in Caller : saw'[d] # NoFile =>
                     saw'[d].owner \in Process /\ ~saw'[d].old
    BY <1>1, <1>2 DEF Calm
  <2>5. Quiet' => pc \notin {"rm", "undo", "sweepRm"}
    BY <2>1, <2>2
  <2> HIDE DEF pc
  <2> QED
    BY <1>0, <1>1, <2>1, <2>3, <2>4, <2>5, AsideKeeps DEF LockTyped
<1> QED
  BY <1>3, <1>4

\* Where a caller goes when it sees no more than a position of its own.
LEMMA WalkKeeps ==
    ASSUME LockInv, NEW c \in Caller, NEW pc \in Aside, at[c] \in Aside, Goto(c, pc),
           UNCHANGED <<kind, held, alive, letGo, mine, saw>>,
           lock' \in {lock, NoFile},
           NoFault \/ Fault("vanished") \/
               (causes' \in {causes, causes \cup {"swept"}} /\ faults' \in {faults, faults + 1}
                /\ faults' \in 0..MaxFaults),
           Quiet' /\ Calm => pc \notin {"rm", "undo", "sweepRm"} /\ lock' = lock
    PROVE  LockInv'
<1>0. LockTyped
  BY DEF LockInv
<1>1. faults' \in 0..MaxFaults
  BY <1>0, LockAssumption DEF LockTyped, NoFault, Fault
<1>2. causes' \in {causes, causes \cup {"swept"}, causes \cup {"vanished"}}
  BY DEF NoFault, Fault
<1>3. Quiet' => Quiet /\ Calm
  BY <1>2 DEF Quiet, LockInv
<1>4. /\ causes' \subseteq {"leftover", "old", "vanished", "silent", "forced", "swept"}
      /\ causes \subseteq causes' /\ ("forced" \in causes' => "forced" \in causes)
  BY <1>0, <1>2 DEF LockTyped
<1>5. Quiet' => \A d \in Caller : saw'[d] # NoFile =>
                   saw'[d].owner \in Process /\ ~saw'[d].old
  BY <1>3 DEF Calm
<1>6. saw' \in [Caller -> Seen \cup {NoFile}]
  BY <1>0 DEF LockTyped
<1> QED
  BY <1>1, <1>3, <1>4, <1>5, <1>6, AsideKeeps

\* The steps of callers that do not enter or leave: they wait, read, judge and sweep.
LEMMA WalksKeep ==
    ASSUME LockInv, NEW c \in Caller,
           Stat(c) \/ RemoveFile(c) \/ Delayed(c) \/ Sweep(c) \/ SweepReads(c) \/ SweepRemoves(c)
    PROVE  LockInv'
<1>0. LockTyped /\ MaxFaults \in Nat /\ faults \in 0..MaxFaults
  BY LockAssumption DEF LockInv, LockTyped
<1>1. CASE Stat(c)
  <2> DEFINE pc == IF lock = NoFile THEN IF GoneIsStale THEN "rm" ELSE "delay"
                   ELSE IF lock.old THEN "rm" ELSE "delay"
  <2>1. pc \in Aside /\ at[c] \in Aside /\ Goto(c, pc)
        /\ UNCHANGED <<kind, held, alive, letGo, mine, saw, lock>>
    BY <1>1 DEF Stat, Aside
  <2>2. NoFault \/ Fault("vanished")
    BY <1>1 DEF Stat
  <2>3. ASSUME Quiet', Calm PROVE pc = "delay"
    <3>1. lock = NoFile => kind # "file"
      BY <1>1, <2>3 DEF Stat, Fault, Quiet
    <3> QED
      BY <2>3, <3>1 DEF Calm, GoneIsStale
  <2> HIDE DEF pc
  <2> QED
    BY <2>1, <2>2, <2>3, WalkKeeps
<1>2. CASE RemoveFile(c)
  <2>1. /\ UNCHANGED <<kind, held, alive, letGo, mine, saw>> /\ lock' = NoFile /\ NoFault
        /\ at[c] \in Aside /\ ~Calm
    BY <1>2 DEF RemoveFile, Calm, Aside
  <2>2. PICK pc \in {"open", "idle"} : Goto(c, pc)
    BY <1>2 DEF RemoveFile
  <2>3. pc \in Aside
    BY DEF Aside
  <2> QED
    BY <2>1, <2>2, <2>3, WalkKeeps
<1>3. CASE Delayed(c)
  <2>1. /\ UNCHANGED <<kind, held, alive, letGo, mine, saw, lock>> /\ NoFault /\ at[c] \in Aside
    BY <1>3 DEF Delayed, Aside
  <2>2. PICK pc \in {"open", "idle"} : Goto(c, pc)
    BY <1>3 DEF Delayed
  <2>3. pc \in Aside /\ pc \notin {"rm", "undo", "sweepRm"}
    BY DEF Aside
  <2> QED
    BY <2>1, <2>2, <2>3, WalkKeeps
<1>4. CASE Sweep(c)
  <2>1. /\ UNCHANGED <<kind, held, alive, letGo, mine, saw, lock, causes>> /\ at[c] \in Aside
        /\ Goto(c, "sweep") /\ "sweep" \in Aside /\ faults' = faults + 1
        /\ faults' \in 0..MaxFaults
    BY <1>0, <1>4 DEF Sweep, Aside
  <2> QED
    BY <2>1, WalkKeeps
<1>5. CASE SweepReads(c)
  <2> DEFINE stale == lock = NoFile \/ ~lock.written \/ OwnerDead(lock) \/ lock.old
             pc == IF stale THEN "sweepRm" ELSE "idle"
  <2>1. /\ UNCHANGED <<kind, held, alive, letGo, mine, saw, lock, faults>> /\ at[c] \in Aside
        /\ Goto(c, pc) /\ pc \in Aside /\ causes' \in {causes, causes \cup {"swept"}}
    BY <1>5 DEF SweepReads, Aside
  <2>2. ASSUME Quiet', Calm PROVE pc = "idle"
    <3>1. lock # NoFile => ~OwnerDead(lock)
      BY <2>2 DEF Calm, OwnerDead
    <3> QED
      BY <1>5, <2>2, <3>1 DEF SweepReads, Quiet
  <2> HIDE DEF pc
  <2> QED
    BY <1>0, <2>1, <2>2, WalkKeeps
<1>6. CASE SweepRemoves(c)
  <2>1. /\ UNCHANGED <<kind, held, alive, letGo, mine, saw>> /\ lock' = NoFile /\ NoFault
        /\ at[c] \in Aside /\ ~Calm /\ Goto(c, "idle") /\ "idle" \in Aside
    BY <1>6 DEF SweepRemoves, Calm, Aside
  <2> QED
    BY <2>1, WalkKeeps
<1> QED
  BY <1>1, <1>2, <1>3, <1>4, <1>5, <1>6

-----------------------------------------------------------------------------
(* Acquisition *)

\* What the two ways of saying that a process holds no lock have in common.
LEMMA HeldIs ==
    ASSUME LockTyped, Entries, NEW p \in Process
    PROVE  /\ held[p].id \in Id \cup {0} /\ held[p].count \in Nat
           /\ held[p] = NoLock <=> held[p].id = 0
           /\ held[p] = NoLock <=> held[p].count = 0
<1>1. held[p] \in [id : Id \cup {0}, count : Nat]
  BY DEF LockTyped
<1>2. held[p].id = 0 <=> held[p].count = 0
  BY DEF Entries
<1> QED
  BY <1>1, <1>2 DEF NoLock

\* A caller joins the others of its process in the lock that this holds.
LEMMA SharesKeeps ==
    ASSUME LockInv, NEW c \in Caller, NEW p \in Process, p = processOf[c], at[c] = "idle",
           Reentrant, held[p] # NoLock,
           held' = [held EXCEPT ![p].count = @ + 1], Enter(c, held[p].id),
           UNCHANGED <<kind, lock, alive, saw, letGo, faults, causes>>
    PROVE  LockInv'
<1>0. LockTyped /\ Entries /\ Apart /\ CountBound
  BY DEF LockInv
<1>1. held[p].id \in Id /\ held[p].count \in Nat \ {0}
  BY <1>0, HeldIs
<1>2. /\ \A d \in Caller : at'[d] = IF d = c THEN "in" ELSE at[d]
      /\ \A d \in Caller : mine'[d] = IF d = c THEN held[p].id ELSE mine[d]
      /\ \A q \in Process : held'[q].id = held[q].id
      /\ \A q \in Process : q # p => held'[q] = held[q]
      /\ held'[p].count = held[p].count + 1
  BY <1>0 DEF LockTyped, Enter, Goto
<1>3. LockTyped'
  <2>1. held' \in [Process -> [id : Id \cup {0}, count : Nat]]
    BY <1>0, <1>1 DEF LockTyped
  <2> QED
    BY <1>0, <1>1, <2>1 DEF LockTyped, Enter, Goto
<1>4. held'[p] # NoLock
  BY <1>1, <1>2 DEF NoLock
<1>5. Entries'
  BY <1>0, <1>1, <1>2, <1>4 DEF Entries, Reentrant, Session
<1>6. Apart'
  BY <1>0, <1>1, <1>2 DEF Apart
<1>7. /\ Crowd(p)' = Crowd(p) \cup {c} /\ c \notin Crowd(p)
      /\ Inside(p)' = Inside(p) \cup {c} /\ c \notin Inside(p)
      /\ \A q \in Process : q # p => Crowd(q)' = Crowd(q) /\ Inside(q)' = Inside(q)
  BY <1>2 DEF Crowd, Inside, Counting, In, Session
<1>8. /\ Cardinality(Crowd(p)') = Cardinality(Crowd(p)) + 1
      /\ Cardinality(Inside(p)') = Cardinality(Inside(p)) + 1
  BY <1>7, CrowdFinite, FS_AddElement
<1>9. CountBound'
  <2>1. Cardinality(Crowd(p)) \in Nat /\ held[p].count <= Cardinality(Crowd(p))
    BY <1>0, CrowdFinite DEF CountBound
  <2>2. held'[p].count <= Cardinality(Crowd(p)')
    BY <1>1, <1>2, <1>8, <2>1
  <2> QED
    BY <1>0, <1>2, <1>7, <2>2 DEF CountBound
<1>10. ASSUME Quiet' PROVE Calm' /\ OneGrips' /\ (kind' # "gateway" => Counted')
  <2>1. Calm /\ OneGrips /\ Counted
    BY <1>10 DEF LockInv, Quiet, Reentrant
  <2>2. Calm'
    BY <1>2, <2>1 DEF Calm
  <2>3. /\ \A d \in Caller : Gripping(d)' <=> Gripping(d)
        /\ \A q \in Process : held'[q] = NoLock <=> held[q] = NoLock
    BY <1>2, <1>4 DEF Gripping, Reentrant
  <2>4. OneGrips'
    BY <2>1, <2>3 DEF OneGrips
  <2>5. Counted'
    <3>1. held'[p].count = Cardinality(Inside(p)')
      BY <1>2, <1>8, <2>1 DEF Counted
    <3>2. \A q \in Process : q # p => held'[q].count = Cardinality(Inside(q)')
      BY <1>2, <1>7, <2>1 DEF Counted
    <3>3. ASSUME NEW q \in Process, NEW d \in Inside(q)'
          PROVE  mine'[d] = held'[q].id
      <4>1. CASE d = c
        BY <1>2, <4>1 DEF Inside
      <4>2. CASE d # c
        <5>1. d \in Inside(q) /\ mine'[d] = mine[d]
          BY <1>2, <4>2 DEF Inside
        <5> QED
          BY <1>2, <2>1, <5>1 DEF Counted
      <4> QED BY <4>1, <4>2
    <3> QED BY <3>1, <3>2, <3>3 DEF Counted
  <2> QED BY <2>2, <2>4, <2>5
<1> QED
  BY <1>3, <1>5, <1>6, <1>9, <1>10 DEF LockInv

\* A caller comes for the lock, and joins its process or goes for the file.
LEMMA AcquireKeeps ==
    ASSUME LockInv, NEW c \in Caller, Acquire(c)
    PROVE  LockInv'
<1> DEFINE p == processOf[c]
<1>0. p \in Process
  BY LockAssumption
<1>1. CASE Reentrant /\ held[p] # NoLock
  BY <1>0, <1>1, SharesKeeps DEF Acquire, NoFault
<1>2. CASE ~(Reentrant /\ held[p] # NoLock)
  <2>1. /\ UNCHANGED <<kind, held, alive, letGo, mine, saw, lock>> /\ NoFault
        /\ at[c] \in Aside /\ Goto(c, "open") /\ "open" \in Aside
    BY <1>2 DEF Acquire, Aside
  <2> QED
    BY <2>1, WalkKeeps
<1> QED
  BY <1>1, <1>2

\* The file is created, or found.
LEMMA OpenKeeps ==
    ASSUME LockInv, NEW c \in Caller, OpenFile(c)
    PROVE  LockInv'
<1> DEFINE f == [id |-> FreshId, owner |-> processOf[c], written |-> FALSE, old |-> FALSE]
<1>0. /\ LockTyped /\ Entries /\ Apart /\ CountBound
      /\ processOf[c] \in Process
  BY LockAssumption DEF LockInv
<1>1. CASE lock # NoFile
  <2>1. /\ UNCHANGED <<kind, held, alive, letGo, mine, saw, lock>> /\ NoFault
        /\ at[c] \in Aside /\ Goto(c, "read") /\ "read" \in Aside
    BY <1>1 DEF OpenFile, Aside
  <2> QED
    BY <2>1, WalkKeeps
<1>2. CASE lock = NoFile
  <2>0. /\ at[c] = "open" /\ lock' = f /\ mine' = [mine EXCEPT ![c] = FreshId]
        /\ Goto(c, "write") /\ UNCHANGED <<kind, held, alive, saw, letGo, faults, causes>>
    BY <1>2 DEF OpenFile, NoFault
  <2>1. /\ FreshId \in Id
        /\ \A d \in Caller : FreshId # mine[d]
        /\ \A q \in Process : FreshId # held[q].id
    BY <1>0, FreshIdNew
  <2>2. f \in File /\ f.owner \in Process /\ ~f.old /\ f # NoFile
    <3>1. f \in File /\ f.owner \in Process /\ ~f.old /\ f.id # 0
      BY <1>0, <2>1, LockAssumption DEF File, Owner
    <3> HIDE DEF f
    <3> QED BY <3>1 DEF NoFile
  <2> HIDE DEF f
  <2>3. /\ \A d \in Caller : at'[d] = IF d = c THEN "write" ELSE at[d]
        /\ \A d \in Caller : mine'[d] = IF d = c THEN FreshId ELSE mine[d]
    BY <1>0, <2>0 DEF LockTyped, Goto
  <2>4. LockTyped'
    BY <1>0, <2>0, <2>1, <2>2 DEF LockTyped, Goto
  <2>5. Entries'
    BY <1>0, <2>0, <2>1, <2>3 DEF Entries, Session
  <2>6. Apart'
    BY <1>0, <2>0, <2>1, <2>3 DEF Apart
  <2>7. \A q \in Process : Crowd(q)' = Crowd(q) /\ Inside(q)' = Inside(q)
    BY <2>0, <2>3 DEF Crowd, Inside, Counting, In, Session
  <2>8. CountBound'
    BY <1>0, <2>0, <2>7 DEF CountBound
  <2>9. ASSUME Quiet' PROVE Calm' /\ OneGrips' /\ (kind' # "gateway" => Counted')
    <3>1. Calm /\ OneGrips /\ (kind # "gateway" => Counted)
      BY <2>0, <2>9 DEF LockInv, Quiet
    <3>2. Calm'
      BY <2>0, <2>2, <2>3, <3>1 DEF Calm
    <3>3. \A d \in Caller : d # c => (Gripping(d)' <=> Gripping(d))
      BY <2>0, <2>3 DEF Gripping
    <3>4. OneGrips'
      BY <1>2, <2>0, <2>2, <3>1, <3>3 DEF OneGrips
    <3>5. kind # "gateway" => Counted'
      BY <2>0, <2>3, <2>7, <3>1 DEF Counted, Inside
    <3> QED BY <2>0, <3>2, <3>4, <3>5
  <2> QED
    BY <2>4, <2>5, <2>6, <2>8, <2>9 DEF LockInv
<1> QED
  BY <1>1, <1>2

\* The payload is written, and the entry of the process is made.
LEMMA WriteKeeps ==
    ASSUME LockInv, NEW c \in Caller, Write(c)
    PROVE  LockInv'
<1> DEFINE p == processOf[c]
<1>0. /\ LockTyped /\ Entries /\ Apart /\ CountBound
      /\ p \in Process /\ at[c] = "write" /\ mine[c] \in Id /\ 0 \notin Id
  BY LockAssumption DEF LockInv, Write, Entries
<1>1. /\ lock' \in File \cup {NoFile} /\ (lock' = NoFile <=> lock = NoFile)
      /\ lock # NoFile => lock'.owner = lock.owner /\ lock'.old = lock.old
  <2>1. CASE lock.id = mine[c]
    <3>1. lock \in File
      BY <1>0, <2>1 DEF LockTyped, NoFile
    <3>2. lock' = [lock EXCEPT !.written = TRUE]
      BY <2>1 DEF Write
    <3>3. lock' \in File /\ lock'.owner = lock.owner /\ lock'.old = lock.old
          /\ lock'.id \in Id /\ lock.id \in Id
      BY <3>1, <3>2 DEF File
    <3> QED BY <1>0, <3>3 DEF NoFile
  <2>2. CASE lock.id # mine[c]
    BY <1>0, <2>2 DEF Write, LockTyped
  <2> QED BY <2>1, <2>2
<1>2. /\ \A d \in Caller : at'[d] = IF d = c THEN "in" ELSE at[d]
      /\ UNCHANGED <<kind, alive, mine, saw, letGo, faults, causes>>
  BY <1>0 DEF Write, LockTyped, Goto, NoFault
<1>3. CASE kind = "gateway"
  <2>1. held' = held /\ \A q \in Process : held[q] = NoLock /\ held[q].count = 0
    BY <1>0, <1>3, HeldIs DEF Write, Entries
  <2>2. LockTyped'
    BY <1>0, <1>1, <1>2, <2>1 DEF LockTyped, Write, Goto
  <2>3. Entries' /\ Apart'
    BY <1>0, <1>2, <1>3, <2>1 DEF Entries, Apart, Session
  <2>4. CountBound'
    BY <2>1, CrowdFinite DEF CountBound
  <2>5. ASSUME Quiet' PROVE Calm' /\ OneGrips'
    <3>1. Calm /\ OneGrips
      BY <1>2, <2>5 DEF LockInv, Quiet
    <3>2. Calm'
      BY <1>1, <1>2, <3>1 DEF Calm
    <3>3. \A d \in Caller : Gripping(d)' <=> Gripping(d)
      BY <1>0, <1>2, <1>3 DEF Gripping
    <3>4. OneGrips'
      BY <1>1, <1>2, <2>1, <3>1, <3>3 DEF OneGrips
    <3> QED BY <3>2, <3>4
  <2> QED
    BY <1>2, <1>3, <2>2, <2>3, <2>4, <2>5 DEF LockInv
<1>4. CASE kind # "gateway"
  <2> DEFINE e == [id |-> mine[c], count |-> 1]
  <2>1. held' = [held EXCEPT ![p] = e]
    BY <1>4 DEF Write
  <2>2. /\ e.id = mine[c] /\ e.count = 1 /\ e # NoLock
        /\ e \in [id : Id \cup {0}, count : Nat]
    BY <1>0 DEF NoLock
  <2> HIDE DEF e
  <2>3. \A q \in Process : held'[q] = IF q = p THEN e ELSE held[q]
    BY <1>0, <2>1 DEF LockTyped
  <2>4. LockTyped'
    BY <1>0, <1>1, <1>2, <2>1, <2>2 DEF LockTyped, Write, Goto
  <2>5. Entries'
    BY <1>0, <1>2, <1>4, <2>2, <2>3 DEF Entries, Session
  <2>6. Apart'
    <3>1. ASSUME NEW d \in Caller, at'[d] = "write"
          PROVE  /\ \A b \in Caller : b # d => mine'[b] # mine'[d]
                 /\ \A q \in Process : held'[q].id # mine'[d]
      <4>1. d # c /\ at[d] = "write" /\ mine' = mine
        BY <1>2, <3>1
      <4>2. /\ \A b \in Caller : b # d => mine[b] # mine[d]
            /\ \A q \in Process : held[q].id # mine[d]
        BY <1>0, <4>1 DEF Apart
      <4> QED
        BY <2>2, <2>3, <4>1, <4>2
    <3>2. ASSUME NEW d \in Caller, at'[d] = "lost"
          PROVE  held'[processOf[d]].id # mine'[d]
      <4>1. d # c /\ at[d] = "lost" /\ mine' = mine /\ processOf[d] \in Process
        BY <1>2, <3>2, LockAssumption
      <4>2. held[processOf[d]].id # mine[d] /\ mine[d] # mine[c]
        BY <1>0, <4>1 DEF Apart
      <4> QED
        BY <2>2, <2>3, <4>1, <4>2
    <3> QED BY <3>1, <3>2 DEF Apart
  <2>7. /\ \A q \in Process : q # p => Crowd(q)' = Crowd(q) /\ Inside(q)' = Inside(q)
        /\ c \in Crowd(p)' /\ Inside(p)' = Inside(p) \cup {c}
    <3>1. \A q \in Process : q # p => Inside(q)' = Inside(q)
      BY <1>2 DEF Inside
    <3>2. Inside(p)' = Inside(p) \cup {c}
      BY <1>2 DEF Inside
    <3>3. \A d \in Caller : processOf[d] # p => (Counting(d)' <=> Counting(d))
      BY <1>2, <2>3, LockAssumption DEF Counting, In, Session
    <3>4. \A q \in Process : q # p => Crowd(q)' = Crowd(q)
      BY <3>3 DEF Crowd
    <3>5. Counting(c)'
      BY <1>0, <1>2, <2>2, <2>3 DEF Counting, In
    <3> QED BY <3>1, <3>2, <3>4, <3>5 DEF Crowd
  <2>8. CountBound'
    <3>1. Cardinality(Crowd(p)') \in Nat /\ Cardinality(Crowd(p)') # 0
      BY <1>0, <2>7, CrowdFinite, FS_EmptySet
    <3> QED
      BY <1>0, <2>2, <2>3, <2>7, <3>1 DEF CountBound
  <2>9. ASSUME Quiet' PROVE Calm' /\ OneGrips' /\ Counted'
    <3>1. Calm /\ OneGrips /\ Counted
      BY <1>2, <1>4, <2>9 DEF LockInv, Quiet
    <3>2. Calm'
      BY <1>1, <1>2, <3>1 DEF Calm
    <3>3. Gripping(c) /\ \A d \in Caller : Gripping(d)' <=> d # c /\ Gripping(d)
      BY <1>0, <1>2, <1>4 DEF Gripping
    <3>4. /\ \A d \in Caller : ~Gripping(d)'
          /\ \A q \in Process : held[q] = NoLock
          /\ letGo = {} /\ lock # NoFile
      BY <1>0, <3>1, <3>3 DEF OneGrips, LockTyped
    <3>5. OneGrips'
      BY <1>1, <1>2, <2>3, <3>4 DEF OneGrips
    <3>6. Inside(p) = {}
      BY <1>0, <3>1, <3>4, HeldIs, CrowdFinite, FS_EmptySet DEF Counted
    <3>7. Inside(p)' = {c} /\ Cardinality(Inside(p)') = 1
      <4>1. Inside(p)' = {c}
        BY <2>7, <3>6
      <4> QED BY <4>1, FS_Singleton
    <3>8. Counted'
      <4>1. /\ held'[p].count = Cardinality(Inside(p)')
            /\ \A d \in Inside(p)' : mine'[d] = held'[p].id
        BY <1>0, <1>2, <2>2, <2>3, <3>7
      <4>2. ASSUME NEW q \in Process, q # p
            PROVE  /\ held'[q].count = Cardinality(Inside(q)')
                   /\ \A d \in Inside(q)' : mine'[d] = held'[q].id
        BY <1>2, <2>3, <2>7, <3>1, <4>2 DEF Counted
      <4> QED BY <4>1, <4>2 DEF Counted
    <3> QED BY <3>2, <3>5, <3>8
  <2> QED
    BY <2>4, <2>5, <2>6, <2>8, <2>9 DEF LockInv
<1> QED
  BY <1>3, <1>4

\* Who cannot write takes its file away: the entries are as before.
LEMMA WriteFailsKeeps ==
    ASSUME LockInv, NEW c \in Caller, WriteFails(c)
    PROVE  LockInv'
<1>0. LockTyped /\ Entries /\ Apart /\ CountBound /\ MaxFaults \in Nat /\ 0 \notin Id
  BY LockAssumption DEF LockInv
<1>1. /\ at[c] = "write" /\ UNCHANGED <<kind, lock, held, alive, saw, letGo>>
      /\ causes' = causes \cup {"leftover"} /\ faults' \in 0..MaxFaults
  BY <1>0 DEF WriteFails, Fault, LockTyped
<1>2. PICK pc \in {"undo", "idle"} :
        /\ Goto(c, pc) /\ mine' \in {mine, [mine EXCEPT ![c] = 0]}
  BY DEF WriteFails, Leave
<1>3. /\ \A d \in Caller : at'[d] = IF d = c THEN pc ELSE at[d]
      /\ \A d \in Caller : d # c => mine'[d] = mine[d]
      /\ mine'[c] \in {mine[c], 0}
  BY <1>0, <1>2 DEF LockTyped, Goto
<1>4. LockTyped'
  BY <1>0, <1>1, <1>2 DEF LockTyped, Goto
<1>5. Entries'
  BY <1>0, <1>1, <1>3 DEF Entries, Session
<1>6. Apart'
  BY <1>0, <1>1, <1>3 DEF Apart, Entries
<1>7. \A q \in Process : Crowd(q)' = Crowd(q)
  BY <1>1, <1>3 DEF Crowd, Counting, In, Session
<1>8. CountBound'
  BY <1>0, <1>1, <1>7 DEF CountBound
<1>9. ~Quiet'
  BY <1>1 DEF Quiet
<1> QED
  BY <1>4, <1>5, <1>6, <1>8, <1>9 DEF LockInv

-----------------------------------------------------------------------------
(* Release *)

\* One of those inside leaves, and is counted down if others of its process remain.
LEMMA ReleaseKeeps ==
    ASSUME LockInv, NEW c \in Caller, Release(c)
    PROVE  LockInv'
<1> DEFINE p == processOf[c]
<1>0. /\ LockTyped /\ Entries /\ Apart /\ CountBound
      /\ p \in Process /\ at[c] \in {"in", "lost"} /\ mine[c] \in Id /\ 0 \notin Id
  BY LockAssumption DEF LockInv, Release, In, Entries
<1>1. PICK pc \in {"idle", "closing"} :
        /\ \A d \in Caller : at'[d] = IF d = c THEN pc ELSE at[d]
        /\ \A d \in Caller : mine'[d] = IF d = c THEN 0 ELSE mine[d]
        /\ Leave(c, pc)
        /\ \/ kind = "gateway" /\ pc = "closing" /\ held' = held
           \/ kind # "gateway" /\ ~MayLetGo(c) /\ pc = "idle" /\ held' = held
           \/ /\ kind # "gateway" /\ MayLetGo(c) /\ held[p].count > 1 /\ pc = "idle"
              /\ held' = [held EXCEPT ![p].count = @ - 1]
           \/ /\ kind # "gateway" /\ MayLetGo(c) /\ ~(held[p].count > 1) /\ pc = "closing"
              /\ held' = [held EXCEPT ![p] = NoLock]
  BY <1>0 DEF Release, Leave, Goto, LockTyped
<1>2. UNCHANGED <<kind, lock, alive, saw, letGo, faults, causes>>
  BY DEF Release, NoFault
<1>3. /\ NoLock \in [id : Id \cup {0}, count : Nat] /\ NoLock.id = 0 /\ NoLock.count = 0
  BY DEF NoLock
<1>4. \A q \in Process : held[q].id \in Id \cup {0} /\ held[q].count \in Nat
                         /\ (held[q] = NoLock <=> held[q].id = 0)
                         /\ (held[q] = NoLock <=> held[q].count = 0)
  BY <1>0, HeldIs
<1>5. \A q \in Process : q # p => Inside(q)' = Inside(q)
  BY <1>1 DEF Inside
<1>6. Inside(p)' = Inside(p) \ {c}
  BY <1>1 DEF Inside
\* With the entry as it was: a gateway's, or somebody else's.
<1>7. CASE held' = held
  <2>1. LockTyped'
    BY <1>0, <1>1, <1>2, <1>7 DEF LockTyped, Leave, Goto
  <2>2. Entries'
    BY <1>0, <1>1, <1>2, <1>7 DEF Entries, Session
  <2>3. Apart'
    BY <1>0, <1>1, <1>2, <1>7 DEF Apart, Entries
  <2>4. kind = "gateway" \/ (kind # "gateway" /\ ~MayLetGo(c) /\ pc = "idle")
    <3>1. ASSUME kind # "gateway", MayLetGo(c), held[p].count > 1,
                 held' = [held EXCEPT ![p].count = @ - 1]
          PROVE  FALSE
      <4>1. held'[p].count = held[p].count - 1
        BY <1>0, <3>1 DEF LockTyped
      <4> QED BY <1>0, <1>4, <1>7, <4>1
    <3>2. ASSUME kind # "gateway", MayLetGo(c), held' = [held EXCEPT ![p] = NoLock]
          PROVE  FALSE
      <4>1. held'[p] = NoLock
        BY <1>0, <3>2 DEF LockTyped
      <4> QED
        BY <1>0, <1>3, <1>7, <3>2, <4>1 DEF MayLetGo
    <3> QED BY <1>1, <3>1, <3>2
  <2>5. held[p].count = 0 \/ Crowd(p)' = Crowd(p)
    <3>1. CASE Session
      <4>1. kind # "gateway" /\ held[p].id # mine[c]
        BY <2>4, <3>1 DEF Session, MayLetGo
      <4>2. \A d \in Caller : Counting(d)' <=> Counting(d)
        BY <1>1, <1>2, <1>7, <3>1, <4>1 DEF Counting, In, Session
      <4> QED BY <4>2 DEF Crowd
    <3>2. CASE ~Session
      BY <1>0, <1>3, <2>4, <3>2 DEF MayLetGo, Entries
    <3> QED BY <3>1, <3>2
  <2>6. \A q \in Process : q # p => Crowd(q)' = Crowd(q)
    <3>1. \A d \in Caller : d # c => (Counting(d)' <=> Counting(d))
      BY <1>1, <1>2, <1>7 DEF Counting, In, Session
    <3> QED BY <3>1 DEF Crowd
  <2>7. CountBound'
    BY <1>0, <1>7, <2>5, <2>6, CrowdFinite DEF CountBound
  <2>8. ASSUME Quiet' PROVE Calm' /\ OneGrips' /\ (kind' # "gateway" => Counted')
    <3>1. Calm /\ OneGrips /\ (kind # "gateway" => Counted)
      BY <1>2, <2>8 DEF LockInv, Quiet
    <3>2. Calm'
      BY <1>1, <1>2, <3>1 DEF Calm
    <3>3. CASE kind = "gateway"
      <4>1. at[c] = "in"
        BY <1>0, <3>3 DEF Entries, Session
      <4>2. \A d \in Caller : Gripping(d)' <=> Gripping(d)
        BY <1>0, <1>1, <1>2, <3>3, <4>1 DEF Gripping
      <4>3. OneGrips'
        BY <1>2, <1>7, <3>1, <4>2 DEF OneGrips
      <4> QED BY <1>2, <3>2, <3>3, <4>3
    <3>4. CASE kind # "gateway"
      <4>1. ~MayLetGo(c) /\ pc = "idle"
        BY <2>4, <3>4
      <4>2. at[c] # "in"
        <5>1. SUFFICES ASSUME at[c] = "in" PROVE FALSE
          OBVIOUS
        <5>2. c \in Inside(p)
          BY <5>1 DEF Inside
        <5>3. mine[c] = held[p].id /\ held[p].count # 0
          BY <1>0, <3>1, <3>4, <5>2, CrowdFinite, FS_EmptySet DEF Counted
        <5> QED
          BY <1>0, <1>4, <4>1, <5>3 DEF MayLetGo
      <4>3. \A d \in Caller : Gripping(d)' <=> Gripping(d)
        BY <1>0, <1>1, <1>2, <3>4, <4>1 DEF Gripping
      <4>4. OneGrips'
        BY <1>2, <1>7, <3>1, <4>3 DEF OneGrips
      <4>5. Inside(p)' = Inside(p)
        BY <1>6, <4>2 DEF Inside
      <4>6. ASSUME NEW q \in Process
            PROVE  /\ held'[q].count = Cardinality(Inside(q)')
                   /\ \A d \in Inside(q)' : mine'[d] = held'[q].id
        <5>1. Inside(q)' = Inside(q) /\ held'[q] = held[q] /\ c \notin Inside(q)
          BY <1>5, <1>7, <4>2, <4>5 DEF Inside
        <5>2. \A d \in Inside(q) : d # c /\ mine'[d] = mine[d]
          BY <1>1, <5>1 DEF Inside
        <5> QED
          BY <3>1, <3>4, <5>1, <5>2 DEF Counted
      <4> QED BY <3>2, <4>4, <4>6 DEF Counted
    <3> QED BY <3>3, <3>4
  <2> QED
    BY <2>1, <2>2, <2>3, <2>7, <2>8 DEF LockInv
<1> DEFINE fewer == [held[p] EXCEPT !.count = held[p].count - 1]
           e == IF held[p].count > 1 THEN fewer ELSE NoLock
<1>8. CASE held' # held
  <2>1. /\ kind # "gateway" /\ MayLetGo(c) /\ held' = [held EXCEPT ![p] = e]
        /\ pc = IF held[p].count > 1 THEN "idle" ELSE "closing"
    BY <1>1, <1>8
  <2>2. held[p].count \in Nat \ {0} /\ (Session => held[p].id = mine[c])
    BY <1>0, <1>4, <2>1 DEF MayLetGo
  <2>3. /\ e \in [id : Id \cup {0}, count : Nat] /\ e.count = held[p].count - 1
        /\ e.count # 0 => e.id = held[p].id
        /\ e.id = 0 <=> e.count = 0
        /\ e = NoLock <=> e.count = 0
        /\ e.id \in {held[p].id, 0}
    <3>1. CASE held[p].count > 1
      <4>1. held[p] \in [id : Id \cup {0}, count : Nat]
        BY <1>0 DEF LockTyped
      <4>2. /\ fewer \in [id : Id \cup {0}, count : Nat]
            /\ fewer.count = held[p].count - 1 /\ fewer.id = held[p].id
        BY <2>2, <3>1, <4>1
      <4>3. e = fewer
        BY <3>1
      <4>4. held[p].id \in Id /\ held[p].id # 0 /\ held[p].count - 1 \in Nat \ {0}
        BY <1>0, <1>4, <2>2, <3>1
      <4> HIDE DEF fewer, e
      <4>5. e.count # 0 /\ e.id # 0 /\ e # NoLock
        BY <1>3, <4>2, <4>3, <4>4
      <4> QED
        BY <4>2, <4>3, <4>5
    <3>2. CASE ~(held[p].count > 1)
      <4>1. e = NoLock /\ held[p].count = 1
        BY <2>2, <3>2
      <4> HIDE DEF fewer, e
      <4> QED BY <1>3, <4>1
    <3> QED BY <3>1, <3>2
  <2> HIDE DEF fewer, e
  <2>4. \A q \in Process : held'[q] = IF q = p THEN e ELSE held[q]
    BY <1>0, <2>1 DEF LockTyped
  <2>5. LockTyped'
    <3>1. held' \in [Process -> [id : Id \cup {0}, count : Nat]]
      BY <1>0, <2>1, <2>3 DEF LockTyped
    <3> QED
      BY <1>0, <1>1, <1>2, <3>1 DEF LockTyped, Leave, Goto
  <2>6. Entries'
    BY <1>0, <1>1, <1>2, <2>1, <2>2, <2>3, <2>4 DEF Entries, Session
  <2>7. Apart'
    <3>1. ASSUME NEW d \in Caller, at'[d] = "write"
          PROVE  /\ \A b \in Caller : b # d => mine'[b] # mine'[d]
                 /\ \A q \in Process : held'[q].id # mine'[d]
      <4>1. d # c /\ at[d] = "write" /\ mine'[d] = mine[d] /\ mine[d] \in Id
        BY <1>0, <1>1, <3>1 DEF Entries
      <4>2. /\ \A b \in Caller : b # d => mine[b] # mine[d]
            /\ \A q \in Process : held[q].id # mine[d]
        BY <1>0, <4>1 DEF Apart
      <4> QED
        BY <1>0, <1>1, <2>3, <2>4, <4>1, <4>2
    <3>2. ASSUME NEW d \in Caller, at'[d] = "lost"
          PROVE  held'[processOf[d]].id # mine'[d]
      <4>1. /\ d # c /\ at[d] = "lost" /\ mine'[d] = mine[d] /\ mine[d] \in Id
            /\ processOf[d] \in Process
        BY <1>0, <1>1, <3>2, LockAssumption DEF Entries
      <4>2. held[processOf[d]].id # mine[d]
        BY <1>0, <4>1 DEF Apart
      <4> QED
        BY <1>0, <2>3, <2>4, <4>1, <4>2
    <3> QED BY <3>1, <3>2 DEF Apart
  <2>8. ASSUME NEW q \in Process PROVE held'[q].count <= Cardinality(Crowd(q)')
    <3>1. CASE q # p
      <4>1. \A d \in Caller : processOf[d] = q => (Counting(d)' <=> Counting(d))
        BY <1>1, <1>2, <2>4, <3>1 DEF Counting, In, Session
      <4>2. Crowd(q)' = Crowd(q)
        BY <4>1 DEF Crowd
      <4> QED
        BY <1>0, <2>4, <3>1, <4>2 DEF CountBound
    <3>2. CASE q = p /\ e.count = 0
      BY <2>4, <3>2, CrowdFinite
    <3>3. CASE q = p /\ e.count # 0
      <4>1. \A d \in Caller : d # c /\ processOf[d] = p => (Counting(d)' <=> Counting(d))
        BY <1>1, <1>2, <2>3, <2>4, <3>3 DEF Counting, In, Session
      <4>2. Counting(c) /\ ~Counting(c)'
        BY <1>0, <1>1, <2>2 DEF Counting, In
      <4>3. c \in Crowd(p) /\ Crowd(p)' = Crowd(p) \ {c}
        BY <4>1, <4>2 DEF Crowd
      <4>4. Cardinality(Crowd(p)') = Cardinality(Crowd(p)) - 1
        <5>1. IsFiniteSet(Crowd(p))
          BY <1>0, CrowdFinite
        <5>2. Cardinality(Crowd(p) \ {c}) = Cardinality(Crowd(p)) - 1
          BY <4>3, <5>1, FS_RemoveElement
        <5> QED BY <4>3, <5>2
      <4>5. held[p].count <= Cardinality(Crowd(p)) /\ Cardinality(Crowd(p)) \in Nat
        BY <1>0, CrowdFinite DEF CountBound
      <4> QED
        BY <2>2, <2>3, <2>4, <3>3, <4>4, <4>5
    <3> QED BY <3>1, <3>2, <3>3
  <2>9. ASSUME Quiet' PROVE Calm' /\ OneGrips' /\ Counted'
    <3>1. Calm /\ OneGrips /\ Counted
      BY <1>2, <2>1, <2>9 DEF LockInv, Quiet
    <3>2. Calm'
      BY <1>1, <1>2, <3>1 DEF Calm
    <3>3. at[c] = "in"
      <4>1. at[c] = "lost" => Session /\ held[p].id # mine[c]
        BY <1>0 DEF Apart, Entries
      <4> QED BY <1>0, <2>2, <4>1
    <3>4. c \in Inside(p)
      BY <3>3 DEF Inside
    <3>5. Cardinality(Inside(p)') = Cardinality(Inside(p)) - 1
      BY <1>0, <1>6, <3>4, CrowdFinite, FS_RemoveElement
    <3>6. held[p].count = Cardinality(Inside(p)) /\ held'[p].count = held[p].count - 1
      BY <1>0, <2>3, <2>4, <3>1 DEF Counted
    <3>7. held'[p].count = Cardinality(Inside(p)')
      BY <3>5, <3>6
    <3>8. ASSUME NEW q \in Process, q # p
          PROVE  /\ held'[q].count = Cardinality(Inside(q)')
                 /\ \A d \in Inside(q)' : mine'[d] = held'[q].id
      <4>1. Inside(q)' = Inside(q) /\ held'[q] = held[q]
        BY <1>5, <2>4, <3>8
      <4>2. \A d \in Inside(q) : mine'[d] = mine[d]
        BY <1>1, <3>8 DEF Inside
      <4> QED BY <3>1, <4>1, <4>2 DEF Counted
    <3>9. ASSUME NEW d \in Inside(p)' PROVE mine'[d] = held'[p].id
      <4>1. d \in Inside(p) /\ d # c /\ mine'[d] = mine[d]
        BY <1>1, <1>6, <3>9 DEF Inside
      <4>2. mine[d] = held[p].id
        BY <1>0, <3>1, <4>1 DEF Counted
      <4>3. Cardinality(Inside(p)') # 0
        <5>1. IsFiniteSet(Inside(p)')
          BY <1>0, <1>6, CrowdFinite, FS_RemoveElement
        <5> QED BY <3>9, <5>1, FS_EmptySet
      <4>4. e.count # 0
        BY <1>0, <2>4, <3>7, <4>3
      <4> QED BY <1>0, <2>3, <2>4, <4>1, <4>2, <4>4
    <3>10. Counted'
      BY <3>7, <3>8, <3>9 DEF Counted
    <3>11. /\ \A d \in Caller : ~Gripping(d)
           /\ \A q \in Process : held[q] # NoLock => q = p
           /\ letGo = {} /\ lock # NoFile /\ held[p] # NoLock
      BY <1>0, <1>4, <2>2, <3>1 DEF OneGrips, LockTyped
    <3>12. /\ \A q \in Process : held'[q] # NoLock => q = p /\ e.count # 0
      BY <2>3, <2>4, <3>11
    <3>13. /\ \A d \in Caller : Gripping(d)' => d = c /\ pc = "closing"
      BY <1>1, <1>2, <2>1, <3>11 DEF Gripping
    <3>14. pc = "closing" => e.count = 0
      BY <2>1, <2>2, <2>3
    <3>15. OneGrips'
      BY <1>2, <3>11, <3>12, <3>13, <3>14 DEF OneGrips
    <3> QED BY <3>2, <3>10, <3>15
  <2> QED
    BY <2>5, <2>6, <2>7, <2>8, <2>9 DEF LockInv, CountBound
<1> QED
  BY <1>7, <1>8

\* The last one has let go, and removes the file by name.
LEMMA RemoveOwnKeeps ==
    ASSUME LockInv, NEW c \in Caller, RemoveOwn(c)
    PROVE  LockInv'
<1>0. /\ LockTyped /\ Entries /\ Apart /\ CountBound
      /\ at[c] \in {"closing", "undo"} /\ 0 \notin Id
  BY LockAssumption DEF LockInv, RemoveOwn
<1>1. /\ \A d \in Caller : at'[d] = IF d = c THEN "idle" ELSE at[d]
      /\ \A d \in Caller : mine'[d] = IF d = c THEN 0 ELSE mine[d]
      /\ UNCHANGED <<kind, held, alive, saw, letGo, faults, causes>> /\ lock' = NoFile
  BY <1>0 DEF RemoveOwn, Leave, Goto, LockTyped, NoFault
<1>2. LockTyped'
  BY <1>0, <1>1 DEF LockTyped, RemoveOwn, Leave, Goto
<1>3. Entries' /\ Apart'
  BY <1>0, <1>1 DEF Entries, Apart, Session
<1>4. \A q \in Process : Crowd(q)' = Crowd(q) /\ Inside(q)' = Inside(q)
  BY <1>0, <1>1 DEF Crowd, Inside, Counting, In, Session
<1>5. CountBound'
  BY <1>0, <1>1, <1>4 DEF CountBound
<1>6. ASSUME Quiet' PROVE Calm' /\ OneGrips' /\ (kind' # "gateway" => Counted')
  <2>1. Calm /\ OneGrips /\ (kind # "gateway" => Counted)
    BY <1>1, <1>6 DEF LockInv, Quiet
  <2>2. Calm'
    BY <1>1, <2>1 DEF Calm
  <2>3. Gripping(c)
    BY <1>0, <2>1 DEF Calm, Gripping
  <2>4. /\ \A d \in Caller : ~Gripping(d)'
        /\ \A q \in Process : held'[q] = NoLock
        /\ letGo' = {}
    BY <1>0, <1>1, <2>1, <2>3 DEF OneGrips, Gripping, LockTyped
  <2>5. OneGrips'
    BY <2>4 DEF OneGrips
  <2>6. kind # "gateway" => Counted'
    BY <1>0, <1>1, <1>4, <2>1 DEF Counted, Inside
  <2> QED BY <1>1, <2>2, <2>5, <2>6
<1> QED
  BY <1>2, <1>3, <1>5, <1>6 DEF LockInv

-----------------------------------------------------------------------------
(* What goes wrong *)

\* A process lets its lock go by force; its watchdog will remove the file, or the handler
\* of the signal has.
LEMMA ForcedKeeps ==
    ASSUME LockInv, NEW p \in Process, Session, held[p] # NoLock, p \in alive,
           Fault("forced"), held' = [held EXCEPT ![p] = NoLock], Lost(p),
           UNCHANGED <<kind, alive, mine, saw>>,
           \/ letGo' = letGo \cup {p} /\ lock' = lock
           \/ letGo' = letGo /\ lock' = NoFile
    PROVE  LockInv'
<1>0. /\ LockTyped /\ Entries /\ Apart /\ CountBound
      /\ MaxFaults \in Nat /\ 0 \notin Id /\ kind \in {"session", "registry"}
  BY LockAssumption DEF LockInv, Session
<1>1. /\ causes' = causes \cup {"forced"} /\ faults' \in 0..MaxFaults
  BY <1>0 DEF Fault, LockTyped
<1>2. /\ \A d \in Caller : at'[d] = IF processOf[d] = p /\ at[d] = "in" THEN "lost" ELSE at[d]
      /\ \A q \in Process : held'[q] = IF q = p THEN NoLock ELSE held[q]
      /\ NoLock \in [id : Id \cup {0}, count : Nat] /\ NoLock.id = 0 /\ NoLock.count = 0
  BY <1>0 DEF Lost, LockTyped, NoLock
<1>3. LockTyped'
  <2>1. held' \in [Process -> [id : Id \cup {0}, count : Nat]]
    BY <1>0, <1>2 DEF LockTyped
  <2>2. at' \in [Caller -> {"idle", "open", "write", "undo", "read", "judge", "stat", "rm",
                            "delay", "in", "lost", "closing", "dead", "sweep", "sweepRm"}]
    BY <1>0 DEF Lost, LockTyped
  <2> QED
    BY <1>0, <1>1, <2>1, <2>2 DEF LockTyped
<1>4. Entries'
  BY <1>0, <1>1, <1>2 DEF Entries, Session
<1>5. Apart'
  <2>1. ASSUME NEW d \in Caller, at'[d] = "write"
        PROVE  /\ \A b \in Caller : b # d => mine'[b] # mine'[d]
               /\ \A q \in Process : held'[q].id # mine'[d]
    <3>1. at[d] = "write" /\ mine[d] \in Id
      BY <1>0, <1>2, <2>1 DEF Entries
    <3>2. /\ \A b \in Caller : b # d => mine[b] # mine[d]
          /\ \A q \in Process : held[q].id # mine[d]
      BY <1>0, <3>1 DEF Apart
    <3> QED BY <1>0, <1>2, <3>1, <3>2
  <2>2. ASSUME NEW d \in Caller, at'[d] = "lost"
        PROVE  held'[processOf[d]].id # mine'[d]
    <3>1. processOf[d] \in Process /\ mine[d] \in Id
      BY <1>0, <1>2, <2>2, LockAssumption DEF Entries
    <3>2. processOf[d] # p => held[processOf[d]].id # mine[d]
      BY <1>0, <1>2, <2>2 DEF Apart
    <3> QED BY <1>0, <1>2, <3>1, <3>2
  <2> QED BY <2>1, <2>2 DEF Apart
<1>6. ASSUME NEW q \in Process, q # p
      PROVE  Crowd(q)' = Crowd(q) /\ Inside(q)' = Inside(q)
  <2>1. \A d \in Caller : processOf[d] = q => (Counting(d)' <=> Counting(d))
    BY <1>2, <1>6 DEF Counting, In, Session
  <2> QED
    BY <1>2, <1>6, <2>1 DEF Crowd, Inside
<1>7. CountBound'
  BY <1>0, <1>2, <1>6, CrowdFinite DEF CountBound
<1>8. ASSUME Quiet' PROVE Calm' /\ OneGrips' /\ Counted'
  <2>1. Calm /\ OneGrips /\ Counted
    BY <1>0, <1>1, <1>8 DEF LockInv, Quiet
  <2>2. Calm'
    BY <1>2, <2>1 DEF Calm
  <2>3. /\ \A d \in Caller : ~Gripping(d)
        /\ \A q \in Process : held'[q] = NoLock
        /\ letGo = {} /\ lock # NoFile
    BY <1>2, <2>1 DEF OneGrips, LockTyped
  <2>4. \A d \in Caller : ~Gripping(d)'
    BY <1>0, <1>2, <2>3 DEF Gripping
  <2>5. OneGrips'
    BY <2>3, <2>4 DEF OneGrips
  <2>6. Inside(p)' = {}
    BY <1>2 DEF Inside
  <2>7. Counted'
    <3>1. ASSUME NEW q \in Process, q # p
          PROVE  /\ held'[q].count = Cardinality(Inside(q)')
                 /\ \A d \in Inside(q)' : mine'[d] = held'[q].id
      <4>1. Inside(q)' = Inside(q) /\ held'[q] = held[q]
        BY <1>2, <1>6, <3>1
      <4> QED BY <2>1, <4>1 DEF Counted, Inside
    <3>2. held'[p].count = 0 /\ Cardinality(Inside(p)') = 0
      BY <1>2, <2>6, FS_EmptySet
    <3> QED BY <2>6, <3>1, <3>2 DEF Counted
  <2> QED BY <2>2, <2>5, <2>7
<1> QED
  BY <1>3, <1>4, <1>5, <1>7, <1>8 DEF LockInv

\* What a watchdog let go of by force is removed by name.
LEMMA WatchdogRemovesKeeps ==
    ASSUME LockInv, NEW p \in Process, WatchdogRemoves(p)
    PROVE  LockInv'
<1>0. /\ LockTyped /\ Entries /\ Apart /\ CountBound
      /\ UNCHANGED <<kind, held, alive, at, mine, saw, faults, causes>>
      /\ p \in letGo /\ letGo' = letGo \ {p} /\ lock' = NoFile
  BY DEF LockInv, WatchdogRemoves, NoFault
<1>1. LockTyped'
  BY <1>0 DEF LockTyped
<1>2. Entries' /\ Apart'
  BY <1>0 DEF Entries, Apart, Session
<1>3. \A q \in Process : Crowd(q)' = Crowd(q) /\ Inside(q)' = Inside(q)
  BY <1>0 DEF Crowd, Inside, Counting, In, Session
<1>4. CountBound'
  BY <1>0, <1>3 DEF CountBound
<1>5. ASSUME Quiet' PROVE Calm' /\ OneGrips' /\ (kind' # "gateway" => Counted')
  <2>1. Calm /\ OneGrips /\ (kind # "gateway" => Counted)
    BY <1>0, <1>5 DEF LockInv, Quiet
  <2>2. Calm'
    BY <1>0, <2>1 DEF Calm
  <2>3. /\ \A d \in Caller : ~Gripping(d)
        /\ \A q \in Process : held[q] = NoLock
        /\ letGo' = {}
    BY <1>0, <2>1 DEF OneGrips
  <2>4. OneGrips'
    BY <1>0, <2>3 DEF OneGrips, Gripping
  <2>5. kind # "gateway" => Counted'
    BY <1>0, <1>3, <2>1 DEF Counted, Inside
  <2> QED BY <1>0, <2>2, <2>4, <2>5
<1> QED
  BY <1>1, <1>2, <1>4, <1>5 DEF LockInv

\* From here on nothing is quiet.
LEMMA DiesKeeps ==
    ASSUME LockInv, NEW p \in Process, Dies(p)
    PROVE  LockInv'
<1>0. /\ LockTyped /\ Entries /\ Apart /\ CountBound /\ MaxFaults \in Nat /\ 0 \notin Id
      /\ UNCHANGED <<kind, saw>> /\ alive' \subseteq alive /\ letGo' \subseteq letGo
  BY LockAssumption DEF LockInv, Dies
<1>1. /\ causes' = causes \cup {"leftover"} /\ faults' \in 0..MaxFaults
  BY <1>0 DEF Dies, Fault, LockTyped
<1>2. /\ \A d \in Caller : at'[d] = IF processOf[d] = p THEN "dead" ELSE at[d]
      /\ \A d \in Caller : mine'[d] = IF processOf[d] = p THEN 0 ELSE mine[d]
      /\ \A q \in Process : held'[q] = IF q = p THEN NoLock ELSE held[q]
      /\ NoLock \in [id : Id \cup {0}, count : Nat] /\ NoLock.id = 0 /\ NoLock.count = 0
  BY <1>0 DEF Dies, LockTyped, NoLock
<1>3. lock' \in File \cup {NoFile}
  <2>1. ASSUME lock # NoFile PROVE [lock EXCEPT !.owner = "recycled"] \in File
    BY <1>0, <2>1 DEF LockTyped, File, Owner
  <2> QED BY <1>0, <2>1 DEF Dies, LockTyped
<1>4. LockTyped'
  <2>1. held' \in [Process -> [id : Id \cup {0}, count : Nat]]
    BY <1>0, <1>2 DEF Dies, LockTyped
  <2>2. at' \in [Caller -> {"idle", "open", "write", "undo", "read", "judge", "stat", "rm",
                            "delay", "in", "lost", "closing", "dead", "sweep", "sweepRm"}]
    BY <1>0 DEF Dies, LockTyped
  <2>3. mine' \in [Caller -> Id \cup {0}]
    BY <1>0 DEF Dies, LockTyped
  <2> QED
    BY <1>0, <1>1, <1>3, <2>1, <2>2, <2>3 DEF LockTyped
<1>5. Entries'
  BY <1>0, <1>1, <1>2 DEF Entries, Session
<1>6. Apart'
  BY <1>0, <1>2, LockAssumption DEF Apart, Entries
<1>7. ASSUME NEW q \in Process, q # p PROVE Crowd(q)' = Crowd(q)
  <2>1. \A d \in Caller : processOf[d] = q => (Counting(d)' <=> Counting(d))
    BY <1>0, <1>2, <1>7 DEF Counting, In, Session
  <2> QED
    BY <2>1 DEF Crowd
<1>8. CountBound'
  BY <1>0, <1>2, <1>7, CrowdFinite DEF CountBound
<1>9. ~Quiet'
  BY <1>1 DEF Quiet
<1> QED
  BY <1>4, <1>5, <1>6, <1>8, <1>9 DEF LockInv

\* A file gets old: a cause that ends the quiet.
LEMMA AgesKeeps ==
    ASSUME LockInv, Ages
    PROVE  LockInv'
<1>0. /\ LockTyped /\ Entries /\ Apart /\ CountBound /\ MaxFaults \in Nat
      /\ UNCHANGED <<kind, held, alive, at, mine, saw, letGo>>
      /\ lock # NoFile /\ lock' = [lock EXCEPT !.old = TRUE]
  BY LockAssumption DEF LockInv, Ages
<1>1. /\ causes' \in {causes, causes \cup {"old"}} /\ faults' \in 0..MaxFaults
      /\ causes' \cap {"leftover", "old"} # {}
  BY <1>0 DEF Ages, Fault, NoFault, LockTyped
<1>2. lock' \in File
  BY <1>0 DEF LockTyped, File
<1>3. LockTyped'
  BY <1>0, <1>1, <1>2 DEF LockTyped
<1>4. Entries' /\ Apart'
  BY <1>0, <1>1 DEF Entries, Apart, Session
<1>5. \A q \in Process : Crowd(q)' = Crowd(q)
  BY <1>0 DEF Crowd, Counting, In, Session
<1>6. CountBound'
  BY <1>0, <1>5 DEF CountBound
<1>7. ~Quiet'
  BY <1>1 DEF Quiet
<1> QED
  BY <1>3, <1>4, <1>6, <1>7 DEF LockInv

-----------------------------------------------------------------------------
\* Every step keeps the invariant.
LEMMA LockStepInv == LockInv /\ [LockNext]_lockVars => LockInv'
<1> SUFFICES ASSUME LockInv, [LockNext]_lockVars PROVE LockInv'
  OBVIOUS
<1>1. ASSUME NEW c \in Callers,
             \/ Acquire(c) \/ Attempt(c) \/ Release(c) \/ RemoveOwn(c)
             \/ Sweep(c) \/ SweepReads(c) \/ SweepRemoves(c)
      PROVE  LockInv'
  <2>1. c \in Caller
    BY LockAssumption DEF Callers
  <2> QED
    BY <1>1, <2>1, AcquireKeeps, OpenKeeps, WriteKeeps, WriteFailsKeeps, ReadKeeps,
       JudgementKeeps, WalksKeep, ReleaseKeeps, RemoveOwnKeeps DEF Attempt
<1>2. ASSUME NEW p \in Process, Watchdog(p) \/ Signalled(p) PROVE LockInv'
  BY <1>2, ForcedKeeps DEF Watchdog, Signalled
<1>3. ASSUME NEW p \in Process, WatchdogRemoves(p) \/ Dies(p) PROVE LockInv'
  BY <1>3, WatchdogRemovesKeeps, DiesKeeps
<1>4. CASE Ages
  BY <1>4, AgesKeeps
<1>5. CASE UNCHANGED lockVars
  <2>1. \A q \in Process : Crowd(q)' = Crowd(q) /\ Inside(q)' = Inside(q)
    BY <1>5 DEF lockVars, Crowd, Inside, Counting, In, Session
  <2>2. LockTyped' /\ Entries' /\ Apart'
    BY <1>5 DEF lockVars, LockInv, LockTyped, Entries, Apart, Session
  <2>3. CountBound' /\ (Counted => Counted')
    BY <1>5, <2>1 DEF lockVars, LockInv, CountBound, Counted
  <2>4. (Quiet' => Quiet) /\ (Calm => Calm') /\ (OneGrips => OneGrips') /\ kind' = kind
    BY <1>5 DEF lockVars, Quiet, Calm, OneGrips, Gripping
  <2> QED
    BY <2>2, <2>3, <2>4 DEF LockInv
<1> QED
  BY <1>1, <1>2, <1>3, <1>4, <1>5 DEF LockNext

\* The invariant says what LockExcludes does.
LEMMA LockInvExcludes == LockInv => LockExcludes
<1> SUFFICES ASSUME LockInv PROVE LockExcludes
  OBVIOUS
<1>0. LockTyped /\ Entries /\ CountBound
  BY DEF LockInv
<1>1. LockTypeOK
  <2>1. ASSUME NEW p \in Process PROVE held[p].count \in 0..Cardinality(Caller)
    <3>1. held[p].count \in Nat /\ held[p].count <= Cardinality(Crowd(p))
      BY <1>0 DEF LockTyped, CountBound
    <3>2. Cardinality(Crowd(p)) \in Nat /\ Cardinality(Crowd(p)) <= Cardinality(Caller)
          /\ Cardinality(Caller) \in Nat
      BY CrowdFinite, LockAssumption, FS_CardinalityType
    <3> QED BY <3>1, <3>2
  <2>2. held \in [Process -> [id : Id \cup {0}, count : 0..Cardinality(Caller)]]
    <3>1. \A p \in Process : held[p] \in [id : Id \cup {0}, count : 0..Cardinality(Caller)]
      BY <1>0, <2>1 DEF LockTyped
    <3> QED BY <1>0, <3>1 DEF LockTyped
  <2> QED
    BY <1>0, <2>2 DEF LockTyped, LockTypeOK
<1>2. ASSUME causes = {}, NEW c \in Caller, NEW d \in Caller, In(c), In(d)
      PROVE  c = d \/ (Reentrant /\ processOf[c] = processOf[d])
  <2>1. OneGrips /\ (kind # "gateway" => Counted)
    BY <1>2 DEF LockInv, Quiet
  <2>2. at[c] = "in" /\ at[d] = "in"
    BY <1>0, <1>2 DEF In, Entries
  <2>3. CASE kind = "gateway"
    BY <2>1, <2>2, <2>3 DEF OneGrips, Gripping
  <2>4. CASE kind # "gateway"
    <3>1. processOf[c] \in Process /\ processOf[d] \in Process
      BY LockAssumption
    <3>2. ASSUME NEW b \in Caller, at[b] = "in", processOf[b] \in Process
          PROVE  held[processOf[b]] # NoLock
      <4>1. Cardinality(Inside(processOf[b])) # 0
        BY <3>2, CrowdFinite, FS_EmptySet DEF Inside
      <4> QED
        BY <1>0, <2>1, <2>4, <3>2, <4>1, HeldIs DEF Counted
    <3>3. processOf[c] = processOf[d]
      BY <2>1, <2>2, <3>1, <3>2 DEF OneGrips
    <3>4. CASE kind = "registry"
      <4> DEFINE p == processOf[c]
      <4>1. c \in Inside(p) /\ d \in Inside(p)
        BY <2>2, <3>3 DEF Inside
      <4>2. Cardinality(Inside(p)) \in Nat /\ Cardinality(Inside(p)) # 0
        BY <3>1, <4>1, CrowdFinite, FS_EmptySet
      <4>3. Cardinality(Inside(p)) = 1
        BY <1>0, <2>1, <2>4, <3>1, <3>4, <4>2 DEF Counted, Entries
      <4>4. PICK x : Inside(p) = {x}
        BY <3>1, <4>3, CrowdFinite, FS_Singleton
      <4> QED BY <4>1, <4>4
    <3>5. CASE kind \in {"file", "session"}
      BY <3>3, <3>5 DEF Reentrant
    <3> QED
      BY <1>0, <2>4, <3>4, <3>5 DEF LockTyped, Kinds
  <2> QED BY <2>3, <2>4
<1>3. ASSUME (kind = "file" /\ causes = {}) \/ (Session /\ causes \subseteq {"forced"}),
             NEW p \in Process
      PROVE  LET inside == {c \in Caller : processOf[c] = p /\ at[c] = "in"} IN
                 /\ held[p].count = Cardinality(inside)
                 /\ \A c \in inside : mine[c] = held[p].id
  BY <1>3 DEF LockInv, Quiet, Session, Counted, Inside
<1> QED
  BY <1>1, <1>2, <1>3 DEF LockExcludes

\* Every reachable state satisfies the inductive invariant: see LockInv.
THEOREM LockInvariant == LockSpec => []LockInv
  BY LockInitInv, LockStepInv, PTL DEF LockSpec

\* However many callers and processes there are: one process is inside of the lock at a
\* time, and the count of HELD_LOCKS is that of the callers inside, with the exceptions
\* that LockExcludes names.
THEOREM LockFilesExclude == LockSpec => []LockExcludes
  BY LockInvariant, LockInvExcludes, PTL
=============================================================================
