------------------------- MODULE CommandQueueProofs -------------------------
(***************************************************************************)
(* Theorems about CommandQueue, for every set of lanes and tasks.          *)
(***************************************************************************)
EXTENDS CommandQueue, FunctionTheorems, FiniteSetTheorems, SequenceTheorems, TLAPS

Distinct(s) == \A i, j \in 1..Len(s) : s[i] = s[j] => i = j

-----------------------------------------------------------------------------
(* Lemmas about the pump *)

\* The pump starts no more entries than there are.
LEMMA StartCountType ==
    ASSUME NEW q \in Seq(Task), NEW active \in SUBSET Task, NEW limit \in Nat
    PROVE  /\ Cardinality(active) \in Nat
           /\ StartCount(q, active, limit) \in 0..Len(q)
<1>1. Cardinality(active) \in Nat
  BY TaskAssumption, FS_Subset, FS_CardinalityType
<1>2. Len(q) \in Nat
  BY LenProperties
<1> QED
  BY <1>1, <1>2 DEF StartCount

\* Cutting a queue without repetitions splits its entries in two.
LEMMA CutQueue ==
    ASSUME NEW q \in Seq(Task), NEW k \in 0..Len(q), Distinct(q)
    PROVE  LET front == {q[i] : i \in 1..k}
               rest == SubSeq(q, k + 1, Len(q))
           IN  /\ rest \in Seq(Task)
               /\ Len(rest) = Len(q) - k
               /\ Distinct(rest)
               /\ front \cup Range1(rest) = Range1(q)
               /\ front \cap Range1(rest) = {}
<1> DEFINE front == {q[i] : i \in 1..k}
           rest == SubSeq(q, k + 1, Len(q))
<1>1. Len(q) \in Nat /\ k \in Nat /\ k <= Len(q)
  BY LenProperties
<1>2. /\ rest \in Seq(Task)
      /\ Len(rest) = Len(q) - k
      /\ \A i \in 1..Len(rest) : rest[i] = q[i + k]
  <2>1. CASE k = Len(q)
    BY <2>1, <1>1, SubSeqEmpty, EmptySeq
  <2>2. CASE k < Len(q)
    BY <2>2, <1>1, SubSeqProperties
  <2> QED BY <2>1, <2>2, <1>1
<1> HIDE DEF rest
<1>3. Distinct(rest)
  <2> SUFFICES ASSUME NEW i \in 1..Len(rest), NEW j \in 1..Len(rest), rest[i] = rest[j]
               PROVE  i = j
    BY DEF Distinct
  <2>1. i + k \in 1..Len(q) /\ j + k \in 1..Len(q) /\ q[i + k] = q[j + k]
    BY <1>1, <1>2
  <2>2. i + k = j + k
    BY <2>1 DEF Distinct
  <2> QED BY <2>2, <1>1, <1>2
<1>4. \A j \in 1..Len(q) : j <= k \/ (j - k \in 1..Len(rest) /\ rest[j - k] = q[j])
  BY <1>1, <1>2
<1>5. front \cup Range1(rest) = Range1(q)
  <2>1. front \subseteq Range1(q)
    BY <1>1 DEF Range1
  <2>2. Range1(rest) \subseteq Range1(q)
    BY <1>1, <1>2 DEF Range1
  <2>3. Range1(q) \subseteq front \cup Range1(rest)
    BY <1>1, <1>4 DEF Range1
  <2> QED BY <2>1, <2>2, <2>3
<1>6. front \cap Range1(rest) = {}
  <2> SUFFICES ASSUME NEW i \in 1..k, NEW j \in 1..Len(rest), q[i] = rest[j]
               PROVE  FALSE
    BY DEF Range1
  <2>1. i \in 1..Len(q) /\ j + k \in 1..Len(q) /\ q[i] = q[j + k]
    BY <1>1, <1>2
  <2>2. i = j + k
    BY <2>1 DEF Distinct
  <2> QED BY <2>2, <1>1, <1>2
<1> QED
  BY <1>2, <1>3, <1>5, <1>6 DEF rest

\* Either the pump leaves nothing waiting or it fills the lane; and it starts
\* nothing beyond the limit.
LEMMA PumpFillsLane ==
    ASSUME NEW q \in Seq(Task), NEW active \in SUBSET Task, NEW limit \in Nat \ {0},
           Distinct(q), active \cap Range1(q) = {}
    PROVE  LET after == Cardinality(active \cup Pumped(q, active, limit))
           IN  /\ Unpumped(q, active, limit) # <<>> => after >= limit
               /\ Pumped(q, active, limit) = {} \/ after <= limit
<1> DEFINE k == StartCount(q, active, limit)
           front == Pumped(q, active, limit)
           c == Cardinality(active)
<1>1. Len(q) \in Nat /\ c \in Nat /\ k \in 0..Len(q)
  BY StartCountType, LenProperties
<1>2. front \subseteq Range1(q)
  BY <1>1 DEF Pumped, Range1
<1>3. IsFiniteSet(front) /\ Cardinality(front) = k
  <2> DEFINE f == [i \in 1..k |-> q[i]]
  <2>1. f \in [1..k -> front]
    BY DEF Pumped
  <2>2. \A i, j \in 1..k : f[i] = f[j] => i = j
    BY <1>1 DEF Distinct
  <2>3. \A t \in front : \E i \in 1..k : f[i] = t
    BY DEF Pumped
  <2>4. f \in Bijection(1..k, front)
    <3> HIDE DEF f, front, k
    <3> QED BY <2>1, <2>2, <2>3, Fun_IsBij
  <2>5. ExistsBijection(1..k, front)
    BY <2>4 DEF ExistsBijection
  <2>6. IsFiniteSet(1..k) /\ Cardinality(1..k) = k
    <3> HIDE DEF k
    <3> QED BY <1>1, FS_Interval
  <2> QED BY <2>5, <2>6, FS_Bijection
<1>4. Cardinality(active \cup front) = c + k
  <2>1. IsFiniteSet(active)
    BY TaskAssumption, FS_Subset
  <2>2. active \cap front = {}
    BY <1>2
  <2> HIDE DEF front, k
  <2>3. Cardinality(active \cup front) = c + Cardinality(front) - Cardinality(active \cap front)
    BY <1>3, <2>1, FS_Union
  <2>4. Cardinality(active \cap front) = 0
    BY <2>2, FS_EmptySet, Zenon
  <2> QED BY <1>1, <1>3, <2>3, <2>4
<1>5. Unpumped(q, active, limit) # <<>> => k < Len(q)
  <2> SUFFICES ASSUME ~(k < Len(q))
               PROVE  Unpumped(q, active, limit) = <<>>
    OBVIOUS
  <2>1. k = Len(q)
    BY <1>1
  <2> QED BY <2>1, <1>1, SubSeqEmpty DEF Unpumped
<1>6. k < Len(q) => c + k >= limit
  BY <1>1 DEF StartCount
<1>7. k = 0 \/ c + k <= limit
  BY <1>1 DEF StartCount
<1>8. k = 0 => front = {}
  BY DEF Pumped
<1> QED
  BY <1>1, <1>4, <1>5, <1>6, <1>7, <1>8

-----------------------------------------------------------------------------
(* The inductive invariant.  Consistent is stated of the values that an    *)
(* action hands to DrainLanes as well as of the variables.                 *)

Typed(q, a, m, g, s) ==
    /\ q \in [Lane -> Seq(Task)]
    /\ a \in [Lane -> SUBSET Task]
    /\ m \in [Lane -> 1..MaxLimit]
    /\ g \in [Lane -> Nat]
    /\ s \in [Task -> Status]
    /\ laneOf \in [Task -> Lane]
    /\ taskGeneration \in [Task -> Nat]

Consistent(q, a, m, g, s) ==
    /\ Typed(q, a, m, g, s)
    /\ \A l \in Lane : a[l] =
          {t \in Task : s[t] = "running" /\ laneOf[t] = l /\ taskGeneration[t] = g[l]}
    /\ \A l \in Lane :
          /\ Range1(q[l]) = {t \in Task : s[t] = "queued" /\ laneOf[t] = l}
          /\ Distinct(q[l])
    /\ \A t \in Task : taskGeneration[t] <= g[laneOf[t]]

IInv ==
    /\ gatewayDraining \in BOOLEAN
    /\ Consistent(queue, activeTaskIds, maxConcurrent, generation, status)
    /\ waiter \in {"idle", "waiting", "drained", "timeout"}
    /\ activeAtStart \in SUBSET Task

\* What the pump of a lane does to consistent values.
LEMMA PumpedIsQueued ==
    ASSUME NEW q, NEW a, NEW m, NEW g, NEW s, Consistent(q, a, m, g, s), NEW l \in Lane
    PROVE  LET front == Pumped(q[l], a[l], m[l])
               rest == Unpumped(q[l], a[l], m[l])
           IN  /\ rest \in Seq(Task)
               /\ Distinct(rest)
               /\ front \cup Range1(rest) = Range1(q[l])
               /\ front \cap Range1(rest) = {}
               /\ \A t \in front : t \in Task /\ s[t] = "queued" /\ laneOf[t] = l
<1>1. q[l] \in Seq(Task) /\ a[l] \in SUBSET Task /\ m[l] \in Nat /\ Distinct(q[l])
  BY LimitAssumption DEF Consistent, Typed
<1>2. StartCount(q[l], a[l], m[l]) \in 0..Len(q[l])
  BY <1>1, StartCountType
<1>3. Range1(q[l]) = {t \in Task : s[t] = "queued" /\ laneOf[t] = l}
  BY DEF Consistent
<1> QED
  BY <1>1, <1>2, <1>3, CutQueue DEF Pumped, Unpumped

\* Draining lanes keeps the values consistent.
LEMMA DrainKeepsConsistent ==
    ASSUME NEW L \in SUBSET Lane, NEW q, NEW a, NEW m, NEW g, NEW s,
           Consistent(q, a, m, g, s), DrainLanes(L, q, a, m, g, s)
    PROVE  Consistent(queue, activeTaskIds, maxConcurrent, generation, status)'
<1> DEFINE started(l) == IF l \in L THEN Pumped(q[l], a[l], m[l]) ELSE {}
           left(l) == IF l \in L THEN Unpumped(q[l], a[l], m[l]) ELSE q[l]
<1>1. /\ queue' = [l \in Lane |-> left(l)]
      /\ activeTaskIds' = [l \in Lane |-> a[l] \cup started(l)]
      /\ maxConcurrent' = m /\ generation' = g /\ laneOf' = laneOf
      /\ status' = [t \in Task |-> IF t \in started(laneOf[t]) THEN "running" ELSE s[t]]
      /\ taskGeneration' = [t \in Task |-> IF t \in started(laneOf[t]) THEN g[laneOf[t]]
                                           ELSE taskGeneration[t]]
  BY DEF DrainLanes
<1>2. Typed(q, a, m, g, s)
  BY DEF Consistent
<1>3. ASSUME NEW l \in Lane
      PROVE  /\ left(l) \in Seq(Task) /\ Distinct(left(l))
             /\ started(l) \cup Range1(left(l)) = Range1(q[l])
             /\ started(l) \cap Range1(left(l)) = {}
             /\ \A t \in started(l) : t \in Task /\ s[t] = "queued" /\ laneOf[t] = l
  <2>1. q[l] \in Seq(Task) /\ Distinct(q[l])
    BY DEF Consistent, Typed
  <2>2. CASE l \in L
    <3>1. started(l) = Pumped(q[l], a[l], m[l]) /\ left(l) = Unpumped(q[l], a[l], m[l])
      BY <2>2
    <3> HIDE DEF started, left
    <3> QED BY <3>1, PumpedIsQueued
  <2>3. CASE l \notin L
    BY <2>1, <2>3
  <2> QED BY <2>2, <2>3
<1> HIDE DEF started, left
<1>4. Typed(queue, activeTaskIds, maxConcurrent, generation, status)'
  BY <1>1, <1>2, <1>3 DEF Typed, Status
<1>5. ASSUME NEW l \in Lane
      PROVE  activeTaskIds'[l] = {t \in Task : status'[t] = "running" /\ laneOf'[t] = l
                                              /\ taskGeneration'[t] = generation'[l]}
  <2>1. a[l] = {t \in Task : s[t] = "running" /\ laneOf[t] = l /\ taskGeneration[t] = g[l]}
    BY DEF Consistent
  <2> QED BY <1>1, <1>3, <2>1
<1>6. ASSUME NEW l \in Lane
      PROVE  /\ Range1(queue'[l]) = {t \in Task : status'[t] = "queued" /\ laneOf'[t] = l}
             /\ Distinct(queue'[l])
  <2>1. Range1(q[l]) = {t \in Task : s[t] = "queued" /\ laneOf[t] = l}
    BY DEF Consistent
  <2>2. queue'[l] = left(l)
    BY <1>1
  <2>3. Range1(left(l)) = Range1(q[l]) \ started(l)
    BY <1>3
  <2> QED BY <1>1, <1>3, <2>1, <2>2, <2>3
<1>7. \A t \in Task : taskGeneration'[t] <= generation'[laneOf'[t]]
  <2>1. \A t \in Task : laneOf[t] \in Lane /\ g[laneOf[t]] \in Nat
    BY <1>2 DEF Typed
  <2>2. \A t \in Task : taskGeneration[t] <= g[laneOf[t]]
    BY DEF Consistent
  <2> QED BY <1>1, <2>1, <2>2
<1> QED
  BY <1>4, <1>5, <1>6, <1>7 DEF Consistent

\* A drain leaves no drained lane idle while entries wait in it.
LEMMA DrainFillsLanes ==
    ASSUME NEW L \in SUBSET Lane, NEW q, NEW a, NEW m, NEW g, NEW s,
           Consistent(q, a, m, g, s), DrainLanes(L, q, a, m, g, s),
           \A l \in Lane \ L : q[l] # <<>> => Cardinality(a[l]) >= m[l]
    PROVE  WorkConserving'
<1> SUFFICES ASSUME NEW l \in Lane, queue'[l] # <<>>
             PROVE  Cardinality(activeTaskIds'[l]) >= maxConcurrent'[l]
  BY DEF WorkConserving
<1>1. CASE l \in L
  <2>1. /\ q[l] \in Seq(Task) /\ a[l] \in SUBSET Task /\ m[l] \in Nat \ {0}
        /\ Distinct(q[l]) /\ a[l] \cap Range1(q[l]) = {}
    BY LimitAssumption DEF Consistent, Typed
  <2>2. /\ queue'[l] = Unpumped(q[l], a[l], m[l])
        /\ activeTaskIds'[l] = a[l] \cup Pumped(q[l], a[l], m[l])
        /\ maxConcurrent'[l] = m[l]
    BY <1>1 DEF DrainLanes
  <2> QED BY <2>1, <2>2, PumpFillsLane
<1>2. CASE l \notin L
  <2>1. queue'[l] = q[l] /\ activeTaskIds'[l] = a[l] /\ maxConcurrent'[l] = m[l]
    BY <1>2 DEF DrainLanes
  <2> QED BY <1>2, <2>1
<1> QED BY <1>1, <1>2

\* What a drain starts, it starts within the limit of the lane.
LEMMA DrainStartsWithinLimit ==
    ASSUME NEW L \in SUBSET Lane, NEW q, NEW a, NEW m, NEW g, NEW s,
           Consistent(q, a, m, g, s), DrainLanes(L, q, a, m, g, s),
           \A l \in Lane : a[l] \subseteq activeTaskIds[l],
           NEW l \in Lane
    PROVE  \/ activeTaskIds'[l] \subseteq activeTaskIds[l]
           \/ Cardinality(activeTaskIds'[l]) <= maxConcurrent'[l]
<1>1. CASE l \in L
  <2>1. /\ q[l] \in Seq(Task) /\ a[l] \in SUBSET Task /\ m[l] \in Nat \ {0}
        /\ Distinct(q[l]) /\ a[l] \cap Range1(q[l]) = {}
    BY LimitAssumption DEF Consistent, Typed
  <2>2. /\ activeTaskIds'[l] = a[l] \cup Pumped(q[l], a[l], m[l])
        /\ maxConcurrent'[l] = m[l]
    BY <1>1 DEF DrainLanes
  <2>3. \/ Pumped(q[l], a[l], m[l]) = {}
        \/ Cardinality(a[l] \cup Pumped(q[l], a[l], m[l])) <= m[l]
    BY <2>1, PumpFillsLane
  <2> QED BY <2>2, <2>3
<1>2. CASE l \notin L
  <2>1. activeTaskIds'[l] = a[l]
    BY <1>2 DEF DrainLanes
  <2> QED BY <2>1
<1> QED BY <1>1, <1>2

-----------------------------------------------------------------------------
(* What the actions that pump hand to DrainLanes is consistent. *)

\* enqueueCommandInLane: the entry is pushed at the back of its lane and nowhere
\* else.
LEMMA EnqueueConsistent ==
    ASSUME IInv, NEW t \in Task, status[t] = "new"
    PROVE  Consistent([queue EXCEPT ![laneOf[t]] = Append(@, t)], activeTaskIds,
                      maxConcurrent, generation, [status EXCEPT ![t] = "queued"])
<1> DEFINE q == [queue EXCEPT ![laneOf[t]] = Append(@, t)]
           s == [status EXCEPT ![t] = "queued"]
<1>1. Consistent(queue, activeTaskIds, maxConcurrent, generation, status)
  BY DEF IInv
<1>2. Typed(queue, activeTaskIds, maxConcurrent, generation, status)
  BY <1>1 DEF Consistent
<1>3. Typed(q, activeTaskIds, maxConcurrent, generation, s)
  BY <1>2 DEF Typed, Status
<1>4. ASSUME NEW l \in Lane
      PROVE  /\ Range1(q[l]) = {u \in Task : s[u] = "queued" /\ laneOf[u] = l}
             /\ Distinct(q[l])
  <2>1. /\ Range1(queue[l]) = {u \in Task : status[u] = "queued" /\ laneOf[u] = l}
        /\ Distinct(queue[l]) /\ queue[l] \in Seq(Task)
    BY <1>1 DEF Consistent, Typed
  <2>2. CASE l = laneOf[t]
    <3>1. q[l] = Append(queue[l], t)
      BY <1>2, <2>2 DEF Typed
    <3>2. /\ Len(q[l]) = Len(queue[l]) + 1 /\ Len(queue[l]) \in Nat
          /\ \A i \in 1..Len(queue[l]) : q[l][i] = queue[l][i]
          /\ q[l][Len(queue[l]) + 1] = t
      BY <2>1, <3>1, AppendProperties, LenProperties
    <3> HIDE DEF q, s
    <3>3. Range1(q[l]) = Range1(queue[l]) \cup {t}
      BY <3>2 DEF Range1
    <3>4. t \notin Range1(queue[l])
      BY <2>1
    <3>5. Distinct(q[l])
      <4>1. ASSUME NEW i \in 1..Len(q[l]), NEW j \in 1..Len(q[l]), q[l][i] = q[l][j],
                   i <= j
            PROVE  i = j
        <5>1. CASE j \in 1..Len(queue[l])
          <6>1. i \in 1..Len(queue[l])
            BY <3>2, <4>1, <5>1
          <6> QED
            BY <2>1, <3>2, <4>1, <5>1, <6>1 DEF Distinct
        <5>2. CASE j = Len(queue[l]) + 1 /\ i # j
          <6>1. i \in 1..Len(queue[l]) /\ queue[l][i] = t
            BY <3>2, <4>1, <5>2
          <6> QED
            BY <3>4, <6>1 DEF Range1
        <5> QED
          BY <3>2, <4>1, <5>1, <5>2
      <4>2. Len(q[l]) \in Nat
        BY <3>2
      <4> QED
        BY <4>1, <4>2 DEF Distinct
    <3>6. {u \in Task : s[u] = "queued" /\ laneOf[u] = l} =
            {u \in Task : status[u] = "queued" /\ laneOf[u] = l} \cup {t}
      BY <1>2, <2>2 DEF Typed, s
    <3> QED BY <2>1, <3>3, <3>5, <3>6
  <2>3. CASE l # laneOf[t]
    <3>1. q[l] = queue[l]
      BY <1>2, <2>3 DEF Typed
    <3> QED BY <1>2, <2>1, <2>3, <3>1 DEF Typed
  <2> QED BY <2>2, <2>3
<1>5. ASSUME NEW l \in Lane
      PROVE  activeTaskIds[l] = {u \in Task : s[u] = "running" /\ laneOf[u] = l
                                             /\ taskGeneration[u] = generation[l]}
  BY <1>1, <1>2 DEF Consistent, Typed
<1>6. \A u \in Task : taskGeneration[u] <= generation[laneOf[u]]
  BY <1>1 DEF Consistent
<1> QED
  BY <1>3, <1>4, <1>5, <1>6 DEF Consistent

\* completeTask: the id that is deleted is that of the task that has ended.
LEMMA CompleteConsistent ==
    ASSUME IInv, NEW t \in Task, status[t] = "running", Current(t), NEW outcome \in Outcome
    PROVE  Consistent(queue, [activeTaskIds EXCEPT ![laneOf[t]] = @ \ {t}],
                      maxConcurrent, generation, [status EXCEPT ![t] = outcome])
<1> DEFINE a == [activeTaskIds EXCEPT ![laneOf[t]] = @ \ {t}]
           s == [status EXCEPT ![t] = outcome]
<1>1. Consistent(queue, activeTaskIds, maxConcurrent, generation, status)
  BY DEF IInv
<1>2. Typed(queue, activeTaskIds, maxConcurrent, generation, status)
  BY <1>1 DEF Consistent
<1>3. outcome \in Status /\ outcome # "running" /\ outcome # "queued"
  BY DEF Outcome, Status, Settled, Resolved, Rejected
<1>4. Typed(queue, a, maxConcurrent, generation, s)
  BY <1>2, <1>3 DEF Typed
<1>5. ASSUME NEW l \in Lane
      PROVE  a[l] = {u \in Task : s[u] = "running" /\ laneOf[u] = l
                                 /\ taskGeneration[u] = generation[l]}
  <2>1. activeTaskIds[l] = {u \in Task : status[u] = "running" /\ laneOf[u] = l
                                        /\ taskGeneration[u] = generation[l]}
    BY <1>1 DEF Consistent
  <2>2. a[l] = IF l = laneOf[t] THEN activeTaskIds[l] \ {t} ELSE activeTaskIds[l]
    BY <1>2 DEF Typed
  <2> QED BY <1>2, <1>3, <2>1, <2>2 DEF Typed
<1>6. ASSUME NEW l \in Lane
      PROVE  /\ Range1(queue[l]) = {u \in Task : s[u] = "queued" /\ laneOf[u] = l}
             /\ Distinct(queue[l])
  BY <1>1, <1>2, <1>3 DEF Consistent, Typed
<1>7. \A u \in Task : taskGeneration[u] <= generation[laneOf[u]]
  BY <1>1 DEF Consistent
<1> QED
  BY <1>4, <1>5, <1>6, <1>7 DEF Consistent

\* setCommandLaneConcurrency: the limit stays at least 1.
LEMMA ConcurrencyConsistent ==
    ASSUME IInv, NEW l \in Lane, NEW n \in 0..MaxLimit
    PROVE  Consistent(queue, activeTaskIds,
                      [maxConcurrent EXCEPT ![l] = IF n < 1 THEN 1 ELSE n],
                      generation, status)
BY LimitAssumption DEF IInv, Consistent, Typed

\* resetAllLanes: with the generation bumped no running task is of the current
\* one, which is why the active sets may be emptied.
LEMMA ResetConsistent ==
    ASSUME IInv
    PROVE  Consistent(queue, [l \in Lane |-> {}], maxConcurrent,
                      [l \in Lane |-> generation[l] + 1], status)
BY DEF IInv, Consistent, Typed

-----------------------------------------------------------------------------
(* The invariant *)

\* The state of the module before its first call.
LEMMA InitIInv == Init => IInv
<1> SUFFICES ASSUME Init
             PROVE  IInv
  OBVIOUS
<1>1. Typed(queue, activeTaskIds, maxConcurrent, generation, status)
  BY LimitAssumption, EmptySeq DEF Init, Typed, Status
<1>2. ASSUME NEW l \in Lane
      PROVE  Range1(queue[l]) = {} /\ Distinct(queue[l])
  <2>1. queue[l] = <<>> /\ Len(queue[l]) = 0
    BY EmptySeq DEF Init
  <2> QED BY <2>1 DEF Range1, Distinct
<1>3. \A t \in Task : status[t] = "new" /\ taskGeneration[t] = 0 /\ laneOf[t] \in Lane
  BY DEF Init
<1>4. \A l \in Lane : activeTaskIds[l] = {} /\ generation[l] = 0
  BY DEF Init
<1>5. Consistent(queue, activeTaskIds, maxConcurrent, generation, status)
  BY <1>1, <1>2, <1>3, <1>4 DEF Consistent
<1> QED
  BY <1>5 DEF Init, IInv

\* Every exported function, and every continuation of a task, keeps the entries,
\* the active sets and the generations consistent.
LEMMA NextIInv == IInv /\ [Next]_vars => IInv'
<1> SUFFICES ASSUME IInv, [Next]_vars
             PROVE  IInv'
  OBVIOUS
<1> DEFINE C == Consistent(queue, activeTaskIds, maxConcurrent, generation, status)
<1>0. C /\ Typed(queue, activeTaskIds, maxConcurrent, generation, status)
  BY DEF IInv, Consistent
<1>1. ASSUME NEW t \in Task, EnqueueRefused(t)
      PROVE  IInv'
  <2>1. C'
    BY <1>0, <1>1 DEF EnqueueRefused, laneVars, Consistent, Typed, Status, Settled
  <2> QED BY <1>1, <2>1 DEF EnqueueRefused, waitVars, IInv
<1>2. ASSUME NEW t \in Task, Enqueue(t)
      PROVE  IInv'
  <2>1. {laneOf[t]} \in SUBSET Lane
    BY <1>0 DEF Typed
  <2>2. C'
    BY <1>2, <2>1, EnqueueConsistent, DrainKeepsConsistent DEF Enqueue
  <2> QED BY <1>2, <2>2 DEF Enqueue, waitVars, IInv
<1>3. ASSUME NEW t \in Task, NEW outcome \in Outcome, CompleteTask(t, outcome)
      PROVE  IInv'
  <2>1. {laneOf[t]} \in SUBSET Lane
    BY <1>0 DEF Typed
  <2>2. C'
    BY <1>3, <2>1, CompleteConsistent, DrainKeepsConsistent DEF CompleteTask
  <2> QED BY <1>3, <2>2 DEF CompleteTask, waitVars, IInv
<1>4. ASSUME NEW t \in Task, NEW outcome \in Outcome, CompleteStaleTask(t, outcome)
      PROVE  IInv'
  <2>1. outcome \in Status /\ outcome # "running" /\ outcome # "queued"
    BY DEF Outcome, Status, Settled, Resolved, Rejected
  <2>2. /\ status' = [status EXCEPT ![t] = outcome]
        /\ status[t] = "running" /\ taskGeneration[t] # generation[laneOf[t]]
        /\ UNCHANGED <<queue, activeTaskIds, maxConcurrent, generation, laneOf, taskGeneration>>
    BY <1>4 DEF CompleteStaleTask, Current, laneVars
  <2>3. C'
    BY <1>0, <2>1, <2>2 DEF Consistent, Typed
  <2> QED BY <1>4, <2>3 DEF CompleteStaleTask, waitVars, IInv
<1>5. ASSUME NEW l \in Lane, NEW n \in 0..MaxLimit, SetCommandLaneConcurrency(l, n)
      PROVE  IInv'
  <2>1. C'
    BY <1>5, ConcurrencyConsistent, DrainKeepsConsistent DEF SetCommandLaneConcurrency
  <2> QED BY <1>5, <2>1 DEF SetCommandLaneConcurrency, waitVars, IInv
<1>6. ASSUME NEW l \in Lane, ClearCommandLane(l)
      PROVE  IInv'
  <2>1. /\ queue' = [queue EXCEPT ![l] = <<>>]
        /\ status' = [t \in Task |-> IF t \in Range1(queue[l]) THEN "cleared" ELSE status[t]]
        /\ UNCHANGED <<activeTaskIds, maxConcurrent, generation, laneOf, taskGeneration>>
    BY <1>6 DEF ClearCommandLane
  <2>2. Range1(queue[l]) = {t \in Task : status[t] = "queued" /\ laneOf[t] = l}
    BY <1>0 DEF Consistent
  <2>3. Typed(queue, activeTaskIds, maxConcurrent, generation, status)'
    BY <1>0, <2>1, EmptySeq DEF Typed, Status, Settled
  <2>4. ASSUME NEW k \in Lane
        PROVE  /\ Range1(queue'[k]) = {t \in Task : status'[t] = "queued" /\ laneOf'[t] = k}
               /\ Distinct(queue'[k])
    <3>1. CASE k = l
      <4>1. queue'[k] = <<>> /\ Len(queue'[k]) = 0
        BY <1>0, <2>1, <3>1, EmptySeq DEF Typed
      <4>2. Range1(queue'[k]) = {} /\ Distinct(queue'[k])
        BY <4>1 DEF Range1, Distinct
      <4> QED BY <2>1, <2>2, <3>1, <4>2
    <3>2. CASE k # l
      <4>1. queue'[k] = queue[k]
        BY <1>0, <2>1, <3>2 DEF Typed
      <4> QED BY <1>0, <2>1, <2>2, <3>2, <4>1 DEF Consistent
    <3> QED BY <3>1, <3>2
  <2>5. \A k \in Lane : activeTaskIds'[k] =
          {t \in Task : status'[t] = "running" /\ laneOf'[t] = k /\ taskGeneration'[t] = generation'[k]}
    BY <1>0, <2>1, <2>2 DEF Consistent
  <2>6. C'
    BY <1>0, <2>1, <2>3, <2>4, <2>5 DEF Consistent
  <2> QED BY <1>6, <2>6 DEF ClearCommandLane, waitVars, IInv
<1>7. CASE MarkGatewayDraining
  BY <1>7 DEF MarkGatewayDraining, laneVars, taskVars, waitVars, IInv, Consistent, Typed
<1>8. CASE ResetAllLanes
  <2>1. C'
    BY <1>8, ResetConsistent, DrainKeepsConsistent DEF ResetAllLanes
  <2> QED BY <1>8, <2>1 DEF ResetAllLanes, waitVars, IInv
<1>9. CASE WaitForActiveTasks
  <2>1. AllActive \in SUBSET Task
    BY <1>0 DEF AllActive, Typed
  <2> QED BY <1>9, <2>1 DEF WaitForActiveTasks, laneVars, taskVars, IInv, Consistent, Typed
<1>10. CASE WaitPoll
  BY <1>10 DEF WaitPoll, laneVars, taskVars, IInv, Consistent, Typed
<1>11. CASE UNCHANGED vars
  BY <1>11 DEF vars, laneVars, taskVars, waitVars, IInv, Consistent, Typed
<1> QED
  BY <1>1, <1>2, <1>3, <1>4, <1>5, <1>6, <1>7, <1>8, <1>9, <1>10, <1>11
     DEF Next, LaneNext, RestartNext

\* The bookkeeping of command-queue.ts is consistent in every reachable state:
\* what the queues and active sets hold is what the entries are doing.
THEOREM Invariant == Spec => []IInv
<1>1. Init => IInv
  BY InitIInv
<1>2. IInv /\ [Next]_vars => IInv'
  BY NextIInv
<1> QED BY <1>1, <1>2, PTL DEF Spec

-----------------------------------------------------------------------------
(* The theorems *)

\* The variables keep their types: no limit below 1, no id that is not a task.
THEOREM TypeCorrect == Spec => []TypeOK
<1>1. IInv => TypeOK
  BY DEF IInv, Consistent, Typed, TypeOK
<1> QED BY <1>1, Invariant, PTL

\* No id leaks from a lane's active set and none is lost, whichever generation's
\* task completes first (completeTask against resetAllLanes).
THEOREM ActiveSetsExact == Spec => []ActiveIsRunning
<1>1. IInv => ActiveIsRunning
  <2> SUFFICES ASSUME IInv, NEW l \in Lane
               PROVE  activeTaskIds[l] =
                        {t \in Task : status[t] = "running" /\ laneOf[t] = l /\ Current(t)}
    BY DEF ActiveIsRunning
  <2>1. activeTaskIds[l] = {t \in Task : status[t] = "running" /\ laneOf[t] = l
                                        /\ taskGeneration[t] = generation[l]}
    BY DEF IInv, Consistent
  <2> QED BY <2>1 DEF Current
<1> QED BY <1>1, Invariant, PTL

\* An entry waits once, in its own lane, exactly while its promise is unsettled
\* and its task not begun: no clear, reset or completion leaves one behind.
THEOREM QueuesExact == Spec => []QueueIsWaiting
<1>1. IInv => QueueIsWaiting
  BY DEF IInv, Consistent, QueueIsWaiting, Distinct
<1> QED BY <1>1, Invariant, PTL

\* The books of every lane are right: the two together (command-queue.ts keeps
\* activeTaskIds and queue by hand, in six functions).
THEOREM BooksAreRight == Spec => []LanesConsistent
<1>1. TypeOK /\ ActiveIsRunning /\ QueueIsWaiting => LanesConsistent
  BY DEF LanesConsistent
<1> QED BY <1>1, TypeCorrect, ActiveSetsExact, QueuesExact, PTL

\* Nothing waits before the first call.
LEMMA InitWorkConserving == Init => WorkConserving
BY EmptySeq DEF Init, WorkConserving

\* Each step that frees a place in a lane, or adds an entry to it, pumps it.
LEMMA NextWorkConserving == IInv /\ WorkConserving /\ [Next]_vars => WorkConserving'
<1> SUFFICES ASSUME IInv, WorkConserving, [Next]_vars
             PROVE  WorkConserving'
  OBVIOUS
<1>0. /\ Consistent(queue, activeTaskIds, maxConcurrent, generation, status)
      /\ Typed(queue, activeTaskIds, maxConcurrent, generation, status)
  BY DEF IInv, Consistent
<1>1. ASSUME NEW t \in Task, EnqueueRefused(t)
      PROVE  WorkConserving'
  BY <1>1 DEF EnqueueRefused, laneVars, WorkConserving
<1>2. ASSUME NEW t \in Task, Enqueue(t)
      PROVE  WorkConserving'
  <2> DEFINE q == [queue EXCEPT ![laneOf[t]] = Append(@, t)]
             s == [status EXCEPT ![t] = "queued"]
  <2>1. {laneOf[t]} \in SUBSET Lane
    BY <1>0 DEF Typed
  <2>2. \A l \in Lane \ {laneOf[t]} :
            q[l] # <<>> => Cardinality(activeTaskIds[l]) >= maxConcurrent[l]
    BY <1>0 DEF Typed, WorkConserving
  <2>3. /\ Consistent(q, activeTaskIds, maxConcurrent, generation, s)
        /\ DrainLanes({laneOf[t]}, q, activeTaskIds, maxConcurrent, generation, s)
    BY <1>2, EnqueueConsistent DEF Enqueue
  <2> HIDE DEF q, s
  <2> QED BY <2>1, <2>2, <2>3, DrainFillsLanes
<1>3. ASSUME NEW t \in Task, NEW outcome \in Outcome, CompleteTask(t, outcome)
      PROVE  WorkConserving'
  <2> DEFINE a == [activeTaskIds EXCEPT ![laneOf[t]] = @ \ {t}]
             s == [status EXCEPT ![t] = outcome]
  <2>1. {laneOf[t]} \in SUBSET Lane
    BY <1>0 DEF Typed
  <2>2. \A l \in Lane \ {laneOf[t]} :
            queue[l] # <<>> => Cardinality(a[l]) >= maxConcurrent[l]
    BY <1>0 DEF Typed, WorkConserving
  <2>3. /\ Consistent(queue, a, maxConcurrent, generation, s)
        /\ DrainLanes({laneOf[t]}, queue, a, maxConcurrent, generation, s)
    BY <1>3, CompleteConsistent DEF CompleteTask
  <2> HIDE DEF a, s
  <2> QED BY <2>1, <2>2, <2>3, DrainFillsLanes
<1>4. ASSUME NEW t \in Task, NEW outcome \in Outcome, CompleteStaleTask(t, outcome)
      PROVE  WorkConserving'
  BY <1>4 DEF CompleteStaleTask, laneVars, WorkConserving
<1>5. ASSUME NEW l \in Lane, NEW n \in 0..MaxLimit, SetCommandLaneConcurrency(l, n)
      PROVE  WorkConserving'
  <2> DEFINE m == [maxConcurrent EXCEPT ![l] = IF n < 1 THEN 1 ELSE n]
  <2>1. {l} \in SUBSET Lane
    OBVIOUS
  <2>2. \A k \in Lane \ {l} : queue[k] # <<>> => Cardinality(activeTaskIds[k]) >= m[k]
    BY <1>0 DEF Typed, WorkConserving
  <2>3. /\ Consistent(queue, activeTaskIds, m, generation, status)
        /\ DrainLanes({l}, queue, activeTaskIds, m, generation, status)
    BY <1>5, ConcurrencyConsistent DEF SetCommandLaneConcurrency
  <2> HIDE DEF m
  <2> QED BY <2>1, <2>2, <2>3, DrainFillsLanes
<1>6. ASSUME NEW l \in Lane, ClearCommandLane(l)
      PROVE  WorkConserving'
  <2>1. queue' = [queue EXCEPT ![l] = <<>>] /\ UNCHANGED <<activeTaskIds, maxConcurrent>>
    BY <1>6 DEF ClearCommandLane
  <2> QED BY <1>0, <2>1 DEF Typed, WorkConserving
<1>7. CASE MarkGatewayDraining
  BY <1>7 DEF MarkGatewayDraining, laneVars, WorkConserving
<1>8. CASE ResetAllLanes
  <2> DEFINE L == {l \in Lane : queue[l] # <<>>}
             a == [l \in Lane |-> {}]
             g == [l \in Lane |-> generation[l] + 1]
  <2>1. L \in SUBSET Lane
    OBVIOUS
  <2>2. \A l \in Lane \ L : queue[l] # <<>> => Cardinality(a[l]) >= maxConcurrent[l]
    OBVIOUS
  <2>3. /\ Consistent(queue, a, maxConcurrent, g, status)
        /\ DrainLanes(L, queue, a, maxConcurrent, g, status)
    BY <1>8, ResetConsistent DEF ResetAllLanes
  <2> HIDE DEF L, a, g
  <2> QED BY <2>1, <2>2, <2>3, DrainFillsLanes
<1>9. CASE WaitForActiveTasks
  BY <1>9 DEF WaitForActiveTasks, laneVars, WorkConserving
<1>10. CASE WaitPoll
  BY <1>10 DEF WaitPoll, laneVars, WorkConserving
<1>11. CASE UNCHANGED vars
  BY <1>11 DEF vars, laneVars, WorkConserving
<1> QED
  BY <1>1, <1>2, <1>3, <1>4, <1>5, <1>6, <1>7, <1>8, <1>9, <1>10, <1>11
     DEF Next, LaneNext, RestartNext

\* No lane idles while entries wait in it, though a lane may be filled, resized,
\* cleared and reset while tasks of its old generation still run.
THEOREM NeverIdles == Spec => []WorkConserving
<1>1. Init => WorkConserving
  BY InitWorkConserving
<1>2. IInv /\ WorkConserving /\ [Next]_vars => WorkConserving'
  BY NextWorkConserving
<1> QED BY <1>1, <1>2, Invariant, PTL DEF Spec

\* In each step only the pump adds to an active set, and it stops at the limit.
LEMMA NextStartsWithinLimit ==
    ASSUME IInv, Next, NEW l \in Lane
    PROVE  \/ activeTaskIds'[l] \subseteq activeTaskIds[l]
           \/ Cardinality(activeTaskIds'[l]) <= maxConcurrent'[l]
<1> DEFINE P == \/ activeTaskIds'[l] \subseteq activeTaskIds[l]
                \/ Cardinality(activeTaskIds'[l]) <= maxConcurrent'[l]
<1>0. Typed(queue, activeTaskIds, maxConcurrent, generation, status)
  BY DEF IInv, Consistent
<1>1. ASSUME NEW t \in Task, Enqueue(t)
      PROVE  P
  <2>1. {laneOf[t]} \in SUBSET Lane
    BY <1>0 DEF Typed
  <2> QED BY <1>1, <2>1, EnqueueConsistent, DrainStartsWithinLimit DEF Enqueue
<1>2. ASSUME NEW t \in Task, NEW outcome \in Outcome, CompleteTask(t, outcome)
      PROVE  P
  <2> DEFINE a == [activeTaskIds EXCEPT ![laneOf[t]] = @ \ {t}]
             s == [status EXCEPT ![t] = outcome]
  <2>1. {laneOf[t]} \in SUBSET Lane
    BY <1>0 DEF Typed
  <2>2. \A k \in Lane : a[k] \subseteq activeTaskIds[k]
    BY <1>0 DEF Typed
  <2>3. /\ Consistent(queue, a, maxConcurrent, generation, s)
        /\ DrainLanes({laneOf[t]}, queue, a, maxConcurrent, generation, s)
    BY <1>2, CompleteConsistent DEF CompleteTask
  <2> HIDE DEF a, s
  <2> QED BY <2>1, <2>2, <2>3, DrainStartsWithinLimit
<1>3. ASSUME NEW k \in Lane, NEW n \in 0..MaxLimit, SetCommandLaneConcurrency(k, n)
      PROVE  P
  BY <1>3, ConcurrencyConsistent, DrainStartsWithinLimit DEF SetCommandLaneConcurrency
<1>4. CASE ResetAllLanes
  <2> DEFINE L == {k \in Lane : queue[k] # <<>>}
             a == [k \in Lane |-> {}]
             g == [k \in Lane |-> generation[k] + 1]
  <2>1. L \in SUBSET Lane /\ \A k \in Lane : a[k] \subseteq activeTaskIds[k]
    OBVIOUS
  <2>2. /\ Consistent(queue, a, maxConcurrent, g, status)
        /\ DrainLanes(L, queue, a, maxConcurrent, g, status)
    BY <1>4, ResetConsistent DEF ResetAllLanes
  <2> HIDE DEF L, a, g
  <2> QED BY <2>1, <2>2, DrainStartsWithinLimit
<1>5. ASSUME UNCHANGED activeTaskIds
      PROVE  P
  BY <1>5
<1> QED
  BY <1>1, <1>2, <1>3, <1>4, <1>5
     DEF Next, LaneNext, RestartNext, EnqueueRefused, CompleteStaleTask, ClearCommandLane,
         MarkGatewayDraining, WaitForActiveTasks, WaitPoll, laneVars

\* A step that starts a task leaves its lane within the limit.
THEOREM LimitRespected == Spec => StartsWithinLimit
<1>1. IInv /\ [Next]_vars =>
        [\A l \in Lane : activeTaskIds'[l] \subseteq activeTaskIds[l]
            \/ Cardinality(activeTaskIds'[l]) <= maxConcurrent'[l]]_vars
  BY NextStartsWithinLimit
<1> QED BY <1>1, Invariant, PTL DEF Spec, StartsWithinLimit

-----------------------------------------------------------------------------
(* The drain of a restart *)

Begun(t) == status[t] \notin {"new", "queued"}
ExecutesNow(t) == status[t] = "running" /\ Current(t)

\* A drain leaves alone the tasks that are not queued.
LEMMA DrainLeavesBegun ==
    ASSUME NEW L \in SUBSET Lane, NEW q, NEW a, NEW m, NEW g, NEW s,
           Consistent(q, a, m, g, s), DrainLanes(L, q, a, m, g, s),
           NEW t \in Task, s[t] # "queued"
    PROVE  status'[t] = s[t] /\ taskGeneration'[t] = taskGeneration[t]
           /\ laneOf'[t] = laneOf[t] /\ generation' = g
<1>1. laneOf[t] \in Lane
  BY DEF Consistent, Typed
<1>2. t \notin Pumped(q[laneOf[t]], a[laneOf[t]], m[laneOf[t]])
  BY <1>1, PumpedIsQueued
<1> QED BY <1>2 DEF DrainLanes

\* A task that has begun does not begin again, and one that has ended or been
\* disowned by a reset does not come back.
LEMMA BegunStays ==
    ASSUME IInv, [Next]_vars, NEW t \in Task, Begun(t)
    PROVE  Begun(t)' /\ (ExecutesNow(t)' => ExecutesNow(t))
<1>0. Consistent(queue, activeTaskIds, maxConcurrent, generation, status)
      /\ Typed(queue, activeTaskIds, maxConcurrent, generation, status)
  BY DEF IInv, Consistent
<1> DEFINE P == Begun(t)' /\ (ExecutesNow(t)' => ExecutesNow(t))
<1>1. ASSUME NEW u \in Task, EnqueueRefused(u)
      PROVE  P
  BY <1>0, <1>1 DEF EnqueueRefused, laneVars, Begun, ExecutesNow, Current, Typed
<1>2. ASSUME NEW u \in Task, Enqueue(u)
      PROVE  P
  <2> DEFINE q == [queue EXCEPT ![laneOf[u]] = Append(@, u)]
             s == [status EXCEPT ![u] = "queued"]
             L == {laneOf[u]}
  <2>1. L \in SUBSET Lane
    BY <1>0 DEF Typed
  <2>2. s[t] = status[t] /\ s[t] # "queued"
    BY <1>0, <1>2 DEF Enqueue, Begun, Typed
  <2>3. /\ Consistent(q, activeTaskIds, maxConcurrent, generation, s)
        /\ DrainLanes(L, q, activeTaskIds, maxConcurrent, generation, s)
    BY <1>2, EnqueueConsistent DEF Enqueue
  <2> HIDE DEF q, s, L
  <2>4. /\ status'[t] = s[t] /\ taskGeneration'[t] = taskGeneration[t]
        /\ laneOf'[t] = laneOf[t] /\ generation' = generation
    BY <2>1, <2>2, <2>3, DrainLeavesBegun, Z3
  <2> QED BY <2>2, <2>4 DEF Begun, ExecutesNow, Current
<1>3. ASSUME NEW u \in Task, NEW outcome \in Outcome, CompleteTask(u, outcome)
      PROVE  P
  <2> DEFINE a == [activeTaskIds EXCEPT ![laneOf[u]] = @ \ {u}]
             s == [status EXCEPT ![u] = outcome]
  <2>1. {laneOf[u]} \in SUBSET Lane
    BY <1>0 DEF Typed
  <2>2. s[t] \notin {"new", "queued"} /\ (s[t] = "running" => status[t] = "running")
    BY <1>0 DEF Begun, Typed, Outcome, Resolved, Rejected
  <2>3. /\ Consistent(queue, a, maxConcurrent, generation, s)
        /\ DrainLanes({laneOf[u]}, queue, a, maxConcurrent, generation, s)
    BY <1>3, CompleteConsistent DEF CompleteTask
  <2> HIDE DEF a, s
  <2>4. /\ status'[t] = s[t] /\ taskGeneration'[t] = taskGeneration[t]
        /\ laneOf'[t] = laneOf[t] /\ generation' = generation
    BY <2>1, <2>2, <2>3, DrainLeavesBegun
  <2> QED BY <2>2, <2>4 DEF Begun, ExecutesNow, Current
<1>4. ASSUME NEW u \in Task, NEW outcome \in Outcome, CompleteStaleTask(u, outcome)
      PROVE  P
  BY <1>0, <1>4 DEF CompleteStaleTask, laneVars, Begun, ExecutesNow, Current, Typed,
                    Outcome, Resolved, Rejected
<1>5. ASSUME NEW l \in Lane, NEW n \in 0..MaxLimit, SetCommandLaneConcurrency(l, n)
      PROVE  P
  <2>1. status[t] # "queued"
    BY DEF Begun
  <2>2. /\ status'[t] = status[t] /\ taskGeneration'[t] = taskGeneration[t]
        /\ laneOf'[t] = laneOf[t] /\ generation' = generation
    BY <1>5, <2>1, ConcurrencyConsistent, DrainLeavesBegun DEF SetCommandLaneConcurrency
  <2> QED BY <2>2 DEF Begun, ExecutesNow, Current
<1>6. ASSUME NEW l \in Lane, ClearCommandLane(l)
      PROVE  P
  BY <1>0, <1>6 DEF ClearCommandLane, Begun, ExecutesNow, Current, Typed
<1>7. CASE ResetAllLanes
  <2> DEFINE L == {l \in Lane : queue[l] # <<>>}
             a == [l \in Lane |-> {}]
             g == [l \in Lane |-> generation[l] + 1]
  <2>1. L \in SUBSET Lane /\ status[t] # "queued"
    BY DEF Begun
  <2>2. /\ Consistent(queue, a, maxConcurrent, g, status)
        /\ DrainLanes(L, queue, a, maxConcurrent, g, status)
    BY <1>7, ResetConsistent DEF ResetAllLanes
  <2>3. /\ laneOf[t] \in Lane /\ generation[laneOf[t]] \in Nat
        /\ taskGeneration[t] \in Nat
        /\ taskGeneration[t] <= generation[laneOf[t]]
        /\ g[laneOf[t]] = generation[laneOf[t]] + 1
    BY <1>0 DEF Consistent, Typed
  <2> HIDE DEF L, a, g
  <2>4. /\ status'[t] = status[t] /\ taskGeneration'[t] = taskGeneration[t]
        /\ laneOf'[t] = laneOf[t] /\ generation' = g
    BY <2>1, <2>2, DrainLeavesBegun
  <2> QED BY <2>3, <2>4 DEF Begun, ExecutesNow, Current
<1>8. ASSUME UNCHANGED <<status, generation, laneOf, taskGeneration>>
      PROVE  P
  BY <1>8 DEF Begun, ExecutesNow, Current
<1> QED
  BY <1>1, <1>2, <1>3, <1>4, <1>5, <1>6, <1>7, <1>8
     DEF Next, LaneNext, RestartNext, MarkGatewayDraining, WaitForActiveTasks, WaitPoll,
         vars, laneVars, taskVars

\* The snapshot holds tasks that had begun; once drained, none executes.
DrainInv ==
    /\ \A t \in activeAtStart : Begun(t)
    /\ waiter = "drained" => \A t \in activeAtStart : ~ExecutesNow(t)

\* A task of the snapshot of waitForActiveTasks, once out of the active sets,
\* stays out.
LEMMA NextDrainInv == IInv /\ DrainInv /\ [Next]_vars => DrainInv'
<1> SUFFICES ASSUME IInv, DrainInv, [Next]_vars
             PROVE  DrainInv'
  OBVIOUS
<1>0. /\ \A l \in Lane : activeTaskIds[l] = {t \in Task : status[t] = "running"
                               /\ laneOf[t] = l /\ taskGeneration[t] = generation[l]}
      /\ laneOf \in [Task -> Lane] /\ activeAtStart \in SUBSET Task
  BY DEF IInv, Consistent, Typed
<1>1. \A t \in Task : t \in AllActive <=> ExecutesNow(t)
  BY <1>0 DEF AllActive, ExecutesNow, Current
<1>2. CASE WaitForActiveTasks
  <2>1. activeAtStart' = AllActive /\ (waiter' = "drained" => AllActive = {})
    BY <1>2 DEF WaitForActiveTasks
  <2>2. \A t \in AllActive : t \in Task /\ Begun(t)
    BY <1>0, <1>1 DEF AllActive, Begun, ExecutesNow
  <2>3. UNCHANGED status
    BY <1>2 DEF WaitForActiveTasks, taskVars
  <2> QED BY <2>1, <2>2, <2>3 DEF DrainInv, Begun
<1>3. CASE WaitPoll
  <2>1. /\ waiter' = "drained" => activeAtStart \cap AllActive = {}
        /\ UNCHANGED <<activeAtStart, status, laneOf, taskGeneration, generation>>
    BY <1>3 DEF WaitPoll, laneVars, taskVars
  <2> QED BY <1>0, <1>1, <2>1 DEF DrainInv, Begun, ExecutesNow, Current
<1>4. CASE UNCHANGED <<waiter, activeAtStart>>
  BY <1>0, <1>4, BegunStays DEF DrainInv
<1>5. WaitForActiveTasks \/ WaitPoll \/ UNCHANGED <<waiter, activeAtStart>>
  BY DEF Next, LaneNext, RestartNext, EnqueueRefused, Enqueue, CompleteTask, CompleteStaleTask,
         SetCommandLaneConcurrency, ClearCommandLane, MarkGatewayDraining, ResetAllLanes,
         vars, waitVars
<1> QED BY <1>2, <1>3, <1>4, <1>5

\* When waitForActiveTasks reports "drained", no task of its snapshot executes
\* then or later, but for those a reset has disowned.
THEOREM DrainIsSound == Spec => []DrainedSound
<1>1. Init => DrainInv
  BY DEF Init, DrainInv
<1>2. IInv /\ DrainInv /\ [Next]_vars => DrainInv'
  BY NextDrainInv
<1>3. DrainInv => DrainedSound
  BY DEF DrainInv, DrainedSound, ExecutesNow
<1> QED BY <1>1, <1>2, <1>3, Invariant, PTL DEF Spec

-----------------------------------------------------------------------------
(* The queue implements LaneService *)

PhaseOf(x) == CASE x = "new" -> "idle"
                [] x = "queued" -> "waiting"
                [] x = "running" -> "executing"
                [] OTHER -> "done"

Phases(s) == [t \in Task |-> PhaseOf(s[t])]

\* The refinement mapping reads each phase off one status.
LEMMA PhaseBarIsPhases == phaseBar = Phases(status)
BY DEF phaseBar, Phases, PhaseOf

\* A drain is a dispatch of the abstract service from the same queues.
LEMMA DrainDispatches ==
    ASSUME NEW L \in SUBSET Lane, NEW q, NEW a, NEW m, NEW g, NEW s,
           Consistent(q, a, m, g, s), DrainLanes(L, q, a, m, g, s)
    PROVE  Service!Dispatch(q, Phases(s))
<1> DEFINE k(l) == IF l \in L THEN StartCount(q[l], a[l], m[l]) ELSE 0
<1>1. Typed(q, a, m, g, s)
  BY DEF Consistent
<1>2. ASSUME NEW l \in Lane
      PROVE  /\ k(l) \in 0..Len(q[l])
             /\ queue'[l] = SubSeq(q[l], k(l) + 1, Len(q[l]))
  <2>1. q[l] \in Seq(Task) /\ a[l] \in SUBSET Task /\ m[l] \in Nat
    BY <1>1, LimitAssumption DEF Typed
  <2>2. CASE l \in L
    <3>1. StartCount(q[l], a[l], m[l]) \in 0..Len(q[l])
      BY <2>1, StartCountType
    <3> QED BY <2>2, <3>1 DEF DrainLanes, Unpumped
  <2>3. CASE l \notin L
    <3>1. queue'[l] = q[l]
      BY <2>3 DEF DrainLanes
    <3>2. SubSeq(q[l], 1, Len(q[l])) = q[l]
      BY <2>1, SubSeqFull
    <3>3. k(l) = 0 /\ k(l) + 1 = 1
      BY <2>3
    <3>4. Len(q[l]) \in Nat
      BY <2>1, LenProperties
    <3> HIDE DEF k
    <3> QED BY <3>1, <3>2, <3>3, <3>4
  <2> QED BY <2>2, <2>3
<1>3. ASSUME NEW l \in Lane, NEW t \in Task, laneOf[t] = l
      PROVE  status'[t] = IF \E i \in 1..k(l) : q[l][i] = t THEN "running" ELSE s[t]
  <2>1. status'[t] = IF l \in L /\ t \in Pumped(q[l], a[l], m[l]) THEN "running" ELSE s[t]
    BY <1>3 DEF DrainLanes
  <2>2. CASE l \in L
    BY <2>1, <2>2 DEF Pumped
  <2>3. CASE l \notin L
    BY <2>1, <2>3
  <2> QED BY <2>2, <2>3
<1> HIDE DEF k
<1>4. ASSUME NEW l \in Lane, NEW t \in Task, laneOf[t] = l
      PROVE  phaseBar'[t] = IF \E i \in 1..k(l) : q[l][i] = t THEN "executing"
                            ELSE Phases(s)[t]
  <2>1. phaseBar'[t] = PhaseOf(status'[t])
    BY PhaseBarIsPhases DEF phaseBar, PhaseOf
  <2>2. Phases(s)[t] = PhaseOf(s[t])
    BY DEF Phases
  <2>3. PhaseOf("running") = "executing"
    BY DEF PhaseOf
  <2> QED BY <1>3, <1>4, <2>1, <2>2, <2>3
<1>5. queue' = [l \in Lane |-> queue'[l]] /\ UNCHANGED laneOf
  BY DEF DrainLanes
<1>6. phaseBar' = [t \in Task |-> phaseBar'[t]]
  BY DEF phaseBar
<1>7. \A l \in Lane : \E n \in 0..Len(q[l]) :
          /\ queue'[l] = SubSeq(q[l], n + 1, Len(q[l]))
          /\ \A t \in Task : laneOf[t] = l =>
                phaseBar'[t] = IF \E i \in 1..n : q[l][i] = t THEN "executing"
                               ELSE Phases(s)[t]
  <2> TAKE l \in Lane
  <2>1. k(l) \in 0..Len(q[l])
    BY <1>2
  <2> WITNESS k(l) \in 0..Len(q[l])
  <2> QED BY <1>2, <1>4
<1> QED
  BY <1>5, <1>6, <1>7 DEF Service!Dispatch

\* The queue starts as the service does.
LEMMA InitRefines == Init => Service!Init
BY DEF Init, Service!Init, phaseBar

\* Every call of command-queue.ts is a step of the service or leaves it alone.
LEMMA NextRefines ==
    ASSUME IInv, Next
    PROVE  Service!Next \/ UNCHANGED <<queue, phaseBar, laneOf>>
<1>0. /\ Consistent(queue, activeTaskIds, maxConcurrent, generation, status)
      /\ Typed(queue, activeTaskIds, maxConcurrent, generation, status)
  BY DEF IInv, Consistent
<1>1. ASSUME NEW t \in Task, EnqueueRefused(t)
      PROVE  Service!Refuse(t)
  <2>1. status' = [status EXCEPT ![t] = "refused"] /\ status[t] = "new" /\ UNCHANGED <<queue, laneOf>>
    BY <1>1 DEF EnqueueRefused, laneVars
  <2> QED BY <1>0, <2>1 DEF Service!Refuse, phaseBar, Typed
<1>2. ASSUME NEW t \in Task, Enqueue(t)
      PROVE  Service!Accept(t)
  <2> DEFINE q == [queue EXCEPT ![laneOf[t]] = Append(@, t)]
             s == [status EXCEPT ![t] = "queued"]
  <2>1. {laneOf[t]} \in SUBSET Lane
    BY <1>0 DEF Typed
  <2>2. /\ Consistent(q, activeTaskIds, maxConcurrent, generation, s)
        /\ DrainLanes({laneOf[t]}, q, activeTaskIds, maxConcurrent, generation, s)
    BY <1>2, EnqueueConsistent DEF Enqueue
  <2>3. Service!Dispatch(q, Phases(s))
    <3> HIDE DEF q, s
    <3> QED BY <2>1, <2>2, DrainDispatches
  <2>4. Phases(s) = [phaseBar EXCEPT ![t] = "waiting"]
    BY <1>0 DEF Phases, PhaseOf, phaseBar, Typed
  <2>5. phaseBar[t] = "idle"
    BY <1>2 DEF Enqueue, phaseBar
  <2> QED BY <2>3, <2>4, <2>5 DEF Service!Accept
<1>3. ASSUME NEW t \in Task, NEW outcome \in Outcome, CompleteTask(t, outcome)
      PROVE  Service!Finish(t)
  <2> DEFINE a == [activeTaskIds EXCEPT ![laneOf[t]] = @ \ {t}]
             s == [status EXCEPT ![t] = outcome]
  <2>1. {laneOf[t]} \in SUBSET Lane
    BY <1>0 DEF Typed
  <2>2. /\ Consistent(queue, a, maxConcurrent, generation, s)
        /\ DrainLanes({laneOf[t]}, queue, a, maxConcurrent, generation, s)
    BY <1>3, CompleteConsistent DEF CompleteTask
  <2>3. Service!Dispatch(queue, Phases(s))
    <3> HIDE DEF a, s
    <3> QED BY <2>1, <2>2, DrainDispatches
  <2>4. Phases(s) = [phaseBar EXCEPT ![t] = "done"]
    BY <1>0 DEF Phases, PhaseOf, phaseBar, Typed, Outcome, Resolved, Rejected
  <2>5. phaseBar[t] = "executing"
    BY <1>3 DEF CompleteTask, phaseBar
  <2> QED BY <2>3, <2>4, <2>5 DEF Service!Finish
<1>4. ASSUME NEW t \in Task, NEW outcome \in Outcome, CompleteStaleTask(t, outcome)
      PROVE  Service!Finish(t)
  <2>1. /\ status' = [status EXCEPT ![t] = outcome]
        /\ status[t] = "running" /\ UNCHANGED <<queue, laneOf>>
    BY <1>4 DEF CompleteStaleTask, laneVars
  <2>2. phaseBar' = [phaseBar EXCEPT ![t] = "done"] /\ phaseBar[t] = "executing"
    BY <1>0, <2>1 DEF phaseBar, Typed, Outcome, Resolved, Rejected
  <2>3. ASSUME NEW l \in Lane
        PROVE  \E n \in 0..Len(queue[l]) :
                  /\ queue'[l] = SubSeq(queue[l], n + 1, Len(queue[l]))
                  /\ \A u \in Task : laneOf[u] = l =>
                        phaseBar'[u] = IF \E i \in 1..n : queue[l][i] = u THEN "executing"
                                       ELSE [phaseBar EXCEPT ![t] = "done"][u]
    <3>1. queue[l] \in Seq(Task)
      BY <1>0 DEF Typed
    <3>2. 0 \in 0..Len(queue[l]) /\ queue'[l] = SubSeq(queue[l], 0 + 1, Len(queue[l]))
      BY <2>1, <3>1, LenProperties, SubSeqFull
    <3> WITNESS 0 \in 0..Len(queue[l])
    <3> QED BY <2>2, <3>2
  <2>4. queue' = [l \in Lane |-> queue'[l]] /\ phaseBar' = [u \in Task |-> phaseBar'[u]]
    BY <1>0, <2>1 DEF phaseBar, Typed
  <2>5. Service!Dispatch(queue, [phaseBar EXCEPT ![t] = "done"])
    BY <2>1, <2>3, <2>4 DEF Service!Dispatch
  <2> QED BY <2>2, <2>5 DEF Service!Finish
<1>5. ASSUME NEW l \in Lane, NEW n \in 0..MaxLimit, SetCommandLaneConcurrency(l, n)
      PROVE  Service!Dispatch(queue, phaseBar)
  BY <1>5, ConcurrencyConsistent, DrainDispatches, PhaseBarIsPhases DEF SetCommandLaneConcurrency
<1>6. ASSUME NEW l \in Lane, ClearCommandLane(l)
      PROVE  Service!Cancel(l)
  <2>1. /\ queue' = [queue EXCEPT ![l] = <<>>] /\ UNCHANGED laneOf
        /\ status' = [t \in Task |-> IF t \in Range1(queue[l]) THEN "cleared" ELSE status[t]]
    BY <1>6 DEF ClearCommandLane
  <2>2. \A t \in Task : t \in Range1(queue[l]) <=> \E i \in 1..Len(queue[l]) : queue[l][i] = t
    BY DEF Range1
  <2>3. phaseBar' = [t \in Task |-> IF \E i \in 1..Len(queue[l]) : queue[l][i] = t
                                    THEN "done" ELSE phaseBar[t]]
    BY <2>1, <2>2 DEF phaseBar
  <2> QED BY <2>1, <2>3 DEF Service!Cancel
<1>7. CASE MarkGatewayDraining
  BY <1>7 DEF MarkGatewayDraining, laneVars, taskVars, phaseBar
<1>8. CASE ResetAllLanes
  <2> DEFINE L == {l \in Lane : queue[l] # <<>>}
             a == [l \in Lane |-> {}]
             g == [l \in Lane |-> generation[l] + 1]
  <2>1. L \in SUBSET Lane
    OBVIOUS
  <2>2. /\ Consistent(queue, a, maxConcurrent, g, status)
        /\ DrainLanes(L, queue, a, maxConcurrent, g, status)
    BY <1>8, ResetConsistent DEF ResetAllLanes
  <2> HIDE DEF L, a, g
  <2>3. Service!Dispatch(queue, phaseBar)
    BY <2>1, <2>2, DrainDispatches, PhaseBarIsPhases
  <2> QED BY <2>3 DEF Service!Next
<1>9. CASE WaitForActiveTasks
  BY <1>9 DEF WaitForActiveTasks, laneVars, taskVars, phaseBar
<1>10. CASE WaitPoll
  BY <1>10 DEF WaitPoll, laneVars, taskVars, phaseBar
<1> QED
  BY <1>1, <1>2, <1>3, <1>4, <1>5, <1>6, <1>7, <1>8, <1>9, <1>10
     DEF Next, LaneNext, RestartNext, Service!Next

\* Every entry begins at most once, from the front of its lane, and ends once,
\* across clears, resizes and resets.
THEOREM QueueImplementsService == Spec => ImplementsLaneService
<1>1. Init => Service!Init
  BY InitRefines
<1>2. IInv /\ [Next]_vars => [Service!Next]_<<queue, phaseBar, laneOf>>
  <2>1. ASSUME UNCHANGED vars
        PROVE  UNCHANGED <<queue, phaseBar, laneOf>>
    BY <2>1 DEF vars, laneVars, taskVars, phaseBar
  <2> QED BY <2>1, NextRefines
<1> QED
  BY <1>1, <1>2, Invariant, PTL
     DEF Spec, ImplementsLaneService, Service!Spec, Service!serviceVars
=============================================================================
