------------------------ MODULE GatewayRunLoopProofs ------------------------
(***************************************************************************)
(* Theorems about AgentLanes and GatewayRunLoop, for every set of runs,    *)
(* jobs, sessions and restarts.  Of the lanes: the nesting of the entries  *)
(* and the limit 1 of a session's lane give one turn per session.  Of the  *)
(* run loop: the lock, the draining mark, and what a restart leaves behind.*)
(***************************************************************************)
EXTENDS GatewayRunLoop, CommandQueueProofs

-----------------------------------------------------------------------------
(* Agent lanes *)

Live(t) == status[t] \in {"queued", "running"}

\* The global entry of a run lives only inside its session entry.
Nested1(r) ==
    /\ laneOf[Outer(r)] = sessionOf[r]
    /\ Live(Inner(r)) => status[Outer(r)] = "running"

\* A session's lane has limit 1, and keeps it.
Narrow(s) == maxConcurrent[s] = 1 /\ Cardinality(activeTaskIds[s]) <= 1

NestInv ==
    /\ IInv
    /\ \A r \in Run : Nested1(r)
    /\ \A s \in SessionLane : Narrow(s)

\* No restart resets the lanes here.
NoReset == \A l \in Lane : generation[l] = 0

-----------------------------------------------------------------------------
(* What calls and ends do to the entries *)

\* Session entries, global entries and jobs are different entries.
LEMMA EntriesDiffer ==
    /\ \A r \in Run : /\ Outer(r) \in Task /\ Inner(r) \in Task /\ Inner(r) \in Bodies
                      /\ Outer(r) \notin Bodies
                      /\ sessionOf[r] \in SessionLane /\ sessionOf[r] \in Lane
    /\ \A j \in Job : JobTask(j) \in Task /\ JobTask(j) \in Bodies
    /\ \A r1, r2 \in Run : (Outer(r1) = Outer(r2) \/ Inner(r1) = Inner(r2)) => r1 = r2
BY TasksAreRuns, RunAssumption, LanesAssumption DEF Outer, Inner, JobTask, Outers, Inners, Bodies

\* The lane of a session entry is that of its session.
LEMMA OuterLane == \A r \in Run : LaneFor(Outer(r)) = sessionOf[r]
BY DEF LaneFor, Outer, JobTask, Outers

\* A drain moves entries from waiting to running, and nothing else.
LEMMA DrainMoves ==
    ASSUME NEW L \in SUBSET Lane, NEW q, NEW a, NEW m, NEW g, NEW s,
           Consistent(q, a, m, g, s), DrainLanes(L, q, a, m, g, s), NEW t \in Task
    PROVE  /\ status'[t] = s[t] \/ (s[t] = "queued" /\ status'[t] = "running")
           /\ laneOf' = laneOf /\ maxConcurrent' = m /\ generation' = g
<1> DEFINE l == laneOf[t]
<1>1. l \in Lane
  BY DEF Consistent, Typed
<1>2. \A u \in Pumped(q[l], a[l], m[l]) : s[u] = "queued"
  BY <1>1, PumpedIsQueued
<1>3. status'[t] = IF l \in L /\ t \in Pumped(q[l], a[l], m[l]) THEN "running" ELSE s[t]
  BY DEF DrainLanes
<1> QED
  BY <1>2, <1>3 DEF DrainLanes

\* u stays what it was, or begins.
Stays(u) == status'[u] = status[u] \/ (status[u] = "queued" /\ status'[u] = "running")
Kept == UNCHANGED <<laneOf, maxConcurrent, generation>>

\* A call changes the entry that is called, and what it lets begin.
LEMMA CallMoves ==
    ASSUME IInv, NEW t \in Task, Enqueue(t) \/ EnqueueRefused(t)
    PROVE  /\ status[t] = "new" /\ Kept
           /\ \A u \in Task : u # t => Stays(u)
<1>0. Consistent(queue, activeTaskIds, maxConcurrent, generation, status)
      /\ Typed(queue, activeTaskIds, maxConcurrent, generation, status)
  BY DEF IInv, Consistent
<1>1. CASE Enqueue(t)
  <2> DEFINE s == [status EXCEPT ![t] = "queued"]
             q == [queue EXCEPT ![laneOf[t]] = Append(@, t)]
  <2>1. status[t] = "new" /\ Consistent(q, activeTaskIds, maxConcurrent, generation, s)
    BY <1>1, EnqueueConsistent DEF Enqueue
  <2> DEFINE L == {laneOf[t]}
  <2>2. L \in SUBSET Lane
    BY <1>0 DEF Typed
  <2>3. DrainLanes(L, q, activeTaskIds, maxConcurrent, generation, s)
    BY <1>1 DEF Enqueue
  <2>4. \A u \in Task : u # t => s[u] = status[u]
    BY <1>0 DEF Typed
  <2> HIDE DEF q, s, L
  <2>5. ASSUME NEW u \in Task
        PROVE  /\ status'[u] = s[u] \/ (s[u] = "queued" /\ status'[u] = "running")
               /\ laneOf' = laneOf /\ maxConcurrent' = maxConcurrent /\ generation' = generation
    BY <2>1, <2>2, <2>3, DrainMoves
  <2> QED BY <2>1, <2>4, <2>5 DEF Stays, Kept
<1>2. CASE EnqueueRefused(t)
  BY <1>0, <1>2 DEF EnqueueRefused, laneVars, Stays, Kept, Typed
<1> QED
  BY <1>1, <1>2

\* An end changes the entry that ends, and what it lets begin.
LEMMA EndMoves ==
    ASSUME IInv, NEW t \in Task, NEW outcome \in Outcome,
           CompleteTask(t, outcome) \/ CompleteStaleTask(t, outcome)
    PROVE  /\ status[t] = "running" /\ Kept
           /\ status'[t] = outcome
           /\ \A u \in Task : u # t => Stays(u)
<1>0. Consistent(queue, activeTaskIds, maxConcurrent, generation, status)
      /\ Typed(queue, activeTaskIds, maxConcurrent, generation, status)
  BY DEF IInv, Consistent
<1>1. CASE CompleteTask(t, outcome)
  <2> DEFINE s == [status EXCEPT ![t] = outcome]
             a == [activeTaskIds EXCEPT ![laneOf[t]] = @ \ {t}]
             L == {laneOf[t]}
  <2>1. status[t] = "running" /\ Consistent(queue, a, maxConcurrent, generation, s)
    BY <1>1, CompleteConsistent DEF CompleteTask
  <2>2. L \in SUBSET Lane
    BY <1>0 DEF Typed
  <2>3. DrainLanes(L, queue, a, maxConcurrent, generation, s)
    BY <1>1 DEF CompleteTask
  <2>4. (\A u \in Task : u # t => s[u] = status[u]) /\ s[t] = outcome /\ outcome # "queued"
    BY <1>0 DEF Typed, Outcome, Resolved, Rejected
  <2> HIDE DEF a, s, L
  <2>5. ASSUME NEW u \in Task
        PROVE  /\ status'[u] = s[u] \/ (s[u] = "queued" /\ status'[u] = "running")
               /\ laneOf' = laneOf /\ maxConcurrent' = maxConcurrent /\ generation' = generation
    BY <2>1, <2>2, <2>3, DrainMoves
  <2> QED BY <2>1, <2>4, <2>5 DEF Stays, Kept
<1>2. CASE CompleteStaleTask(t, outcome)
  BY <1>0, <1>2 DEF CompleteStaleTask, laneVars, Stays, Kept, Typed
<1> QED
  BY <1>1, <1>2

-----------------------------------------------------------------------------
(* The steps *)

\* What agents do to the lanes are calls of the queue.
LEMMA AgentSteps == AgentNext => [Next]_vars /\ UNCHANGED <<gatewayDraining, waiter, activeAtStart>>
<1> SUFFICES ASSUME AgentNext
             PROVE  [Next]_vars /\ UNCHANGED <<gatewayDraining, waiter, activeAtStart>>
  OBVIOUS
<1>1. ASSUME NEW t \in Task, Call(t)
      PROVE  Next /\ UNCHANGED <<gatewayDraining, waiter, activeAtStart>>
  BY <1>1 DEF Call, Next, LaneNext, Enqueue, EnqueueRefused, waitVars
<1>2. ASSUME NEW t \in Task, NEW outcome \in Outcome, End(t, outcome)
      PROVE  Next /\ UNCHANGED <<gatewayDraining, waiter, activeAtStart>>
  BY <1>2 DEF End, Next, LaneNext, CompleteTask, CompleteStaleTask, waitVars
<1>3. ASSUME NEW r \in Run, StartGlobal(r)
      PROVE  Next /\ UNCHANGED <<gatewayDraining, waiter, activeAtStart>>
  BY <1>1, <1>3, EntriesDiffer DEF StartGlobal
<1>4. ASSUME NEW r \in Run, EndSession(r)
      PROVE  Next /\ UNCHANGED <<gatewayDraining, waiter, activeAtStart>>
  BY <1>2, <1>4, EntriesDiffer DEF EndSession, Outcome
<1>5. ASSUME NEW r \in Run, CallRun(r)
      PROVE  Next /\ UNCHANGED <<gatewayDraining, waiter, activeAtStart>>
  BY <1>1, <1>5, EntriesDiffer DEF CallRun
<1>6. ASSUME NEW j \in Job, CallJob(j)
      PROVE  Next /\ UNCHANGED <<gatewayDraining, waiter, activeAtStart>>
  BY <1>1, <1>6, EntriesDiffer DEF CallJob
<1>7. ASSUME NEW t \in Bodies, NEW outcome \in Outcome, EndBody(t, outcome)
      PROVE  Next /\ UNCHANGED <<gatewayDraining, waiter, activeAtStart>>
  BY <1>2, <1>7, TasksAreRuns DEF EndBody
<1>8. ASSUME NEW l \in SessionLane, ClearSession(l)
      PROVE  Next /\ UNCHANGED <<gatewayDraining, waiter, activeAtStart>>
  BY <1>8, LanesAssumption DEF ClearSession, ClearCommandLane, Next, LaneNext, waitVars
<1>9. ASSUME NEW l \in {Main, Cron}, NEW n \in 0..MaxLimit, Configure(l, n)
      PROVE  Next /\ UNCHANGED <<gatewayDraining, waiter, activeAtStart>>
  BY <1>9, LanesAssumption DEF Configure, SetCommandLaneConcurrency, Next, LaneNext, waitVars
<1>10. ASSUME NEW r \in Run, GiveUp(r) \/ RunRegisters(r) \/ RunClears(r)
       PROVE  UNCHANGED vars
  BY <1>10 DEF GiveUp, RunRegisters, RunClears
<1>11. UNCHANGED vars => [Next]_vars /\ UNCHANGED <<gatewayDraining, waiter, activeAtStart>>
  BY DEF vars, waitVars
<1> QED
  BY <1>3, <1>4, <1>5, <1>6, <1>7, <1>8, <1>9, <1>10, <1>11 DEF AgentNext, CallbackNext

\* No lane of a session is ever widened, and one entry at most executes in it.
LEMMA LanesStayNarrow ==
    ASSUME IInv, IInv', [Next]_vars, NEW s \in SessionLane, Narrow(s),
           maxConcurrent'[s] = maxConcurrent[s]
    PROVE  Narrow(s)'
<1>0. /\ s \in Lane /\ activeTaskIds[s] \in SUBSET Task /\ activeTaskIds'[s] \in SUBSET Task
  BY LanesAssumption DEF IInv, Consistent, Typed
<1>1. /\ IsFiniteSet(activeTaskIds[s]) /\ IsFiniteSet(activeTaskIds'[s])
      /\ Cardinality(activeTaskIds[s]) \in Nat /\ Cardinality(activeTaskIds'[s]) \in Nat
  BY <1>0, TaskAssumption, FS_Subset, FS_CardinalityType
<1>2. \/ activeTaskIds'[s] \subseteq activeTaskIds[s]
      \/ Cardinality(activeTaskIds'[s]) <= maxConcurrent'[s]
  <2>1. CASE Next
    BY <1>0, <2>1, NextStartsWithinLimit
  <2>2. CASE UNCHANGED vars
    BY <2>2 DEF vars, laneVars
  <2> QED BY <2>1, <2>2
<1>3. activeTaskIds'[s] \subseteq activeTaskIds[s] =>
          Cardinality(activeTaskIds'[s]) <= Cardinality(activeTaskIds[s])
  BY <1>1, FS_Subset
<1> QED
  BY <1>1, <1>2, <1>3 DEF Narrow

\* No step of the agents moves an entry to another lane, or widens a session's lane.
LEMMA AgentKeepsLanes ==
    ASSUME IInv, AgentNext
    PROVE  /\ UNCHANGED <<laneOf, generation>>
           /\ \A s \in SessionLane : maxConcurrent'[s] = maxConcurrent[s]
<1>0. maxConcurrent \in [Lane -> 1..MaxLimit]
  BY DEF IInv, Consistent, Typed
<1>1. ASSUME NEW t \in Task, Call(t)
      PROVE  Kept
  BY <1>1, CallMoves DEF Call
<1>2. ASSUME NEW t \in Task, NEW outcome \in Outcome, End(t, outcome)
      PROVE  Kept
  BY <1>2, EndMoves DEF End
<1>3. ASSUME NEW r \in Run, StartGlobal(r) \/ CallRun(r)
      PROVE  Kept
  BY <1>1, <1>3, EntriesDiffer DEF StartGlobal, CallRun
<1>4. ASSUME NEW r \in Run, EndSession(r)
      PROVE  Kept
  BY <1>2, <1>4, EntriesDiffer DEF EndSession, Outcome
<1>5. ASSUME NEW j \in Job, CallJob(j)
      PROVE  Kept
  BY <1>1, <1>5, EntriesDiffer DEF CallJob
<1>6. ASSUME NEW t \in Bodies, NEW outcome \in Outcome, EndBody(t, outcome)
      PROVE  Kept
  BY <1>2, <1>6, TasksAreRuns DEF EndBody
<1>7. ASSUME NEW l \in SessionLane, ClearSession(l)
      PROVE  Kept
  BY <1>7 DEF ClearSession, ClearCommandLane, Kept
<1>8. ASSUME NEW l \in {Main, Cron}, NEW n \in 0..MaxLimit, Configure(l, n)
      PROVE  /\ UNCHANGED <<laneOf, generation>>
             /\ \A s \in SessionLane : maxConcurrent'[s] = maxConcurrent[s]
  <2>1. /\ UNCHANGED <<laneOf, generation>>
        /\ maxConcurrent' = [maxConcurrent EXCEPT ![l] = IF n < 1 THEN 1 ELSE n]
    BY <1>8 DEF Configure, SetCommandLaneConcurrency, DrainLanes
  <2>2. \A s \in SessionLane : s \in Lane /\ s # l
    BY LanesAssumption, SessionLanesApart
  <2> QED BY <1>0, <2>1, <2>2
<1>9. ASSUME NEW r \in Run, GiveUp(r) \/ RunRegisters(r) \/ RunClears(r)
      PROVE  Kept
  BY <1>9 DEF GiveUp, RunRegisters, RunClears, vars, laneVars, taskVars, Kept
<1>10. Kept => /\ UNCHANGED <<laneOf, generation>>
               /\ \A s \in SessionLane : maxConcurrent'[s] = maxConcurrent[s]
  BY DEF Kept
<1> QED
  BY <1>3, <1>4, <1>5, <1>6, <1>7, <1>8, <1>9, <1>10 DEF AgentNext, CallbackNext

\* A global entry begins to live in its session entry and leaves it alone, and the session
\* entry does not end before it.
LEMMA AgentKeepsNesting ==
    ASSUME IInv, AgentNext, NEW r \in Run, Nested1(r)
    PROVE  Nested1(r)'
<1> DEFINE out == Outer(r)
           in == Inner(r)
           Good == Live(in)' => status'[out] = "running"
<1>0. /\ out \in Task /\ in \in Task /\ out # in /\ out \notin Bodies
      /\ laneOf' = laneOf
      /\ Live(in) => status[out] = "running"
  BY EntriesDiffer, AgentKeepsLanes DEF Nested1
<1>1. ASSUME Stays(out), Stays(in)
      PROVE  Good
  BY <1>0, <1>1 DEF Stays, Live
<1>2. ASSUME NEW t \in Task, Call(t), t = in => status[out] = "running"
      PROVE  Good
  BY <1>0, <1>1, <1>2, CallMoves DEF Call, Stays, Live
<1>3. ASSUME NEW t \in Task, NEW outcome \in Outcome, End(t, outcome), t = out => ~Live(in)
      PROVE  Good
  <2>1. /\ status[t] = "running" /\ status'[t] = outcome
        /\ \A u \in Task : u # t => Stays(u)
    BY <1>3, EndMoves DEF End
  <2>2. outcome \notin {"queued", "running"}
    BY DEF Outcome, Resolved, Rejected
  <2> QED BY <1>0, <1>1, <1>3, <2>1, <2>2 DEF Stays, Live
<1>4. ASSUME NEW p \in Run, StartGlobal(p)
      PROVE  Good
  BY <1>2, <1>4, EntriesDiffer DEF StartGlobal, MustStartGlobal
<1>5. ASSUME NEW p \in Run, EndSession(p)
      PROVE  Good
  <2>1. Outer(p) = out => ~Live(in)
    BY <1>5, EntriesDiffer
       DEF EndSession, MustEndSession, Ended, Live, Settled, Outcome, Resolved, Rejected
  <2> QED BY <1>3, <1>5, <2>1, EntriesDiffer DEF EndSession, Outcome
<1>6. ASSUME NEW p \in Run, CallRun(p)
      PROVE  Good
  <2>1. Outer(p) \in Task /\ Outer(p) # in
    BY EntriesDiffer
  <2> QED BY <1>2, <1>6, <2>1 DEF CallRun
<1>7. ASSUME NEW j \in Job, CallJob(j)
      PROVE  Good
  <2>1. JobTask(j) \in Task /\ JobTask(j) # in
    BY EntriesDiffer DEF JobTask, Inner
  <2> QED BY <1>2, <1>7, <2>1 DEF CallJob
<1>8. ASSUME NEW t \in Bodies, NEW outcome \in Outcome, EndBody(t, outcome)
      PROVE  Good
  <2>1. t \in Task /\ t # out
    BY <1>0, TasksAreRuns
  <2> QED BY <1>3, <1>8, <2>1 DEF EndBody
<1>9. ASSUME NEW l \in SessionLane, ClearSession(l)
      PROVE  Good
  <2>1. \A u \in Task : status'[u] = status[u] \/ (status[u] = "queued" /\ status'[u] = "cleared")
    <3>1. l \in Lane /\ Range1(queue[l]) = {u \in Task : status[u] = "queued" /\ laneOf[u] = l}
      BY LanesAssumption DEF IInv, Consistent
    <3> QED BY <1>9, <3>1 DEF ClearSession, ClearCommandLane
  <2> QED BY <1>0, <2>1 DEF Live
<1>10. ASSUME NEW l \in {Main, Cron}, NEW n \in 0..MaxLimit, Configure(l, n)
       PROVE  Good
  <2> DEFINE m == [maxConcurrent EXCEPT ![l] = IF n < 1 THEN 1 ELSE n]
  <2>1. l \in Lane /\ {l} \in SUBSET Lane
    BY LanesAssumption
  <2>2. Consistent(queue, activeTaskIds, m, generation, status)
    BY <2>1, ConcurrencyConsistent
  <2>3. DrainLanes({l}, queue, activeTaskIds, m, generation, status)
    BY <1>10 DEF Configure, SetCommandLaneConcurrency
  <2> HIDE DEF m
  <2>4. \A u \in Task : Stays(u)
    BY <2>1, <2>2, <2>3, DrainMoves DEF Stays
  <2> QED BY <1>0, <1>1, <2>4
<1>11. ASSUME NEW p \in Run, GiveUp(p) \/ RunRegisters(p) \/ RunClears(p)
       PROVE  Good
  BY <1>0, <1>11 DEF GiveUp, RunRegisters, RunClears, vars, taskVars, Live
<1>12. Good
  BY <1>4, <1>5, <1>6, <1>7, <1>8, <1>9, <1>10, <1>11 DEF AgentNext, CallbackNext
<1> QED
  BY <1>0, <1>12 DEF Nested1

-----------------------------------------------------------------------------
(* The theorem *)

\* No run has been called at first.
LEMMA InitNestInv == AgentInit => NestInv /\ NoReset
<1> SUFFICES ASSUME AgentInit
             PROVE  NestInv /\ NoReset
  OBVIOUS
<1>1. IInv
  BY InitIInv DEF AgentInit
<1>2. \A r \in Run : Nested1(r)
  BY OuterLane, EntriesDiffer DEF AgentInit, Init, Nested1, Live
<1>3. \A s \in SessionLane : Narrow(s)
  BY LanesAssumption, FS_EmptySet DEF AgentInit, Init, Narrow
<1>4. NoReset
  BY DEF AgentInit, Init, NoReset
<1> QED
  BY <1>1, <1>2, <1>3, <1>4 DEF NestInv

\* Every step of the agents keeps the nesting.
LEMMA AgentKeepsNestInv == NestInv /\ AgentNext => NestInv'
<1> SUFFICES ASSUME NestInv, AgentNext
             PROVE  NestInv'
  OBVIOUS
<1>1. IInv /\ IInv' /\ [Next]_vars
  BY AgentSteps, NextIInv DEF NestInv
<1>2. \A r \in Run : Nested1(r)'
  BY <1>1, AgentKeepsNesting DEF NestInv
<1>3. \A s \in SessionLane : Narrow(s)'
  BY <1>1, AgentKeepsLanes, LanesStayNarrow DEF NestInv
<1> QED
  BY <1>1, <1>2, <1>3 DEF NestInv

\* Nor does a step that leaves the lanes alone disturb it.
LEMMA StutterKeepsNestInv == NestInv /\ UNCHANGED vars => NestInv'
<1> SUFFICES ASSUME NestInv, UNCHANGED vars
             PROVE  NestInv'
  OBVIOUS
<1>1. IInv'
  BY NextIInv DEF NestInv
<1> QED
  BY <1>1 DEF NestInv, Nested1, Narrow, Live, vars, laneVars, taskVars

\* Two turns of one session would have two session entries in the active set of its lane.
LEMMA TurnsAreActive ==
    ASSUME NestInv, NEW s \in SessionLane, NEW r1 \in Run, NEW r2 \in Run,
           sessionOf[r1] = s, sessionOf[r2] = s,
           Live(Inner(r1)), Live(Inner(r2)), Current(Outer(r1)), Current(Outer(r2))
    PROVE  r1 = r2
<1>1. \A r \in {r1, r2} : /\ Outer(r) \in Task /\ status[Outer(r)] = "running"
                         /\ laneOf[Outer(r)] = s /\ taskGeneration[Outer(r)] = generation[s]
  BY EntriesDiffer DEF NestInv, Nested1, Current
<1>2. /\ s \in Lane
      /\ activeTaskIds[s] = {t \in Task : status[t] = "running" /\ laneOf[t] = s
                                         /\ taskGeneration[t] = generation[s]}
  BY LanesAssumption DEF NestInv, IInv, Consistent
<1>3. {Outer(r1), Outer(r2)} \subseteq activeTaskIds[s]
  BY <1>1, <1>2
<1>4. /\ IsFiniteSet(activeTaskIds[s])
      /\ Cardinality(activeTaskIds[s]) \in Nat /\ Cardinality(activeTaskIds[s]) <= 1
  <2>1. activeTaskIds[s] \subseteq Task
    BY <1>2
  <2> QED BY <2>1, TaskAssumption, FS_Subset, FS_CardinalityType DEF NestInv, Narrow
<1>5. Cardinality({Outer(r1), Outer(r2)}) <= 1
  <2>1. Cardinality({Outer(r1), Outer(r2)}) <= Cardinality(activeTaskIds[s])
    BY <1>3, <1>4, FS_Subset
  <2>2. Cardinality({Outer(r1), Outer(r2)}) \in Nat
    BY <1>3, <1>4, FS_Subset, FS_CardinalityType
  <2> QED BY <1>4, <2>1, <2>2
<1>6. Outer(r1) = Outer(r2)
  <2>1. SUFFICES ASSUME Outer(r1) # Outer(r2)
                 PROVE  FALSE
    OBVIOUS
  <2>2. Cardinality({Outer(r1), Outer(r2)}) = 2
    <3>1. IsFiniteSet({Outer(r1)}) /\ Cardinality({Outer(r1)}) = 1
      BY FS_Singleton
    <3>2. Outer(r2) \notin {Outer(r1)} /\ {Outer(r1), Outer(r2)} = {Outer(r1)} \cup {Outer(r2)}
      BY <2>1
    <3>3. Cardinality({Outer(r1)} \cup {Outer(r2)}) = Cardinality({Outer(r1)}) + 1
      BY <3>1, <3>2, FS_AddElement, Zenon
    <3> QED BY <3>1, <3>2, <3>3
  <2> QED BY <1>5, <2>2
<1> QED
  BY <1>6, EntriesDiffer

\* Where nothing is reset every running session entry is of the current generation.
LEMMA NothingStale ==
    ASSUME NestInv, NoReset
    PROVE  OneRunPerSession
<1> SUFFICES ASSUME NEW r1 \in Run, NEW r2 \in Run, sessionOf[r1] = sessionOf[r2],
                    status[Inner(r1)] = "running", status[Inner(r2)] = "running"
             PROVE  r1 = r2
  BY DEF OneRunPerSession
<1>1. \A t \in Task : Current(t)
  BY DEF NestInv, NoReset, IInv, Consistent, Typed, Current
<1> QED
  BY <1>1, EntriesDiffer, TurnsAreActive DEF Live

\* One agent turn executes per session at a time (lanes.ts, run.ts), for any runs, jobs,
\* sessions and global lanes, as long as no restart resets the lanes.
THEOREM OneTurnPerSession == AgentSpec => []OneRunPerSession
<1>1. AgentInit => NestInv /\ NoReset
  BY InitNestInv
<1>2. NestInv /\ NoReset /\ [AgentNext]_allVars => (NestInv /\ NoReset)'
  <2> SUFFICES ASSUME NestInv, NoReset, [AgentNext]_allVars
               PROVE  (NestInv /\ NoReset)'
    OBVIOUS
  <2>1. CASE AgentNext
    <3>1. generation' = generation
      BY <2>1, AgentKeepsLanes DEF NestInv
    <3> QED BY <2>1, <3>1, AgentKeepsNestInv DEF NoReset
  <2>2. CASE UNCHANGED allVars
    <3>1. UNCHANGED vars /\ UNCHANGED generation
      BY <2>2 DEF allVars, vars, laneVars
    <3> QED BY <3>1, StutterKeepsNestInv DEF NoReset
  <2> QED BY <2>1, <2>2
<1>3. NestInv /\ NoReset => OneRunPerSession
  BY NothingStale
<1> QED BY <1>1, <1>2, <1>3, PTL DEF AgentSpec

\* The lane of every entry is the one resolved for it, and stays so.
LanesGiven == \A t \in Task : laneOf[t] = LaneFor(t)

AgentInv == NestInv /\ WorkConserving /\ LanesGiven

LEMMA InnerLane == \A r \in Run : LaneFor(Inner(r)) = GlobalLane(r)
BY DEF LaneFor, Inner, Outer, JobTask, Outers

LEMMA InitAgentInv == AgentInit => AgentInv
<1> SUFFICES ASSUME AgentInit
             PROVE  AgentInv
  OBVIOUS
<1>1. NestInv /\ WorkConserving
  BY InitNestInv, InitWorkConserving DEF AgentInit
<1>2. LanesGiven
  BY DEF AgentInit, LanesGiven
<1> QED BY <1>1, <1>2 DEF AgentInv

LEMMA AgentKeepsAgentInv == AgentInv /\ [AgentNext]_allVars => AgentInv'
<1> SUFFICES ASSUME AgentInv, [AgentNext]_allVars
             PROVE  AgentInv'
  OBVIOUS
<1>1. CASE AgentNext
  <2>1. NestInv' /\ [Next]_vars
    BY <1>1, AgentKeepsNestInv, AgentSteps DEF AgentInv
  <2>2. WorkConserving'
    BY <2>1, NextWorkConserving DEF AgentInv, NestInv
  <2>3. laneOf' = laneOf
    BY <1>1, AgentKeepsLanes DEF AgentInv, NestInv
  <2> QED BY <2>1, <2>2, <2>3 DEF AgentInv, LanesGiven
<1>2. CASE UNCHANGED allVars
  <2>1. UNCHANGED vars /\ laneOf' = laneOf
    BY <1>2 DEF allVars, vars, laneVars, taskVars
  <2>2. NestInv' /\ WorkConserving'
    BY <2>1, StutterKeepsNestInv, NextWorkConserving DEF AgentInv, NestInv
  <2> QED BY <2>1, <2>2 DEF AgentInv, LanesGiven
<1> QED BY <1>1, <1>2

\* A lane waits for one of a higher rank: jobs for sessions, sessions for global lanes.
Rank(l) == IF l = Cron THEN 0 ELSE IF l \in SessionLane THEN 1 ELSE 2

LEMMA RankRises ==
    ASSUME NEW r \in Run
    PROVE  /\ Rank(sessionOf[r]) = 1
           /\ Rank(GlobalLane(r)) = 2
           /\ \A j \in Job : Rank(LaneFor(JobTask(j))) = 0
<1>1. sessionOf[r] \in SessionLane /\ Cron \notin SessionLane
  BY RunAssumption, SessionLanesApart
<1>2. GlobalLane(r) # Cron /\ GlobalLane(r) \notin SessionLane
  BY RunAssumption, SessionLanesApart, CronLaneApart DEF GlobalLane
<1>3. \A j \in Job : LaneFor(JobTask(j)) = Cron
  BY DEF LaneFor
<1> QED BY <1>1, <1>2, <1>3 DEF Rank

\* A running entry that cannot go on without one of D waits for a lane of higher rank.
LEMMA StuckWaits ==
    ASSUME AgentInv, NEW D \in SUBSET Pending, NEW t \in D, StuckIn(t, D), status[t] = "running"
    PROVE  \E u \in D : Rank(laneOf[u]) > Rank(laneOf[t])
<1>1. t \in Task /\ laneOf[t] = LaneFor(t)
  BY DEF Pending, AgentInv, LanesGiven
<1>2. CASE \E r \in Run : t = Outer(r) /\ Inner(r) \in D
  <2>1. PICK r \in Run : t = Outer(r) /\ Inner(r) \in D
    BY <1>2
  <2>2. laneOf[t] = sessionOf[r] /\ laneOf[Inner(r)] = GlobalLane(r)
    BY <1>1, <2>1, OuterLane, InnerLane, EntriesDiffer DEF AgentInv, LanesGiven
  <2> QED BY <2>1, <2>2, RankRises
<1>3. CASE \E r \in Run : ~Timed(r) /\ Awaits(t, r) /\ Outer(r) \in D
  <2>1. PICK r \in Run : ~Timed(r) /\ caller[r] = t /\ Outer(r) \in D
    BY <1>3 DEF Awaits
  <2>2. laneOf[Outer(r)] = sessionOf[r]
    BY <2>1, OuterLane, EntriesDiffer DEF AgentInv, LanesGiven
  <2>3. PICK j \in Job : t = JobTask(j)
    <3>1. t # Nobody
      BY <1>1, <2>1, NobodyIsNoTask
    <3> QED BY <2>1, <3>1, RunAssumption DEF Timed, Bodies
  <2> QED BY <1>1, <2>1, <2>2, <2>3, RankRises
<1> QED BY <1>2, <1>3 DEF StuckIn

\* What holds the lane of a waiting entry is running, and there is something.
LEMMA LaneIsHeld ==
    ASSUME AgentInv, NEW t \in Task, status[t] = "queued"
    PROVE  \E a \in activeTaskIds[laneOf[t]] :
              a \in Task /\ laneOf[a] = laneOf[t] /\ status[a] = "running"
<1> DEFINE l == laneOf[t]
<1>1. /\ l \in Lane /\ maxConcurrent[l] \in 1..MaxLimit
      /\ activeTaskIds[l] = {u \in Task : status[u] = "running" /\ laneOf[u] = l /\ Current(u)}
      /\ t \in Range1(queue[l])
  BY DEF AgentInv, NestInv, IInv, Consistent, Typed, Current
<1>2. queue[l] # <<>>
  BY <1>1, EmptySeq DEF Range1
<1>3. Cardinality(activeTaskIds[l]) >= maxConcurrent[l]
  BY <1>1, <1>2 DEF AgentInv, WorkConserving
<1>4. activeTaskIds[l] # {}
  BY <1>1, <1>3, FS_EmptySet, LimitAssumption
<1> QED BY <1>1, <1>4

\* Among entries that are stuck take one whose lane has the highest rank: it is not running; and
\* if it waits for its lane, what holds that lane has the same rank and is stuck as well.
LEMMA NobodyBlocks == AgentInv => NoLaneDeadlock
<1> SUFFICES ASSUME AgentInv, NEW D \in SUBSET Pending, D # {},
                    \A t \in D : StuckIn(t, D)
             PROVE  FALSE
  BY DEF NoLaneDeadlock
<1>1. \A t \in D : t \in Task /\ status[t] \in {"queued", "running"}
  BY DEF Pending
<1>2. \A t \in D : Rank(laneOf[t]) \in 0..2
  BY DEF Rank
<1>3. PICK t \in D : \A u \in D : Rank(laneOf[u]) <= Rank(laneOf[t])
  <2>1. CASE \E t \in D : Rank(laneOf[t]) = 2
    BY <1>2, <2>1
  <2>2. CASE ~\E t \in D : Rank(laneOf[t]) = 2
    BY <1>2, <2>2
  <2> QED BY <2>1, <2>2
<1>4. ASSUME NEW u \in D, laneOf[u] = laneOf[t], status[u] = "running"
      PROVE  FALSE
  BY <1>2, <1>3, <1>4, StuckWaits
<1>5. CASE status[t] = "queued"
  <2>1. PICK a \in activeTaskIds[laneOf[t]] :
           a \in Task /\ laneOf[a] = laneOf[t] /\ status[a] = "running"
    BY <1>1, <1>5, LaneIsHeld
  <2>2. activeTaskIds[laneOf[t]] \subseteq D
    BY <1>5 DEF StuckIn
  <2> QED BY <1>4, <2>1, <2>2
<1> QED BY <1>1, <1>4, <1>5

\* Cron jobs, sessions and turns (ops.ts, run.ts, lanes.ts) never block each other for good: what
\* was accepted and waits only for itself has a send of a turn in it, whose wait times out.
THEOREM LanesNeverBlock == AgentSpec => []NoLaneDeadlock
<1>1. AgentInit => AgentInv
  BY InitAgentInv
<1>2. AgentInv /\ [AgentNext]_allVars => AgentInv'
  BY AgentKeepsAgentInv
<1>3. AgentInv => NoLaneDeadlock
  BY NobodyBlocks
<1> QED BY <1>1, <1>2, <1>3, PTL DEF AgentSpec

-----------------------------------------------------------------------------
(* The run loop *)

Failed == "failedStart" \in mishaps
Early == "earlySignal" \in mishaps

LoopVarsOK ==
    /\ loop \in {"starting", "unlocking", "waiting", "exited"}
    /\ handler \in {"idle", "draining", "close", "closing", "release", "unlocking",
                    "released", "reacquire", "wake"}
    /\ runsWait \in {"idle", "waiting", "drained", "timeout"}
    /\ action \in {"none", "restart", "stop"}
    /\ {server, listening, lock, hadLock, shuttingDown, isFirstStart} \subseteq BOOLEAN
    /\ lockOwner \in {"self", "other", "none"}
    /\ restartResolver \in {"null", "armed", "used"}
    /\ mishaps \subseteq {"failedStart", "earlySignal"}

\* The loop and the handler take turns: what has been shut down is nobody's, and the loop
\* goes on only when the handler has finished.
TurnsTaken ==
    /\ loop = "exited" => ~listening /\ handler = "idle"
    /\ handler # "idle" => shuttingDown
    /\ loop = "waiting" /\ restartResolver = "used" => handler = "idle"
    /\ handler \in {"reacquire", "wake"} => action = "restart"

\* The lock variable tells the truth, and a start that fails is what loses the lock.
LockKept ==
    /\ lock <=> lockOwner = "self"
    /\ ~Failed /\ loop # "exited" =>
          /\ loop # "unlocking"
          /\ handler \in {"unlocking", "released", "reacquire"} => hadLock
          /\ lock \/ handler \in {"released", "reacquire"}

\* A restart is under way, or the loop has yet to begin the iteration that it asked for.
Restarting ==
    \/ handler # "idle" /\ action = "restart"
    \/ loop = "waiting" /\ restartResolver = "used"

\* The mark is set while a restart is under way; and, but for signals during a start, the
\* loop stands still meanwhile and nobody else gives up the lock.
MarkTrue ==
    /\ Restarting => gatewayDraining
    /\ ~Early =>
          /\ handler # "idle" => loop = "waiting" /\ restartResolver = "armed"
          /\ gatewayDraining => \/ loop = "exited"
                                \/ loop = "waiting"
                                   /\ (handler # "idle" \/ restartResolver = "used")
          /\ loop = "unlocking" \/ handler = "unlocking" => lock

ProcInv == LoopVarsOK /\ TurnsTaken /\ LockKept /\ MarkTrue

-----------------------------------------------------------------------------
(* The loop, the handler and the other gateway *)

\* At first the server is starting, with the lock.
LEMMA InitProcInv == LoopInit => ProcInv
BY DEF LoopInit, AgentInit, Init, ProcInv, LoopVarsOK, TurnsTaken, LockKept, MarkTrue,
       Restarting, Failed, Early

\* What the agents do leaves the loop alone.
LEMMA QuietKeepsProcInv ==
    ProcInv /\ UNCHANGED <<loopVars, gatewayDraining>> => ProcInv'
BY DEF ProcInv, LoopVarsOK, TurnsTaken, LockKept, MarkTrue, Restarting, Failed, Early,
       loopVars, procVars, flagVars

\* The end of the process leaves nothing behind.
LEMMA ExitKeepsProcInv == ProcInv /\ ExitProcess => ProcInv'
BY DEF ExitProcess, ProcInv, LoopVarsOK, TurnsTaken, LockKept, MarkTrue, Restarting, Failed,
       Early, flagVars, allVars, vars

\* Every step of the loop, of the handler and of the other gateway keeps their agreement.
LEMMA ProcessKeepsProcInv == ProcInv /\ [LoopNext]_gatewayVars => ProcInv'
<1> SUFFICES ASSUME ProcInv, [LoopNext]_gatewayVars
             PROVE  ProcInv'
  OBVIOUS
<1> USE DEF ProcInv, LoopVarsOK, TurnsTaken, LockKept, MarkTrue, Restarting, Failed, Early,
            procVars, flagVars, allVars, vars
<1>1. CASE Started
  BY <1>1 DEF Started
<1>2. CASE FirstStartFails
  BY <1>2, ExitKeepsProcInv DEF FirstStartFails
<1>3. CASE RestartFails
  BY <1>3 DEF RestartFails
<1>4. CASE LoopUnlocks
  BY <1>4 DEF LoopUnlocks, RemoveLock
<1>5. CASE NextIteration
  BY <1>5 DEF NextIteration, ResetAllLanes
<1>6. CASE SignalRestart
  BY <1>6 DEF SignalRestart, SignalPossible, BeginDrain
<1>7. CASE SignalStop
  BY <1>7 DEF SignalStop, SignalPossible
<1>8. CASE DrainPoll
  BY <1>8, QuietKeepsProcInv DEF DrainPoll, WaitPoll, loopVars
<1>9. CASE RunsPoll
  BY <1>9 DEF RunsPoll
<1>10. CASE Drained
  BY <1>10 DEF Drained
<1>11. CASE CloseServer
  BY <1>11 DEF CloseServer
<1>12. CASE Closed
  BY <1>12 DEF Closed
<1>13. CASE ForceExit
  BY <1>13, ExitKeepsProcInv DEF ForceExit
<1>14. CASE BeginRelease
  BY <1>14 DEF BeginRelease
<1>15. CASE HandlerUnlocks
  BY <1>15 DEF HandlerUnlocks, RemoveLock
<1>16. CASE StopExit
  BY <1>16, ExitKeepsProcInv DEF StopExit
<1>17. CASE RespawnedElsewhere
  BY <1>17, ExitKeepsProcInv DEF RespawnedElsewhere
<1>18. CASE RespawnFallsBack
  BY <1>18 DEF RespawnFallsBack
<1>19. CASE Reacquire
  BY <1>19 DEF Reacquire
<1>20. CASE ReacquireFails
  BY <1>20, ExitKeepsProcInv DEF ReacquireFails
<1>21. CASE WakeLoop
  BY <1>21 DEF WakeLoop
<1>22. CASE OtherLocks
  BY <1>22 DEF OtherLocks
<1>23. CASE OtherUnlocks
  BY <1>23 DEF OtherUnlocks
<1>24. CASE AgentNext /\ UNCHANGED loopVars
  BY <1>24, AgentSteps, QuietKeepsProcInv DEF loopVars
<1>25. CASE UNCHANGED gatewayVars
  BY <1>25, QuietKeepsProcInv DEF gatewayVars, loopVars
<1> QED
  BY <1>1, <1>2, <1>3, <1>4, <1>5, <1>6, <1>7, <1>8, <1>9, <1>10, <1>11, <1>12, <1>13, <1>14, <1>15, <1>16, <1>17, <1>18, <1>19, <1>20, <1>21, <1>22, <1>23, <1>24, <1>25
     DEF LoopNext, ProcessNext

-----------------------------------------------------------------------------
(* The lanes under the loop *)

AgentVarsOK == gaveUp \subseteq Run /\ embedded \in [SessionLane -> Run \cup {Nobody}]

\* The turns of a restart that the lanes still count were there when it began.
Watched ==
    Restarting =>
        \A r \in Run : Live(Inner(r)) /\ Current(Outer(r)) => Outer(r) \in activeAtStart

LanesInv == NestInv /\ AgentVarsOK /\ DrainInv /\ Watched

LoopInv == ProcInv /\ LanesInv

\* The active sets hold what executes.
LEMMA ActiveExecutes ==
    ASSUME IInv
    PROVE  /\ AllActive \in SUBSET Task
           /\ \A t \in Task : t \in AllActive <=> ExecutesNow(t)
<1>1. /\ \A l \in Lane : activeTaskIds[l] = {t \in Task : status[t] = "running"
                               /\ laneOf[t] = l /\ taskGeneration[t] = generation[l]}
      /\ laneOf \in [Task -> Lane]
  BY DEF IInv, Consistent, Typed
<1> QED
  BY <1>1 DEF AllActive, ExecutesNow, Current

\* A reset lets entries begin, and changes no limit and no entry's lane.
LEMMA ResetMoves ==
    ASSUME IInv, ResetAllLanes
    PROVE  UNCHANGED <<laneOf, maxConcurrent>> /\ \A t \in Task : Stays(t)
<1> DEFINE L == {l \in Lane : queue[l] # <<>>}
           a == [l \in Lane |-> {}]
           g == [l \in Lane |-> generation[l] + 1]
<1>1. Consistent(queue, a, maxConcurrent, g, status)
  BY ResetConsistent
<1>2. DrainLanes(L, queue, a, maxConcurrent, g, status)
  BY DEF ResetAllLanes
<1>3. L \in SUBSET Lane
  OBVIOUS
<1> HIDE DEF L, a, g
<1>4. UNCHANGED <<laneOf, maxConcurrent>>
  BY <1>2 DEF DrainLanes
<1> QED
  BY <1>1, <1>2, <1>3, <1>4, DrainMoves DEF Stays

\* Where a step of the queue can take an entry: a refusing gateway accepts none, and an entry
\* that has settled stays.
LEMMA NextMoves ==
    ASSUME IInv, [Next]_vars, NEW t \in Task
    PROVE  /\ status[t] = "new" /\ gatewayDraining => status'[t] \in {"new", "refused"}
           /\ status[t] \in Settled => status'[t] = status[t]
<1> DEFINE Good == /\ status[t] = "new" /\ gatewayDraining => status'[t] \in {"new", "refused"}
                   /\ status[t] \in Settled => status'[t] = status[t]
<1>0. /\ Consistent(queue, activeTaskIds, maxConcurrent, generation, status)
      /\ Typed(queue, activeTaskIds, maxConcurrent, generation, status)
      /\ Settled = {"resolved", "rejected", "cleared", "refused"}
  BY DEF IInv, Consistent, Settled, Outcome, Resolved, Rejected
<1>1. Stays(t) => Good
  BY <1>0 DEF Stays
<1>2. ASSUME NEW u \in Task, EnqueueRefused(u)
      PROVE  Good
  BY <1>0, <1>2 DEF EnqueueRefused, Typed
<1>3. ASSUME NEW u \in Task, Enqueue(u)
      PROVE  Good
  <2>1. ~gatewayDraining /\ status[u] = "new"
    BY <1>3 DEF Enqueue
  <2>2. u # t => Stays(t)
    BY <1>3, CallMoves
  <2> QED BY <1>0, <1>1, <2>1, <2>2
<1>4. ASSUME NEW u \in Task, NEW outcome \in Outcome,
             CompleteTask(u, outcome) \/ CompleteStaleTask(u, outcome)
      PROVE  Good
  <2>1. status[u] = "running" /\ (u # t => Stays(t))
    BY <1>4, EndMoves
  <2> QED BY <1>0, <1>1, <2>1
<1>5. ASSUME NEW l \in Lane, NEW n \in 0..MaxLimit, SetCommandLaneConcurrency(l, n)
      PROVE  Good
  <2> DEFINE m == [maxConcurrent EXCEPT ![l] = IF n < 1 THEN 1 ELSE n]
  <2>1. Consistent(queue, activeTaskIds, m, generation, status)
    BY ConcurrencyConsistent
  <2>2. DrainLanes({l}, queue, activeTaskIds, m, generation, status)
    BY <1>5 DEF SetCommandLaneConcurrency
  <2> HIDE DEF m
  <2> QED BY <1>1, <2>1, <2>2, DrainMoves DEF Stays
<1>6. ASSUME NEW l \in Lane, ClearCommandLane(l)
      PROVE  Good
  <2>1. status'[t] = status[t] \/ (status[t] = "queued" /\ status'[t] = "cleared")
    BY <1>0, <1>6 DEF ClearCommandLane, Consistent
  <2> QED BY <1>0, <2>1
<1>7. CASE ResetAllLanes
  BY <1>1, <1>7, ResetMoves
<1>8. CASE MarkGatewayDraining \/ WaitForActiveTasks \/ WaitPoll \/ UNCHANGED vars
  BY <1>1, <1>8 DEF MarkGatewayDraining, WaitForActiveTasks, WaitPoll, vars, taskVars, Stays
<1> QED
  BY <1>2, <1>3, <1>4, <1>5, <1>6, <1>7, <1>8 DEF Next, LaneNext, RestartNext

-----------------------------------------------------------------------------
(* Every step keeps the invariant *)

\* A step that is none of the agents', no signal to restart, no iteration and no poll leaves
\* the lanes alone, begins no restart and no iteration.
LEMMA StepKinds ==
    ASSUME ProcInv, [LoopNext]_gatewayVars
    PROVE  \/ AgentNext /\ UNCHANGED loopVars
           \/ SignalRestart \/ NextIteration \/ DrainPoll
           \/ /\ UNCHANGED allVars
              /\ Restarting' => Restarting
              /\ loop' = "starting" => loop = "starting"
<1> DEFINE Aside == /\ UNCHANGED allVars
                    /\ Restarting' => Restarting
                    /\ loop' = "starting" => loop = "starting"
<1> USE DEF Restarting, procVars, flagVars
<1>1. Started \/ RestartFails \/ LoopUnlocks => Aside
  BY DEF Started, RestartFails, LoopUnlocks, RemoveLock
<1>2. SignalStop => Aside
  BY DEF SignalStop, SignalPossible
<1>3. RunsPoll \/ Drained \/ CloseServer \/ Closed \/ BeginRelease \/ HandlerUnlocks => Aside
  BY DEF RunsPoll, Drained, CloseServer, Closed, BeginRelease, HandlerUnlocks, RemoveLock
<1>4. RespawnFallsBack \/ Reacquire => Aside
  BY DEF RespawnFallsBack, Reacquire
<1>5. WakeLoop => Aside
  BY DEF WakeLoop, ProcInv, TurnsTaken
<1>6. ExitProcess => Aside
  BY DEF ExitProcess
<1>7. OtherLocks \/ OtherUnlocks => Aside
  BY DEF OtherLocks, OtherUnlocks
<1>8. UNCHANGED gatewayVars => Aside
  BY DEF gatewayVars, loopVars
<1>9. FirstStartFails \/ ForceExit \/ StopExit \/ RespawnedElsewhere \/ ReacquireFails => ExitProcess
  BY DEF FirstStartFails, ForceExit, StopExit, RespawnedElsewhere, ReacquireFails
<1> QED
  BY <1>1, <1>2, <1>3, <1>4, <1>5, <1>6, <1>7, <1>8, <1>9 DEF LoopNext, ProcessNext

\* No turn that the lanes count begins while a restart is under way.
LEMMA AgentKeepsWatched ==
    ASSUME ProcInv, LanesInv, AgentNext, UNCHANGED loopVars
    PROVE  Watched'
<1>1. IInv /\ NestInv' /\ [Next]_vars /\ UNCHANGED <<gatewayDraining, activeAtStart>>
  BY AgentSteps, AgentKeepsNestInv DEF LanesInv, NestInv
<1> SUFFICES ASSUME Restarting', NEW r \in Run, Live(Inner(r))', Current(Outer(r))'
             PROVE  Outer(r) \in activeAtStart
  BY <1>1 DEF Watched
<1>2. Restarting /\ gatewayDraining
  BY DEF Restarting, ProcInv, MarkTrue, loopVars, flagVars
<1>3. Inner(r) \in Task /\ Outer(r) \in Task /\ status[Inner(r)] \in Status
  BY <1>1, EntriesDiffer DEF IInv, Consistent, Typed
<1>4. Live(Inner(r))
  <2>1. /\ status[Inner(r)] = "new" => status'[Inner(r)] \in {"new", "refused"}
        /\ status[Inner(r)] \in Settled => status'[Inner(r)] = status[Inner(r)]
    BY <1>1, <1>2, <1>3, NextMoves
  <2> QED BY <1>3, <2>1 DEF Live, Status, Settled, Outcome, Resolved, Rejected
<1>5. status[Outer(r)] = "running" /\ status'[Outer(r)] = "running"
  BY <1>1, <1>4 DEF LanesInv, NestInv, Nested1
<1>6. Current(Outer(r))
  BY <1>1, <1>3, <1>5, BegunStays DEF Begun, ExecutesNow
<1> QED
  BY <1>2, <1>4, <1>6 DEF LanesInv, Watched

\* The agents' own bookkeeping stays typed.
LEMMA AgentKeepsVarsOK == AgentVarsOK /\ AgentNext => AgentVarsOK'
BY RunAssumption
   DEF AgentVarsOK, AgentNext, CallbackNext, StartGlobal, EndSession, CallRun, CallJob, GiveUp,
       RunRegisters, RunClears, EndBody, ClearSession, Configure, Call, End, agentVars

\* The reset of an iteration keeps the nesting.
LEMMA IterationKeepsNestInv == NestInv /\ ResetAllLanes => NestInv'
<1> SUFFICES ASSUME NestInv, ResetAllLanes
             PROVE  NestInv'
  OBVIOUS
<1>1. IInv /\ IInv' /\ [Next]_vars
  BY NextIInv DEF NestInv, Next, RestartNext
<1>2. UNCHANGED <<laneOf, maxConcurrent>> /\ \A t \in Task : Stays(t)
  BY <1>1, ResetMoves
<1>3. \A r \in Run : Nested1(r)'
  BY <1>2, EntriesDiffer DEF NestInv, Nested1, Live, Stays
<1>4. \A s \in SessionLane : Narrow(s)'
  BY <1>1, <1>2, LanesStayNarrow DEF NestInv
<1> QED
  BY <1>1, <1>3, <1>4 DEF NestInv

\* The snapshot that a signal to restart takes holds everything that executes.
LEMMA SignalKeepsLanesInv == LanesInv /\ SignalRestart => LanesInv'
<1> SUFFICES ASSUME LanesInv, SignalRestart
             PROVE  LanesInv'
  OBVIOUS
<1>1. /\ UNCHANGED <<laneVars, taskVars, agentVars>> /\ gatewayDraining' = TRUE
      /\ activeAtStart' = AllActive /\ waiter' \in {"drained", "waiting"}
      /\ waiter' = "drained" => AllActive = {}
  BY DEF SignalRestart, BeginDrain
<1>2. AllActive \in SUBSET Task /\ \A t \in Task : t \in AllActive <=> ExecutesNow(t)
  BY ActiveExecutes DEF LanesInv, NestInv
<1>3. NestInv'
  <2>1. IInv'
    BY <1>1, <1>2 DEF LanesInv, NestInv, IInv, Consistent, Typed, laneVars, taskVars
  <2> QED
    BY <1>1, <2>1 DEF LanesInv, NestInv, Nested1, Narrow, Live, laneVars, taskVars
<1>4. AgentVarsOK'
  BY <1>1 DEF LanesInv, AgentVarsOK, agentVars
<1>5. DrainInv'
  BY <1>1, <1>2 DEF DrainInv, Begun, ExecutesNow, taskVars
<1>6. Watched'
  <2>1. \A r \in Run : Live(Inner(r)) /\ Current(Outer(r)) => ExecutesNow(Outer(r))
    BY DEF LanesInv, NestInv, Nested1, ExecutesNow
  <2>2. \A r \in Run : Live(Inner(r)) /\ Current(Outer(r)) => Outer(r) \in AllActive
    BY <1>2, <2>1, EntriesDiffer
  <2> QED BY <1>1, <2>2 DEF Watched, Live, Current, laneVars, taskVars
<1> QED
  BY <1>3, <1>4, <1>5, <1>6 DEF LanesInv

\* Together the loop, the handler, the other gateway and the lanes keep the invariant.
LEMMA LoopKeepsInv == LoopInv /\ [LoopNext]_gatewayVars => LoopInv'
<1> SUFFICES ASSUME LoopInv, [LoopNext]_gatewayVars
             PROVE  LoopInv'
  OBVIOUS
<1>0. ProcInv /\ LanesInv /\ IInv /\ ProcInv'
  BY ProcessKeepsProcInv DEF LoopInv, LanesInv, NestInv
<1>1. CASE AgentNext /\ UNCHANGED loopVars
  <2>1. NestInv' /\ AgentVarsOK' /\ DrainInv'
    BY <1>0, <1>1, AgentKeepsNestInv, AgentKeepsVarsOK, AgentSteps, NextDrainInv DEF LanesInv
  <2>2. Watched'
    BY <1>0, <1>1, AgentKeepsWatched
  <2> QED BY <1>0, <2>1, <2>2 DEF LoopInv, LanesInv
<1>2. CASE SignalRestart
  BY <1>0, <1>2, SignalKeepsLanesInv DEF LoopInv
<1>3. CASE NextIteration
  <2>1. NestInv' /\ DrainInv'
    BY <1>0, <1>3, IterationKeepsNestInv, NextDrainInv
       DEF NextIteration, LanesInv, Next, RestartNext
  <2>2. AgentVarsOK'
    BY <1>0, <1>3 DEF NextIteration, LanesInv, AgentVarsOK, agentVars
  <2>3. Watched'
    BY <1>0, <1>3 DEF NextIteration, Watched, Restarting, ProcInv, TurnsTaken
  <2> QED BY <1>0, <2>1, <2>2, <2>3 DEF LoopInv, LanesInv
<1>4. CASE DrainPoll
  <2>1. /\ WaitPoll /\ [Next]_vars
        /\ UNCHANGED <<laneVars, taskVars, activeAtStart, agentVars, loopVars>>
    BY <1>4 DEF DrainPoll, WaitPoll, Next, RestartNext
  <2>2. IInv' /\ DrainInv'
    BY <1>0, <2>1, NextIInv, NextDrainInv DEF LanesInv
  <2>3. NestInv'
    BY <1>0, <2>1, <2>2 DEF LanesInv, NestInv, Nested1, Narrow, Live, laneVars, taskVars
  <2>4. AgentVarsOK' /\ Watched'
    BY <1>0, <2>1 DEF LanesInv, AgentVarsOK, Watched, Restarting, Live, Current, laneVars,
                      taskVars, agentVars, loopVars, flagVars
  <2> QED BY <1>0, <2>2, <2>3, <2>4 DEF LoopInv, LanesInv
<1>5. CASE UNCHANGED allVars /\ (Restarting' => Restarting)
  <2>1. UNCHANGED vars /\ UNCHANGED agentVars
    BY <1>5 DEF allVars
  <2>2. NestInv' /\ DrainInv'
    BY <1>0, <2>1, StutterKeepsNestInv, NextDrainInv DEF LanesInv
  <2>3. AgentVarsOK' /\ Watched'
    BY <1>0, <1>5, <2>1 DEF LanesInv, AgentVarsOK, Watched, Live, Current, vars, laneVars,
                            taskVars, waitVars, agentVars
  <2> QED BY <1>0, <2>2, <2>3 DEF LoopInv, LanesInv
<1> QED
  BY <1>0, <1>1, <1>2, <1>3, <1>4, <1>5, StepKinds

\* Nothing executes and no restart is under way at first.
LEMMA InitLoopInv == LoopInit => LoopInv
<1> SUFFICES ASSUME LoopInit
             PROVE  LoopInv
  OBVIOUS
<1>1. ProcInv /\ NestInv
  BY InitProcInv, InitNestInv DEF LoopInit
<1>2. AgentVarsOK /\ DrainInv
  BY DEF LoopInit, AgentInit, Init, AgentVarsOK, DrainInv
<1>3. Watched
  BY DEF LoopInit, Watched, Restarting
<1> QED BY <1>1, <1>2, <1>3 DEF LoopInv, LanesInv

-----------------------------------------------------------------------------
(* The theorems *)

\* The inductive invariant of runGatewayLoop over the lanes (run-loop.ts).
THEOREM LoopInvariant == LoopSpec => []LoopInv
<1>1. LoopInit => LoopInv
  BY InitLoopInv
<1>2. LoopInv /\ [LoopNext]_gatewayVars => LoopInv'
  BY LoopKeepsInv
<1> QED BY <1>1, <1>2, PTL DEF LoopSpec

\* The lock variable tells the truth, and a gateway that serves has the lock unless the
\* start of a restart failed before (releaseLockIfHeld, reacquireLockForInProcessRestart).
THEOREM LockIsSound == LoopSpec => []LockSound
<1>1. LoopInv => LockSound
  <2> SUFFICES ASSUME LoopInv
               PROVE  LockSound
    OBVIOUS
  <2>1. AgentTypeOK
    BY DEF LoopInv, LanesInv, NestInv, IInv, Consistent, Typed, TypeOK, AgentVarsOK, AgentTypeOK
  <2>2. LoopTypeOK
    BY <2>1 DEF LoopInv, ProcInv, LoopVarsOK, LoopTypeOK
  <2> QED BY <2>2 DEF LoopInv, ProcInv, TurnsTaken, LockKept, Failed, LockSound
<1> QED BY <1>1, LoopInvariant, PTL

\* A gateway that is up refuses work only while a restart is under way, but for signals that
\* come during a start (markGatewayDraining, resetAllLanes).
THEOREM MarkMeansRestart == LoopSpec => []DrainingMeansRestart
<1>1. LoopInv => DrainingMeansRestart
  BY DEF LoopInv, ProcInv, TurnsTaken, MarkTrue, Early, DrainingMeansRestart
<1> QED BY <1>1, LoopInvariant, PTL

\* The lock of another gateway is not removed, but for signals that come while the loop gives
\* up its own (releaseLockIfHeld removes the path, whoever owns it).
THEOREM OtherLockIsKept == LoopSpec => OtherLockKept
<1> DEFINE A == lockOwner = "other" /\ lockOwner' # "other" /\ "earlySignal" \notin mishaps =>
                    UNCHANGED <<loop, handler>>
<1>1. LoopInv /\ [LoopNext]_gatewayVars => [A]_gatewayVars
  <2> SUFFICES ASSUME LoopInv, LoopNext, lockOwner = "other", lockOwner' # "other",
                      "earlySignal" \notin mishaps
               PROVE  UNCHANGED <<loop, handler>>
    OBVIOUS
  <2>1. ~lock /\ loop # "unlocking" /\ handler # "unlocking"
    BY DEF LoopInv, ProcInv, LockKept, MarkTrue, Early
  <2>2. ExitProcess => lockOwner' = "other"
    BY DEF ExitProcess
  <2> QED
    BY <2>1, <2>2, AgentSteps
       DEF LoopNext, ProcessNext, loopVars, procVars, flagVars, Started, FirstStartFails,
           RestartFails, LoopUnlocks, NextIteration, SignalRestart, SignalStop, DrainPoll,
           RunsPoll, Drained, CloseServer, Closed, ForceExit, BeginRelease, HandlerUnlocks,
           StopExit, RespawnedElsewhere, RespawnFallsBack, Reacquire, ReacquireFails, WakeLoop,
           OtherLocks, OtherUnlocks
<1> QED BY <1>1, LoopInvariant, PTL DEF LoopSpec, OtherLockKept

\* The loop goes round only by NextIteration.
LEMMA OnlyIterationStarts ==
    ASSUME ProcInv, [LoopNext]_gatewayVars, loop = "waiting", loop' = "starting"
    PROVE  NextIteration
<1>1. SignalRestart \/ DrainPoll \/ (AgentNext /\ UNCHANGED loopVars) => loop' = loop
  BY DEF SignalRestart, DrainPoll, loopVars
<1> QED BY <1>1, StepKinds

\* A restart whose drain succeeded leaves no turn behind that a lane counts
\* (waitForActiveTasks, then resetAllLanes).
THEOREM CleanRestart == LoopSpec => DrainedRestartIsClean
<1> DEFINE A == loop = "waiting" /\ loop' = "starting" /\ waiter = "drained"
                  /\ runsWait = "drained" =>
                    \A r \in Run : status[Inner(r)] = "running" => ~Current(Outer(r))
<1>1. LoopInv /\ [LoopNext]_gatewayVars => [A]_gatewayVars
  <2> SUFFICES ASSUME LoopInv, LoopNext, loop = "waiting", loop' = "starting",
                      waiter = "drained", NEW r \in Run, status[Inner(r)] = "running",
                      Current(Outer(r))
               PROVE  FALSE
    OBVIOUS
  <2>1. Restarting
    BY OnlyIterationStarts DEF LoopInv, NextIteration, Restarting
  <2>2. Outer(r) \in activeAtStart
    BY <2>1 DEF LoopInv, LanesInv, Watched, Live
  <2>3. ExecutesNow(Outer(r))
    BY DEF LoopInv, LanesInv, NestInv, Nested1, Live, ExecutesNow
  <2> QED BY <2>2, <2>3 DEF LoopInv, LanesInv, DrainInv
<1> QED BY <1>1, LoopInvariant, PTL DEF LoopSpec, DrainedRestartIsClean

\* In a lane that a reset has emptied the first of the entries that wait begins.
LEMMA ResetBegins ==
    ASSUME IInv, ResetAllLanes, NEW l \in Lane, queue[l] # <<>>
    PROVE  \E t \in activeTaskIds'[l] : status[t] = "queued"
<1> DEFINE front == Pumped(queue[l], {}, maxConcurrent[l])
<1>0. /\ queue[l] \in Seq(Task) /\ maxConcurrent[l] \in Nat \ {0}
      /\ Range1(queue[l]) = {t \in Task : status[t] = "queued" /\ laneOf[t] = l}
  BY LimitAssumption DEF IInv, Consistent, Typed
<1>1. activeTaskIds'[l] = {} \cup front
  BY DEF ResetAllLanes, DrainLanes
<1>2. Len(queue[l]) \in Nat \ {0}
  BY <1>0, EmptySeq
<1>3. Cardinality({}) = 0
  BY FS_EmptySet
<1>4. StartCount(queue[l], {}, maxConcurrent[l]) \in 1..Len(queue[l])
  BY <1>0, <1>2, <1>3 DEF StartCount
<1>5. queue[l][1] \in front /\ queue[l][1] \in Range1(queue[l])
  BY <1>2, <1>4 DEF Pumped, Range1
<1> QED
  BY <1>0, <1>1, <1>5

\* A draining restart accepts nothing, and its reset loses nothing and starts every lane
\* again (markGatewayDraining, resetAllLanes).
THEOREM WorkIsKept == LoopSpec => RestartKeepsWork
<1> DEFINE A == /\ shuttingDown /\ action = "restart" /\ handler # "idle" =>
                     \A t \in Task : status[t] = "new" => status'[t] \in {"new", "refused"}
                /\ loop = "waiting" /\ loop' = "starting" =>
                     /\ \A t \in Task : status[t] = "queued" => status'[t] \in {"queued", "running"}
                     /\ \A l \in Lane : queue[l] # <<>> =>
                           \E t \in activeTaskIds'[l] : status[t] = "queued"
<1>1. LoopInv /\ [LoopNext]_gatewayVars => [A]_gatewayVars
  <2> SUFFICES ASSUME LoopInv, [LoopNext]_gatewayVars
               PROVE  A
    OBVIOUS
  <2>0. ProcInv /\ IInv
    BY DEF LoopInv, LanesInv, NestInv
  <2>1. ASSUME action = "restart", handler # "idle", NEW t \in Task, status[t] = "new"
        PROVE  status'[t] \in {"new", "refused"}
    <3>1. gatewayDraining /\ ~NextIteration
      BY <2>0, <2>1 DEF ProcInv, TurnsTaken, MarkTrue, Restarting, NextIteration
    <3>2. SignalRestart \/ DrainPoll \/ UNCHANGED allVars => status' = status
      BY DEF SignalRestart, DrainPoll, WaitPoll, allVars, vars, taskVars
    <3>3. AgentNext => status'[t] \in {"new", "refused"}
      BY <2>0, <2>1, <3>1, AgentSteps, NextMoves
    <3> QED BY <2>0, <2>1, <3>1, <3>2, <3>3, StepKinds
  <2>2. ASSUME loop = "waiting", loop' = "starting"
        PROVE  ResetAllLanes
    BY <2>0, <2>2, OnlyIterationStarts DEF NextIteration
  <2>3. ResetAllLanes => \A t \in Task : status[t] = "queued" => status'[t] \in {"queued", "running"}
    BY <2>0, ResetMoves DEF Stays
  <2>4. ResetAllLanes => \A l \in Lane : queue[l] # <<>> =>
                            \E t \in activeTaskIds'[l] : status[t] = "queued"
    BY <2>0, ResetBegins
  <2> QED BY <2>1, <2>2, <2>3, <2>4
<1> QED BY <1>1, LoopInvariant, PTL DEF LoopSpec, RestartKeepsWork
=============================================================================
