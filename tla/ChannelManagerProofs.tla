------------------------ MODULE ChannelManagerProofs ------------------------
(***************************************************************************)
(* Theorems about ChannelManager: what runs is tracked, what was stopped   *)
(* stays stopped, and the runtime is true, for any calls, any number of    *)
(* restarts and any number of instances.                                   *)
(***************************************************************************)
EXTENDS ChannelManager, TLAPS

\* A call that is under way.
Busy(c) == pc[c] \notin {"idle", "done"}

\* An instance that runs, or will look again after its backoff.
Active(i) == instance[i] \in {"running", "backoff"}

\* As long as no call was made during another or during a restart:

\* one call is under way, and no restart asks beside it;
OneAtATime ==
    /\ \A c, d \in Caller : Busy(c) /\ Busy(d) => c = d
    /\ \A c \in Caller, i \in Instance : Busy(c) => instance[i] # "configuring"

\* what is active is tracked, and what is tracked is active;
ActiveTracked ==
    /\ \A i \in Instance : Active(i) => task = i /\ abort = i
    /\ \A i \in Instance : task = i => Active(i)

\* one restart asks, and only when nothing is tracked;
RestartsAlone ==
    /\ \A i \in Instance : instance[i] = "configuring" => task = None
    /\ \A i, j \in Instance :
          instance[i] = "configuring" /\ instance[j] = "configuring" => i = j

\* a stop under way awaits what is tracked, and a start has found nothing;
CallsTrue ==
    /\ \A c \in Caller : pc[c] \in {"stopping", "awaiting"} =>
          manuallyStopped /\ task \in {None, mine[c].task}
    /\ \A c \in Caller : pc[c] = "configuring" => task = None

\* who may still restart has not tried too often;
AttemptsLeft ==
    \A i \in Instance :
        Active(i) \/ instance[i] = "configuring" => restartAttempts <= MaxAttempts

\* and an account that was stopped has nothing that could bring it back.
StoppedQuiet ==
    stopped => /\ manuallyStopped /\ task = None
               /\ \A c \in Caller : ~Busy(c)
               /\ \A i \in Instance : instance[i] # "configuring"

Calm ==
    /\ OneAtATime /\ ActiveTracked /\ RestartsAlone
    /\ CallsTrue /\ AttemptsLeft /\ StoppedQuiet

ChannelInv == RuntimeTrue /\ (~overlapped => Calm)

LEMMA ChannelInit == Init => ChannelInv
<1> SUFFICES ASSUME Init PROVE ChannelInv
  OBVIOUS
<1> USE ChannelBounds
<1>1. TypeOK
  <2>1. mine \in [Caller -> [task : Instance \cup {None}, abort : Instance \cup {None}]]
    BY DEF Init, Nothing
  <2>2. /\ instance \in [Instance -> States]
        /\ pc \in [Caller -> {"idle", "configuring", "stopping", "awaiting", "start", "done"}]
    BY DEF Init, States
  <2>3. /\ manuallyStopped \in BOOLEAN /\ running \in BOOLEAN /\ restartPending \in BOOLEAN
        /\ stopped \in BOOLEAN /\ overlapped \in BOOLEAN
    BY DEF Init
  <2>4. /\ plugin \in Plugin /\ aborted \subseteq Instance
        /\ task \in Instance \cup {None} /\ abort \in Instance \cup {None}
        /\ restartAttempts \in Nat /\ restartAttempts <= MaxAttempts + 1
    BY DEF Init
  <2> QED
    BY <2>1, <2>2, <2>3, <2>4 DEF TypeOK
<1>2. ~running
  BY DEF Init
<1>3. Calm
  BY DEF Init, Calm, OneAtATime, ActiveTracked, RestartsAlone, CallsTrue, AttemptsLeft,
     StoppedQuiet, Busy, Active, Instance, None
<1> QED
  BY <1>1, <1>2, <1>3 DEF ChannelInv, RuntimeTrue

-----------------------------------------------------------------------------
\* The types, step by step.
LEMMA TypesKept ==
    ASSUME ChannelInv, Next
    PROVE  TypeOK'
<1> USE ChannelBounds, ProgramAssumption DEF TypeOK, Instance, None, States
<1>0. TypeOK /\ (~overlapped => AttemptsLeft)
  BY DEF ChannelInv, RuntimeTrue, Calm
<1>1. ASSUME NEW i \in Instance, Chain(i) PROVE TypeOK'
  <2>1. CASE ExitManual(i)
    BY <1>0, <2>1 DEF ExitManual, Over, Untrack, callVars, history
  <2>2. CASE ExitGivesUp(i)
    <3>1. restartAttempts' \in Nat /\ (overlapped' \/ restartAttempts' <= MaxAttempts + 1)
      BY <1>0, <2>2 DEF ExitGivesUp, history, AttemptsLeft, Active
    <3> QED
      BY <1>0, <2>2, <3>1 DEF ExitGivesUp, Over, Untrack, callVars, history
  <2>3. CASE ExitBacksOff(i)
    <3>1. restartAttempts' \in Nat /\ restartAttempts' <= MaxAttempts + 1
      BY <1>0, <2>3 DEF ExitBacksOff
    <3>2. running' \in BOOLEAN /\ restartPending' \in BOOLEAN
      BY <2>3 DEF ExitBacksOff
    <3>3. /\ instance' \in [Instance -> States]
          /\ task' \in Instance \cup {None} /\ abort' \in Instance \cup {None}
      BY <1>0, <2>3 DEF ExitBacksOff, Over, Untrack
    <3> QED
      BY <1>0, <2>3, <3>1, <3>2, <3>3 DEF ExitBacksOff, callVars, history
  <2>4. CASE BackoffAborted(i)
    BY <1>0, <2>4 DEF BackoffAborted, Over, Untrack, runtime, callVars, history
  <2>5. CASE RestartTracked(i) \/ RestartAsksConfigured(i)
    BY <1>0, <2>5 DEF RestartTracked, RestartAsksConfigured, Over, Untrack, runtime, callVars,
       history
  <2>6. CASE RestartConfigured(i) \/ RestartUnconfigured(i)
    BY <1>0, <2>6 DEF RestartConfigured, RestartUnconfigured, Launch, CallsStartAccount,
       storeVars, callVars, history
  <2>7. CASE RestartFails(i)
    BY <1>0, <2>7 DEF RestartFails, Untrack, runtime, callVars, history
  <2>8. CASE RestartThrows(i)
    BY <1>0, <2>8 DEF RestartThrows, LaunchThrows, CallsStartAccount, callVars, history
  <2> QED
    BY <1>1, <2>1, <2>2, <2>3, <2>4, <2>5, <2>6, <2>7, <2>8 DEF Chain
<1>2. ASSUME NEW c \in Caller, Call(c) PROVE TypeOK'
  <2>1. CASE StartTracked(c)
    BY <1>0, <2>1 DEF StartTracked, Goto, AttemptsAt, Asked, runtime
  <2>2. CASE StartAsksConfigured(c)
    BY <1>0, <2>2 DEF StartAsksConfigured, Goto, AttemptsAt, Asked, runtime
  <2>3. CASE StartConfigured(c)
    <3>1. /\ New \in Instance /\ instance' = [instance EXCEPT ![New] = "running"]
          /\ task' = New /\ abort' = New /\ manuallyStopped' = FALSE /\ restartAttempts' = 0
          /\ running' = TRUE /\ restartPending' = FALSE
          /\ pc' = [pc EXCEPT ![c] = "done"] /\ UNCHANGED <<aborted, mine, history>>
      BY <2>3 DEF StartConfigured, Launch, CallsStartAccount, Goto
    <3> HIDE DEF New
    <3>2. /\ manuallyStopped' \in BOOLEAN /\ running' \in BOOLEAN
          /\ restartPending' \in BOOLEAN
      BY <3>1
    <3>3. /\ instance' \in [Instance -> States]
          /\ pc' \in [Caller -> {"idle", "configuring", "stopping", "awaiting", "start", "done"}]
      BY <1>0, <3>1
    <3> QED
      BY <1>0, <3>1, <3>2, <3>3 DEF history
  <2>4. CASE StartUnconfigured(c)
    BY <1>0, <2>4 DEF StartUnconfigured, Goto, storeVars, history
  <2>5. CASE CheckFindsStopped(c) \/ StopNothing(c)
    BY <1>0, <2>5 DEF CheckFindsStopped, StopNothing, AfterStop, Goto, Asked, storeVars,
       runtime
  <2>6. CASE BeginStop(c)
    BY <1>0, <2>6 DEF BeginStop, Goto, Asked, runtime
  <2>7. CASE StopAccountEnds(c) \/ StopAccountFails(c)
    <3>1. CASE StopAccountEnds(c)
      BY <1>0, <3>1 DEF StopAccountEnds, Goto, storeVars, runtime, history
    <3>2. CASE StopAccountFails(c)
      BY <1>0, <3>2 DEF StopAccountFails, Nothing, Goto, storeVars, runtime, history
    <3> QED BY <2>7, <3>1, <3>2
  <2>8. CASE EndStop(c)
    BY <1>0, <2>8 DEF EndStop, AfterStop, Answered, Nothing, Goto
  <2>9. CASE StartFails(c) \/ StopFails(c)
    <3>1. CASE StartFails(c)
      BY <1>0, <3>1 DEF StartFails, Goto, AttemptsAt, Asked, runtime
    <3>2. CASE StopFails(c)
      BY <1>0, <3>2 DEF StopFails, Goto, Asked, storeVars, runtime
    <3> QED BY <2>9, <3>1, <3>2
  <2>10. CASE StartRejected(c)
    BY <1>0, <2>10 DEF StartRejected, Goto, storeVars, runtime, history
  <2>11. CASE StartThrows(c)
    <3>1. /\ New \in Instance /\ instance' = [instance EXCEPT ![New] = "threw"]
          /\ task' = task /\ abort' = New /\ manuallyStopped' = FALSE /\ restartAttempts' = 0
          /\ running' = TRUE /\ restartPending' = FALSE
          /\ pc' = [pc EXCEPT ![c] = "done"] /\ UNCHANGED <<aborted, mine, history>>
      BY <2>11 DEF StartThrows, LaunchThrows, CallsStartAccount, Goto
    <3> HIDE DEF New
    <3>2. /\ manuallyStopped' \in BOOLEAN /\ running' \in BOOLEAN
          /\ restartPending' \in BOOLEAN
      BY <3>1
    <3>3. /\ instance' \in [Instance -> States]
          /\ pc' \in [Caller -> {"idle", "configuring", "stopping", "awaiting", "start", "done"}]
      BY <1>0, <3>1
    <3> QED
      BY <1>0, <3>1, <3>2, <3>3 DEF history
  <2> QED
    BY <1>2, <2>1, <2>2, <2>3, <2>4, <2>5, <2>6, <2>7, <2>8, <2>9, <2>10, <2>11 DEF Call
<1> QED
  BY <1>1, <1>2 DEF Next

-----------------------------------------------------------------------------
\* What stands for a runtime that says "running".
Runs(i) == instance[i] = "running" \/ (instance[i] = "threw" /\ abort = i)

\* A runtime that says "running" has a live instance, or the controller of a start that
\* threw: a step that ends one writes it.
LEMMA RuntimeKept ==
    ASSUME ChannelInv, Next, running'
    PROVE  Live' # {} \/ \E i \in Instance : instance'[i] = "threw" /\ abort' = i
<1>0. TypeOK /\ (running => \E j \in Instance : Runs(j))
  BY DEF ChannelInv, RuntimeTrue, Live, Runs
<1> SUFFICES \E j \in Instance :
        instance'[j] = "running" \/ (instance'[j] = "threw" /\ abort' = j)
  BY DEF Live
<1> DEFINE Goal == \E j \in Instance : Runs(j)'
<1> SUFFICES Goal
  BY DEF Runs
<1>1. ASSUME NEW i \in Instance, Chain(i) PROVE Goal
  <2>1. CASE ExitManual(i) \/ ExitGivesUp(i) \/ ExitBacksOff(i) \/ RestartUnconfigured(i)
    BY <2>1 DEF ExitManual, ExitGivesUp, ExitBacksOff, RestartUnconfigured
  <2>2. CASE \/ BackoffAborted(i) \/ RestartTracked(i) \/ RestartAsksConfigured(i)
             \/ RestartFails(i)
    <3>1. /\ instance[i] \notin {"running", "threw"} /\ running' = running
          /\ \E l \in States : instance' = [instance EXCEPT ![i] = l]
          /\ abort' = IF abort = i THEN None ELSE abort
      BY <2>2 DEF BackoffAborted, RestartTracked, RestartAsksConfigured, RestartFails,
         BackoffEnds, Over, Untrack, runtime, States
    <3>2. PICK j \in Instance : Runs(j)
      BY <1>0, <3>1
    <3>3. j # i
      BY <3>1, <3>2 DEF Runs
    <3> QED BY <1>0, <3>1, <3>2, <3>3 DEF Runs, TypeOK
  <2>3. CASE RestartConfigured(i)
    BY <1>0, <2>3 DEF RestartConfigured, Launch, CallsStartAccount, TypeOK, Runs
  <2>4. CASE RestartThrows(i)
    BY <1>0, <2>4 DEF RestartThrows, LaunchThrows, CallsStartAccount, TypeOK, Runs
  <2> QED
    BY <1>1, <2>1, <2>2, <2>3, <2>4 DEF Chain
<1>2. ASSUME NEW c \in Caller, Call(c) PROVE Goal
  <2>1. CASE \/ StartTracked(c) \/ StartAsksConfigured(c) \/ StartFails(c) \/ StartRejected(c)
             \/ CheckFindsStopped(c) \/ StopNothing(c) \/ StopFails(c) \/ BeginStop(c)
             \/ StopAccountEnds(c) \/ StopAccountFails(c)
    <3>1. UNCHANGED <<instance, abort, running>>
      BY <2>1 DEF StartTracked, StartAsksConfigured, StartFails, StartRejected,
         CheckFindsStopped, StopNothing, StopFails, BeginStop, StopAccountEnds,
         StopAccountFails, runtime, storeVars
    <3> QED BY <1>0, <3>1 DEF Runs
  <2>2. CASE StartConfigured(c) \/ StartThrows(c)
    BY <1>0, <2>2 DEF StartConfigured, Launch, StartThrows, LaunchThrows, CallsStartAccount,
       TypeOK, Runs
  <2>3. CASE StartUnconfigured(c) \/ EndStop(c)
    BY <2>3 DEF StartUnconfigured, EndStop
  <2> QED
    BY <1>2, <2>1, <2>2, <2>3 DEF Call
<1> QED
  BY <1>1, <1>2 DEF Next

-----------------------------------------------------------------------------
\* An overlap is not forgotten, and without one a call is made when none is under way.
LEMMA Overlaps ==
    ASSUME Next, ~overlapped'
    PROVE  ~overlapped
<1>1. ASSUME NEW i \in Instance, Chain(i) PROVE ~overlapped
  BY <1>1 DEF Chain, ExitManual, ExitGivesUp, ExitBacksOff, BackoffAborted, RestartTracked,
     RestartAsksConfigured, RestartConfigured, RestartUnconfigured, RestartFails,
     RestartThrows, history
<1>2. ASSUME NEW c \in Caller, Call(c) PROVE ~overlapped
  BY <1>2 DEF Call, StartTracked, StartAsksConfigured, StartConfigured, StartUnconfigured,
     StartFails, StartRejected, StartThrows, CheckFindsStopped, StopNothing, StopFails,
     BeginStop, StopAccountEnds, StopAccountFails, EndStop, Asked, history
<1> QED
  BY <1>1, <1>2 DEF Next

LEMMA ChainKeepsCalm ==
    ASSUME TypeOK, Calm, NEW i \in Instance, Chain(i)
    PROVE  Calm'
<1> USE ChannelBounds DEF Instance, None
<1>0. i # None /\ i \in Instance
  OBVIOUS
<1>1. ASSUME ExitManual(i) \/ ExitGivesUp(i) \/ ExitBacksOff(i) PROVE Calm'
  <2>1. /\ instance[i] = "running" /\ task = i /\ abort = i
        /\ ~(\E c \in Caller : pc[c] = "configuring")
    BY <1>1 DEF ExitManual, ExitGivesUp, ExitBacksOff, Calm, ActiveTracked, Active, CallsTrue
  <2>2. UNCHANGED <<aborted, manuallyStopped, callVars, history>>
    BY <1>1 DEF ExitManual, ExitGivesUp, ExitBacksOff
  <2>3. \/ /\ instance' = [instance EXCEPT ![i] = "over"]
           /\ task' = None /\ abort' = None
        \/ /\ instance' = [instance EXCEPT ![i] = "backoff"]
           /\ UNCHANGED <<task, abort>> /\ ~manuallyStopped
           /\ restartAttempts' <= MaxAttempts
    BY <1>1, <2>1 DEF ExitManual, ExitGivesUp, ExitBacksOff, Over, Untrack, TypeOK
  <2>4. \A j \in Instance : j # i => ~Active(j) /\ instance[j] # "configuring"
    BY <2>1 DEF Calm, ActiveTracked, RestartsAlone
  <2>5. \A j \in Instance : j # i => instance'[j] = instance[j]
    BY <2>3 DEF TypeOK
  <2>6. instance'[i] \in {"over", "backoff"}
    BY <2>3 DEF TypeOK
  <2>7. OneAtATime'
    BY <2>2, <2>4, <2>5, <2>6 DEF Calm, OneAtATime, Busy, callVars
  <2>8. ActiveTracked'
    BY <2>1, <2>3, <2>4, <2>5 DEF ActiveTracked, Active, TypeOK
  <2>9. RestartsAlone'
    BY <2>4, <2>5, <2>6 DEF RestartsAlone
  <2>10. CallsTrue'
    BY <2>1, <2>2, <2>3 DEF Calm, CallsTrue, callVars
  <2>11. AttemptsLeft'
    BY <2>3, <2>4, <2>5 DEF AttemptsLeft, Active, TypeOK
  <2>12. StoppedQuiet'
    BY <2>1, <2>2 DEF Calm, StoppedQuiet, history
  <2> QED
    BY <2>7, <2>8, <2>9, <2>10, <2>11, <2>12 DEF Calm
<1>2. ASSUME \/ BackoffAborted(i) \/ RestartTracked(i) \/ RestartAsksConfigured(i)
             \/ RestartFails(i) /\ instance[i] = "backoff"
      PROVE  Calm'
  <2>1. instance[i] = "backoff" /\ task = i /\ abort = i
    BY <1>2 DEF BackoffAborted, RestartTracked, RestartAsksConfigured, BackoffEnds, Calm,
       ActiveTracked, Active
  <2>2. /\ UNCHANGED <<aborted, manuallyStopped, restartAttempts, runtime, callVars, history>>
        /\ task' = None /\ abort' = None
    BY <1>2, <2>1 DEF BackoffAborted, RestartTracked, RestartAsksConfigured, RestartFails, Over,
       Untrack
  <2>3. \/ \E l \in {"over", "failed"} : instance' = [instance EXCEPT ![i] = l]
        \/ /\ instance' = [instance EXCEPT ![i] = "configuring"]
           /\ ~manuallyStopped /\ ~Settling
    BY <1>2, <2>1 DEF BackoffAborted, RestartTracked, RestartAsksConfigured, RestartFails,
       BackoffEnds, Over, RestartFinds
  <2>4. \A j \in Instance : j # i => ~Active(j) /\ instance[j] # "configuring"
    BY <2>1 DEF Calm, ActiveTracked, RestartsAlone
  <2>5. \A j \in Instance : instance'[j] = IF j # i THEN instance[j] ELSE instance'[i]
    BY <2>3 DEF TypeOK
  <2>6. instance'[i] \in {"over", "failed"} \/ (instance'[i] = "configuring" /\ \A c \in Caller : ~Busy(c))
    <3>1. ASSUME ~manuallyStopped, ~Settling, NEW c \in Caller PROVE ~Busy(c)
      BY <2>1, <3>1 DEF Settling, Calm, CallsTrue, Busy, TypeOK
    <3> QED
      BY <2>3, <3>1 DEF TypeOK
  <2>7. OneAtATime'
    BY <2>2, <2>4, <2>5, <2>6 DEF Calm, OneAtATime, Busy, callVars
  <2>8. ActiveTracked'
    BY <2>2, <2>4, <2>5, <2>6 DEF ActiveTracked, Active
  <2>9. RestartsAlone'
    BY <2>2, <2>4, <2>5 DEF RestartsAlone
  <2>10. CallsTrue'
    BY <2>2 DEF Calm, CallsTrue, callVars
  <2>11. AttemptsLeft'
    BY <2>1, <2>2, <2>4, <2>5 DEF Calm, AttemptsLeft, Active
  <2>12. StoppedQuiet'
    BY <2>1, <2>2 DEF Calm, StoppedQuiet, history
  <2> QED
    BY <2>7, <2>8, <2>9, <2>10, <2>11, <2>12 DEF Calm
<1>3. ASSUME \/ RestartConfigured(i) \/ RestartUnconfigured(i) \/ RestartThrows(i)
             \/ RestartFails(i) /\ instance[i] = "configuring"
      PROVE  Calm'
  <2>1. instance[i] = "configuring" /\ task = None /\ ~stopped
    BY <1>3 DEF RestartConfigured, RestartUnconfigured, RestartThrows, Calm, RestartsAlone,
       StoppedQuiet
  <2>2. UNCHANGED <<aborted, callVars, history, manuallyStopped, restartAttempts>>
    BY <1>3 DEF RestartConfigured, RestartUnconfigured, RestartThrows, RestartFails, Launch,
       LaunchThrows, CallsStartAccount, storeVars
  <2>3. \A j \in Instance : ~Active(j) /\ (j # i => instance[j] # "configuring")
    BY <2>1 DEF Calm, ActiveTracked, RestartsAlone
  <2>4. \A c \in Caller : ~Busy(c)
    BY <2>1 DEF Calm, OneAtATime
  <2>5. \/ /\ New \in Instance /\ task' = New /\ abort' = New
           /\ instance' = [instance EXCEPT ![i] = "over", ![New] = "running"]
        \/ /\ New \in Instance /\ UNCHANGED task
           /\ instance' = [instance EXCEPT ![i] = "over", ![New] = "threw"]
        \/ \E l \in {"over", "failed"} :
              instance' = [instance EXCEPT ![i] = l] /\ UNCHANGED task
    BY <1>3, <2>1 DEF RestartConfigured, RestartUnconfigured, RestartThrows, RestartFails, Launch,
       LaunchThrows, CallsStartAccount, Untrack, storeVars
  <2>6. restartAttempts <= MaxAttempts
    BY <2>1 DEF Calm, AttemptsLeft
  <2> HIDE DEF New
  <2>7. \A j \in Instance : instance'[j] # "configuring" /\ (Active(j)' <=> task' = j)
                           /\ (task' = j => abort' = j)
    BY <2>1, <2>3, <2>5 DEF TypeOK, Active
  <2>8. OneAtATime' /\ CallsTrue'
    BY <2>2, <2>4 DEF OneAtATime, CallsTrue, Busy, callVars
  <2>9. ActiveTracked' /\ RestartsAlone' /\ AttemptsLeft'
    BY <2>2, <2>6, <2>7 DEF ActiveTracked, RestartsAlone, AttemptsLeft
  <2>10. StoppedQuiet'
    BY <2>1, <2>2 DEF StoppedQuiet, history
  <2> QED
    BY <2>8, <2>9, <2>10 DEF Calm
<1> QED
  BY <1>1, <1>2, <1>3 DEF Chain, RestartFails, BackoffEnds

\* A call that begins without an overlap finds nothing under way; one that goes on is the
\* one that is under way.
LEMMA CallsAlone ==
    ASSUME TypeOK, Calm, NEW c \in Caller, Call(c), ~overlapped'
    PROVE  /\ \A d \in Caller : d # c => ~Busy(d)
           /\ \A i \in Instance : instance[i] # "configuring"
<1>1. CASE pc[c] = "idle"
  <2>1. Asked(c)
    BY <1>1 DEF Call, StartTracked, StartAsksConfigured, StartConfigured, StartUnconfigured,
       StartFails, StartRejected, StartThrows, StopFails, CheckFindsStopped, StopNothing,
       BeginStop, StopAccountEnds, StopAccountFails, EndStop
  <2>2. ~UnderWay
    BY <1>1, <2>1 DEF Asked
  <2> QED
    BY <2>2 DEF UnderWay, Busy
<1>2. CASE pc[c] # "idle"
  <2>1. pc[c] # "done"
    BY <1>2 DEF Call, StartTracked, StartAsksConfigured, StartConfigured, StartUnconfigured,
       StartFails, StartRejected, StartThrows, StopFails, CheckFindsStopped, StopNothing,
       BeginStop, StopAccountEnds, StopAccountFails, EndStop,
       StartsHere, StopsHere, MayCall
  <2> QED
    BY <1>2, <2>1 DEF Calm, OneAtATime, Busy
<1> QED
  BY <1>1, <1>2

LEMMA CallKeepsCalm ==
    ASSUME TypeOK, Calm, NEW c \in Caller, Call(c), ~overlapped'
    PROVE  Calm'
<1> USE ChannelBounds, ProgramAssumption DEF Instance, None
<1>1. /\ \A d \in Caller : d # c => ~Busy(d)
      /\ \A i \in Instance : instance[i] # "configuring"
  BY CallsAlone
<1>2. ASSUME StartTracked(c) \/ StartAsksConfigured(c) \/ StartFails(c) PROVE Calm'
  <2>1. /\ UNCHANGED <<instance, aborted, task, abort, manuallyStopped, mine>>
        /\ \/ pc' = [pc EXCEPT ![c] = "done"]
           \/ pc' = [pc EXCEPT ![c] = "configuring"] /\ task = None
        /\ restartAttempts' \in {0, restartAttempts}
        /\ stopped' => stopped /\ ~IsRequest(c)
    BY <1>2 DEF StartTracked, StartAsksConfigured, StartFails, AttemptsAt, Asked, Goto, Tracked
  <2>2. ~stopped'
    <3> SUFFICES ASSUME stopped, ~IsRequest(c) PROVE FALSE
      BY <2>1 DEF Asked
    <3>1. pc[c] # "idle" => Busy(c)
      BY <1>2 DEF StartTracked, StartAsksConfigured, StartFails, StartsHere, MayCall, Busy
    <3>2. pc[c] = "idle" => Program[c] = "start"
      BY <1>2 DEF StartTracked, StartAsksConfigured, StartFails, StartsHere
    <3> QED
      BY <3>1, <3>2 DEF Calm, StoppedQuiet, IsRequest
  <2>3. \A d \in Caller : d # c => pc'[d] = pc[d]
    BY <2>1 DEF TypeOK
  <2>4. OneAtATime'
    BY <1>1, <2>1, <2>3 DEF OneAtATime, Busy
  <2>5. ActiveTracked' /\ RestartsAlone'
    BY <2>1 DEF Calm, ActiveTracked, RestartsAlone, Active
  <2>6. CallsTrue'
    BY <1>1, <2>1 DEF Calm, CallsTrue, TypeOK
  <2>7. AttemptsLeft'
    BY <2>1 DEF Calm, AttemptsLeft, Active
  <2>8. StoppedQuiet'
    BY <2>2 DEF StoppedQuiet
  <2> QED
    BY <2>4, <2>5, <2>6, <2>7, <2>8 DEF Calm
<1>3. ASSUME StartConfigured(c) \/ StartUnconfigured(c) \/ StartThrows(c) \/ StartRejected(c)
      PROVE  Calm'
  <2>1. /\ pc[c] = "configuring" /\ pc' = [pc EXCEPT ![c] = "done"]
        /\ UNCHANGED <<aborted, mine, history>>
    BY <1>3 DEF StartConfigured, StartUnconfigured, StartThrows, StartRejected, Goto, storeVars
  <2>2. task = None /\ ~stopped /\ \A i \in Instance : ~Active(i)
    BY <2>1 DEF Calm, CallsTrue, StoppedQuiet, ActiveTracked, Busy
  <2>3. \/ /\ New \in Instance /\ task' = New /\ abort' = New /\ restartAttempts' = 0
           /\ instance' = [instance EXCEPT ![New] = "running"]
        \/ /\ New \in Instance /\ UNCHANGED task /\ restartAttempts' = 0
           /\ instance' = [instance EXCEPT ![New] = "threw"]
        \/ UNCHANGED <<instance, task, abort, restartAttempts>>
    BY <1>3 DEF StartConfigured, StartUnconfigured, StartThrows, StartRejected, Launch,
       LaunchThrows, CallsStartAccount, storeVars
  <2> HIDE DEF New
  <2>4. \A j \in Instance : instance'[j] # "configuring" /\ (Active(j)' <=> task' = j)
                           /\ (task' = j => abort' = j /\ restartAttempts' = 0)
    BY <1>1, <2>2, <2>3 DEF TypeOK, Active
  <2>5. \A d \in Caller : pc'[d] \in {"idle", "done"}
    BY <1>1, <2>1 DEF TypeOK, Busy
  <2>6. OneAtATime' /\ CallsTrue'
    BY <2>5 DEF OneAtATime, CallsTrue, Busy
  <2>7. ActiveTracked' /\ RestartsAlone' /\ AttemptsLeft'
    BY <2>4 DEF ActiveTracked, RestartsAlone, AttemptsLeft
  <2>8. StoppedQuiet'
    BY <2>1, <2>2 DEF StoppedQuiet, history
  <2> QED
    BY <2>6, <2>7, <2>8 DEF Calm
<1>4. ASSUME CheckFindsStopped(c) \/ StopNothing(c) \/ StopFails(c) \/ StopAccountFails(c)
      PROVE  Calm'
  <2>1. /\ UNCHANGED <<instance, aborted, storeVars>>
        /\ \A d \in Caller : d # c => mine'[d] = mine[d]
        /\ \E l \in {"start", "done"} : pc' = [pc EXCEPT ![c] = l]
    BY <1>4 DEF CheckFindsStopped, StopNothing, StopFails, StopAccountFails, AfterStop, Goto,
       TypeOK
  <2>2. ~stopped'
    BY <1>4 DEF CheckFindsStopped, StopNothing, StopFails, StopAccountFails, Asked, Calm,
       StoppedQuiet, Busy, StopsHere, MayCall, IsRequest, history
  <2>3. \A d \in Caller : d # c => pc'[d] = pc[d]
    BY <2>1 DEF TypeOK
  <2>4. pc'[c] \in {"start", "done"}
    BY <2>1 DEF TypeOK
  <2>5. OneAtATime'
    BY <1>1, <2>1, <2>3 DEF OneAtATime, Busy
  <2>6. ActiveTracked' /\ RestartsAlone' /\ AttemptsLeft'
    BY <2>1 DEF Calm, ActiveTracked, RestartsAlone, AttemptsLeft, Active, storeVars
  <2>7. CallsTrue'
    BY <2>1, <2>3, <2>4 DEF Calm, CallsTrue, storeVars
  <2> QED
    BY <2>2, <2>5, <2>6, <2>7 DEF Calm, StoppedQuiet
<1>5. ASSUME BeginStop(c) PROVE Calm'
  <2>1. /\ UNCHANGED <<instance, task, abort, restartAttempts>> /\ manuallyStopped' = TRUE
        /\ mine' = [mine EXCEPT ![c] = [task |-> task, abort |-> abort]]
        /\ \E l \in {"stopping", "awaiting"} : pc' = [pc EXCEPT ![c] = l]
        /\ stopped' = (stopped /\ ~IsRequest(c))
    BY <1>5 DEF BeginStop, Goto, Asked
  <2>2. ~stopped'
    BY <1>5, <2>1 DEF BeginStop, StopsHere, Calm, StoppedQuiet, IsRequest
  <2>3. \A d \in Caller : d # c => pc'[d] = pc[d] /\ mine'[d] = mine[d]
    BY <2>1 DEF TypeOK
  <2>4. pc'[c] \in {"stopping", "awaiting"} /\ mine'[c].task = task
    BY <2>1 DEF TypeOK
  <2>5. OneAtATime'
    BY <1>1, <2>1, <2>3 DEF OneAtATime, Busy
  <2>6. ActiveTracked' /\ RestartsAlone' /\ AttemptsLeft'
    BY <2>1 DEF Calm, ActiveTracked, RestartsAlone, AttemptsLeft, Active
  <2>7. CallsTrue'
    BY <2>1, <2>3, <2>4 DEF Calm, CallsTrue
  <2> QED
    BY <2>2, <2>5, <2>6, <2>7 DEF Calm, StoppedQuiet
<1>6. ASSUME StopAccountEnds(c) PROVE Calm'
  <2>1. /\ UNCHANGED <<instance, aborted, storeVars, mine, history>> /\ pc[c] = "stopping"
        /\ pc' = [pc EXCEPT ![c] = "awaiting"]
    BY <1>6 DEF StopAccountEnds, Goto
  <2>2. ~stopped'
    BY <2>1 DEF Calm, StoppedQuiet, Busy, history
  <2>3. /\ \A d \in Caller : d # c => pc'[d] = pc[d]
        /\ pc'[c] = "awaiting"
    BY <2>1 DEF TypeOK
  <2>4. OneAtATime'
    BY <1>1, <2>1, <2>3 DEF OneAtATime, Busy
  <2>5. ActiveTracked' /\ RestartsAlone' /\ AttemptsLeft'
    BY <2>1 DEF Calm, ActiveTracked, RestartsAlone, AttemptsLeft, Active, storeVars
  <2>6. CallsTrue'
    BY <2>1, <2>3 DEF Calm, CallsTrue, storeVars
  <2> QED
    BY <2>2, <2>4, <2>5, <2>6 DEF Calm, StoppedQuiet
<1>7. ASSUME EndStop(c) PROVE Calm'
  <2>1. /\ pc[c] = "awaiting"
        /\ mine[c].task # None => instance[mine[c].task] \in {"over", "failed"}
        /\ task' = None /\ abort' = None
        /\ \E l \in {"start", "done"} : pc' = [pc EXCEPT ![c] = l]
        /\ Program[c] = "stop" => pc' = [pc EXCEPT ![c] = "done"]
        /\ stopped' = IF IsRequest(c) THEN Program[c] = "stop" ELSE stopped
        /\ \A d \in Caller : d # c => mine'[d] = mine[d]
        /\ UNCHANGED <<instance, aborted, manuallyStopped, restartAttempts>>
    BY <1>7 DEF EndStop, Settled, AfterStop, Answered, Goto, TypeOK
  <2>2. manuallyStopped /\ task \in {None, mine[c].task} /\ ~stopped
    BY <2>1 DEF Calm, CallsTrue, StoppedQuiet, Busy
  <2>3. \A i \in Instance : ~Active(i)
    BY <2>1, <2>2 DEF Calm, ActiveTracked, Active
  <2>4. /\ \A d \in Caller : d # c => pc'[d] = pc[d]
        /\ pc'[c] \in {"start", "done"}
        /\ Program[c] = "stop" => pc'[c] = "done"
    BY <2>1 DEF TypeOK
  <2>5. OneAtATime'
    BY <1>1, <2>1, <2>4 DEF OneAtATime, Busy
  <2>6. ActiveTracked' /\ RestartsAlone' /\ AttemptsLeft'
    BY <1>1, <2>1, <2>3 DEF ActiveTracked, RestartsAlone, AttemptsLeft, Active
  <2>7. CallsTrue'
    BY <2>1, <2>2, <2>4 DEF Calm, CallsTrue
  <2>8. StoppedQuiet'
    BY <1>1, <2>1, <2>2, <2>4 DEF StoppedQuiet, Busy
  <2> QED
    BY <2>5, <2>6, <2>7, <2>8 DEF Calm
<1> QED
  BY <1>2, <1>3, <1>4, <1>5, <1>6, <1>7 DEF Call

-----------------------------------------------------------------------------
LEMMA ChannelStep == ChannelInv /\ [Next]_vars => ChannelInv'
<1> SUFFICES ASSUME ChannelInv, [Next]_vars PROVE ChannelInv'
  OBVIOUS
<1>1. CASE Next
  <2>1. RuntimeTrue'
    BY <1>1, TypesKept, RuntimeKept DEF RuntimeTrue
  <2>2. ASSUME ~overlapped' PROVE Calm'
    <3>1. TypeOK /\ Calm
      BY <1>1, <2>2, Overlaps DEF ChannelInv, RuntimeTrue
    <3> QED
      BY <1>1, <2>2, <3>1, ChainKeepsCalm, CallKeepsCalm DEF Next
  <2> QED
    BY <2>1, <2>2 DEF ChannelInv
<1>2. CASE UNCHANGED vars
  BY <1>2 DEF vars, storeVars, runtime, callVars, history, ChannelInv, RuntimeTrue, TypeOK,
     Live, Calm, OneAtATime, ActiveTracked, RestartsAlone, CallsTrue, AttemptsLeft,
     StoppedQuiet, Busy, Active
<1> QED
  BY <1>1, <1>2

\* The invariant of an account holds in every behaviour.
THEOREM ChannelInvariant == Spec => []ChannelInv
<1>1. Init => ChannelInv
  BY ChannelInit
<1>2. ChannelInv /\ [Next]_vars => ChannelInv'
  BY ChannelStep
<1> QED
  BY <1>1, <1>2, PTL DEF Spec

\* A live instance is the one that startChannelInternal has tracked, for any number of
\* calls, crashes and restarts that do not overlap.
THEOREM LiveInstancesTracked == Spec => []LiveIsTracked
<1>1. ChannelInv => LiveIsTracked
  BY DEF ChannelInv, Calm, ActiveTracked, Active, LiveIsTracked, Live
<1> QED
  BY <1>1, ChannelInvariant, PTL

\* What stopChannel has stopped is not brought back by a backoff or by the health monitor.
THEOREM StopIsKept == Spec => []StoppedStaysStopped
<1>1. ChannelInv => StoppedStaysStopped
  <2> SUFFICES ASSUME ChannelInv, stopped, ~overlapped, NEW i \in Instance,
                      instance[i] = "running"
               PROVE  FALSE
    BY DEF StoppedStaysStopped, Live
  <2>1. task = None /\ task = i
    BY DEF ChannelInv, Calm, StoppedQuiet, ActiveTracked, Active
  <2> QED
    BY <2>1 DEF Instance, None
<1> QED
  BY <1>1, ChannelInvariant, PTL

\* A runtime that says "running" tells the truth, even with calls that overlap, but for a
\* start that threw.
THEOREM RuntimeIsTrue == Spec => []RuntimeTrue
<1>1. ChannelInv => RuntimeTrue
  BY DEF ChannelInv
<1> QED
  BY <1>1, ChannelInvariant, PTL
=============================================================================
