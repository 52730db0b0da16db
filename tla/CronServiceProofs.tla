-------------------------- MODULE CronServiceProofs --------------------------
(***************************************************************************)
(* Theorems about CronService, for any jobs, calls by hand and numbers of  *)
(* concurrent runs, retries and events: the running mark is true, a date   *)
(* that has come is not given up, a one-shot that succeeded is done.       *)
(***************************************************************************)
EXTENDS CronService, FiniteSetTheorems, TLAPS

-----------------------------------------------------------------------------
(* The invariant *)

\* A batch, or a call by hand, has j: it may be executing, about to or over.
Held(b, j) == j \in batch[b].todo \cup batch[b].running \/ batch[b].result[j] # "none"
ByHand(m, j) == man[m].job = j /\ man[m].pc \in {"exec", "finish"}

\* Ids are given once, and only what has one is stored, run, or done.
HasId ==
    /\ \A j \in Job : file[j] # Absent \/ UnderWay(j) => j \in known
    /\ mem # NotLoaded => \A j \in Job : mem[j] # Absent => j \in known
    /\ done \subseteq known

\* A batch is there only in its phase of the timer or of the start, with each job once.
PhasesTrue ==
    /\ ticking # "work" => batch["tick"] = NoBatch
    /\ start # "catchup" => batch["catchup"] = NoBatch
    /\ mem = NotLoaded => start # "up" /\ ~attached /\ \A m \in Manual : man[m].pc # "reserve"
    /\ \A b \in Batch : \A j \in batch[b].todo : j \notin batch[b].running /\ batch[b].result[j] = "none"
    /\ \A b \in Batch : \A j \in batch[b].running : batch[b].result[j] = "none"
    /\ \A m \in Manual : man[m].pc \in {"preflight", "reserve", "exec", "finish"} => man[m].job \in Job

\* One batch or call at most has a job.
Sole(j) ==
    /\ \A b, c \in Batch : Held(b, j) /\ Held(c, j) => b = c
    /\ \A m, n \in Manual : ByHand(m, j) /\ ByHand(n, j) => m = n
    /\ \A b \in Batch, m \in Manual : ~(Held(b, j) /\ ByHand(m, j))

\* The mark of a job that is busy is set, and not stale; that of one that is not is cleared
\* by the start.
MarkTrue(js, busy, cleared) ==
    js # Absent =>
        /\ busy => js.mark = "set" /\ js.on
        /\ cleared /\ ~busy => js.mark = "no"

\* Memory differs from the file in dates that it alone has got, and in stale marks.
Agree(f, c) ==
    /\ f = Absent <=> c = Absent
    /\ f # Absent => f.on = c.on /\ (f.on /\ f.next # "none" => c.next = f.next)

JobTrue(j) ==
    /\ Sole(j)
    /\ MarkTrue(file[j], UnderWay(j), start # "clear")
    /\ mem # NotLoaded => Agree(file[j], mem[j]) /\ MarkTrue(mem[j], UnderWay(j), start # "clear")
JobsTrue == \A j \in Job \ upset : JobTrue(j)

\* A one-shot that is done has no date, and the scheduler does not have it.
Finished(js) == js # Absent => js.last = "ok" /\ js.next = "none"
DoneTrue(j) ==
    /\ \A b \in Batch : ~Held(b, j)
    /\ Finished(file[j])
    /\ mem # NotLoaded => Finished(mem[j])
DonesTrue == \A j \in done \ upset : DoneTrue(j)

CronInv == TypeOK /\ HasId /\ PhasesTrue /\ JobsTrue /\ DonesTrue

-----------------------------------------------------------------------------
(* Job states and stores *)

\* The fields of a job state.
LEMMA Fields ==
    ASSUME NEW js \in JobState
    PROVE  /\ js # Absent
           /\ js.on \in BOOLEAN /\ js.next \in {"none", "later", "due"}
           /\ js.mark \in {"no", "set", "stale"} /\ js.slot \in {"later", "due"}
           /\ js.last \in {"none", "ok", "error"} /\ js.errs \in 0..(MaxRetries + 1)
  BY MarkersAssumption DEF JobState

\* A job state with another mark, or another date.
LEMMA Remarked ==
    ASSUME NEW js \in JobState, NEW k \in {"no", "set", "stale"}
    PROVE  /\ [js EXCEPT !.mark = k] \in JobState
           /\ [js EXCEPT !.mark = k].mark = k /\ [js EXCEPT !.mark = k].on = js.on
           /\ [js EXCEPT !.mark = k].next = js.next /\ [js EXCEPT !.mark = k].slot = js.slot
           /\ [js EXCEPT !.mark = k].last = js.last
  BY DEF JobState

LEMMA Redated ==
    ASSUME NEW js \in JobState, NEW d \in {"none", "later", "due"}
    PROVE  /\ [js EXCEPT !.next = d] \in JobState
           /\ [js EXCEPT !.next = d].next = d /\ [js EXCEPT !.next = d].on = js.on
           /\ [js EXCEPT !.next = d].mark = js.mark /\ [js EXCEPT !.next = d].slot = js.slot
           /\ [js EXCEPT !.next = d].last = js.last
  BY DEF JobState

\* What normalisation and the dates of a section do to a job.
Tended(j, js, new) ==
    /\ new \in JobState /\ new.on = js.on /\ new.last = js.last
    /\ js.on /\ js.mark = "set" => new.mark = "set"
    /\ js.mark = "no" => new.mark = "no"
    /\ j \in OneShot /\ js.last = "ok" /\ js.next = "none" => new.next = "none"

LEMMA TendedIs ==
    ASSUME NEW j \in Job, NEW js \in JobState
    PROVE  /\ Tended(j, js, Recomputed(j, js)) /\ Tended(j, js, Maintained(j, js))
           /\ js.on /\ js.next # "none" => Maintained(j, js).next = js.next
<1> DEFINE n == Normalized(js)
<1>1. /\ n \in JobState /\ n.on = js.on /\ n.last = js.last /\ n.slot = js.slot
      /\ js.on /\ js.mark = "set" => n.mark = "set"
      /\ js.mark = "no" => n.mark = "no"
      /\ n.next = IF js.on THEN js.next ELSE "none"
  <2>1. CASE ~js.on
    <3>1. n = [js EXCEPT !.next = "none", !.mark = "no"]
      BY <2>1 DEF Normalized
    <3> QED BY <2>1, <3>1 DEF JobState
  <2>2. CASE js.on /\ js.mark = "stale"
    <3>1. n = [js EXCEPT !.mark = "no"]
      BY <2>2 DEF Normalized
    <3>2. /\ [js EXCEPT !.mark = "no"] \in JobState
          /\ [js EXCEPT !.mark = "no"].mark = "no" /\ [js EXCEPT !.mark = "no"].on = js.on
          /\ [js EXCEPT !.mark = "no"].next = js.next /\ [js EXCEPT !.mark = "no"].slot = js.slot
          /\ [js EXCEPT !.mark = "no"].last = js.last
      BY Remarked
    <3> HIDE DEF n
    <3> QED BY <2>2, <3>1, <3>2
  <2>3. CASE js.on /\ js.mark # "stale"
    BY <2>3 DEF Normalized
  <2> QED BY <2>1, <2>2, <2>3
<1>2. ComputeNext(j, n) \in {"none", "later", "due"}
      /\ (j \in OneShot /\ js.last = "ok" => ComputeNext(j, n) = "none")
  BY <1>1, Fields DEF ComputeNext
<1> DEFINE d == ComputeNext(j, n)
           dated == [n EXCEPT !.next = d]
<1>3. /\ dated \in JobState /\ dated.on = js.on /\ dated.last = js.last
      /\ dated.mark = n.mark /\ dated.next = ComputeNext(j, n)
  <2> HIDE DEF n, d
  <2>1. n \in JobState /\ d \in {"none", "later", "due"}
    BY <1>1, <1>2 DEF d
  <2>2. /\ [n EXCEPT !.next = d] \in JobState /\ [n EXCEPT !.next = d].on = n.on
        /\ [n EXCEPT !.next = d].last = n.last /\ [n EXCEPT !.next = d].mark = n.mark
        /\ [n EXCEPT !.next = d].next = d
    BY <2>1, Redated
  <2> HIDE DEF dated
  <2> QED BY <1>1, <2>2 DEF dated, d
<1>4. /\ Recomputed(j, js) = IF n.next = "later" THEN n ELSE dated
      /\ Maintained(j, js) = IF n.next = "none" THEN dated ELSE n
  BY DEF Recomputed, Maintained
<1> HIDE DEF n, dated
<1> QED BY <1>1, <1>2, <1>3, <1>4 DEF Tended

LEMMA StoreIs ==
    ASSUME NEW st \in Store, NEW j \in Job
    PROVE  st[j] \in JobState \cup {Absent}
  BY DEF Store

\* The recomputation and the maintenance of a store tend every job of it.
LEMMA MaintainIs ==
    ASSUME NEW st \in Store
    PROVE  /\ Maintain(st) \in Store
           /\ \A j \in Job :
                 /\ st[j] = Absent => Maintain(st)[j] = Absent
                 /\ st[j] # Absent => /\ Tended(j, st[j], Maintain(st)[j])
                                      /\ Maintain(st)[j] # Absent
                                      /\ st[j].on /\ st[j].next # "none" => Maintain(st)[j].next = st[j].next
<1>1. Maintain(st) = [j \in Job |-> IF st[j] = Absent THEN Absent ELSE Maintained(j, st[j])]
  BY DEF Maintain, EachJob
<1>2. ASSUME NEW j \in Job, st[j] # Absent
      PROVE  /\ Tended(j, st[j], Maintained(j, st[j])) /\ Maintained(j, st[j]) \in JobState
             /\ st[j].on /\ st[j].next # "none" => Maintained(j, st[j]).next = st[j].next
  BY <1>2, StoreIs, TendedIs DEF Tended
<1>3. Maintain(st) \in Store
  BY <1>1, <1>2 DEF Store
<1> QED BY <1>1, <1>2, <1>3, MarkersAssumption

LEMMA RecomputeIs ==
    ASSUME NEW st \in Store
    PROVE  /\ Recompute(st) \in Store
           /\ \A j \in Job :
                 /\ st[j] = Absent => Recompute(st)[j] = Absent
                 /\ st[j] # Absent => Tended(j, st[j], Recompute(st)[j]) /\ Recompute(st)[j] # Absent
<1>1. Recompute(st) = [j \in Job |-> IF st[j] = Absent THEN Absent ELSE Recomputed(j, st[j])]
  BY DEF Recompute, EachJob
<1>2. ASSUME NEW j \in Job, st[j] # Absent
      PROVE  Tended(j, st[j], Recomputed(j, st[j])) /\ Recomputed(j, st[j]) \in JobState
  BY <1>2, StoreIs, TendedIs DEF Tended
<1>3. Recompute(st) \in Store
  BY <1>1, <1>2 DEF Store
<1> QED BY <1>1, <1>2, <1>3, MarkersAssumption

\* Tending keeps the truth of a mark, and that a job is finished.
LEMMA TendedKeeps ==
    ASSUME NEW j \in Job, NEW js, NEW new, Tended(j, js, new), js # Absent
    PROVE  /\ \A busy, cleared \in BOOLEAN : MarkTrue(js, busy, cleared) => MarkTrue(new, busy, cleared)
           /\ j \in OneShot /\ Finished(js) => Finished(new)
  BY DEF Tended, MarkTrue, Finished

\* The result of a run clears the mark; a one-shot that succeeded is finished.
LEMMA ApplyJobResultIs ==
    ASSUME NEW j \in Job, NEW js \in JobState, NEW status
    PROVE  LET new == ApplyJobResult(j, js, status) IN
           /\ new \in JobState \cup {Absent}
           /\ new # Absent => new.mark = "no"
           /\ j \in OneShot /\ status = "ok" => Finished(new)
<1> DEFINE errs == IF j \notin OneShot \/ status = "ok" THEN 0
                   ELSE IF js.errs > MaxRetries THEN js.errs ELSE js.errs + 1
           ran == [js EXCEPT !.mark = "no", !.errs = errs,
                             !.last = IF status = "ok" THEN "ok" ELSE "error"]
           over == [ran EXCEPT !.on = FALSE, !.next = "none"]
           later == [ran EXCEPT !.next = "later"]
           none == [ran EXCEPT !.next = "none"]
<1>1. errs \in 0..(MaxRetries + 1)
  <2>1. MaxRetries \in Nat /\ js.errs \in 0..(MaxRetries + 1)
    BY CronAssumption, Fields
  <2> QED BY <2>1
<1> HIDE DEF errs
<1>2. ran \in JobState /\ ran.mark = "no" /\ (status = "ok" => ran.last = "ok")
  BY <1>1 DEF JobState
<1> HIDE DEF ran
<1>3. over \in JobState /\ over.mark = "no" /\ over.last = ran.last /\ over.next = "none"
  BY <1>2 DEF JobState
<1>4. later \in JobState /\ later.mark = "no" /\ none \in JobState /\ none.mark = "no"
  BY <1>2, Redated
<1>5. ApplyJobResult(j, js, status) =
        IF j \notin OneShot THEN IF js.on THEN later ELSE none
        ELSE IF status = "ok" THEN IF j \in DeleteAfterRun THEN Absent ELSE over
        ELSE IF status = "transient" /\ errs <= MaxRetries THEN later
        ELSE over
  BY DEF ApplyJobResult, errs, ran
<1> HIDE DEF over, later, none
<1> QED BY <1>2, <1>3, <1>4, <1>5 DEF Finished

LEMMA ApplyResultsIs ==
    ASSUME NEW st \in Store, NEW result \in [Job -> Status \cup {"none"}]
    PROVE  LET new == ApplyResults(st, result) IN
           /\ new \in Store
           /\ \A j \in Job :
                 /\ st[j] = Absent => new[j] = Absent
                 /\ result[j] = "none" => new[j] = st[j]
                 /\ result[j] # "none" => /\ new[j] # Absent => new[j].mark = "no"
                                          /\ j \in OneShot /\ result[j] = "ok" => Finished(new[j])
<1> DEFINE new == ApplyResults(st, result)
<1>1. new = [j \in Job |-> IF st[j] = Absent \/ result[j] = "none" THEN st[j]
                           ELSE ApplyJobResult(j, st[j], result[j])]
  BY DEF ApplyResults
<1>2. ASSUME NEW j \in Job, st[j] # Absent, result[j] # "none"
      PROVE  /\ ApplyJobResult(j, st[j], result[j]) \in JobState \cup {Absent}
             /\ ApplyJobResult(j, st[j], result[j]) # Absent => ApplyJobResult(j, st[j], result[j]).mark = "no"
             /\ j \in OneShot /\ result[j] = "ok" => Finished(ApplyJobResult(j, st[j], result[j]))
  <2>1. st[j] \in JobState /\ result[j] \in Status
    BY <1>2, StoreIs
  <2> QED BY <2>1, ApplyJobResultIs
<1>3. new \in Store
  BY <1>1, <1>2 DEF Store
<1>4. Finished(Absent)
  BY DEF Finished
<1> HIDE DEF new
<1> QED BY <1>1, <1>2, <1>3, <1>4 DEF new

LEMMA WithMarkIs ==
    ASSUME NEW st \in Store, NEW jobs, \A j \in jobs : j \in Job /\ st[j] # Absent
    PROVE  LET new == WithMark(st, jobs) IN
           /\ new \in Store
           /\ \A j \in Job :
                 /\ j \notin jobs => new[j] = st[j]
                 /\ st[j] = Absent => new[j] = Absent
                 /\ j \in jobs => /\ new[j] # Absent /\ new[j].mark = "set" /\ new[j].on = st[j].on
                                  /\ new[j].next = st[j].next /\ new[j].last = st[j].last
<1> DEFINE new == WithMark(st, jobs)
<1>1. new = [j \in Job |-> IF j \in jobs THEN [st[j] EXCEPT !.mark = "set"] ELSE st[j]]
  BY DEF WithMark
<1>2. ASSUME NEW j \in jobs
      PROVE  /\ j \in Job /\ st[j] \in JobState /\ [st[j] EXCEPT !.mark = "set"] \in JobState
             /\ [st[j] EXCEPT !.mark = "set"].mark = "set"
             /\ [st[j] EXCEPT !.mark = "set"].on = st[j].on
             /\ [st[j] EXCEPT !.mark = "set"].next = st[j].next
             /\ [st[j] EXCEPT !.mark = "set"].last = st[j].last
  <2>1. j \in Job /\ st[j] \in JobState
    BY StoreIs
  <2> QED BY <2>1, Remarked
<1>3. new \in Store
  BY <1>1, <1>2 DEF Store
<1>4. \A j \in Job : j \in jobs => new[j] = [st[j] EXCEPT !.mark = "set"]
  BY <1>1
<1>5. \A j \in Job : j \notin jobs => new[j] = st[j]
  BY <1>1
<1> HIDE DEF new
<1>6. ASSUME NEW j \in Job
      PROVE  /\ j \notin jobs => new[j] = st[j]
             /\ st[j] = Absent => new[j] = Absent
             /\ j \in jobs => /\ new[j] # Absent /\ new[j].mark = "set" /\ new[j].on = st[j].on
                              /\ new[j].next = st[j].next /\ new[j].last = st[j].last
  <2>1. CASE j \in jobs
    BY <1>2, <1>4, <2>1, MarkersAssumption
  <2>2. CASE j \notin jobs
    BY <1>5, <2>2
  <2> QED BY <2>1, <2>2
<1> QED BY <1>3, <1>6 DEF new

\* A mark that is set in a store on one job.
LEMMA MarkReturns ==
    ASSUME NEW st \in Store, NEW j \in Job
    PROVE  LET new == IF st[j] # Absent THEN [st EXCEPT ![j].mark = "set"] ELSE st IN
           /\ new \in Store
           /\ \A i \in Job \ {j} : new[i] = st[i]
           /\ st[j] # Absent => /\ new[j] # Absent /\ new[j].mark = "set" /\ new[j].on = st[j].on
                                /\ new[j].next = st[j].next /\ new[j].last = st[j].last
<1>1. CASE st[j] = Absent
  BY <1>1
<1>2. CASE st[j] # Absent
  <2> DEFINE js == [st[j] EXCEPT !.mark = "set"]
  <2>1. /\ js \in JobState /\ js # Absent /\ js.mark = "set" /\ js.on = st[j].on
        /\ js.next = st[j].next /\ js.last = st[j].last
    <3>1. st[j] \in JobState
      BY <1>2, StoreIs
    <3> QED BY <3>1, Remarked, MarkersAssumption
  <2>2. [st EXCEPT ![j].mark = "set"] = [st EXCEPT ![j] = js]
    OBVIOUS
  <2> HIDE DEF js
  <2>3. /\ [st EXCEPT ![j] = js] \in Store /\ [st EXCEPT ![j] = js][j] = js
        /\ \A i \in Job \ {j} : [st EXCEPT ![j] = js][i] = st[i]
    BY <2>1 DEF Store
  <2> QED BY <1>2, <2>1, <2>2, <2>3
<1> QED BY <1>1, <1>2

-----------------------------------------------------------------------------
(* Who has a job *)

LEMMA UnderWayIs ==
    ASSUME NEW j \in Job
    PROVE  UnderWay(j) <=> (\E b \in Batch : Held(b, j)) \/ (\E m \in Manual : ByHand(m, j))
  BY DEF UnderWay, Held, ByHand

LEMMA UnderWayIsPrime ==
    ASSUME NEW j \in Job
    PROVE  UnderWay(j)' <=> (\E b \in Batch : Held(b, j)') \/ (\E m \in Manual : ByHand(m, j)')
  BY DEF UnderWay, Held, ByHand

LEMMA SolePrime ==
    ASSUME NEW j
    PROVE  Sole(j)' <=>
              /\ \A b, c \in Batch : Held(b, j)' /\ Held(c, j)' => b = c
              /\ \A m, n \in Manual : ByHand(m, j)' /\ ByHand(n, j)' => m = n
              /\ \A b \in Batch, m \in Manual : ~(Held(b, j)' /\ ByHand(m, j)')
  BY DEF Sole

\* A step that changes nobody's hold.
LEMMA HoldersStay ==
    ASSUME NEW j \in Job, \A b \in Batch : Held(b, j)' <=> Held(b, j),
           \A m \in Manual : ByHand(m, j)' <=> ByHand(m, j)
    PROVE  (UnderWay(j)' <=> UnderWay(j)) /\ (Sole(j)' <=> Sole(j))
<1>1. UnderWay(j)' <=> UnderWay(j)
  BY UnderWayIs, UnderWayIsPrime
<1>2. Sole(j)' <=> Sole(j)
  BY SolePrime DEF Sole
<1> QED BY <1>1, <1>2

\* A step in which a batch, or a call, takes a job that nobody had.
LEMMA BatchTakes ==
    ASSUME NEW j \in Job, NEW b \in Batch, ~UnderWay(j),
           \A c \in Batch : Held(c, j)' <=> Held(c, j) \/ c = b,
           \A m \in Manual : ByHand(m, j)' <=> ByHand(m, j)
    PROVE  UnderWay(j)' /\ Sole(j)'
  BY UnderWayIs, UnderWayIsPrime, SolePrime

LEMMA CallTakes ==
    ASSUME NEW j \in Job, NEW m \in Manual, ~UnderWay(j),
           \A b \in Batch : Held(b, j)' <=> Held(b, j),
           \A n \in Manual : ByHand(n, j)' <=> ByHand(n, j) \/ n = m
    PROVE  UnderWay(j)' /\ Sole(j)'
  BY UnderWayIs, UnderWayIsPrime, SolePrime

\* A step in which the one that has a job lets it go.
LEMMA BatchReleases ==
    ASSUME NEW j \in Job, NEW b \in Batch, Sole(j), Held(b, j),
           \A c \in Batch : Held(c, j)' <=> Held(c, j) /\ c # b,
           \A m \in Manual : ByHand(m, j)' <=> ByHand(m, j)
    PROVE  ~UnderWay(j)' /\ Sole(j)' /\ \A c \in Batch : ~Held(c, j)'
<1>1. /\ \A c \in Batch : Held(c, j) => c = b
      /\ \A m \in Manual : ~ByHand(m, j)
  BY DEF Sole
<1>2. (\A c \in Batch : ~Held(c, j)') /\ (\A m \in Manual : ~ByHand(m, j)')
  BY <1>1
<1> QED BY <1>2, UnderWayIsPrime, SolePrime

LEMMA CallReleases ==
    ASSUME NEW j \in Job, NEW m \in Manual, Sole(j), ByHand(m, j),
           \A b \in Batch : Held(b, j)' <=> Held(b, j),
           \A n \in Manual : ByHand(n, j)' <=> ByHand(n, j) /\ n # m
    PROVE  ~UnderWay(j)' /\ Sole(j)' /\ \A c \in Batch : ~Held(c, j)'
<1>1. /\ \A c \in Batch : ~Held(c, j)
      /\ \A n \in Manual : ByHand(n, j) => n = m
  BY DEF Sole
<1>2. (\A c \in Batch : ~Held(c, j)') /\ (\A n \in Manual : ~ByHand(n, j)')
  BY <1>1
<1> QED BY <1>2, UnderWayIsPrime, SolePrime

-----------------------------------------------------------------------------
(* Sections *)

\* What a section finds in memory, or loads.
LEMMA LoadedIs ==
    ASSUME CronInv
    PROVE  /\ Loaded \in Store /\ file \in Store
           /\ \A j \in Job : Loaded[j] # Absent => j \in known
           /\ \A j \in Job : file[j] # Absent => j \in known
           /\ \A j \in Job \ upset : /\ MarkTrue(Loaded[j], UnderWay(j), start # "clear")
                                     /\ MarkTrue(file[j], UnderWay(j), start # "clear")
                                     /\ Agree(file[j], Loaded[j]) /\ Sole(j)
           /\ \A j \in done \ upset : /\ Finished(Loaded[j]) /\ Finished(file[j])
                                      /\ \A b \in Batch : ~Held(b, j)
           /\ done \subseteq OneShot /\ OneShot \subseteq Job /\ done \subseteq known /\ known \subseteq Job
           /\ upset \subseteq Job
<1>1. Loaded \in Store /\ file \in Store
  BY DEF CronInv, TypeOK, Loaded
<1>2. \A j \in Job : /\ Loaded[j] # Absent => j \in known
                     /\ file[j] # Absent => j \in known
  BY DEF CronInv, HasId, Loaded
<1>3. ASSUME NEW j \in Job \ upset
      PROVE  /\ MarkTrue(Loaded[j], UnderWay(j), start # "clear")
             /\ MarkTrue(file[j], UnderWay(j), start # "clear")
             /\ Agree(file[j], Loaded[j]) /\ Sole(j)
  <2>1. JobTrue(j)
    BY <1>3 DEF CronInv, JobsTrue
  <2>2. CASE mem = NotLoaded
    BY <2>1, <2>2 DEF JobTrue, Loaded, Agree
  <2>3. CASE mem # NotLoaded
    BY <2>1, <2>3 DEF JobTrue, Loaded
  <2> QED BY <2>2, <2>3
<1>4. ASSUME NEW j \in done \ upset
      PROVE  Finished(Loaded[j]) /\ Finished(file[j]) /\ \A b \in Batch : ~Held(b, j)
  BY <1>4 DEF CronInv, DonesTrue, DoneTrue, Loaded
<1>5. done \subseteq OneShot /\ OneShot \subseteq Job /\ done \subseteq known /\ known \subseteq Job
      /\ upset \subseteq Job
  BY CronAssumption DEF CronInv, TypeOK, HasId
<1> QED BY <1>1, <1>2, <1>3, <1>4, <1>5

\* A write that succeeds, or fails and upsets every job.
LEMMA SaveIs ==
    ASSUME TypeOK, NEW st, NEW ok \in BOOLEAN, Save(st, ok)
    PROVE  /\ mem' = st /\ file' \in {st, file} /\ (ok => file' = st)
           /\ events' \in 0..MaxEvents
<1>1. events \in 0..MaxEvents /\ MaxEvents \in Nat
  BY CronAssumption DEF TypeOK
<1>2. events' = events \/ (events < MaxEvents /\ events' = events + 1)
  BY DEF Save, Event
<1>3. events' \in 0..MaxEvents
  BY <1>1, <1>2
<1> QED BY <1>3 DEF Save, Put

\* A section that ends with st keeps the invariant of each job if st does.
LEMMA SectionKeeps ==
    ASSUME NEW st \in Store, mem' = st, file' \in {st, file}, file' = st \/ upset' = Job,
           \A j \in Job \ upset' : Sole(j)' /\ MarkTrue(st[j], UnderWay(j)', start' # "clear"),
           \A j \in done' \ upset' : Finished(st[j]) /\ \A b \in Batch : ~Held(b, j)',
           done' \subseteq Job
    PROVE  JobsTrue' /\ DonesTrue'
<1>1. CASE upset' = Job
  BY <1>1 DEF JobsTrue, DonesTrue
<1>2. CASE file' = st
  <2>1. ASSUME NEW j \in Job \ upset' PROVE JobTrue(j)'
    <3>1. Agree(st[j], st[j])
      BY DEF Agree
    <3>2. MarkTrue(file[j], UnderWay(j), start # "clear")'
      BY <1>2 DEF MarkTrue
    <3>3. Agree(file[j], mem[j])' /\ MarkTrue(mem[j], UnderWay(j), start # "clear")'
      BY <1>2, <3>1 DEF MarkTrue, Agree
    <3> QED BY <2>1, <3>2, <3>3 DEF JobTrue
  <2>2. ASSUME NEW j \in done' \ upset' PROVE DoneTrue(j)'
    BY <1>2, <2>2 DEF DoneTrue, Finished
  <2> QED BY <2>1, <2>2 DEF JobsTrue, DonesTrue
<1> QED BY <1>1, <1>2

\* Its ids are those of what it has found.
LEMMA IdsKept ==
    ASSUME CronInv, NEW st \in Store, mem' \in {mem, st}, file' \in {st, file},
           known \subseteq known', \A j \in Job : st[j] # Absent => j \in known',
           \A j \in Job : UnderWay(j)' => j \in known', done' \subseteq known'
    PROVE  HasId'
  BY DEF CronInv, HasId

\* A step that leaves the store and every hold alone.
LEMMA StoreStays ==
    ASSUME CronInv, file' = file, mem' = mem, upset' = upset, done' = done,
           start' # "clear" <=> start # "clear",
           \A j \in Job, b \in Batch : Held(b, j)' <=> Held(b, j),
           \A j \in Job, m \in Manual : ByHand(m, j)' <=> ByHand(m, j)
    PROVE  /\ JobsTrue' /\ DonesTrue'
           /\ \A j \in Job : UnderWay(j)' <=> UnderWay(j)
<1>1. \A j \in Job : (UnderWay(j)' <=> UnderWay(j)) /\ (Sole(j)' <=> Sole(j))
  BY HoldersStay
<1>2. ASSUME NEW j \in Job \ upset PROVE JobTrue(j)'
  <2>1. JobTrue(j)
    BY DEF CronInv, JobsTrue
  <2>2. /\ MarkTrue(file[j], UnderWay(j), start # "clear")
        /\ mem # NotLoaded => Agree(file[j], mem[j]) /\ MarkTrue(mem[j], UnderWay(j), start # "clear")
    BY <2>1 DEF JobTrue
  <2>3. Sole(j)'
    BY <1>1, <2>1 DEF JobTrue
  <2>4. MarkTrue(file[j], UnderWay(j), start # "clear")'
    BY <1>1, <2>2 DEF MarkTrue
  <2>5. mem # NotLoaded => Agree(file[j], mem[j])' /\ MarkTrue(mem[j], UnderWay(j), start # "clear")'
    BY <1>1, <2>2 DEF MarkTrue, Agree
  <2> QED BY <2>3, <2>4, <2>5 DEF JobTrue
<1>3. ASSUME NEW j \in done \ upset PROVE DoneTrue(j)'
  <2>1. DoneTrue(j) /\ j \in Job
    BY CronAssumption DEF CronInv, DonesTrue, TypeOK
  <2> QED BY <2>1 DEF DoneTrue, Finished
<1> QED BY <1>1, <1>2, <1>3 DEF JobsTrue, DonesTrue

\* The maintenance of a store keeps the truth of its marks.
LEMMA MaintainKeeps ==
    ASSUME NEW st \in Store, NEW j \in Job
    PROVE  /\ \A busy, cleared \in BOOLEAN :
                 MarkTrue(st[j], busy, cleared) => MarkTrue(Maintain(st)[j], busy, cleared)
           /\ j \in OneShot /\ Finished(st[j]) => Finished(Maintain(st)[j])
           /\ Maintain(st)[j] # Absent => st[j] # Absent
<1>1. CASE st[j] = Absent
  BY <1>1, MaintainIs DEF MarkTrue, Finished
<1>2. CASE st[j] # Absent
  BY <1>2, MaintainIs, TendedKeeps
<1> QED BY <1>1, <1>2

LEMMA RecomputeKeeps ==
    ASSUME NEW st \in Store, NEW j \in Job
    PROVE  /\ \A busy, cleared \in BOOLEAN :
                 MarkTrue(st[j], busy, cleared) => MarkTrue(Recompute(st)[j], busy, cleared)
           /\ j \in OneShot /\ Finished(st[j]) => Finished(Recompute(st)[j])
           /\ Recompute(st)[j] # Absent => st[j] # Absent
<1>1. CASE st[j] = Absent
  BY <1>1, RecomputeIs DEF MarkTrue, Finished
<1>2. CASE st[j] # Absent
  BY <1>2, RecomputeIs, TendedKeeps
<1> QED BY <1>1, <1>2

\* Jobs of the store st that a batch may start: not marked, and with a date.
Startable(st, jobs) ==
    /\ jobs \subseteq Job
    /\ \A j \in jobs : st[j] # Absent /\ st[j].on /\ st[j].mark = "no" /\ st[j].next # "none"
    /\ \A j \in Job : st[j] # Absent => j \in known
    /\ \A j \in Job \ upset : MarkTrue(st[j], UnderWay(j), start # "clear") /\ Sole(j)
    /\ \A j \in done \ upset : Finished(st[j]) /\ \A c \in Batch : ~Held(c, j)

\* What holds once batch b has started them, and new is the store with their marks.
Started(b, new) ==
    /\ new \in Store /\ \A j \in Job : new[j] # Absent => j \in known
    /\ \A j \in Job : UnderWay(j)' => j \in known
    /\ \A j \in Job \ upset : Sole(j)' /\ MarkTrue(new[j], UnderWay(j)', start' # "clear")
    /\ \A j \in done \ upset : Finished(new[j]) /\ \A c \in Batch : ~Held(c, j)'
    /\ batch' \in [Batch -> [todo : SUBSET Job, running : SUBSET Job,
                             result : [Job -> Status \cup {"none"}]]]
    /\ batch'[b].running = {} /\ \A j \in Job : batch'[b].result[j] = "none"
    /\ \A c \in Batch \ {b} : batch'[c] = batch[c]

LEMMA BatchStarts ==
    ASSUME CronInv, NEW b \in Batch, batch[b] = NoBatch, NEW st \in Store, NEW jobs,
           Startable(st, jobs), batch' = [batch EXCEPT ![b].todo = jobs], man' = man,
           start' # "clear" <=> start # "clear"
    PROVE  Started(b, WithMark(st, jobs))
<1>0. /\ jobs \in SUBSET Job
      /\ \A j \in jobs : st[j] # Absent /\ st[j].on /\ st[j].mark = "no" /\ st[j].next # "none"
      /\ \A j \in Job : st[j] # Absent => j \in known
      /\ \A j \in Job \ upset : MarkTrue(st[j], UnderWay(j), start # "clear") /\ Sole(j)
      /\ \A j \in done \ upset : Finished(st[j]) /\ \A c \in Batch : ~Held(c, j)
  BY DEF Startable
<1> DEFINE new == WithMark(st, jobs)
<1>1. /\ new \in Store
      /\ \A j \in Job :
            /\ j \notin jobs => new[j] = st[j]
            /\ st[j] = Absent => new[j] = Absent
            /\ j \in jobs => /\ new[j] # Absent /\ new[j].mark = "set" /\ new[j].on = st[j].on
                             /\ new[j].next = st[j].next /\ new[j].last = st[j].last
  BY <1>0, WithMarkIs
<1> HIDE DEF new
<1>2. batch \in [Batch -> [todo : SUBSET Job, running : SUBSET Job,
                           result : [Job -> Status \cup {"none"}]]]
  BY DEF CronInv, TypeOK
<1>3. /\ batch' \in [Batch -> [todo : SUBSET Job, running : SUBSET Job,
                               result : [Job -> Status \cup {"none"}]]]
      /\ batch'[b].todo = jobs /\ batch'[b].running = batch[b].running
      /\ batch'[b].result = batch[b].result /\ \A c \in Batch \ {b} : batch'[c] = batch[c]
  BY <1>0, <1>2
<1>4. batch[b].running = {} /\ batch[b].todo = {} /\ \A j \in Job : batch[b].result[j] = "none"
  BY DEF NoBatch, NoResults
<1>5. ASSUME NEW j \in Job
      PROVE  /\ \A c \in Batch : Held(c, j)' <=> Held(c, j) \/ (c = b /\ j \in jobs)
             /\ \A m \in Manual : ByHand(m, j)' <=> ByHand(m, j)
  BY <1>3, <1>4 DEF Held, ByHand
<1>6. ASSUME NEW j \in Job, j \notin jobs
      PROVE  (UnderWay(j)' <=> UnderWay(j)) /\ (Sole(j)' <=> Sole(j))
  BY <1>5, <1>6, HoldersStay
<1>7. ASSUME NEW j \in jobs, j \notin upset
      PROVE  UnderWay(j)' /\ Sole(j)'
  <2>1. ~UnderWay(j)
    BY <1>0, <1>7 DEF MarkTrue
  <2> QED BY <1>0, <1>5, <1>7, <2>1, BatchTakes
<1>8. ASSUME NEW j \in Job, UnderWay(j)' PROVE j \in known
  <2>1. j \notin jobs => UnderWay(j)
    BY <1>6, <1>8
  <2> QED BY <1>0, <2>1 DEF CronInv, HasId
<1>9. ASSUME NEW j \in Job \ upset
      PROVE  Sole(j)' /\ MarkTrue(new[j], UnderWay(j)', start' # "clear")
  <2>1. CASE j \in jobs
    BY <1>0, <1>1, <1>7, <1>9, <2>1 DEF MarkTrue
  <2>2. CASE j \notin jobs
    BY <1>0, <1>1, <1>6, <1>9, <2>2 DEF MarkTrue
  <2> QED BY <2>1, <2>2
<1>10. ASSUME NEW j \in done \ upset
       PROVE  Finished(new[j]) /\ \A c \in Batch : ~Held(c, j)'
  <2>1. j \in Job
    BY CronAssumption DEF CronInv, TypeOK
  <2>2. j \notin jobs
    BY <1>0, <1>10 DEF Finished
  <2> QED BY <1>0, <1>1, <1>5, <1>10, <2>1, <2>2
<1>11. \A j \in Job : new[j] # Absent => j \in known
  BY <1>0, <1>1
<1>12. Started(b, new)
  BY <1>1, <1>3, <1>4, <1>8, <1>9, <1>10, <1>11 DEF Started
<1> QED BY <1>12 DEF new

\* Ending a batch: the results are applied to the file, and what had one is let go.
LEMMA BatchApplies ==
    ASSUME CronInv, NEW b \in Batch, BatchOver(b), batch' = [batch EXCEPT ![b] = NoBatch],
           man' = man, start' # "clear" <=> start # "clear"
    PROVE  LET result == batch[b].result
               new == ApplyResults(file, result) IN
           /\ new \in Store /\ \A j \in Job : new[j] # Absent => j \in known
           /\ \A j \in Job : UnderWay(j)' => j \in known
           /\ \A j \in Job \ upset : Sole(j)' /\ MarkTrue(new[j], UnderWay(j)', start' # "clear")
           /\ \A j \in (done \cup Succeeded(result)) \ upset :
                 Finished(new[j]) /\ \A c \in Batch : ~Held(c, j)'
           /\ Succeeded(result) \subseteq known
           /\ batch' \in [Batch -> [todo : SUBSET Job, running : SUBSET Job,
                                    result : [Job -> Status \cup {"none"}]]]
           /\ batch'[b] = NoBatch /\ \A c \in Batch \ {b} : batch'[c] = batch[c]
<1> DEFINE result == batch[b].result
           new == ApplyResults(file, result)
<1>1. batch \in [Batch -> [todo : SUBSET Job, running : SUBSET Job,
                           result : [Job -> Status \cup {"none"}]]]
  BY DEF CronInv, TypeOK
<1>2. file \in Store /\ result \in [Job -> Status \cup {"none"}]
  BY <1>1, LoadedIs
<1>3. /\ new \in Store
      /\ \A j \in Job :
            /\ file[j] = Absent => new[j] = Absent
            /\ result[j] = "none" => new[j] = file[j]
            /\ result[j] # "none" => /\ new[j] # Absent => new[j].mark = "no"
                                     /\ j \in OneShot /\ result[j] = "ok" => Finished(new[j])
  BY <1>2, ApplyResultsIs
<1> HIDE DEF new
<1>4. NoBatch \in [todo : SUBSET Job, running : SUBSET Job, result : [Job -> Status \cup {"none"}]]
      /\ NoBatch.todo = {} /\ NoBatch.running = {} /\ \A j \in Job : NoBatch.result[j] = "none"
  BY DEF NoBatch, NoResults
<1>5. /\ batch' \in [Batch -> [todo : SUBSET Job, running : SUBSET Job,
                               result : [Job -> Status \cup {"none"}]]]
      /\ batch'[b] = NoBatch /\ \A c \in Batch \ {b} : batch'[c] = batch[c]
  BY <1>1, <1>4
<1>6. ASSUME NEW j \in Job
      PROVE  /\ Held(b, j) <=> result[j] # "none"
             /\ \A c \in Batch : Held(c, j)' <=> Held(c, j) /\ c # b
             /\ \A m \in Manual : ByHand(m, j)' <=> ByHand(m, j)
  BY <1>4, <1>5 DEF Held, ByHand, BatchOver
<1>7. ASSUME NEW j \in Job, result[j] = "none"
      PROVE  (UnderWay(j)' <=> UnderWay(j)) /\ (Sole(j)' <=> Sole(j))
  BY <1>6, <1>7, HoldersStay
<1>8. ASSUME NEW j \in Job \ upset, result[j] # "none"
      PROVE  ~UnderWay(j)' /\ Sole(j)' /\ \A c \in Batch : ~Held(c, j)'
  <2>1. Sole(j)
    BY LoadedIs
  <2> QED BY <1>6, <1>8, <2>1, BatchReleases
<1>9. ASSUME NEW j \in Job, UnderWay(j)' PROVE j \in known
  <2>1. UnderWay(j)
    BY <1>6, <1>9, UnderWayIs, UnderWayIsPrime
  <2> QED BY <2>1 DEF CronInv, HasId
<1>10. ASSUME NEW j \in Job \ upset
       PROVE  Sole(j)' /\ MarkTrue(new[j], UnderWay(j)', start' # "clear")
  <2>1. CASE result[j] = "none"
    <3>1. Sole(j) /\ MarkTrue(file[j], UnderWay(j), start # "clear")
      BY LoadedIs
    <3> QED BY <1>3, <1>7, <2>1, <3>1 DEF MarkTrue
  <2>2. CASE result[j] # "none"
    BY <1>3, <1>8, <2>2 DEF MarkTrue
  <2> QED BY <2>1, <2>2
<1>11. ASSUME NEW j \in (done \cup Succeeded(result)) \ upset
       PROVE  Finished(new[j]) /\ \A c \in Batch : ~Held(c, j)'
  <2>1. j \in Job
    BY <1>11, CronAssumption DEF CronInv, TypeOK, Succeeded
  <2>2. CASE j \in done
    <3>1. Finished(file[j]) /\ \A c \in Batch : ~Held(c, j)
      BY <1>11, <2>2, LoadedIs
    <3> QED BY <1>3, <1>6, <2>1, <3>1
  <2>3. CASE j \in Succeeded(result)
    <3>1. j \in OneShot /\ result[j] = "ok"
      BY <2>3 DEF Succeeded
    <3> QED BY <1>3, <1>8, <1>11, <2>1, <3>1
  <2> QED BY <1>11, <2>2, <2>3
<1>12. Succeeded(result) \subseteq known
  <2>1. ASSUME NEW j \in Succeeded(result) PROVE j \in known
    <3>1. j \in Job /\ result[j] # "none"
      BY CronAssumption DEF Succeeded
    <3>2. UnderWay(j)
      BY <1>6, <3>1, UnderWayIs
    <3> QED BY <3>1, <3>2 DEF CronInv, HasId
  <2> QED BY <2>1
<1>13. \A j \in Job : new[j] # Absent => j \in known
  BY <1>3, LoadedIs
<1> QED BY <1>3, <1>5, <1>9, <1>10, <1>11, <1>12, <1>13 DEF new

-----------------------------------------------------------------------------
(* The start *)

LEMMA InitCronInv == Init => CronInv
<1> SUFFICES ASSUME Init PROVE CronInv
  OBVIOUS
<1>1. /\ known \in SUBSET Job /\ mem = NotLoaded /\ start = "clear" /\ plan = NoPlan
      /\ file = [j \in Job |-> IF j \in known THEN NewJob ELSE Absent]
      /\ attached = FALSE /\ ticking = "idle" /\ timer = FALSE /\ events = 0
      /\ batch = [b \in Batch |-> NoBatch] /\ man = [m \in Manual |-> Idle]
      /\ upset = {} /\ done = {}
  BY DEF Init
<1>2. NewJob \in JobState /\ NewJob # Absent
  <2>1. NewJob \in JobState
    BY CronAssumption DEF NewJob, JobState
  <2> QED BY <2>1, Fields
<1>3. file \in Store /\ \A j \in Job : file[j] # Absent => j \in known
  BY <1>1, <1>2 DEF Store
<1>4. batch \in [Batch -> [todo : SUBSET Job, running : SUBSET Job,
                           result : [Job -> Status \cup {"none"}]]]
  BY <1>1 DEF NoBatch, NoResults
<1>5. man \in [Manual -> [pc : {"idle", "preflight", "reserve", "exec", "finish", "done"},
                          job : Job \cup {Absent}, result : Status \cup {"none"}]]
  BY <1>1 DEF Idle
<1>6. \A j \in Job : ~UnderWay(j) /\ Sole(j)
  <2>1. ASSUME NEW j \in Job, NEW b \in Batch PROVE ~Held(b, j)
    BY <1>1 DEF Held, NoBatch, NoResults
  <2>2. ASSUME NEW j \in Job, NEW m \in Manual PROVE ~ByHand(m, j)
    BY <1>1 DEF ByHand, Idle
  <2> QED BY <2>1, <2>2, UnderWayIs DEF Sole
<1>7. TypeOK
  <2>1. plan \in [skip : SUBSET Job, deferred : SUBSET Job] /\ events \in 0..MaxEvents
    BY <1>1, CronAssumption DEF NoPlan
  <2> QED BY <1>1, <1>3, <1>4, <1>5, <2>1 DEF TypeOK
<1>8. HasId
  BY <1>1, <1>3, <1>6 DEF HasId
<1>9. PhasesTrue
  <2>1. \A b \in Batch : batch[b] = NoBatch
    BY <1>1
  <2>2. \A b \in Batch : batch[b].todo = {} /\ batch[b].running = {}
    BY <2>1 DEF NoBatch
  <2>3. \A m \in Manual : man[m].pc = "idle"
    BY <1>1 DEF Idle
  <2> QED BY <1>1, <2>1, <2>2, <2>3 DEF PhasesTrue, Batch
<1>10. JobsTrue /\ DonesTrue
  <2>1. \A j \in Job : MarkTrue(file[j], UnderWay(j), start # "clear")
    BY <1>1, <1>6 DEF MarkTrue
  <2> QED BY <1>1, <1>6, <2>1 DEF JobsTrue, JobTrue, DonesTrue
<1> QED BY <1>7, <1>8, <1>9, <1>10 DEF CronInv

\* The marks that are found are cleared, which upsets a run under way.
LEMMA StartClearKeeps == CronInv /\ StartClear => CronInv'
<1> SUFFICES ASSUME CronInv, StartClear PROVE CronInv'
  OBVIOUS
<1> DEFINE st == Loaded
           interrupted == {j \in Job : st[j] # Absent /\ Marked(st[j])}
           new == [j \in Job |-> IF j \in interrupted THEN [st[j] EXCEPT !.mark = "no"] ELSE st[j]]
<1>1. PICK ok \in BOOLEAN :
        /\ Save(new, ok)
        /\ plan' = [NoPlan EXCEPT !.skip = interrupted]
        /\ start' = IF ok THEN "plan" ELSE "failed"
        /\ Upsets({j \in interrupted : UnderWay(j)}, ok)
  BY DEF StartClear
<1>2. /\ start = "clear" /\ attached' = attached /\ ticking' = ticking /\ timer' = timer
      /\ batch' = batch /\ man' = man /\ known' = known /\ done' = done
  BY DEF StartClear
<1>3. st \in Store /\ \A j \in Job : st[j] # Absent => j \in known
  BY LoadedIs
<1> HIDE DEF st
<1>4. ASSUME NEW j \in Job, st[j] # Absent
      PROVE  /\ new[j] \in JobState /\ new[j].mark = "no" /\ new[j].on = st[j].on
             /\ new[j].next = st[j].next /\ new[j].last = st[j].last
  <2>1. st[j] \in JobState
    BY <1>3, <1>4, StoreIs
  <2>2. CASE j \in interrupted
    <3>1. new[j] = [st[j] EXCEPT !.mark = "no"]
      BY <2>2
    <3> HIDE DEF new
    <3>2. /\ [st[j] EXCEPT !.mark = "no"] \in JobState
          /\ [st[j] EXCEPT !.mark = "no"].mark = "no" /\ [st[j] EXCEPT !.mark = "no"].on = st[j].on
          /\ [st[j] EXCEPT !.mark = "no"].next = st[j].next
          /\ [st[j] EXCEPT !.mark = "no"].last = st[j].last
      BY <2>1, Remarked
    <3> QED BY <3>1, <3>2
  <2>3. CASE j \notin interrupted
    <3>1. new[j] = st[j] /\ st[j].mark = "no"
      BY <1>4, <2>3 DEF Marked
    <3> QED BY <2>1, <3>1
  <2> QED BY <2>2, <2>3
<1>5. \A j \in Job : st[j] = Absent => new[j] = Absent
  OBVIOUS
<1>6. new = [j \in Job |-> new[j]]
  OBVIOUS
<1>7. interrupted = {j \in Job : st[j] # Absent /\ Marked(st[j])}
  OBVIOUS
<1> HIDE DEF new, interrupted
<1>8. new \in Store
  <2>1. \A j \in Job : new[j] \in JobState \cup {Absent}
    BY <1>4, <1>5
  <2> QED BY <1>6, <2>1 DEF Store
<1>9. \A j \in Job : new[j] # Absent => j \in known
  BY <1>3, <1>5
<1>10. /\ mem' = new /\ file' \in {new, file} /\ (ok => file' = new) /\ events' \in 0..MaxEvents
  BY <1>1, SaveIs DEF CronInv
<1>11. /\ upset' = IF ok THEN upset \cup {j \in interrupted : UnderWay(j)} ELSE Job
       /\ upset \subseteq upset' /\ upset' \subseteq Job
  BY <1>1, <1>7 DEF Upsets, CronInv, TypeOK
<1>12. \A j \in Job : (UnderWay(j)' <=> UnderWay(j)) /\ (Sole(j)' <=> Sole(j))
                      /\ \A b \in Batch : Held(b, j)' <=> Held(b, j)
  BY <1>2, HoldersStay DEF Held, ByHand
<1>13. TypeOK'
  <2>1. plan' \in [skip : SUBSET Job, deferred : SUBSET Job]
    BY <1>1, <1>7 DEF NoPlan
  <2> QED BY <1>1, <1>2, <1>8, <1>10, <1>11, <2>1 DEF CronInv, TypeOK
<1>14. HasId'
  <2>1. \A j \in Job : UnderWay(j) => j \in known
    BY DEF CronInv, HasId
  <2>2. done \subseteq known
    BY DEF CronInv, HasId
  <2> QED BY <1>2, <1>8, <1>9, <1>10, <1>12, <2>1, <2>2, IdsKept
<1>15. PhasesTrue'
  BY <1>1, <1>2, <1>8, <1>10, MarkersAssumption DEF CronInv, PhasesTrue
<1>16. ASSUME NEW j \in Job \ upset'
       PROVE  Sole(j)' /\ MarkTrue(new[j], UnderWay(j)', start' # "clear")
  <2>1. j \in Job \ upset /\ ok
    BY <1>11, <1>16
  <2>2. Sole(j) /\ MarkTrue(st[j], UnderWay(j), start # "clear")
    BY <2>1, LoadedIs DEF st
  <2>3. st[j] # Absent => ~UnderWay(j)
    BY <1>7, <1>11, <1>16, <2>1, <2>2 DEF MarkTrue, Marked
  <2> QED BY <1>4, <1>5, <1>12, <2>2, <2>3 DEF MarkTrue
<1>17. ASSUME NEW j \in done' \ upset'
       PROVE  Finished(new[j]) /\ \A b \in Batch : ~Held(b, j)'
  <2>1. j \in done \ upset /\ j \in Job
    BY <1>2, <1>11, <1>17, CronAssumption DEF CronInv, TypeOK
  <2>2. Finished(st[j]) /\ \A b \in Batch : ~Held(b, j)
    BY <2>1, LoadedIs DEF st
  <2> QED BY <1>4, <1>5, <1>12, <2>1, <2>2 DEF Finished
<1>18. JobsTrue' /\ DonesTrue'
  <2>1. done' \subseteq Job
    BY <1>2, CronAssumption DEF CronInv, TypeOK
  <2> QED BY <1>8, <1>10, <1>11, <1>16, <1>17, <2>1, SectionKeeps
<1> QED BY <1>13, <1>14, <1>15, <1>18 DEF CronInv

\* What the catch-up takes is not marked and has a date.
LEMMA StartPlanKeeps == CronInv /\ StartPlan => CronInv'
<1> SUFFICES ASSUME CronInv, StartPlan PROVE CronInv'
  OBVIOUS
<1> DEFINE st == Loaded
<1>1. /\ start = "plan" /\ ticking' = ticking /\ timer' = timer /\ man' = man
      /\ known' = known /\ done' = done
  BY DEF StartPlan
<1>2. PICK more \in SUBSET MayHaveMissed(st, plan.skip) :
        LET missed == Missed(st, plan.skip) \cup more IN
        \/ /\ missed = {} /\ start' = "recompute" /\ plan' = NoPlan
           /\ UNCHANGED <<store, batch, events, upset>>
        \/ /\ missed # {}
           /\ \E now \in SUBSET missed, ok \in BOOLEAN :
                 /\ Save(WithMark(st, now), ok)
                 /\ plan' = [skip |-> {}, deferred |-> missed \ now]
                 /\ start' = IF ok THEN "catchup" ELSE "failed"
                 /\ batch' = IF ok THEN [batch EXCEPT !["catchup"].todo = now] ELSE batch
                 /\ Upsets({}, ok)
           /\ UNCHANGED attached
  BY DEF StartPlan
<1> DEFINE missed == Missed(st, plan.skip) \cup more
<1>3. /\ st \in Store /\ \A j \in Job : st[j] # Absent => j \in known
      /\ \A j \in Job \ upset : MarkTrue(st[j], UnderWay(j), start # "clear") /\ Sole(j)
      /\ \A j \in done \ upset : Finished(st[j]) /\ \A b \in Batch : ~Held(b, j)
  BY LoadedIs
<1> HIDE DEF st
<1>4. /\ missed \subseteq Job
      /\ \A j \in missed : st[j] # Absent /\ st[j].on /\ st[j].mark = "no" /\ st[j].next # "none"
  BY <1>2 DEF Missed, MayHaveMissed, Runnable, Marked
<1> HIDE DEF missed
<1>5. NoPlan \in [skip : SUBSET Job, deferred : SUBSET Job]
  BY DEF NoPlan
<1>6. CASE missed = {}
  <2>1. /\ start' = "recompute" /\ plan' = NoPlan /\ file' = file /\ mem' = mem
        /\ attached' = attached /\ batch' = batch /\ events' = events /\ upset' = upset
    BY <1>2, <1>6 DEF store, missed
  <2>2. JobsTrue' /\ DonesTrue' /\ \A j \in Job : UnderWay(j)' <=> UnderWay(j)
    BY <1>1, <2>1, StoreStays DEF Held, ByHand
  <2>3. TypeOK' /\ HasId'
    BY <1>1, <1>5, <2>1, <2>2 DEF CronInv, TypeOK, HasId
  <2>4. PhasesTrue'
    BY <1>1, <2>1 DEF CronInv, PhasesTrue
  <2> QED BY <2>2, <2>3, <2>4 DEF CronInv
<1>7. CASE missed # {}
  <2>1. PICK now \in SUBSET missed, ok \in BOOLEAN :
           /\ Save(WithMark(st, now), ok)
           /\ plan' = [skip |-> {}, deferred |-> missed \ now]
           /\ start' = IF ok THEN "catchup" ELSE "failed"
           /\ batch' = IF ok THEN [batch EXCEPT !["catchup"].todo = now] ELSE batch
           /\ Upsets({}, ok)
           /\ UNCHANGED attached
    BY <1>2, <1>7 DEF missed
  <2> DEFINE new == WithMark(st, now)
  <2>2. plan' \in [skip : SUBSET Job, deferred : SUBSET Job]
    BY <1>4, <2>1
  <2>3. upset' = (IF ok THEN upset ELSE Job) /\ upset' \subseteq Job
    BY <2>1, LoadedIs DEF Upsets
  <2>4. batch["catchup"] = NoBatch /\ "catchup" \in Batch /\ now \in SUBSET Job
    BY <1>1, <1>4 DEF CronInv, PhasesTrue, Batch
  <2>5. new \in Store /\ \A j \in Job : new[j] # Absent => j \in known
    <3>1. \A j \in now : j \in Job /\ st[j] # Absent
      BY <1>4
    <3>2. /\ new \in Store
          /\ \A j \in Job : /\ j \notin now => new[j] = st[j]
                            /\ st[j] = Absent => new[j] = Absent
      BY <1>3, <3>1, WithMarkIs
    <3> QED BY <1>3, <3>2
  <2>6. mem' = new /\ file' \in {new, file} /\ (ok => file' = new) /\ events' \in 0..MaxEvents
    BY <2>1, SaveIs DEF CronInv
  <2> HIDE DEF new
  <2>7. CASE ok
    <3>1. batch' = [batch EXCEPT !["catchup"].todo = now] /\ start' = "catchup" /\ upset' = upset
      BY <2>1, <2>3, <2>7
    <3>2. /\ \A j \in Job : UnderWay(j)' => j \in known
          /\ \A j \in Job \ upset : Sole(j)' /\ MarkTrue(new[j], UnderWay(j)', start' # "clear")
          /\ \A j \in done \ upset : Finished(new[j]) /\ \A c \in Batch : ~Held(c, j)'
          /\ batch' \in [Batch -> [todo : SUBSET Job, running : SUBSET Job,
                                   result : [Job -> Status \cup {"none"}]]]
          /\ batch'["catchup"].running = {} /\ \A j \in Job : batch'["catchup"].result[j] = "none"
          /\ \A c \in Batch \ {"catchup"} : batch'[c] = batch[c]
      <4>1. Startable(st, now)
        BY <1>3, <1>4, <2>4 DEF Startable
      <4>2. start' # "clear" <=> start # "clear"
        BY <1>1, <3>1
      <4>3. Started("catchup", new)
        BY <1>1, <1>3, <2>4, <3>1, <4>1, <4>2, BatchStarts DEF new
      <4> QED BY <4>3 DEF Started
    <3>3. TypeOK'
      BY <1>1, <2>1, <2>2, <2>3, <2>5, <2>6, <3>1, <3>2 DEF CronInv, TypeOK
    <3>4. HasId'
      BY <1>1, <2>5, <2>6, <3>2, LoadedIs, IdsKept
    <3>5. PhasesTrue'
      <4>1. batch'["tick"] = batch["tick"] /\ \A c \in Batch : c = "catchup" \/ batch'[c] = batch[c]
        BY <3>2 DEF Batch
      <4>2. \A j \in batch'["catchup"].todo : j \in Job
        BY <2>4, <3>2
      <4> QED BY <1>1, <2>5, <2>6, <3>1, <3>2, <4>1, <4>2, MarkersAssumption DEF CronInv, PhasesTrue
    <3>6. JobsTrue' /\ DonesTrue'
      <4>1. done' \subseteq Job
        BY <1>1, LoadedIs
      <4> QED BY <1>1, <2>5, <2>6, <2>7, <3>1, <3>2, <4>1, SectionKeeps
    <3> QED BY <3>3, <3>4, <3>5, <3>6 DEF CronInv
  <2>8. CASE ~ok
    <3>1. batch' = batch /\ start' = "failed" /\ upset' = Job
      BY <2>1, <2>3, <2>8
    <3>2. \A j \in Job : UnderWay(j)' <=> UnderWay(j)
      BY <1>1, <3>1, HoldersStay DEF Held, ByHand
    <3>3. TypeOK'
      BY <1>1, <2>1, <2>2, <2>5, <2>6, <3>1 DEF CronInv, TypeOK
    <3>4. HasId'
      <4>1. \A j \in Job : UnderWay(j)' => j \in known
        BY <3>2 DEF CronInv, HasId
      <4> QED BY <1>1, <2>5, <2>6, <4>1, LoadedIs, IdsKept
    <3>5. PhasesTrue'
      BY <1>1, <2>5, <2>6, <3>1, MarkersAssumption DEF CronInv, PhasesTrue
    <3>6. JobsTrue' /\ DonesTrue'
      <4>1. done \subseteq Job
        BY LoadedIs
      <4> QED BY <1>1, <3>1, <4>1 DEF JobsTrue, DonesTrue
    <3> QED BY <3>3, <3>4, <3>5, <3>6 DEF CronInv
  <2> QED BY <2>7, <2>8
<1> QED BY <1>6, <1>7

\* The results of the catch-up, with dates for what it has put off.
LEMMA StartApplyKeeps == CronInv /\ StartApply => CronInv'
<1> SUFFICES ASSUME CronInv, StartApply PROVE CronInv'
  OBVIOUS
<1> DEFINE result == batch["catchup"].result
           applied == ApplyResults(file, result)
           dated == {j \in plan.deferred : applied[j] # Absent /\ applied[j].on}
           st == [j \in Job |-> IF j \in dated THEN [applied[j] EXCEPT !.next = "later"]
                                ELSE applied[j]]
<1>1. /\ start = "catchup" /\ BatchOver("catchup") /\ attached' = FALSE
      /\ batch' = [batch EXCEPT !["catchup"] = NoBatch] /\ plan' = NoPlan
      /\ ticking' = ticking /\ timer' = timer /\ man' = man /\ known' = known
  BY DEF StartApply
<1>2. PICK ok \in BOOLEAN :
         /\ Save(Maintain(st), ok)
         /\ start' = IF ok THEN "recompute" ELSE "failed"
         /\ Upsets({}, ok)
         /\ done' = IF ok THEN (done \cup (Succeeded(result) \ upset)) \ dated ELSE done
  BY DEF StartApply
<1>3. /\ start' # "clear" /\ start # "clear" /\ start' \in {"recompute", "failed"}
      /\ "catchup" \in Batch
  BY <1>1, <1>2 DEF Batch
<1>4. /\ applied \in Store /\ \A j \in Job : applied[j] # Absent => j \in known
      /\ \A j \in Job : UnderWay(j)' => j \in known
      /\ \A j \in Job \ upset : Sole(j)' /\ MarkTrue(applied[j], UnderWay(j)', start' # "clear")
      /\ \A j \in (done \cup Succeeded(result)) \ upset :
            Finished(applied[j]) /\ \A c \in Batch : ~Held(c, j)'
      /\ Succeeded(result) \subseteq known
      /\ batch' \in [Batch -> [todo : SUBSET Job, running : SUBSET Job,
                               result : [Job -> Status \cup {"none"}]]]
      /\ batch'["catchup"] = NoBatch /\ \A c \in Batch \ {"catchup"} : batch'[c] = batch[c]
  BY <1>1, <1>3, BatchApplies
<1> HIDE DEF applied, result
<1>5. dated \subseteq Job
  BY DEF CronInv, TypeOK
<1>6. ASSUME NEW j \in Job
      PROVE  /\ applied[j] = Absent => st[j] = Absent
             /\ j \notin dated => st[j] = applied[j]
             /\ j \in dated => /\ st[j] \in JobState /\ st[j].mark = applied[j].mark
                               /\ st[j].on = applied[j].on /\ applied[j] # Absent
  <2>1. applied[j] \in JobState \cup {Absent}
    BY <1>4, StoreIs
  <2>2. CASE j \in dated
    <3>1. st[j] = [applied[j] EXCEPT !.next = "later"] /\ applied[j] \in JobState
      BY <2>1, <2>2
    <3> HIDE DEF st
    <3>2. /\ [applied[j] EXCEPT !.next = "later"] \in JobState
          /\ [applied[j] EXCEPT !.next = "later"].mark = applied[j].mark
          /\ [applied[j] EXCEPT !.next = "later"].on = applied[j].on
      BY <3>1, Redated
    <3> QED BY <2>2, <3>1, <3>2, Fields
  <2>3. CASE j \notin dated
    BY <2>3
  <2> QED BY <2>2, <2>3
<1>7. st \in Store
  <2>1. st = [j \in Job |-> st[j]]
    OBVIOUS
  <2> HIDE DEF st
  <2>2. \A j \in Job : st[j] \in JobState \cup {Absent}
    BY <1>4, <1>6, StoreIs
  <2> QED BY <2>1, <2>2 DEF Store
<1> HIDE DEF st, dated
<1> DEFINE new == Maintain(st)
<1>8. /\ new \in Store /\ mem' = new /\ file' \in {new, file} /\ (ok => file' = new)
      /\ events' \in 0..MaxEvents
  BY <1>2, <1>7, MaintainIs, SaveIs DEF CronInv
<1>9. upset' = (IF ok THEN upset ELSE Job) /\ upset' \subseteq Job
  BY <1>2, LoadedIs DEF Upsets
<1>10. \A j \in Job : new[j] # Absent => j \in known
  BY <1>4, <1>6, <1>7, MaintainKeeps
<1>11. done' \subseteq known /\ done' \subseteq OneShot /\ done' \subseteq Job
  BY <1>2, <1>4, LoadedIs DEF Succeeded
<1>12. TypeOK'
  <2>1. plan' \in [skip : SUBSET Job, deferred : SUBSET Job]
    BY <1>1 DEF NoPlan
  <2> QED BY <1>1, <1>3, <1>4, <1>8, <1>9, <1>11, <2>1 DEF CronInv, TypeOK
<1>13. HasId'
  BY <1>1, <1>4, <1>8, <1>10, <1>11, IdsKept
<1>14. PhasesTrue'
  <2>1. batch'["tick"] = batch["tick"] /\ \A c \in Batch : c = "catchup" \/ batch'[c] = batch[c]
    BY <1>4 DEF Batch
  <2>2. NoBatch.todo = {} /\ NoBatch.running = {} /\ mem' # NotLoaded
    BY <1>8, MarkersAssumption DEF NoBatch
  <2> QED BY <1>1, <1>3, <1>4, <2>1, <2>2 DEF CronInv, PhasesTrue
<1>15. ASSUME NEW j \in Job \ upset'
       PROVE  Sole(j)' /\ MarkTrue(new[j], UnderWay(j)', start' # "clear")
  <2>1. Sole(j)' /\ MarkTrue(applied[j], UnderWay(j)', start' # "clear")
    BY <1>4, <1>9, <1>15
  <2>2. MarkTrue(st[j], UnderWay(j)', start' # "clear")
    BY <1>6, <2>1 DEF MarkTrue
  <2>3. UnderWay(j)' \in BOOLEAN /\ (start' # "clear") \in BOOLEAN
    BY DEF UnderWay
  <2> QED BY <1>7, <2>1, <2>2, <2>3, MaintainKeeps
<1>16. ASSUME NEW j \in done' \ upset'
       PROVE  Finished(new[j]) /\ \A c \in Batch : ~Held(c, j)'
  <2>1. ok /\ j \in (done \cup Succeeded(result)) \ upset /\ j \notin dated /\ j \in OneShot /\ j \in Job
    BY <1>2, <1>9, <1>11, <1>16
  <2>2. Finished(st[j]) /\ \A c \in Batch : ~Held(c, j)'
    BY <1>4, <1>6, <2>1
  <2> QED BY <1>7, <2>1, <2>2, MaintainKeeps
<1>17. JobsTrue' /\ DonesTrue'
  BY <1>8, <1>9, <1>11, <1>15, <1>16, SectionKeeps
<1> QED BY <1>12, <1>13, <1>14, <1>17 DEF CronInv

\* The start ends: every date is computed again.
LEMMA StartRecomputeKeeps == CronInv /\ StartRecompute => CronInv'
<1> SUFFICES ASSUME CronInv, StartRecompute PROVE CronInv'
  OBVIOUS
<1> DEFINE new == Recompute(file)
<1>1. /\ start = "recompute" /\ attached' = FALSE
      /\ plan' = plan /\ ticking' = ticking /\ batch' = batch /\ man' = man /\ known' = known
      /\ done' = done
  BY DEF StartRecompute
<1>2. PICK ok \in BOOLEAN :
         /\ Save(new, ok)
         /\ start' = IF ok THEN "up" ELSE "failed"
         /\ IF ok THEN Arm(new) ELSE UNCHANGED timer
         /\ Upsets({}, ok)
  BY DEF StartRecompute
<1>3. /\ new \in Store /\ mem' = new /\ file' \in {new, file} /\ (ok => file' = new)
      /\ events' \in 0..MaxEvents
  BY <1>2, LoadedIs, RecomputeIs, SaveIs DEF CronInv
<1>4. upset' = (IF ok THEN upset ELSE Job) /\ upset' \subseteq Job
  BY <1>2, LoadedIs DEF Upsets
<1>5. timer' \in BOOLEAN
  BY <1>2 DEF Arm, CronInv, TypeOK
<1>6. \A j \in Job : (UnderWay(j)' <=> UnderWay(j)) /\ (Sole(j)' <=> Sole(j))
                     /\ \A b \in Batch : Held(b, j)' <=> Held(b, j)
  BY <1>1, HoldersStay DEF Held, ByHand
<1>7. TypeOK'
  BY <1>1, <1>2, <1>3, <1>4, <1>5 DEF CronInv, TypeOK
<1>8. HasId'
  <2>1. \A j \in Job : new[j] # Absent => j \in known
    BY LoadedIs, RecomputeKeeps
  <2>2. \A j \in Job : UnderWay(j)' => j \in known
    BY <1>6 DEF CronInv, HasId
  <2> HIDE DEF new
  <2> QED BY <1>1, <1>3, <2>1, <2>2, LoadedIs, IdsKept
<1>9. PhasesTrue'
  <2>1. mem' # NotLoaded
    BY <1>3, MarkersAssumption
  <2> QED BY <1>1, <1>2, <2>1 DEF CronInv, PhasesTrue
<1>10. ASSUME NEW j \in Job \ upset'
       PROVE  Sole(j)' /\ MarkTrue(new[j], UnderWay(j)', start' # "clear")
  <2>1. Sole(j) /\ MarkTrue(file[j], UnderWay(j), start # "clear")
    BY <1>4, <1>10, LoadedIs
  <2>2. MarkTrue(file[j], UnderWay(j), TRUE) /\ start' # "clear"
    BY <1>1, <1>2, <2>1 DEF MarkTrue
  <2>3. UnderWay(j) \in BOOLEAN /\ TRUE \in BOOLEAN
    BY DEF UnderWay
  <2>4. MarkTrue(new[j], UnderWay(j), TRUE)
    BY <2>2, <2>3, LoadedIs, RecomputeKeeps
  <2> HIDE DEF new
  <2> QED BY <1>6, <2>1, <2>2, <2>4 DEF MarkTrue
<1>11. ASSUME NEW j \in done' \ upset'
       PROVE  Finished(new[j]) /\ \A c \in Batch : ~Held(c, j)'
  <2>1. j \in done \ upset /\ j \in OneShot /\ j \in Job
    BY <1>1, <1>4, <1>11, LoadedIs
  <2>2. Finished(file[j]) /\ \A c \in Batch : ~Held(c, j)
    BY <2>1, LoadedIs
  <2>3. Finished(new[j])
    BY <2>1, <2>2, LoadedIs, RecomputeKeeps
  <2> QED BY <1>6, <2>1, <2>2, <2>3
<1>12. JobsTrue' /\ DonesTrue'
  <2>1. done' \subseteq Job
    BY <1>1, LoadedIs
  <2> HIDE DEF new
  <2> QED BY <1>3, <1>4, <1>10, <1>11, <2>1, SectionKeeps
<1> QED BY <1>7, <1>8, <1>9, <1>12 DEF CronInv

-----------------------------------------------------------------------------
(* The timer *)

\* Steps between the sections of the timer, and the ends of runs, which change no hold.
LEMMA TimerKeeps == CronInv /\ (TickFindsRunning \/ TickBegins \/ TickFinal) => CronInv'
<1> SUFFICES ASSUME CronInv, TickFindsRunning \/ TickBegins \/ TickFinal PROVE CronInv'
  OBVIOUS
<1>1. /\ file' = file /\ mem' = mem /\ attached' = attached /\ start' = start /\ plan' = plan
      /\ batch' = batch /\ man' = man /\ known' = known /\ events' = events
      /\ upset' = upset /\ done' = done
      /\ ticking' \in {"idle", "reserve", ticking}
      /\ (ticking' # ticking => ticking # "work")
      /\ timer' \in BOOLEAN
  BY DEF TickFindsRunning, TickBegins, TickFinal, Arm, store, CronInv, TypeOK
<1>2. JobsTrue' /\ DonesTrue' /\ \A j \in Job : UnderWay(j)' <=> UnderWay(j)
  BY <1>1, StoreStays DEF Held, ByHand
<1>3. TypeOK' /\ HasId'
  BY <1>1, <1>2 DEF CronInv, TypeOK, HasId
<1>4. PhasesTrue'
  BY <1>1 DEF CronInv, PhasesTrue
<1> QED BY <1>2, <1>3, <1>4 DEF CronInv

\* The timer takes the jobs of the file that are due and not marked.
LEMMA TickReserveKeeps == CronInv /\ TickReserve => CronInv'
<1> SUFFICES ASSUME CronInv, TickReserve PROVE CronInv'
  OBVIOUS
<1> DEFINE due == TickDue(file)
           st == IF due = {} THEN Maintain(file) ELSE WithMark(file, due)
<1>1. PICK ok \in BOOLEAN :
         /\ Save(st, ok)
         /\ ticking' = IF ok /\ due # {} THEN "work" ELSE "final"
         /\ batch' = IF ok THEN [batch EXCEPT !["tick"].todo = due] ELSE batch
         /\ Upsets({}, ok)
  BY DEF TickReserve
<1>2. /\ ticking = "reserve" /\ attached' = TRUE
      /\ start' = start /\ plan' = plan /\ timer' = timer /\ man' = man /\ known' = known
      /\ done' = done
  BY DEF TickReserve
<1>3. /\ due \subseteq Job /\ file \in Store /\ "tick" \in Batch /\ batch["tick"] = NoBatch
      /\ \A j \in due : file[j] # Absent /\ file[j].on /\ file[j].mark = "no" /\ file[j].next # "none"
  BY <1>2, LoadedIs DEF CronInv, PhasesTrue, Batch, TickDue, Runnable, Marked
<1> HIDE DEF due
<1>4. st \in Store /\ \A j \in Job : st[j] # Absent => j \in known
  <2>1. CASE due = {}
    BY <1>3, <2>1, LoadedIs, MaintainIs
  <2>2. CASE due # {}
    <3>1. \A j \in due : j \in Job /\ file[j] # Absent
      BY <1>3
    <3>2. /\ WithMark(file, due) \in Store
          /\ \A j \in Job : file[j] = Absent => WithMark(file, due)[j] = Absent
      BY <1>3, <3>1, WithMarkIs
    <3> QED BY <2>2, <3>2, LoadedIs
  <2> QED BY <2>1, <2>2
<1>5. mem' = st /\ file' \in {st, file} /\ (ok => file' = st) /\ events' \in 0..MaxEvents
  BY <1>1, SaveIs DEF CronInv
<1>6. upset' = (IF ok THEN upset ELSE Job) /\ upset' \subseteq Job
  BY <1>1, LoadedIs DEF Upsets
<1>7. CASE ok /\ due # {}
  <2>1. Startable(file, due)
    BY <1>3, LoadedIs DEF Startable
  <2>2. batch' = [batch EXCEPT !["tick"].todo = due] /\ upset' = upset /\ file' = st
    BY <1>1, <1>5, <1>6, <1>7
  <2>3. Started("tick", WithMark(file, due))
    BY <1>2, <1>3, <2>1, <2>2, BatchStarts
  <2>4. Started("tick", st)
    BY <1>7, <2>3
  <2> HIDE DEF st
  <2>5. TypeOK'
    BY <1>1, <1>2, <1>4, <1>5, <1>6, <2>4 DEF CronInv, TypeOK, Started
  <2>6. HasId'
    BY <1>2, <1>4, <1>5, <2>4, LoadedIs, IdsKept DEF Started
  <2>7. PhasesTrue'
    <3>1. /\ batch'["catchup"] = batch["catchup"] /\ \A c \in Batch : c = "tick" \/ batch'[c] = batch[c]
          /\ batch'["tick"].running = {} /\ \A j \in Job : batch'["tick"].result[j] = "none"
          /\ batch'["tick"].todo \subseteq Job
      BY <2>4 DEF Started, Batch
    <3>2. st # NotLoaded
      BY <1>4, MarkersAssumption
    <3> QED BY <1>1, <1>2, <1>5, <1>7, <3>1, <3>2 DEF CronInv, PhasesTrue
  <2>8. JobsTrue' /\ DonesTrue'
    <3>1. done' \subseteq Job
      BY <1>2, LoadedIs
    <3> QED BY <1>2, <1>4, <1>5, <2>2, <2>4, <3>1, SectionKeeps DEF Started
  <2> QED BY <2>5, <2>6, <2>7, <2>8 DEF CronInv
<1>8. CASE ~(ok /\ due # {})
  <2>1. batch' = batch
    <3>1. CASE ok
      <4>1. batch' = [batch EXCEPT !["tick"].todo = {}] /\ batch["tick"].todo = {}
        <5>1. due = {}
          BY <1>8, <3>1
        <5>2. batch' = [batch EXCEPT !["tick"].todo = due]
          BY <1>1, <3>1
        <5> QED BY <1>3, <5>1, <5>2 DEF NoBatch
      <4>2. batch \in [Batch -> [todo : SUBSET Job, running : SUBSET Job,
                                 result : [Job -> Status \cup {"none"}]]]
        BY DEF CronInv, TypeOK
      <4> QED BY <4>1, <4>2
    <3>2. CASE ~ok
      BY <1>1, <3>2
    <3> QED BY <3>1, <3>2
  <2>2. \A j \in Job : (UnderWay(j)' <=> UnderWay(j)) /\ (Sole(j)' <=> Sole(j))
                       /\ \A b \in Batch : Held(b, j)' <=> Held(b, j)
    BY <1>2, <2>1, HoldersStay DEF Held, ByHand
  <2>3. TypeOK'
    <3> HIDE DEF st
    <3> QED BY <1>1, <1>2, <1>4, <1>5, <1>6, <2>1 DEF CronInv, TypeOK
  <2>4. HasId'
    <3>1. \A j \in Job : UnderWay(j)' => j \in known
      BY <2>2 DEF CronInv, HasId
    <3> HIDE DEF st
    <3> QED BY <1>2, <1>4, <1>5, <3>1, LoadedIs, IdsKept
  <2>5. PhasesTrue'
    <3>1. st # NotLoaded
      BY <1>4, MarkersAssumption
    <3> HIDE DEF st
    <3> QED BY <1>1, <1>2, <1>5, <2>1, <3>1 DEF CronInv, PhasesTrue
  <2>6. JobsTrue' /\ DonesTrue'
    <3>1. CASE ~ok
      <4>1. upset' = Job /\ done' \subseteq Job
        BY <1>2, <1>6, <3>1, LoadedIs
      <4> QED BY <4>1 DEF JobsTrue, DonesTrue
    <3>2. CASE ok
      <4>1. st = Maintain(file) /\ upset' = upset /\ file' = st
        BY <1>5, <1>6, <1>8, <3>2
      <4>2. ASSUME NEW j \in Job \ upset
            PROVE  Sole(j)' /\ MarkTrue(st[j], UnderWay(j)', start' # "clear")
        <5>1. Sole(j) /\ MarkTrue(file[j], UnderWay(j), start # "clear")
          BY LoadedIs
        <5>2. MarkTrue(file[j], UnderWay(j)', start' # "clear")
          BY <1>2, <2>2, <5>1 DEF MarkTrue
        <5>3. UnderWay(j)' \in BOOLEAN /\ (start' # "clear") \in BOOLEAN
          BY DEF UnderWay
        <5> QED BY <1>3, <2>2, <4>1, <5>1, <5>2, <5>3, MaintainKeeps
      <4>3. ASSUME NEW j \in done \ upset
            PROVE  Finished(st[j]) /\ \A b \in Batch : ~Held(b, j)'
        <5>1. j \in OneShot /\ j \in Job /\ Finished(file[j]) /\ \A b \in Batch : ~Held(b, j)
          BY LoadedIs
        <5> QED BY <1>3, <2>2, <4>1, <5>1, MaintainKeeps
      <4>4. done' = done /\ done' \subseteq Job
        BY <1>2, LoadedIs
      <4> HIDE DEF st
      <4> QED BY <1>4, <1>5, <4>1, <4>2, <4>3, <4>4, SectionKeeps
    <3> QED BY <3>1, <3>2
  <2> QED BY <2>3, <2>4, <2>5, <2>6 DEF CronInv
<1> QED BY <1>7, <1>8

\* The results of the batch of the timer.
LEMMA TickApplyKeeps == CronInv /\ TickApply => CronInv'
<1> SUFFICES ASSUME CronInv, TickApply PROVE CronInv'
  OBVIOUS
<1> DEFINE result == batch["tick"].result
           applied == ApplyResults(file, result)
           new == Maintain(applied)
<1>1. /\ ticking = "work" /\ BatchOver("tick") /\ ticking' = "final" /\ attached' = FALSE
      /\ batch' = [batch EXCEPT !["tick"] = NoBatch] /\ "tick" \in Batch
      /\ start' = start /\ plan' = plan /\ timer' = timer /\ man' = man /\ known' = known
  BY DEF TickApply, Batch
<1>2. PICK ok \in BOOLEAN : Save(new, ok) /\ Upsets({}, ok) /\ Done(Succeeded(result), ok)
  BY DEF TickApply
<1>3. /\ applied \in Store /\ \A j \in Job : applied[j] # Absent => j \in known
      /\ \A j \in Job : UnderWay(j)' => j \in known
      /\ \A j \in Job \ upset : Sole(j)' /\ MarkTrue(applied[j], UnderWay(j)', start' # "clear")
      /\ \A j \in (done \cup Succeeded(result)) \ upset :
            Finished(applied[j]) /\ \A c \in Batch : ~Held(c, j)'
      /\ Succeeded(result) \subseteq known
      /\ batch' \in [Batch -> [todo : SUBSET Job, running : SUBSET Job,
                               result : [Job -> Status \cup {"none"}]]]
      /\ batch'["tick"] = NoBatch /\ \A c \in Batch \ {"tick"} : batch'[c] = batch[c]
  BY <1>1, BatchApplies
<1> HIDE DEF applied, result
<1>4. /\ new \in Store /\ mem' = new /\ file' \in {new, file} /\ (ok => file' = new)
      /\ events' \in 0..MaxEvents
  BY <1>2, <1>3, MaintainIs, SaveIs DEF CronInv
<1>5. upset' = (IF ok THEN upset ELSE Job) /\ upset' \subseteq Job
  BY <1>2, LoadedIs DEF Upsets
<1>6. \A j \in Job : new[j] # Absent => j \in known
  BY <1>3, MaintainKeeps
<1>7. /\ done' = IF ok THEN done \cup (Succeeded(result) \ upset) ELSE done
      /\ done' \subseteq known /\ done' \subseteq OneShot /\ done' \subseteq Job
  BY <1>2, <1>3, LoadedIs DEF Succeeded, Done
<1>8. ASSUME NEW j \in Job \ upset'
      PROVE  Sole(j)' /\ MarkTrue(new[j], UnderWay(j)', start' # "clear")
  <2>1. Sole(j)' /\ MarkTrue(applied[j], UnderWay(j)', start' # "clear")
    BY <1>3, <1>5, <1>8
  <2>2. UnderWay(j)' \in BOOLEAN /\ (start' # "clear") \in BOOLEAN
    BY DEF UnderWay
  <2>3. \A busy, cleared \in BOOLEAN :
           MarkTrue(applied[j], busy, cleared) => MarkTrue(new[j], busy, cleared)
    BY <1>3, MaintainKeeps
  <2>4. MarkTrue(applied[j], UnderWay(j)', start' # "clear")
    BY <2>1
  <2> HIDE DEF new
  <2> QED BY <2>1, <2>2, <2>3, <2>4
<1>9. ASSUME NEW j \in done' \ upset'
      PROVE  Finished(new[j]) /\ \A c \in Batch : ~Held(c, j)'
  <2>1. j \in (done \cup Succeeded(result)) \ upset /\ j \in OneShot /\ j \in Job
    BY <1>5, <1>7, <1>9
  <2>2. Finished(applied[j]) /\ \A c \in Batch : ~Held(c, j)'
    BY <1>3, <2>1
  <2> QED BY <1>3, <2>1, <2>2, MaintainKeeps
<1> HIDE DEF new
<1>10. TypeOK'
  BY <1>1, <1>3, <1>4, <1>5, <1>7 DEF CronInv, TypeOK
<1>11. HasId'
  BY <1>1, <1>3, <1>4, <1>6, <1>7, IdsKept
<1>12. PhasesTrue'
  <2>1. batch'["catchup"] = batch["catchup"] /\ \A c \in Batch : c = "tick" \/ batch'[c] = batch[c]
    BY <1>3 DEF Batch
  <2>2. NoBatch.todo = {} /\ NoBatch.running = {} /\ new # NotLoaded
    BY <1>4, MarkersAssumption DEF NoBatch
  <2> QED BY <1>1, <1>3, <1>4, <2>1, <2>2 DEF CronInv, PhasesTrue
<1>13. JobsTrue' /\ DonesTrue'
  BY <1>4, <1>5, <1>7, <1>8, <1>9, SectionKeeps
<1> QED BY <1>10, <1>11, <1>12, <1>13 DEF CronInv

\* Memory is read, or changed, without the file.
LEMMA MemoryKeeps ==
    ASSUME CronInv, NEW st \in Store, mem' = st, file' = file, upset' = upset, done' = done,
           known' = known, start' # "clear" <=> start # "clear",
           \A j \in Job, b \in Batch : Held(b, j)' <=> Held(b, j),
           \A j \in Job, m \in Manual : ByHand(m, j)' <=> ByHand(m, j),
           \A j \in Job : st[j] # Absent => j \in known,
           \A j \in Job \ upset : MarkTrue(st[j], UnderWay(j), start # "clear") /\ Agree(file[j], st[j]),
           \A j \in done \ upset : Finished(st[j])
    PROVE  HasId' /\ JobsTrue' /\ DonesTrue'
<1>1. \A j \in Job : (UnderWay(j)' <=> UnderWay(j)) /\ (Sole(j)' <=> Sole(j))
  BY HoldersStay
<1>2. HasId'
  BY <1>1 DEF CronInv, HasId
<1>3. ASSUME NEW j \in Job \ upset PROVE JobTrue(j)'
  <2>1. Sole(j) /\ MarkTrue(file[j], UnderWay(j), start # "clear")
    BY LoadedIs
  <2>2. MarkTrue(file[j], UnderWay(j), start # "clear")'
    BY <1>1, <2>1 DEF MarkTrue
  <2>3. Agree(file[j], mem[j])'
    BY DEF Agree
  <2>4. MarkTrue(mem[j], UnderWay(j), start # "clear")'
    BY <1>1 DEF MarkTrue
  <2> QED BY <1>1, <2>1, <2>2, <2>3, <2>4 DEF JobTrue
<1>4. ASSUME NEW j \in done \ upset PROVE DoneTrue(j)'
  <2>1. j \in Job /\ Finished(file[j]) /\ \A b \in Batch : ~Held(b, j)
    BY LoadedIs
  <2> QED BY <2>1 DEF DoneTrue, Finished
<1> QED BY <1>2, <1>3, <1>4 DEF JobsTrue, DonesTrue

\* A run begins: in a batch of the timer the mark of the job is set in memory, where it is.
LEMMA RunBeginsKeeps ==
    ASSUME CronInv, NEW b \in Batch, NEW j \in Job, RunBegins(b, j)
    PROVE  CronInv'
<1>1. /\ j \in batch[b].todo
      /\ batch' = [batch EXCEPT ![b].todo = @ \ {j}, ![b].running = @ \cup {j}]
      /\ mem' = IF b = "tick" /\ attached /\ mem[j] # Absent
                THEN [mem EXCEPT ![j].mark = "set"] ELSE mem
      /\ file' = file /\ attached' = attached /\ start' = start /\ plan' = plan
      /\ ticking' = ticking /\ timer' = timer /\ man' = man /\ known' = known
      /\ events' = events /\ upset' = upset /\ done' = done
  BY DEF RunBegins
<1>2. batch \in [Batch -> [todo : SUBSET Job, running : SUBSET Job,
                           result : [Job -> Status \cup {"none"}]]]
  BY DEF CronInv, TypeOK
<1>3. /\ batch' \in [Batch -> [todo : SUBSET Job, running : SUBSET Job,
                               result : [Job -> Status \cup {"none"}]]]
      /\ batch'[b].todo = batch[b].todo \ {j} /\ batch'[b].running = batch[b].running \cup {j}
      /\ batch'[b].result = batch[b].result /\ \A c \in Batch \ {b} : batch'[c] = batch[c]
  BY <1>1, <1>2
<1>4. batch[b] # NoBatch
  BY <1>1 DEF NoBatch
<1>5. ASSUME NEW i \in Job
      PROVE  /\ \A c \in Batch : Held(c, i)' <=> Held(c, i)
             /\ (UnderWay(i)' <=> UnderWay(i)) /\ (Sole(i)' <=> Sole(i))
  <2>1. \A c \in Batch : Held(c, i)' <=> Held(c, i)
    BY <1>1, <1>3 DEF Held
  <2>2. \A m \in Manual : ByHand(m, i)' <=> ByHand(m, i)
    BY <1>1 DEF ByHand
  <2> QED BY <2>1, <2>2, HoldersStay
<1>6. Held(b, j) /\ UnderWay(j)
  BY <1>1, UnderWayIs DEF Held
<1>7. PhasesTrue'
  <2>1. \A i \in batch[b].todo : i \notin batch[b].running /\ batch[b].result[i] = "none"
    BY DEF CronInv, PhasesTrue
  <2>2. \A i \in batch[b].running : batch[b].result[i] = "none"
    BY DEF CronInv, PhasesTrue
  <2>3. /\ \A i \in batch'[b].todo : i \notin batch'[b].running /\ batch'[b].result[i] = "none"
        /\ \A i \in batch'[b].running : batch'[b].result[i] = "none"
    BY <1>1, <1>3, <2>1, <2>2
  <2>4. /\ ticking # "work" => batch'["tick"] = NoBatch
        /\ start # "catchup" => batch'["catchup"] = NoBatch
    BY <1>3, <1>4 DEF CronInv, PhasesTrue, Batch
  <2>5. mem' = NotLoaded => mem = NotLoaded
    <3>1. mem # NotLoaded => mem \in Store
      BY DEF CronInv, TypeOK
    <3>2. mem # NotLoaded => mem' \in Store
      BY <1>1, <3>1, MarkReturns
    <3> QED BY <3>2, MarkersAssumption
  <2> QED BY <1>1, <1>3, <2>3, <2>4, <2>5 DEF CronInv, PhasesTrue
<1>8. CASE mem' = mem
  <2>1. JobsTrue' /\ DonesTrue'
    BY <1>1, <1>5, <1>8, StoreStays DEF ByHand
  <2>2. TypeOK' /\ HasId'
    BY <1>1, <1>3, <1>5, <1>8 DEF CronInv, TypeOK, HasId
  <2> QED BY <1>7, <2>1, <2>2 DEF CronInv
<1>9. CASE mem' # mem
  <2>1. mem \in Store /\ mem = Loaded /\ mem[j] # Absent
    BY <1>1, <1>9 DEF CronInv, TypeOK, PhasesTrue, Loaded
  <2>2. /\ mem' \in Store
        /\ \A i \in Job \ {j} : mem'[i] = mem[i]
        /\ mem'[j] # Absent /\ mem'[j].mark = "set" /\ mem'[j].on = mem[j].on
        /\ mem'[j].next = mem[j].next /\ mem'[j].last = mem[j].last
    BY <1>1, <1>9, <2>1, MarkReturns
  <2>3. \A i \in Job : mem'[i] # Absent => i \in known
    BY <2>1, <2>2, LoadedIs
  <2>4. ASSUME NEW i \in Job \ upset
        PROVE  MarkTrue(mem'[i], UnderWay(i), start # "clear") /\ Agree(file[i], mem'[i])
    <3>1. MarkTrue(mem[i], UnderWay(i), start # "clear") /\ Agree(file[i], mem[i])
      BY <2>1, LoadedIs
    <3> QED BY <1>6, <2>1, <2>2, <3>1 DEF MarkTrue, Agree
  <2>5. ASSUME NEW i \in done \ upset PROVE Finished(mem'[i])
    <3>1. i \in Job /\ Finished(mem[i])
      BY <2>1, LoadedIs
    <3> QED BY <2>1, <2>2, <3>1 DEF Finished
  <2>6. HasId' /\ JobsTrue' /\ DonesTrue'
    <3>1. \A i \in Job, m \in Manual : ByHand(m, i)' <=> ByHand(m, i)
      BY <1>1 DEF ByHand
    <3> QED BY <1>1, <1>5, <2>2, <2>3, <2>4, <2>5, <3>1, MemoryKeeps
  <2>7. TypeOK'
    BY <1>1, <1>3, <2>2 DEF CronInv, TypeOK
  <2> QED BY <1>7, <2>6, <2>7 DEF CronInv
<1> QED BY <1>8, <1>9

\* A run ends: the batch has its result.
LEMMA RunEndsKeeps ==
    ASSUME CronInv, NEW b \in Batch, NEW j \in Job, RunEnds(b, j)
    PROVE  CronInv'
<1>1. PICK status \in Status :
        batch' = [batch EXCEPT ![b].running = @ \ {j}, ![b].result[j] = status]
  BY DEF RunEnds, Ends, Status
<1>2. /\ j \in batch[b].running
      /\ file' = file /\ mem' = mem /\ attached' = attached /\ start' = start /\ plan' = plan
      /\ ticking' = ticking /\ timer' = timer /\ man' = man /\ known' = known
      /\ events' = events /\ upset' = upset /\ done' = done
  BY DEF RunEnds, store
<1>3. batch \in [Batch -> [todo : SUBSET Job, running : SUBSET Job,
                           result : [Job -> Status \cup {"none"}]]]
  BY DEF CronInv, TypeOK
<1>4. /\ batch' \in [Batch -> [todo : SUBSET Job, running : SUBSET Job,
                               result : [Job -> Status \cup {"none"}]]]
      /\ batch'[b].todo = batch[b].todo /\ batch'[b].running = batch[b].running \ {j}
      /\ batch'[b].result[j] = status
      /\ \A i \in Job \ {j} : batch'[b].result[i] = batch[b].result[i]
      /\ \A c \in Batch \ {b} : batch'[c] = batch[c]
  BY <1>1, <1>3
<1>5. status # "none" /\ batch[b] # NoBatch
  BY <1>2 DEF Status, NoBatch
<1>6. /\ \A i \in Job, c \in Batch : Held(c, i)' <=> Held(c, i)
      /\ \A i \in Job, m \in Manual : ByHand(m, i)' <=> ByHand(m, i)
  <2>1. \A i \in Job : Held(b, i)' <=> Held(b, i)
    BY <1>2, <1>4, <1>5 DEF Held
  <2>2. \A i \in Job, c \in Batch : c # b => (Held(c, i)' <=> Held(c, i))
    BY <1>4 DEF Held
  <2> QED BY <1>2, <2>1, <2>2 DEF ByHand
<1>7. JobsTrue' /\ DonesTrue' /\ \A i \in Job : UnderWay(i)' <=> UnderWay(i)
  BY <1>2, <1>6, StoreStays
<1>8. TypeOK' /\ HasId'
  BY <1>2, <1>4, <1>7 DEF CronInv, TypeOK, HasId
<1>9. PhasesTrue'
  <2>1. /\ \A i \in batch[b].todo : i \notin batch[b].running /\ batch[b].result[i] = "none"
        /\ \A i \in batch[b].running : batch[b].result[i] = "none"
    BY DEF CronInv, PhasesTrue
  <2>2. /\ \A i \in batch'[b].todo : i \notin batch'[b].running /\ batch'[b].result[i] = "none"
        /\ \A i \in batch'[b].running : batch'[b].result[i] = "none"
    BY <1>2, <1>3, <1>4, <2>1
  <2>3. /\ ticking # "work" => batch'["tick"] = NoBatch
        /\ start # "catchup" => batch'["catchup"] = NoBatch
    BY <1>4, <1>5 DEF CronInv, PhasesTrue, Batch
  <2> QED BY <1>2, <1>4, <2>2, <2>3 DEF CronInv, PhasesTrue
<1> QED BY <1>7, <1>8, <1>9 DEF CronInv

-----------------------------------------------------------------------------
(* Runs by hand *)

\* A call goes on without taking or releasing a job.
LEMMA CallStays ==
    ASSUME CronInv, NEW m \in Manual,
           man' \in [Manual -> [pc : {"idle", "preflight", "reserve", "exec", "finish", "done"},
                               job : Job \cup {Absent}, result : Status \cup {"none"}]],
           \A n \in Manual \ {m} : man'[n] = man[n],
           man'[m].pc \in {"exec", "finish"} <=> man[m].pc \in {"exec", "finish"},
           man'[m].pc \in {"exec", "finish"} => man'[m].job = man[m].job,
           man'[m].pc # "done" => man'[m].job \in Job,
           batch' = batch
    PROVE  /\ \A j \in Job : /\ \A n \in Manual : ByHand(n, j)' <=> ByHand(n, j)
                             /\ \A b \in Batch : Held(b, j)' <=> Held(b, j)
                             /\ UnderWay(j)' <=> UnderWay(j)
           /\ \A n \in Manual : man'[n].pc \in {"preflight", "reserve", "exec", "finish"} => man'[n].job \in Job
<1>1. ASSUME NEW j \in Job
      PROVE  /\ \A n \in Manual : ByHand(n, j)' <=> ByHand(n, j)
             /\ \A b \in Batch : Held(b, j)' <=> Held(b, j)
  <2>1. \A n \in Manual : n # m => (ByHand(n, j)' <=> ByHand(n, j))
    BY DEF ByHand
  <2>2. ByHand(m, j)' <=> ByHand(m, j)
    BY DEF ByHand
  <2> QED BY <2>1, <2>2 DEF Held
<1>2. \A j \in Job : UnderWay(j)' <=> UnderWay(j)
  BY <1>1, HoldersStay
<1>3. \A n \in Manual : man'[n].pc \in {"preflight", "reserve", "exec", "finish"} => man'[n].job \in Job
  BY DEF CronInv, PhasesTrue
<1> QED BY <1>1, <1>2, <1>3

\* Steps of a call outside of sections, and a refusal.
LEMMA CallKeeps ==
    ASSUME CronInv, NEW m \in Manual, CallRun(m) \/ ReserveRefused(m) \/ ManualEnds(m)
    PROVE  CronInv'
<1>1. /\ file' = file /\ mem' = mem /\ attached' = attached /\ start' = start /\ plan' = plan
      /\ ticking' = ticking /\ timer' = timer /\ batch' = batch /\ known' = known
      /\ events' = events /\ upset' = upset /\ done' = done
  BY DEF CallRun, ReserveRefused, ManualEnds, store
<1>2. man \in [Manual -> [pc : {"idle", "preflight", "reserve", "exec", "finish", "done"},
                         job : Job \cup {Absent}, result : Status \cup {"none"}]]
  BY DEF CronInv, TypeOK
<1>3. /\ man' \in [Manual -> [pc : {"idle", "preflight", "reserve", "exec", "finish", "done"},
                              job : Job \cup {Absent}, result : Status \cup {"none"}]]
      /\ \A n \in Manual \ {m} : man'[n] = man[n]
      /\ man'[m].pc \in {"exec", "finish"} <=> man[m].pc \in {"exec", "finish"}
      /\ man'[m].pc \in {"exec", "finish"} => man'[m].job = man[m].job
      /\ man'[m].pc # "done" => man'[m].job \in Job
      /\ man'[m].pc # "reserve"
  <2>1. CASE CallRun(m)
    <3>1. PICK j \in Job : man' = [man EXCEPT ![m].pc = "preflight", ![m].job = j]
      BY <2>1 DEF CallRun
    <3>2. man[m].pc = "idle"
      BY <2>1 DEF CallRun
    <3> QED BY <1>2, <3>1, <3>2
  <2>2. CASE ReserveRefused(m)
    <3>1. man' = [man EXCEPT ![m] = Over] /\ man[m].pc = "reserve"
      BY <2>2 DEF ReserveRefused, ManOver
    <3>2. /\ Over \in [pc : {"idle", "preflight", "reserve", "exec", "finish", "done"},
                       job : Job \cup {Absent}, result : Status \cup {"none"}]
          /\ Over.pc = "done"
      BY DEF Over, Idle
    <3> QED BY <1>2, <3>1, <3>2
  <2>3. CASE ManualEnds(m)
    <3>1. PICK status \in Status : man' = [man EXCEPT ![m].pc = "finish", ![m].result = status]
      BY <2>3 DEF ManualEnds, Ends, Status
    <3>2. man[m].pc = "exec" /\ man[m].job \in Job
      BY <2>3 DEF ManualEnds, CronInv, PhasesTrue
    <3> QED BY <1>2, <3>1, <3>2
  <2> QED BY <2>1, <2>2, <2>3
<1>4. /\ \A j \in Job : /\ \A n \in Manual : ByHand(n, j)' <=> ByHand(n, j)
                        /\ \A b \in Batch : Held(b, j)' <=> Held(b, j)
                        /\ UnderWay(j)' <=> UnderWay(j)
      /\ \A n \in Manual : man'[n].pc \in {"preflight", "reserve", "exec", "finish"} => man'[n].job \in Job
  BY <1>1, <1>3, CallStays
<1>5. JobsTrue' /\ DonesTrue'
  BY <1>1, <1>4, StoreStays
<1>6. TypeOK' /\ HasId'
  BY <1>1, <1>3, <1>4 DEF CronInv, TypeOK, HasId
<1>7. PhasesTrue'
  BY <1>1, <1>3, <1>4 DEF CronInv, PhasesTrue
<1> QED BY <1>5, <1>6, <1>7 DEF CronInv

\* Memory that is loaded and maintained agrees with the file.
LEMMA MaintainedLoaded ==
    ASSUME CronInv
    PROVE  LET st == Maintain(Loaded) IN
           /\ st \in Store /\ st # NotLoaded
           /\ \A j \in Job : st[j] # Absent => j \in known
           /\ \A j \in Job \ upset : MarkTrue(st[j], UnderWay(j), start # "clear") /\ Agree(file[j], st[j])
           /\ \A j \in done \ upset : Finished(st[j])
<1> DEFINE st == Maintain(Loaded)
<1>1. Loaded \in Store /\ st \in Store /\ st # NotLoaded
  BY LoadedIs, MaintainIs, MarkersAssumption
<1>2. \A j \in Job : st[j] # Absent => j \in known
  BY <1>1, LoadedIs, MaintainKeeps
<1>3. ASSUME NEW j \in Job \ upset
      PROVE  MarkTrue(st[j], UnderWay(j), start # "clear") /\ Agree(file[j], st[j])
  <2>1. MarkTrue(Loaded[j], UnderWay(j), start # "clear") /\ Agree(file[j], Loaded[j])
    BY LoadedIs
  <2>2. UnderWay(j) \in BOOLEAN /\ (start # "clear") \in BOOLEAN
    BY DEF UnderWay
  <2>3. \A busy, cleared \in BOOLEAN : MarkTrue(Loaded[j], busy, cleared) => MarkTrue(st[j], busy, cleared)
    BY <1>1, MaintainKeeps
  <2>4. /\ Loaded[j] = Absent => st[j] = Absent
        /\ Loaded[j] # Absent => /\ Tended(j, Loaded[j], st[j]) /\ st[j] # Absent
                                 /\ Loaded[j].on /\ Loaded[j].next # "none" => st[j].next = Loaded[j].next
    BY <1>1, MaintainIs
  <2> HIDE DEF st
  <2>5. Agree(file[j], st[j])
    BY <2>1, <2>4 DEF Agree, Tended
  <2> QED BY <2>1, <2>2, <2>3, <2>5
<1>4. ASSUME NEW j \in done \ upset PROVE Finished(st[j])
  <2>1. j \in OneShot /\ j \in Job /\ Finished(Loaded[j])
    BY LoadedIs
  <2> QED BY <1>1, <2>1, MaintainKeeps
<1> QED BY <1>1, <1>2, <1>3, <1>4

\* The look at a job before the call goes on, which maintains what is in memory.
LEMMA PreflightKeeps ==
    ASSUME CronInv, NEW m \in Manual, Preflight(m)
    PROVE  CronInv'
<1> DEFINE st == Maintain(Loaded)
<1>1. /\ man[m].pc = "preflight" /\ mem' = st
      /\ man' = [man EXCEPT ![m].pc = "reserve"] \/ man' = [man EXCEPT ![m] = Over]
      /\ file' = file /\ attached' = attached /\ start' = start /\ plan' = plan
      /\ ticking' = ticking /\ timer' = timer /\ batch' = batch /\ known' = known
      /\ events' = events /\ upset' = upset /\ done' = done
  BY DEF Preflight, ManGoto, ManOver
<1>2. /\ st \in Store /\ st # NotLoaded
      /\ \A j \in Job : st[j] # Absent => j \in known
      /\ \A j \in Job \ upset : MarkTrue(st[j], UnderWay(j), start # "clear") /\ Agree(file[j], st[j])
      /\ \A j \in done \ upset : Finished(st[j])
  BY MaintainedLoaded
<1> HIDE DEF st
<1>3. man \in [Manual -> [pc : {"idle", "preflight", "reserve", "exec", "finish", "done"},
                         job : Job \cup {Absent}, result : Status \cup {"none"}]]
      /\ man[m].job \in Job
  BY <1>1 DEF CronInv, TypeOK, PhasesTrue
<1>4. /\ Over \in [pc : {"idle", "preflight", "reserve", "exec", "finish", "done"},
                   job : Job \cup {Absent}, result : Status \cup {"none"}]
      /\ Over.pc = "done"
  BY DEF Over, Idle
<1>5. /\ man' \in [Manual -> [pc : {"idle", "preflight", "reserve", "exec", "finish", "done"},
                              job : Job \cup {Absent}, result : Status \cup {"none"}]]
      /\ \A n \in Manual \ {m} : man'[n] = man[n]
      /\ man'[m].pc \in {"reserve", "done"}
      /\ man'[m].pc # "done" => man'[m].job \in Job
  BY <1>1, <1>3, <1>4
<1>6. /\ \A j \in Job : /\ \A n \in Manual : ByHand(n, j)' <=> ByHand(n, j)
                        /\ \A b \in Batch : Held(b, j)' <=> Held(b, j)
                        /\ UnderWay(j)' <=> UnderWay(j)
      /\ \A n \in Manual : man'[n].pc \in {"preflight", "reserve", "exec", "finish"} => man'[n].job \in Job
  BY <1>1, <1>5, CallStays
<1>7. HasId' /\ JobsTrue' /\ DonesTrue'
  BY <1>1, <1>2, <1>6, MemoryKeeps
<1>8. TypeOK' /\ PhasesTrue'
  BY <1>1, <1>2, <1>5, <1>6 DEF CronInv, TypeOK, PhasesTrue
<1> QED BY <1>7, <1>8 DEF CronInv

\* The reservation: the mark is set in the file before the job runs.
LEMMA ReserveKeeps ==
    ASSUME CronInv, NEW m \in Manual, Reserve(m)
    PROVE  CronInv'
<1> DEFINE k == man[m].job
           st == WithMark(mem, {k})
<1>1. /\ man[m].pc = "reserve" /\ mem[k] # Absent /\ mem[k].mark = "no"
      /\ attached' = attached /\ start' = start /\ plan' = plan /\ ticking' = ticking
      /\ timer' = timer /\ batch' = batch /\ known' = known /\ done' = done
  BY DEF Reserve, Reservable, Marked
<1>2. PICK ok \in BOOLEAN :
         /\ Save(st, ok)
         /\ man' = IF ok THEN [man EXCEPT ![m].pc = "exec"] ELSE [man EXCEPT ![m] = Over]
         /\ Upsets(IF mem[k].on THEN {} ELSE {k}, ok)
  BY DEF Reserve, ManGoto, ManOver
<1>3. k \in Job /\ mem \in Store /\ mem = Loaded
  BY <1>1 DEF CronInv, TypeOK, PhasesTrue, Loaded
<1>4. /\ st \in Store
      /\ \A j \in Job : j # k => st[j] = mem[j]
      /\ st[k].mark = "set" /\ st[k].on = mem[k].on /\ st[k].next = mem[k].next /\ st[k].last = mem[k].last
      /\ st # NotLoaded /\ k \in known /\ \A j \in Job : st[j] # Absent => j \in known
  <2>1. \A j \in {k} : j \in Job /\ mem[j] # Absent
    BY <1>1, <1>3
  <2>2. /\ st \in Store
        /\ \A j \in Job :
              /\ j \notin {k} => st[j] = mem[j]
              /\ mem[j] = Absent => st[j] = Absent
              /\ j \in {k} => /\ st[j] # Absent /\ st[j].mark = "set" /\ st[j].on = mem[j].on
                              /\ st[j].next = mem[j].next /\ st[j].last = mem[j].last
    BY <1>3, <2>1, WithMarkIs
  <2>3. \A j \in Job : mem[j] # Absent => j \in known
    BY <1>3, LoadedIs
  <2> HIDE DEF st
  <2> QED BY <1>1, <1>3, <2>2, <2>3, MarkersAssumption
<1> HIDE DEF st
<1>5. mem' = st /\ file' \in {st, file} /\ (ok => file' = st) /\ events' \in 0..MaxEvents
  BY <1>2, SaveIs DEF CronInv
<1>6. /\ upset' = (IF ok THEN upset \cup (IF mem[k].on THEN {} ELSE {k}) ELSE Job)
      /\ upset' \subseteq Job
  BY <1>2, <1>3, LoadedIs DEF Upsets
<1>7. man \in [Manual -> [pc : {"idle", "preflight", "reserve", "exec", "finish", "done"},
                         job : Job \cup {Absent}, result : Status \cup {"none"}]]
  BY DEF CronInv, TypeOK
<1>8. /\ Over \in [pc : {"idle", "preflight", "reserve", "exec", "finish", "done"},
                   job : Job \cup {Absent}, result : Status \cup {"none"}]
      /\ Over.pc = "done"
  BY DEF Over, Idle
<1>9. /\ man' \in [Manual -> [pc : {"idle", "preflight", "reserve", "exec", "finish", "done"},
                              job : Job \cup {Absent}, result : Status \cup {"none"}]]
      /\ \A n \in Manual \ {m} : man'[n] = man[n]
      /\ ok => man'[m].pc = "exec" /\ man'[m].job = k
      /\ ~ok => man'[m].pc = "done"
  BY <1>2, <1>7, <1>8
<1>10. ASSUME NEW j \in Job
       PROVE  /\ \A n \in Manual : ByHand(n, j)' <=> ByHand(n, j) \/ (ok /\ j = k /\ n = m)
              /\ \A b \in Batch : Held(b, j)' <=> Held(b, j)
  <2>1. \A n \in Manual : n # m => (ByHand(n, j)' <=> ByHand(n, j))
    BY <1>9 DEF ByHand
  <2>2. ~ByHand(m, j) /\ (ByHand(m, j)' <=> ok /\ j = k)
    BY <1>1, <1>9 DEF ByHand
  <2> QED BY <1>1, <2>1, <2>2 DEF Held
<1>11. ASSUME NEW j \in Job, j # k
       PROVE  (UnderWay(j)' <=> UnderWay(j)) /\ (Sole(j)' <=> Sole(j))
  BY <1>10, <1>11, HoldersStay
<1>12. TypeOK'
  BY <1>1, <1>4, <1>5, <1>6, <1>9 DEF CronInv, TypeOK
<1>13. HasId'
  <2>1. \A j \in Job : UnderWay(j)' => j \in known
    BY <1>4, <1>11 DEF CronInv, HasId
  <2> QED BY <1>1, <1>4, <1>5, <2>1, LoadedIs, IdsKept
<1>14. PhasesTrue'
  <2>1. \A n \in Manual : man'[n].pc \in {"preflight", "reserve", "exec", "finish"} => man'[n].job \in Job
    BY <1>3, <1>9 DEF CronInv, PhasesTrue
  <2> QED BY <1>1, <1>4, <1>5, <2>1 DEF CronInv, PhasesTrue
<1>15. ASSUME NEW j \in Job \ upset'
       PROVE  Sole(j)' /\ MarkTrue(st[j], UnderWay(j)', start' # "clear")
  <2>1. ok /\ j \in Job \ upset /\ (j = k => mem[k].on)
    BY <1>6, <1>15
  <2>2. Sole(j) /\ MarkTrue(mem[j], UnderWay(j), start # "clear")
    BY <1>3, <2>1, LoadedIs
  <2>3. CASE j = k
    <3>1. ~UnderWay(j) /\ mem[j].on
      BY <1>1, <2>1, <2>2, <2>3 DEF MarkTrue
    <3>2. UnderWay(j)' /\ Sole(j)'
      <4>1. /\ \A b \in Batch : Held(b, j)' <=> Held(b, j)
            /\ \A n \in Manual : ByHand(n, j)' <=> ByHand(n, j) \/ n = m
        BY <1>10, <2>1, <2>3
      <4> QED BY <3>1, <4>1, CallTakes
    <3>3. st[j].mark = "set" /\ st[j].on
      BY <1>4, <2>1, <2>3
    <3> QED BY <3>2, <3>3 DEF MarkTrue
  <2>4. CASE j # k
    BY <1>1, <1>4, <1>11, <2>2, <2>4 DEF MarkTrue
  <2> QED BY <2>3, <2>4
<1>16. ASSUME NEW j \in done' \ upset'
       PROVE  Finished(st[j]) /\ \A b \in Batch : ~Held(b, j)'
  <2>1. j \in done \ upset /\ j \in Job
    BY <1>1, <1>6, <1>16, LoadedIs
  <2>2. Finished(mem[j]) /\ \A b \in Batch : ~Held(b, j)
    BY <1>3, <2>1, LoadedIs
  <2> QED BY <1>1, <1>4, <1>10, <2>1, <2>2 DEF Finished
<1>17. JobsTrue' /\ DonesTrue'
  <2>1. file' = st \/ upset' = Job
    BY <1>5, <1>6
  <2>2. done' \subseteq Job
    BY <1>1, LoadedIs
  <2> QED BY <1>4, <1>5, <1>15, <1>16, <2>1, <2>2, SectionKeeps
<1> QED BY <1>12, <1>13, <1>14, <1>17 DEF CronInv

\* The call is over: whoever it had is let go.
LEMMA CallOver ==
    ASSUME CronInv, NEW m \in Manual, man[m].pc = "finish", man' = [man EXCEPT ![m] = Over],
           batch' = batch
    PROVE  /\ man' \in [Manual -> [pc : {"idle", "preflight", "reserve", "exec", "finish", "done"},
                                  job : Job \cup {Absent}, result : Status \cup {"none"}]]
           /\ \A n \in Manual : man'[n].pc \in {"preflight", "reserve", "exec", "finish"} =>
                                 man'[n].pc = man[n].pc /\ man'[n].job \in Job
           /\ \A j \in Job, b \in Batch : Held(b, j)' <=> Held(b, j)
           /\ \A j \in Job : UnderWay(j)' => UnderWay(j)
           /\ \A j \in Job : j # man[m].job => (UnderWay(j)' <=> UnderWay(j)) /\ (Sole(j)' <=> Sole(j))
           /\ \A j \in Job \ upset : j = man[m].job => ~UnderWay(j)' /\ Sole(j)' /\ \A b \in Batch : ~Held(b, j)
           /\ man[m].job \in Job
<1>1. man \in [Manual -> [pc : {"idle", "preflight", "reserve", "exec", "finish", "done"},
                         job : Job \cup {Absent}, result : Status \cup {"none"}]]
      /\ \A n \in Manual : man[n].pc \in {"preflight", "reserve", "exec", "finish"} => man[n].job \in Job
  BY DEF CronInv, TypeOK, PhasesTrue
<1>2. /\ Over \in [pc : {"idle", "preflight", "reserve", "exec", "finish", "done"},
                   job : Job \cup {Absent}, result : Status \cup {"none"}]
      /\ Over.pc = "done"
  BY DEF Over, Idle
<1>3. /\ man' \in [Manual -> [pc : {"idle", "preflight", "reserve", "exec", "finish", "done"},
                              job : Job \cup {Absent}, result : Status \cup {"none"}]]
      /\ \A n \in Manual : n # m => man'[n] = man[n]
      /\ man'[m].pc = "done"
  BY <1>1, <1>2
<1>4. ASSUME NEW j \in Job
      PROVE  /\ \A n \in Manual : ByHand(n, j)' <=> ByHand(n, j) /\ n # m
             /\ \A b \in Batch : Held(b, j)' <=> Held(b, j)
             /\ ByHand(m, j) <=> j = man[m].job
  <2>1. \A n \in Manual : n # m => (ByHand(n, j)' <=> ByHand(n, j))
    BY <1>3 DEF ByHand
  <2>2. ~ByHand(m, j)' /\ (ByHand(m, j) <=> j = man[m].job)
    BY <1>3 DEF ByHand
  <2> QED BY <2>1, <2>2 DEF Held
<1>5. ASSUME NEW j \in Job, j # man[m].job
      PROVE  (UnderWay(j)' <=> UnderWay(j)) /\ (Sole(j)' <=> Sole(j))
  BY <1>4, <1>5, HoldersStay
<1>6. ASSUME NEW j \in Job \ upset, j = man[m].job
      PROVE  ~UnderWay(j)' /\ Sole(j)' /\ \A b \in Batch : ~Held(b, j)
  <2>1. Sole(j) /\ ByHand(m, j)
    BY <1>4, <1>6, LoadedIs
  <2>2. ~UnderWay(j)' /\ Sole(j)' /\ \A b \in Batch : ~Held(b, j)'
    BY <1>4, <2>1, CallReleases
  <2> QED BY <1>4, <2>2
<1>7. \A j \in Job : UnderWay(j)' => UnderWay(j)
  BY <1>4, UnderWayIs, UnderWayIsPrime
<1> QED BY <1>1, <1>3, <1>4, <1>5, <1>6, <1>7

\* The job that a call by hand has run, merged into the store of the file.
Merged(k, new) ==
    [file EXCEPT ![k] = IF new = Absent \/ file[k] = Absent THEN Absent
                        ELSE [new EXCEPT !.slot = file[k].slot]]

LEMMA MergedIs ==
    ASSUME CronInv, NEW k \in Job, NEW new \in JobState \cup {Absent}
    PROVE  /\ Merged(k, new) \in Store
           /\ \A j \in Job : j # k => Merged(k, new)[j] = file[j]
           /\ \A j \in Job : Merged(k, new)[j] # Absent => j \in known
           /\ Merged(k, new)[k] # Absent => new # Absent /\ Merged(k, new)[k].mark = new.mark
           /\ Finished(new) => Finished(Merged(k, new)[k])
<1> DEFINE js == IF new = Absent \/ file[k] = Absent THEN Absent ELSE [new EXCEPT !.slot = file[k].slot]
           merged == [file EXCEPT ![k] = js]
<1>1. file \in Store
  BY LoadedIs
<1>2. /\ js \in JobState \cup {Absent}
      /\ js # Absent => /\ new # Absent /\ file[k] # Absent /\ js.mark = new.mark
                        /\ js.last = new.last /\ js.next = new.next
  <2>1. CASE new = Absent \/ file[k] = Absent
    BY <2>1
  <2>2. CASE ~(new = Absent \/ file[k] = Absent)
    <3>1. new \in JobState /\ file[k].slot \in {"later", "due"}
      BY <1>1, <2>2, StoreIs, Fields
    <3>2. js = [new EXCEPT !.slot = file[k].slot]
      BY <2>2
    <3>3. /\ [new EXCEPT !.slot = file[k].slot] \in JobState
          /\ [new EXCEPT !.slot = file[k].slot].mark = new.mark
          /\ [new EXCEPT !.slot = file[k].slot].last = new.last
          /\ [new EXCEPT !.slot = file[k].slot].next = new.next
      BY <3>1 DEF JobState
    <3> HIDE DEF js
    <3> QED BY <2>2, <3>2, <3>3
  <2> QED BY <2>1, <2>2
<1> HIDE DEF js
<1>3. /\ merged \in Store /\ merged[k] = js
      /\ \A j \in Job : j # k => merged[j] = file[j]
  BY <1>1, <1>2 DEF Store
<1> HIDE DEF merged
<1>4. \A j \in Job : merged[j] # Absent => j \in known
  BY <1>2, <1>3, LoadedIs
<1>5. Finished(new) => Finished(merged[k])
  BY <1>2, <1>3 DEF Finished
<1>6. /\ merged \in Store
      /\ \A j \in Job : j # k => merged[j] = file[j]
      /\ \A j \in Job : merged[j] # Absent => j \in known
      /\ merged[k] # Absent => new # Absent /\ merged[k].mark = new.mark
      /\ Finished(new) => Finished(merged[k])
  BY <1>2, <1>3, <1>4, <1>5
<1>7. merged = Merged(k, new)
  BY DEF merged, js, Merged
<1> QED BY <1>6, <1>7

\* The result of a call by hand.
LEMMA FinishKeeps ==
    ASSUME CronInv, NEW m \in Manual, Finish(m)
    PROVE  CronInv'
<1>1. /\ man[m].pc = "finish" /\ man' = [man EXCEPT ![m] = Over] /\ batch' = batch
      /\ start' = start /\ plan' = plan /\ ticking' = ticking /\ known' = known
  BY DEF Finish, ManOver
<1>2. PICK k \in Job : k = man[m].job
  BY <1>1, CallOver
<1>3. /\ man' \in [Manual -> [pc : {"idle", "preflight", "reserve", "exec", "finish", "done"},
                              job : Job \cup {Absent}, result : Status \cup {"none"}]]
      /\ \A n \in Manual : man'[n].pc \in {"preflight", "reserve", "exec", "finish"} =>
                            man'[n].pc = man[n].pc /\ man'[n].job \in Job
      /\ \A j \in Job, b \in Batch : Held(b, j)' <=> Held(b, j)
      /\ \A j \in Job : UnderWay(j)' => UnderWay(j)
      /\ \A j \in Job : j # k => (UnderWay(j)' <=> UnderWay(j)) /\ (Sole(j)' <=> Sole(j))
      /\ k \notin upset => ~UnderWay(k)' /\ Sole(k)' /\ \A b \in Batch : ~Held(b, k)
  BY <1>1, <1>2, CallOver
<1>4. \A j \in Job : UnderWay(j)' => j \in known
  BY <1>3 DEF CronInv, HasId
<1>5. \A n \in Manual : man'[n].pc \in {"preflight", "reserve", "exec", "finish"} => man'[n].job \in Job
  BY <1>3
<1>6. CASE Loaded[k] = Absent
  <2>1. file' = file /\ mem' = mem /\ attached' = attached /\ timer' = timer /\ events' = events
        /\ upset' = upset /\ done' = done
    BY <1>2, <1>6 DEF Finish, store
  <2>2. ASSUME NEW j \in Job \ upset PROVE JobTrue(j)'
    <3>1. JobTrue(j)
      BY <2>2 DEF CronInv, JobsTrue
    <3>2. CASE j = k
      <4>1. Agree(file[k], Loaded[k])
        BY <2>2, <3>2, LoadedIs
      <4>2. file[k] = Absent /\ (mem # NotLoaded => mem[k] = Absent)
        BY <1>6, <4>1 DEF Agree, Loaded
      <4>3. Sole(k)'
        BY <1>3, <2>2, <3>2
      <4> QED BY <2>1, <3>2, <4>2, <4>3 DEF JobTrue, MarkTrue, Agree
    <3>3. CASE j # k
      <4>1. /\ Sole(j)' /\ (UnderWay(j)' <=> UnderWay(j))
            /\ MarkTrue(file[j], UnderWay(j), start # "clear")
            /\ mem # NotLoaded => Agree(file[j], mem[j]) /\ MarkTrue(mem[j], UnderWay(j), start # "clear")
        BY <1>3, <3>1, <3>3 DEF JobTrue
      <4>2. MarkTrue(file[j], UnderWay(j), start # "clear")'
        BY <1>1, <2>1, <4>1 DEF MarkTrue
      <4>3. mem # NotLoaded => Agree(file[j], mem[j])' /\ MarkTrue(mem[j], UnderWay(j), start # "clear")'
        BY <1>1, <2>1, <4>1 DEF MarkTrue, Agree
      <4> QED BY <2>1, <4>1, <4>2, <4>3 DEF JobTrue
    <3> QED BY <3>2, <3>3
  <2>3. ASSUME NEW j \in done \ upset PROVE DoneTrue(j)'
    <3>1. j \in Job /\ DoneTrue(j)
      BY <2>3, LoadedIs DEF CronInv, DonesTrue
    <3> QED BY <1>3, <2>1, <3>1 DEF DoneTrue, Finished
  <2>4. JobsTrue' /\ DonesTrue'
    BY <2>1, <2>2, <2>3 DEF JobsTrue, DonesTrue
  <2>5. TypeOK' /\ HasId'
    BY <1>1, <1>3, <1>4, <2>1 DEF CronInv, TypeOK, HasId
  <2>6. PhasesTrue'
    BY <1>1, <1>3, <2>1 DEF CronInv, PhasesTrue
  <2> QED BY <2>4, <2>5, <2>6 DEF CronInv
<1>7. CASE Loaded[k] # Absent
  <2> DEFINE result == man[m].result
             new == ApplyJobResult(k, Loaded[k], result)
             merged == Merged(k, new)
             st == Maintain(merged)
  <2>1. PICK ok \in BOOLEAN :
          /\ Save(st, ok)
          /\ IF ok THEN Arm(st) ELSE UNCHANGED timer
          /\ Upsets({}, ok)
          /\ IF result = "ok" THEN Done({k} \cap OneShot, ok) ELSE done' = done \ {k}
    BY <1>2, <1>7 DEF Finish, Merged
  <2>2. attached' = FALSE
    BY <1>2, <1>7 DEF Finish
  <2>3. /\ new \in JobState \cup {Absent} /\ (new # Absent => new.mark = "no")
        /\ k \in OneShot /\ result = "ok" => Finished(new)
    <3>1. Loaded[k] \in JobState
      BY <1>7, LoadedIs, StoreIs
    <3> QED BY <3>1, ApplyJobResultIs
  <2> HIDE DEF new, result
  <2>4. /\ merged \in Store
        /\ \A j \in Job : j # k => merged[j] = file[j]
        /\ \A j \in Job : merged[j] # Absent => j \in known
        /\ merged[k] # Absent => new # Absent /\ merged[k].mark = new.mark
        /\ Finished(new) => Finished(merged[k])
    BY <2>3, MergedIs
  <2> HIDE DEF merged
  <2>5. /\ st \in Store /\ st # NotLoaded
        /\ \A j \in Job : /\ \A busy, cleared \in BOOLEAN :
                                MarkTrue(merged[j], busy, cleared) => MarkTrue(st[j], busy, cleared)
                          /\ j \in OneShot /\ Finished(merged[j]) => Finished(st[j])
                          /\ st[j] # Absent => j \in known
    BY <2>4, MaintainIs, MaintainKeeps, MarkersAssumption
  <2> HIDE DEF st
  <2>6. /\ mem' = st /\ file' \in {st, file} /\ (ok => file' = st) /\ events' \in 0..MaxEvents
        /\ timer' \in BOOLEAN
    <3>1. timer' \in BOOLEAN
      BY <2>1 DEF CronInv, TypeOK, Arm
    <3> QED BY <2>1, <3>1, SaveIs DEF CronInv
  <2>7. upset' = (IF ok THEN upset ELSE Job) /\ upset' \subseteq Job
    BY <2>1, LoadedIs DEF Upsets
  <2>8. /\ done' \subseteq done \cup (({k} \cap OneShot) \ upset)
        /\ k \in done' \ upset' => result = "ok" /\ k \in OneShot
    <3>1. CASE result = "ok"
      <4>1. done' = IF ok THEN done \cup (({k} \cap OneShot) \ upset) ELSE done
        BY <2>1, <3>1 DEF Done
      <4>2. done \subseteq OneShot
        BY LoadedIs
      <4> QED BY <3>1, <4>1, <4>2
    <3>2. CASE result # "ok"
      <4>1. done' = done \ {k}
        BY <2>1, <3>2
      <4> QED BY <4>1
    <3> QED BY <3>1, <3>2
  <2>9. done' \subseteq OneShot /\ done' \subseteq Job /\ done' \subseteq known
    <3>1. k \in known
      BY <1>7, LoadedIs
    <3> QED BY <2>8, <3>1, LoadedIs
  <2>10. TypeOK'
    BY <1>1, <1>3, <2>2, <2>5, <2>6, <2>7, <2>9 DEF CronInv, TypeOK
  <2>11. HasId'
    BY <1>1, <1>4, <2>5, <2>6, <2>9, IdsKept
  <2>12. PhasesTrue'
    BY <1>1, <1>3, <2>2, <2>5, <2>6 DEF CronInv, PhasesTrue
  <2>13. ASSUME NEW j \in Job \ upset'
         PROVE  Sole(j)' /\ MarkTrue(st[j], UnderWay(j)', start' # "clear")
    <3>1. ok /\ j \in Job \ upset
      BY <2>7, <2>13
    <3>2. Sole(j)' /\ MarkTrue(merged[j], UnderWay(j)', start' # "clear")
      <4>1. CASE j = k
        BY <1>3, <2>3, <2>4, <3>1, <4>1 DEF MarkTrue
      <4>2. CASE j # k
        <5>1. Sole(j) /\ MarkTrue(file[j], UnderWay(j), start # "clear")
          BY <3>1, LoadedIs
        <5> QED BY <1>1, <1>3, <2>4, <3>1, <4>2, <5>1 DEF MarkTrue
      <4> QED BY <4>1, <4>2
    <3>3. UnderWay(j)' \in BOOLEAN /\ (start' # "clear") \in BOOLEAN
      BY DEF UnderWay
    <3> QED BY <2>5, <3>1, <3>2, <3>3
  <2>14. ASSUME NEW j \in done' \ upset'
         PROVE  Finished(st[j]) /\ \A b \in Batch : ~Held(b, j)'
    <3>1. j \in OneShot /\ j \in Job /\ j \notin upset
      BY <2>7, <2>9, <2>14
    <3>2. CASE j = k
      BY <1>3, <2>3, <2>4, <2>5, <2>8, <2>14, <3>1, <3>2
    <3>3. CASE j # k
      <4>1. Finished(file[j]) /\ \A b \in Batch : ~Held(b, j)
        BY <2>8, <2>14, <3>1, <3>3, LoadedIs
      <4> QED BY <1>3, <2>4, <2>5, <3>1, <3>3, <4>1
    <3> QED BY <3>2, <3>3
  <2>15. JobsTrue' /\ DonesTrue'
    <3>1. file' = st \/ upset' = Job
      BY <2>6, <2>7
    <3> QED BY <2>5, <2>6, <2>9, <2>13, <2>14, <3>1, SectionKeeps
  <2> QED BY <2>10, <2>11, <2>12, <2>15 DEF CronInv
<1> QED BY <1>6, <1>7

-----------------------------------------------------------------------------
(* Edits *)

\* An edit that clears marks only of jobs that it names.
LEMMA EditKeeps ==
    ASSUME CronInv, NEW st \in Store, NEW lost \in SUBSET Job, Edit(st, lost),
           known \subseteq known', known' \subseteq Job, done' \subseteq done,
           \A j \in Job : st[j] # Absent => j \in known',
           \A j \in Job \ upset : (j \in lost /\ UnderWay(j)) \/ MarkTrue(st[j], UnderWay(j), start # "clear"),
           \A j \in done' \ upset : Finished(st[j])
    PROVE  CronInv'
<1>1. PICK ok \in BOOLEAN :
        /\ Put(st, ok)
        /\ IF ok THEN Arm(st) ELSE UNCHANGED timer
        /\ Upsets({j \in lost : UnderWay(j)}, ok)
  BY DEF Edit
<1>2. /\ attached' = attached /\ start' = start /\ plan' = plan /\ ticking' = ticking
      /\ batch' = batch /\ man' = man
  BY DEF Edit
<1>3. mem' = st /\ file' \in {st, file} /\ (ok => file' = st) /\ st # NotLoaded
  BY <1>1, MarkersAssumption DEF Put
<1>4. events' \in 0..MaxEvents
  <2>1. events \in 0..MaxEvents /\ MaxEvents \in Nat
    BY CronAssumption DEF CronInv, TypeOK
  <2>2. events < MaxEvents /\ events' = events + 1
    BY DEF Edit, Event
  <2> QED BY <2>1, <2>2
<1>5. timer' \in BOOLEAN
  BY <1>1 DEF Arm, CronInv, TypeOK
<1>6. upset' = (IF ok THEN upset \cup {j \in lost : UnderWay(j)} ELSE Job) /\ upset' \subseteq Job
  BY <1>1, LoadedIs DEF Upsets
<1>7. \A j \in Job : (UnderWay(j)' <=> UnderWay(j)) /\ (Sole(j)' <=> Sole(j))
                     /\ \A b \in Batch : Held(b, j)' <=> Held(b, j)
  BY <1>2, HoldersStay DEF Held, ByHand
<1>8. done' \subseteq Job /\ done' \subseteq OneShot /\ done' \subseteq known'
  BY LoadedIs
<1>9. TypeOK'
  BY <1>2, <1>3, <1>4, <1>5, <1>6, <1>8 DEF CronInv, TypeOK
<1>10. HasId'
  <2>1. \A j \in Job : UnderWay(j)' => j \in known'
    BY <1>7 DEF CronInv, HasId
  <2> QED BY <1>3, <1>8, <2>1, IdsKept
<1>11. PhasesTrue'
  BY <1>2, <1>3 DEF CronInv, PhasesTrue
<1>12. ASSUME NEW j \in Job \ upset'
       PROVE  Sole(j)' /\ MarkTrue(st[j], UnderWay(j)', start' # "clear")
  <2>1. j \in Job \ upset /\ ~(j \in lost /\ UnderWay(j))
    BY <1>6, <1>12
  <2>2. Sole(j) /\ MarkTrue(st[j], UnderWay(j), start # "clear")
    BY <2>1, LoadedIs
  <2> QED BY <1>2, <1>7, <2>1, <2>2 DEF MarkTrue
<1>13. ASSUME NEW j \in done' \ upset'
       PROVE  Finished(st[j]) /\ \A b \in Batch : ~Held(b, j)'
  <2>1. j \in done /\ j \in Job /\ j \notin upset
    BY <1>6, <1>8, <1>13
  <2>2. \A b \in Batch : ~Held(b, j)
    BY <2>1, LoadedIs
  <2> QED BY <1>7, <1>13, <2>1, <2>2
<1>14. JobsTrue' /\ DonesTrue'
  <2>1. file' = st \/ upset' = Job
    BY <1>3, <1>6
  <2> QED BY <1>3, <1>8, <1>12, <1>13, <2>1, SectionKeeps
<1> QED BY <1>9, <1>10, <1>11, <1>14 DEF CronInv

\* What an edit finds, when loading recomputes dates.
LEMMA LoadedComputedIs ==
    ASSUME CronInv
    PROVE  /\ LoadedComputed \in Store
           /\ \A j \in Job : LoadedComputed[j] # Absent => j \in known
           /\ \A j \in Job \ upset : MarkTrue(LoadedComputed[j], UnderWay(j), start # "clear")
           /\ \A j \in done \ upset : Finished(LoadedComputed[j])
<1>1. CASE mem = NotLoaded
  <2>1. LoadedComputed = Recompute(file) /\ file \in Store
    BY <1>1, LoadedIs DEF LoadedComputed
  <2>2. ASSUME NEW j \in Job \ upset
        PROVE  MarkTrue(Recompute(file)[j], UnderWay(j), start # "clear")
    <3>1. MarkTrue(file[j], UnderWay(j), start # "clear")
      BY LoadedIs
    <3>2. UnderWay(j) \in BOOLEAN /\ (start # "clear") \in BOOLEAN
      BY DEF UnderWay
    <3>3. \A busy, cleared \in BOOLEAN : MarkTrue(file[j], busy, cleared) => MarkTrue(Recompute(file)[j], busy, cleared)
      BY <2>1, RecomputeKeeps
    <3> QED BY <3>1, <3>2, <3>3
  <2>3. ASSUME NEW j \in done \ upset PROVE Finished(Recompute(file)[j])
    <3>1. j \in OneShot /\ j \in Job /\ Finished(file[j])
      BY LoadedIs
    <3> QED BY <2>1, <3>1, RecomputeKeeps
  <2>4. \A j \in Job : Recompute(file)[j] # Absent => j \in known
    BY <2>1, LoadedIs, RecomputeKeeps
  <2>5. Recompute(file) \in Store
    BY <2>1, RecomputeIs
  <2> QED BY <2>1, <2>2, <2>3, <2>4, <2>5
<1>2. CASE mem # NotLoaded
  <2>1. LoadedComputed = mem /\ Loaded = mem
    BY <1>2 DEF LoadedComputed, Loaded
  <2> QED BY <2>1, LoadedIs
<1> QED BY <1>1, <1>2

\* A store in which one job is another one.
LEMMA ReplacedIs ==
    ASSUME NEW st \in Store, NEW k \in Job, NEW js \in JobState \cup {Absent}
    PROVE  /\ [st EXCEPT ![k] = js] \in Store
           /\ [st EXCEPT ![k] = js][k] = js
           /\ \A j \in Job : j # k => [st EXCEPT ![k] = js][j] = st[j]
  BY DEF Store

LEMMA AddKeeps ==
    ASSUME CronInv, NEW k \in Job, Add(k)
    PROVE  CronInv'
<1> DEFINE added == [LoadedComputed EXCEPT ![k] = NewJob]
           st == Recompute(added)
<1>1. k \notin known /\ known' = known \cup {k} /\ Edit(st, {}) /\ done' = done
  BY DEF Add
<1>2. NewJob \in JobState /\ NewJob.mark = "no"
  <2>1. NewJob \in JobState
    BY CronAssumption DEF NewJob, JobState
  <2> QED BY <2>1 DEF NewJob
<1>3. /\ added \in Store /\ added[k] = NewJob
      /\ \A j \in Job : j # k => added[j] = LoadedComputed[j]
  <2> HIDE DEF added
  <2> QED BY <1>2, LoadedComputedIs, ReplacedIs DEF added
<1> HIDE DEF added
<1>4. ~UnderWay(k)
  BY <1>1 DEF CronInv, HasId
<1>5. ASSUME NEW j \in Job \ upset PROVE MarkTrue(st[j], UnderWay(j), start # "clear")
  <2>1. MarkTrue(added[j], UnderWay(j), start # "clear")
    <3>1. CASE j = k
      BY <1>2, <1>3, <1>4, <3>1 DEF MarkTrue
    <3>2. CASE j # k
      BY <1>3, <3>2, LoadedComputedIs
    <3> QED BY <3>1, <3>2
  <2>2. UnderWay(j) \in BOOLEAN /\ (start # "clear") \in BOOLEAN
    BY DEF UnderWay
  <2>3. \A busy, cleared \in BOOLEAN : MarkTrue(added[j], busy, cleared) => MarkTrue(st[j], busy, cleared)
    BY <1>3, RecomputeKeeps
  <2> QED BY <2>1, <2>2, <2>3
<1>6. ASSUME NEW j \in done' \ upset PROVE Finished(st[j])
  <2>1. j \in OneShot /\ j \in Job /\ j \in done /\ j # k
    BY <1>1, LoadedIs
  <2>2. Finished(added[j])
    BY <1>3, <2>1, LoadedComputedIs
  <2> QED BY <1>3, <2>1, <2>2, RecomputeKeeps
<1>7. st \in Store /\ \A j \in Job : st[j] # Absent => j \in known'
  <2>1. \A j \in Job : added[j] # Absent => j \in known'
    BY <1>1, <1>3, LoadedComputedIs
  <2> QED BY <1>3, <2>1, RecomputeIs, RecomputeKeeps
<1>8. known \subseteq known' /\ known' \subseteq Job /\ {} \in SUBSET Job
  BY <1>1, LoadedIs
<1> HIDE DEF st
<1> QED BY <1>1, <1>5, <1>6, <1>7, <1>8, EditKeeps

LEMMA RemoveKeeps ==
    ASSUME CronInv, NEW k \in Job, Remove(k)
    PROVE  CronInv'
<1> DEFINE st == [LoadedComputed EXCEPT ![k] = Absent]
<1>1. known' = known /\ Edit(st, {}) /\ done' = done
  BY DEF Remove
<1>2. /\ st \in Store /\ st[k] = Absent
      /\ \A j \in Job : j # k => st[j] = LoadedComputed[j]
  BY LoadedComputedIs, ReplacedIs
<1> HIDE DEF st
<1>3. ASSUME NEW j \in Job \ upset PROVE MarkTrue(st[j], UnderWay(j), start # "clear")
  <2>1. CASE j = k
    BY <1>2, <2>1 DEF MarkTrue
  <2>2. CASE j # k
    BY <1>2, <2>2, LoadedComputedIs
  <2> QED BY <2>1, <2>2
<1>4. ASSUME NEW j \in done' \ upset PROVE Finished(st[j])
  <2>1. j \in Job /\ Finished(LoadedComputed[j])
    BY <1>1, LoadedIs, LoadedComputedIs
  <2> QED BY <1>2, <2>1 DEF Finished
<1>5. known' \subseteq Job /\ {} \in SUBSET Job /\ \A j \in Job : st[j] # Absent => j \in known'
  BY <1>1, <1>2, LoadedIs, LoadedComputedIs
<1> QED BY <1>1, <1>2, <1>3, <1>4, <1>5, EditKeeps

\* An edit of one job: it may disable it, or keeps its mark.
LEMMA JobEditKeeps ==
    ASSUME CronInv, NEW k \in Job, Loaded[k] # Absent, NEW js \in JobState,
           NEW lost \in SUBSET Job, Edit([Loaded EXCEPT ![k] = js], lost), known' = known,
           done' \subseteq done,
           \/ k \in lost /\ js.mark = "no"
           \/ js.mark = Loaded[k].mark /\ (Loaded[k].on => js.on),
           k \in done' => (Finished(Loaded[k]) => Finished(js))
    PROVE  CronInv'
<1> DEFINE st == [Loaded EXCEPT ![k] = js]
<1>1. /\ st \in Store /\ st[k] = js
      /\ \A j \in Job : j # k => st[j] = Loaded[j]
  BY LoadedIs, ReplacedIs
<1>2. Edit(st, lost)
  OBVIOUS
<1> HIDE DEF st
<1>3. ASSUME NEW j \in Job \ upset
      PROVE  (j \in lost /\ UnderWay(j)) \/ MarkTrue(st[j], UnderWay(j), start # "clear")
  <2>1. MarkTrue(Loaded[j], UnderWay(j), start # "clear")
    BY LoadedIs
  <2>2. CASE j = k
    BY <1>1, <2>1, <2>2 DEF MarkTrue
  <2>3. CASE j # k
    BY <1>1, <2>1, <2>3
  <2> QED BY <2>2, <2>3
<1>4. ASSUME NEW j \in done' \ upset PROVE Finished(st[j])
  <2>1. j \in Job /\ Finished(Loaded[j])
    BY LoadedIs
  <2> QED BY <1>1, <1>4, <2>1
<1>5. known' \subseteq Job /\ \A j \in Job : st[j] # Absent => j \in known'
  BY <1>1, LoadedIs
<1> QED BY <1>1, <1>2, <1>3, <1>4, <1>5, EditKeeps

\* Enabling dates a job, unless it is a one-shot that is done; disabling takes date and mark.
LEMMA SetEnabledKeeps ==
    ASSUME CronInv, NEW k \in Job, NEW on \in BOOLEAN, SetEnabled(k, on)
    PROVE  CronInv'
<1> DEFINE old == Loaded[k]
           js == [old EXCEPT !.on = on]
           n == ComputeNext(k, js)
           new == IF on THEN [js EXCEPT !.next = n]
                  ELSE [js EXCEPT !.next = "none", !.mark = "no"]
           lost == IF on THEN {} ELSE {k}
<1>1. /\ Loaded[k] # Absent /\ Edit([Loaded EXCEPT ![k] = new], lost)
      /\ known' = known /\ done' = done
  BY DEF SetEnabled
<1>2. old \in JobState
  BY <1>1, LoadedIs, StoreIs
<1>3. lost \in SUBSET Job /\ (k \in lost <=> ~on)
  OBVIOUS
<1> HIDE DEF old, lost
<1>4. js \in JobState /\ js.on = on /\ js.mark = old.mark /\ js.last = old.last
  BY <1>2 DEF JobState
<1>5. n \in {"none", "later", "due"} /\ (k \in OneShot /\ js.last = "ok" => n = "none")
  BY <1>4, Fields DEF ComputeNext
<1> HIDE DEF js, n
<1>6. /\ [js EXCEPT !.next = n] \in JobState /\ [js EXCEPT !.next = n].next = n
      /\ [js EXCEPT !.next = n].mark = js.mark /\ [js EXCEPT !.next = n].on = js.on
      /\ [js EXCEPT !.next = n].last = js.last
  BY <1>4, <1>5, Redated
<1>7. /\ [js EXCEPT !.next = "none", !.mark = "no"] \in JobState
      /\ [js EXCEPT !.next = "none", !.mark = "no"].next = "none"
      /\ [js EXCEPT !.next = "none", !.mark = "no"].mark = "no"
      /\ [js EXCEPT !.next = "none", !.mark = "no"].last = js.last
  BY <1>4 DEF JobState
<1>8. /\ new \in JobState /\ new.last = old.last
      /\ ~on => new.mark = "no" /\ new.next = "none"
      /\ on => new.mark = old.mark /\ new.on /\ new.next = n
  BY <1>4, <1>6, <1>7
<1> HIDE DEF new
<1>9. k \in done' => (Finished(Loaded[k]) => Finished(new))
  <2>1. done' \subseteq OneShot
    BY <1>1, LoadedIs
  <2>2. old # Absent
    BY <1>2, Fields
  <2> QED BY <1>4, <1>5, <1>8, <2>1, <2>2 DEF Finished, old
<1>10. \/ k \in lost /\ new.mark = "no"
       \/ new.mark = Loaded[k].mark /\ (Loaded[k].on => new.on)
  BY <1>3, <1>8 DEF old
<1> QED BY <1>1, <1>3, <1>8, <1>9, <1>10, JobEditKeeps

\* A new schedule dates a job that is enabled; a one-shot is not done any more.
LEMMA RescheduleKeeps ==
    ASSUME CronInv, NEW k \in Job, Reschedule(k)
    PROVE  CronInv'
<1> DEFINE old == Loaded[k]
           last == IF k \in OneShot THEN "none" ELSE old.last
           js == [old EXCEPT !.slot = "later", !.last = last]
           new == IF js.on THEN [js EXCEPT !.next = "later"]
                  ELSE [js EXCEPT !.next = "none", !.mark = "no"]
           lost == IF js.on THEN {} ELSE {k}
<1>1. /\ Loaded[k] # Absent /\ Edit([Loaded EXCEPT ![k] = new], lost)
      /\ known' = known /\ done' = done \ {k}
  BY DEF Reschedule
<1>2. old \in JobState
  BY <1>1, LoadedIs, StoreIs
<1>3. lost \in SUBSET Job /\ (k \in lost <=> ~js.on)
  OBVIOUS
<1> HIDE DEF old, lost
<1>4. js \in JobState /\ js.on = old.on /\ js.mark = old.mark
  <2>1. last \in {"none", "ok", "error"}
    BY <1>2, Fields
  <2> HIDE DEF last
  <2> QED BY <1>2, <2>1 DEF JobState
<1> HIDE DEF js
<1>5. /\ [js EXCEPT !.next = "later"] \in JobState
      /\ [js EXCEPT !.next = "later"].mark = js.mark /\ [js EXCEPT !.next = "later"].on = js.on
  BY <1>4, Redated
<1>6. /\ [js EXCEPT !.next = "none", !.mark = "no"] \in JobState
      /\ [js EXCEPT !.next = "none", !.mark = "no"].mark = "no"
  BY <1>4 DEF JobState
<1>7. /\ new \in JobState
      /\ ~js.on => new.mark = "no"
      /\ js.on => new.mark = old.mark /\ new.on
  BY <1>4, <1>5, <1>6
<1> HIDE DEF new
<1>8. \/ k \in lost /\ new.mark = "no"
      \/ new.mark = Loaded[k].mark /\ (Loaded[k].on => new.on)
  BY <1>3, <1>7 DEF old
<1>9. k \notin done' /\ done' \subseteq done
  BY <1>1
<1> QED BY <1>1, <1>3, <1>7, <1>8, <1>9, JobEditKeeps

\* A read maintains what it finds, and writes it if that has changed anything.
LEMMA ReadKeeps == CronInv /\ Read => CronInv'
<1> SUFFICES ASSUME CronInv, Read PROVE CronInv'
  OBVIOUS
<1> DEFINE st == Maintain(Loaded)
<1>1. /\ attached' = attached /\ start' = start /\ plan' = plan /\ ticking' = ticking
      /\ timer' = timer /\ batch' = batch /\ man' = man /\ known' = known /\ done' = done
  BY DEF Read
<1>2. \/ mem' = st /\ file' = file /\ events' = events /\ upset' = upset
      \/ \E ok \in BOOLEAN : Save(st, ok) /\ Upsets({}, ok)
  BY DEF Read
<1>3. /\ st \in Store /\ st # NotLoaded
      /\ \A j \in Job : st[j] # Absent => j \in known
      /\ \A j \in Job \ upset : MarkTrue(st[j], UnderWay(j), start # "clear") /\ Agree(file[j], st[j])
      /\ \A j \in done \ upset : Finished(st[j])
  BY MaintainedLoaded
<1> HIDE DEF st
<1>4. \A j \in Job : /\ \A b \in Batch : Held(b, j)' <=> Held(b, j)
                     /\ \A m \in Manual : ByHand(m, j)' <=> ByHand(m, j)
                     /\ (UnderWay(j)' <=> UnderWay(j)) /\ (Sole(j)' <=> Sole(j))
  BY <1>1, HoldersStay DEF Held, ByHand
<1>5. CASE mem' = st /\ file' = file /\ events' = events /\ upset' = upset
  <2>1. HasId' /\ JobsTrue' /\ DonesTrue'
    BY <1>1, <1>3, <1>4, <1>5, MemoryKeeps
  <2>2. TypeOK' /\ PhasesTrue'
    BY <1>1, <1>3, <1>5 DEF CronInv, TypeOK, PhasesTrue
  <2> QED BY <2>1, <2>2 DEF CronInv
<1>6. ASSUME NEW ok \in BOOLEAN, Save(st, ok), Upsets({}, ok)
      PROVE  CronInv'
  <2>1. mem' = st /\ file' \in {st, file} /\ (ok => file' = st) /\ events' \in 0..MaxEvents
    BY <1>6, SaveIs DEF CronInv
  <2>2. upset' = (IF ok THEN upset ELSE Job) /\ upset' \subseteq Job
    BY <1>6, LoadedIs DEF Upsets
  <2>3. TypeOK' /\ PhasesTrue'
    BY <1>1, <1>3, <2>1, <2>2 DEF CronInv, TypeOK, PhasesTrue
  <2>4. HasId'
    <3>1. \A j \in Job : UnderWay(j)' => j \in known
      BY <1>4 DEF CronInv, HasId
    <3> QED BY <1>1, <1>3, <2>1, <3>1, LoadedIs, IdsKept
  <2>5. ASSUME NEW j \in Job \ upset'
        PROVE  Sole(j)' /\ MarkTrue(st[j], UnderWay(j)', start' # "clear")
    <3>1. j \in Job \ upset
      BY <2>2, <2>5
    <3> QED BY <1>1, <1>3, <1>4, <3>1, LoadedIs DEF MarkTrue
  <2>6. ASSUME NEW j \in done' \ upset'
        PROVE  Finished(st[j]) /\ \A b \in Batch : ~Held(b, j)'
    <3>1. j \in Job /\ j \in done \ upset
      BY <1>1, <2>2, <2>6, LoadedIs
    <3> QED BY <1>3, <1>4, <3>1, LoadedIs
  <2>7. JobsTrue' /\ DonesTrue'
    <3>1. (file' = st \/ upset' = Job) /\ done' \subseteq Job
      BY <1>1, <2>1, <2>2, LoadedIs
    <3> QED BY <1>3, <2>1, <2>5, <2>6, <3>1, SectionKeeps
  <2> QED BY <2>3, <2>4, <2>7 DEF CronInv
<1> QED BY <1>2, <1>5, <1>6

-----------------------------------------------------------------------------
(* The world *)

\* A change of one job on both copies, which keeps what each of them says of it.
CopyChanged(k, f, c) ==
    /\ f \in JobState /\ c \in JobState
    /\ file' = IF file[k] = Absent THEN file ELSE [file EXCEPT ![k] = f]
    /\ mem' = IF mem = NotLoaded \/ mem[k] = Absent THEN mem ELSE [mem EXCEPT ![k] = c]
    /\ UNCHANGED <<attached, start, plan, ticking, timer, batch, man, known, done>>
    /\ events' \in 0..MaxEvents /\ upset \subseteq upset' /\ upset' \subseteq Job
    /\ k \notin upset' => MarkTrue(f, UnderWay(k), start # "clear")
    /\ k \notin upset' /\ mem # NotLoaded => Agree(f, c) /\ MarkTrue(c, UnderWay(k), start # "clear")
    /\ Finished(file[k]) => Finished(f) \/ file[k] = Absent
    /\ mem # NotLoaded /\ mem[k] # Absent => (Finished(mem[k]) => Finished(c))

LEMMA CopiesKeep ==
    ASSUME CronInv, NEW k \in Job, NEW f, NEW c, CopyChanged(k, f, c)
    PROVE  CronInv'
<1>0. /\ f \in JobState /\ c \in JobState
      /\ file' = IF file[k] = Absent THEN file ELSE [file EXCEPT ![k] = f]
      /\ mem' = IF mem = NotLoaded \/ mem[k] = Absent THEN mem ELSE [mem EXCEPT ![k] = c]
      /\ UNCHANGED <<attached, start, plan, ticking, timer, batch, man, known, done>>
      /\ events' \in 0..MaxEvents /\ upset \subseteq upset' /\ upset' \subseteq Job
      /\ k \notin upset' => MarkTrue(f, UnderWay(k), start # "clear")
      /\ k \notin upset' /\ mem # NotLoaded => Agree(f, c) /\ MarkTrue(c, UnderWay(k), start # "clear")
      /\ Finished(file[k]) => Finished(f) \/ file[k] = Absent
      /\ mem # NotLoaded /\ mem[k] # Absent => (Finished(mem[k]) => Finished(c))
  BY DEF CopyChanged
<1>1. /\ attached' = attached /\ start' = start /\ plan' = plan /\ ticking' = ticking
      /\ timer' = timer /\ batch' = batch /\ man' = man /\ known' = known
      /\ done' = done
  BY <1>0
<1>2. \A j \in Job : /\ \A b \in Batch : Held(b, j)' <=> Held(b, j)
                     /\ (UnderWay(j)' <=> UnderWay(j)) /\ (Sole(j)' <=> Sole(j))
  BY <1>1, HoldersStay DEF Held, ByHand
<1>3. /\ file \in Store /\ file' \in Store /\ f # Absent /\ c # Absent
      /\ file'[k] = IF file[k] = Absent THEN Absent ELSE f
      /\ \A j \in Job : j # k => file'[j] = file[j]
  <2>1. file \in Store /\ f # Absent /\ c # Absent
    BY <1>0, LoadedIs, Fields
  <2>2. /\ [file EXCEPT ![k] = f] \in Store /\ [file EXCEPT ![k] = f][k] = f
        /\ \A j \in Job : j # k => [file EXCEPT ![k] = f][j] = file[j]
    BY <1>0, <2>1 DEF Store
  <2> QED BY <1>0, <2>1, <2>2
<1>4. /\ mem = NotLoaded <=> mem' = NotLoaded
      /\ mem # NotLoaded => /\ mem' \in Store
                            /\ \A j \in Job : j # k => mem'[j] = mem[j]
                            /\ mem'[k] = IF mem[k] = Absent THEN Absent ELSE c
  <2>1. CASE mem = NotLoaded
    BY <1>0, <2>1
  <2>2. CASE mem # NotLoaded
    <3>1. mem \in Store
      BY <2>2 DEF CronInv, TypeOK
    <3>2. CASE mem[k] = Absent
      BY <1>0, <2>2, <3>1, <3>2
    <3>3. CASE mem[k] # Absent
      <4>1. mem' = [mem EXCEPT ![k] = c]
        BY <1>0, <2>2, <3>3
      <4>2. /\ [mem EXCEPT ![k] = c] \in Store /\ [mem EXCEPT ![k] = c][k] = c
            /\ \A j \in Job : j # k => [mem EXCEPT ![k] = c][j] = mem[j]
        BY <1>0, <3>1, ReplacedIs
      <4> QED BY <1>3, <2>2, <3>3, <4>1, <4>2, MarkersAssumption
    <3> QED BY <3>2, <3>3
  <2> QED BY <2>1, <2>2
<1>5. TypeOK'
  BY <1>0, <1>1, <1>3, <1>4 DEF CronInv, TypeOK
<1>6. HasId'
  <2>1. \A j \in Job : file'[j] # Absent \/ UnderWay(j)' => j \in known
    BY <1>0, <1>2, <1>3 DEF CronInv, HasId
  <2>2. mem' # NotLoaded => \A j \in Job : mem'[j] # Absent => j \in known
    BY <1>4 DEF CronInv, HasId
  <2> QED BY <1>1, <2>1, <2>2 DEF CronInv, HasId
<1>7. PhasesTrue'
  BY <1>1, <1>4 DEF CronInv, PhasesTrue
<1>8. ASSUME NEW j \in Job \ upset' PROVE JobTrue(j)'
  <2>1. /\ Sole(j) /\ MarkTrue(file[j], UnderWay(j), start # "clear")
        /\ mem # NotLoaded => Agree(file[j], mem[j]) /\ MarkTrue(mem[j], UnderWay(j), start # "clear")
    BY <1>0, <1>8 DEF CronInv, JobsTrue, JobTrue
  <2>2. /\ MarkTrue(file'[j], UnderWay(j), start # "clear")
        /\ mem # NotLoaded => Agree(file'[j], mem'[j]) /\ MarkTrue(mem'[j], UnderWay(j), start # "clear")
    <3>1. CASE j = k
      <4>1. mem # NotLoaded => (mem[k] = Absent <=> file[k] = Absent)
        BY <2>1, <3>1 DEF Agree
      <4>2. CASE file[k] = Absent
        BY <1>3, <1>4, <3>1, <4>1, <4>2 DEF MarkTrue, Agree
      <4>3. CASE file[k] # Absent
        BY <1>0, <1>3, <1>4, <1>8, <3>1, <4>1, <4>3
      <4> QED BY <4>2, <4>3
    <3>2. CASE j # k
      BY <1>3, <1>4, <2>1, <3>2
    <3> QED BY <3>1, <3>2
  <2>3. MarkTrue(file[j], UnderWay(j), start # "clear")'
    BY <1>1, <1>2, <2>2 DEF MarkTrue
  <2>4. mem' # NotLoaded => Agree(file[j], mem[j])' /\ MarkTrue(mem[j], UnderWay(j), start # "clear")'
    BY <1>1, <1>2, <1>4, <2>2 DEF MarkTrue, Agree
  <2> QED BY <1>2, <2>1, <2>3, <2>4 DEF JobTrue
<1>9. ASSUME NEW j \in done \ upset' PROVE DoneTrue(j)'
  <2>1. j \in Job /\ DoneTrue(j)
    BY <1>0, <1>9, LoadedIs DEF CronInv, DonesTrue
  <2>2. Finished(file'[j])
    BY <1>0, <1>3, <2>1 DEF DoneTrue, Finished
  <2>3. mem' # NotLoaded => Finished(mem'[j])
    <3>1. CASE j = k /\ mem # NotLoaded /\ mem[k] = Absent
      BY <1>4, <3>1 DEF Finished
    <3>2. CASE ~(j = k /\ mem # NotLoaded /\ mem[k] = Absent)
      BY <1>0, <1>4, <2>1, <3>2 DEF DoneTrue
    <3> QED BY <3>1, <3>2
  <2> QED BY <1>2, <2>1, <2>2, <2>3 DEF DoneTrue, Finished
<1>10. JobsTrue' /\ DonesTrue'
  BY <1>1, <1>8, <1>9 DEF JobsTrue, DonesTrue
<1> QED BY <1>5, <1>6, <1>7, <1>10 DEF CronInv

\* A date comes, in the file and in memory.
LEMMA TimePassesKeeps ==
    ASSUME CronInv, NEW k \in Job, TimePasses(k)
    PROVE  CronInv'
<1> DEFINE f == Later(k, file[k])
           c == IF mem = NotLoaded \/ mem[k] = Absent THEN f ELSE Later(k, mem[k])
<1>1. /\ file[k] # Absent
      /\ file' = [file EXCEPT ![k] = IF file[k] = Absent THEN Absent ELSE Later(k, file[k])]
      /\ mem' = IF mem = NotLoaded \/ mem[k] = Absent THEN mem ELSE [mem EXCEPT ![k] = Later(k, mem[k])]
      /\ UNCHANGED <<attached, start, plan, ticking, timer, batch, man, known, events, upset, done>>
  BY DEF TimePasses, OnCopies
<1>2. ASSUME NEW js \in JobState
      PROVE  /\ Later(k, js) \in JobState /\ Later(k, js).on = js.on /\ Later(k, js).mark = js.mark
             /\ Later(k, js).last = js.last
             /\ Later(k, js).next = IF js.next = "later" THEN "due" ELSE js.next
  BY DEF Later, JobState
<1>3. file[k] \in JobState /\ (mem # NotLoaded => mem[k] \in JobState \cup {Absent})
  BY <1>1, LoadedIs, StoreIs DEF CronInv, TypeOK
<1>4. /\ f \in JobState /\ f.on = file[k].on /\ f.mark = file[k].mark /\ f.last = file[k].last
      /\ f.next = IF file[k].next = "later" THEN "due" ELSE file[k].next
  BY <1>2, <1>3
<1>5. /\ c \in JobState
      /\ mem # NotLoaded /\ mem[k] # Absent =>
            /\ mem[k] \in JobState
            /\ c.on = mem[k].on /\ c.mark = mem[k].mark /\ c.last = mem[k].last
            /\ c.next = IF mem[k].next = "later" THEN "due" ELSE mem[k].next
  <2>1. CASE mem = NotLoaded \/ mem[k] = Absent
    BY <1>4, <2>1
  <2>2. CASE ~(mem = NotLoaded \/ mem[k] = Absent)
    <3>1. mem[k] \in JobState /\ c = Later(k, mem[k])
      BY <1>3, <2>2
    <3> HIDE DEF c
    <3> QED BY <1>2, <3>1
  <2> QED BY <2>1, <2>2
<1>6. /\ file' = [file EXCEPT ![k] = f]
      /\ mem' = IF mem = NotLoaded \/ mem[k] = Absent THEN mem ELSE [mem EXCEPT ![k] = c]
  BY <1>1
<1> HIDE DEF f, c
<1>7. k \notin upset =>
         /\ MarkTrue(f, UnderWay(k), start # "clear")
         /\ mem # NotLoaded => Agree(f, c) /\ MarkTrue(c, UnderWay(k), start # "clear")
  <2> SUFFICES ASSUME k \notin upset
               PROVE  /\ MarkTrue(f, UnderWay(k), start # "clear")
                      /\ mem # NotLoaded => Agree(f, c) /\ MarkTrue(c, UnderWay(k), start # "clear")
    OBVIOUS
  <2>1. /\ MarkTrue(file[k], UnderWay(k), start # "clear")
        /\ mem # NotLoaded => Agree(file[k], mem[k]) /\ MarkTrue(mem[k], UnderWay(k), start # "clear")
    BY DEF CronInv, JobsTrue, JobTrue
  <2>2. MarkTrue(f, UnderWay(k), start # "clear")
    BY <1>1, <1>4, <2>1 DEF MarkTrue
  <2>3. ASSUME mem # NotLoaded PROVE Agree(f, c) /\ MarkTrue(c, UnderWay(k), start # "clear")
    <3>1. mem[k] # Absent
      BY <1>1, <2>1, <2>3 DEF Agree
    <3>2. MarkTrue(c, UnderWay(k), start # "clear")
      BY <1>5, <2>1, <2>3, <3>1 DEF MarkTrue
    <3>3. f # Absent /\ c # Absent
      BY <1>4, <1>5, MarkersAssumption
    <3>4. Agree(f, c)
      BY <1>1, <1>4, <1>5, <2>1, <2>3, <3>1, <3>3 DEF Agree
    <3> QED BY <3>2, <3>4
  <2> QED BY <2>2, <2>3
<1>8. /\ Finished(file[k]) => Finished(f)
      /\ mem # NotLoaded /\ mem[k] # Absent => (Finished(mem[k]) => Finished(c))
  BY <1>1, <1>4, <1>5 DEF Finished
<1>9. CopyChanged(k, f, c)
  BY <1>1, <1>4, <1>5, <1>6, <1>7, <1>8 DEF CopyChanged, CronInv, TypeOK
<1> QED BY <1>9, CopiesKeep

\* A mark becomes old: that of no run, or the job is upset.
LEMMA MarkAgesKeeps ==
    ASSUME CronInv, NEW k \in Job, MarkAges(k)
    PROVE  CronInv'
<1> DEFINE aged(js) == IF js.mark = "set" THEN [js EXCEPT !.mark = "stale"] ELSE js
           f == IF file[k] = Absent THEN NewJob ELSE aged(file[k])
           c == IF mem = NotLoaded \/ mem[k] = Absent THEN f ELSE aged(mem[k])
<1>1. /\ \E st \in {file, Loaded} : st[k] # Absent /\ st[k].mark = "set"
      /\ file' = [file EXCEPT ![k] = IF file[k] = Absent THEN Absent ELSE aged(file[k])]
      /\ mem' = IF mem = NotLoaded \/ mem[k] = Absent THEN mem ELSE [mem EXCEPT ![k] = aged(mem[k])]
      /\ UNCHANGED <<attached, start, plan, ticking, timer, batch, man, known, done>>
  BY DEF MarkAges, OnCopies
<1>2. /\ events' \in 0..MaxEvents /\ upset \subseteq upset' /\ upset' \subseteq Job
      /\ k \notin upset' => k \notin upset /\ ~UnderWay(k)
  BY CronAssumption DEF MarkAges, Event, CronInv, TypeOK
<1>3. ASSUME NEW js \in JobState
      PROVE  aged(js) \in JobState /\ aged(js).on = js.on /\ aged(js).last = js.last /\ aged(js).next = js.next
  <2>1. /\ [js EXCEPT !.mark = "stale"] \in JobState
        /\ [js EXCEPT !.mark = "stale"].on = js.on
        /\ [js EXCEPT !.mark = "stale"].next = js.next /\ [js EXCEPT !.mark = "stale"].last = js.last
    BY Remarked
  <2>2. CASE js.mark = "set"
    BY <2>1, <2>2
  <2>3. CASE js.mark # "set"
    BY <2>3
  <2> QED BY <2>2, <2>3
<1>4. file[k] \in JobState \cup {Absent} /\ (mem # NotLoaded => mem[k] \in JobState \cup {Absent})
  BY LoadedIs, StoreIs DEF CronInv, TypeOK
<1>5. file' = IF file[k] = Absent THEN file ELSE [file EXCEPT ![k] = f]
  <2>1. file \in [Job -> JobState \cup {Absent}]
    BY LoadedIs DEF Store
  <2>2. CASE file[k] = Absent
    BY <1>1, <2>1, <2>2
  <2>3. CASE file[k] # Absent
    BY <1>1, <2>3
  <2> QED BY <2>2, <2>3
<1> HIDE DEF aged
<1>6. /\ f \in JobState
      /\ file[k] # Absent =>
            file[k] \in JobState /\ f.on = file[k].on /\ f.last = file[k].last /\ f.next = file[k].next
  <2>1. NewJob \in JobState
    BY CronAssumption DEF NewJob, JobState
  <2> QED BY <1>3, <1>4, <2>1
<1>7. /\ c \in JobState
      /\ mem # NotLoaded /\ mem[k] # Absent =>
            mem[k] \in JobState /\ c.on = mem[k].on /\ c.last = mem[k].last /\ c.next = mem[k].next
  <2>1. CASE mem = NotLoaded \/ mem[k] = Absent
    BY <1>6, <2>1
  <2>2. CASE ~(mem = NotLoaded \/ mem[k] = Absent)
    <3>1. mem[k] \in JobState /\ c = aged(mem[k])
      BY <1>4, <2>2
    <3> HIDE DEF c
    <3> QED BY <1>3, <3>1
  <2> QED BY <2>1, <2>2
<1>8. mem' = IF mem = NotLoaded \/ mem[k] = Absent THEN mem ELSE [mem EXCEPT ![k] = c]
  BY <1>1
<1> HIDE DEF f, c
<1>9. k \notin upset' =>
         /\ MarkTrue(f, UnderWay(k), start # "clear")
         /\ mem # NotLoaded => Agree(f, c) /\ MarkTrue(c, UnderWay(k), start # "clear")
  <2> SUFFICES ASSUME k \notin upset, ~UnderWay(k)
               PROVE  /\ MarkTrue(f, UnderWay(k), start # "clear")
                      /\ mem # NotLoaded => Agree(f, c) /\ MarkTrue(c, UnderWay(k), start # "clear")
    BY <1>2
  <2>1. /\ MarkTrue(file[k], UnderWay(k), start # "clear")
        /\ MarkTrue(Loaded[k], UnderWay(k), start # "clear")
        /\ Agree(file[k], Loaded[k])
    BY LoadedIs
  <2>2. start = "clear" /\ file[k] # Absent
    BY <1>1, <2>1 DEF MarkTrue, Agree
  <2>3. MarkTrue(f, UnderWay(k), start # "clear") /\ MarkTrue(c, UnderWay(k), start # "clear")
    BY <2>2 DEF MarkTrue
  <2>4. ASSUME mem # NotLoaded PROVE Agree(f, c)
    <3>1. mem[k] # Absent /\ Agree(file[k], mem[k])
      BY <2>1, <2>2, <2>4 DEF Agree, Loaded
    <3>2. f # Absent /\ c # Absent
      BY <1>6, <1>7, MarkersAssumption
    <3> QED BY <1>6, <1>7, <2>2, <2>4, <3>1, <3>2 DEF Agree
  <2> QED BY <2>3, <2>4
<1>10. /\ Finished(file[k]) => Finished(f) \/ file[k] = Absent
       /\ mem # NotLoaded /\ mem[k] # Absent => (Finished(mem[k]) => Finished(c))
  BY <1>6, <1>7 DEF Finished
<1>11. CopyChanged(k, f, c)
  BY <1>1, <1>2, <1>5, <1>6, <1>7, <1>8, <1>9, <1>10 DEF CopyChanged
<1> QED BY <1>11, CopiesKeep

\* Another service starts, in this process or in a new one.
LEMMA ServiceKeeps == CronInv /\ (Reload \/ Crash) => CronInv'
<1> SUFFICES ASSUME CronInv, Reload \/ Crash PROVE CronInv'
  OBVIOUS
<1>1. /\ mem' = NotLoaded /\ attached' = FALSE /\ start' = "clear" /\ plan' = NoPlan
      /\ ticking' = "idle" /\ timer' = FALSE /\ file' = file /\ known' = known
      /\ events < MaxEvents /\ events' = events + 1
  BY DEF Reload, Crash, NewService, Event
<1>2. /\ \A b \in Batch : batch'[b] = NoBatch
      /\ \A m \in Manual : man'[m].pc \in {"idle", "done"}
      /\ batch' \in [Batch -> [todo : SUBSET Job, running : SUBSET Job,
                               result : [Job -> Status \cup {"none"}]]]
      /\ man' \in [Manual -> [pc : {"idle", "preflight", "reserve", "exec", "finish", "done"},
                              job : Job \cup {Absent}, result : Status \cup {"none"}]]
      /\ (done' = done /\ upset' = upset) \/ (done' = done \ upset /\ upset' = {})
  <2>1. CASE Reload
    <3>1. /\ batch' = batch /\ man' = man /\ upset' = upset /\ done' = done
          /\ ticking = "idle" /\ start \in {"up", "failed"}
          /\ \A m \in Manual : man[m].pc \in {"idle", "done"}
      BY <2>1 DEF Reload, Quiet
    <3> QED BY <3>1 DEF CronInv, TypeOK, PhasesTrue, Batch
  <2>2. CASE Crash
    <3>1. /\ batch' = [b \in Batch |-> NoBatch]
          /\ man' = [m \in Manual |-> IF man[m].pc = "idle" THEN Idle ELSE Over]
          /\ done' = done \ upset /\ upset' = {}
      BY <2>2 DEF Crash
    <3>2. NoBatch \in [todo : SUBSET Job, running : SUBSET Job, result : [Job -> Status \cup {"none"}]]
      BY DEF NoBatch, NoResults
    <3>3. /\ Idle \in [pc : {"idle", "preflight", "reserve", "exec", "finish", "done"},
                       job : Job \cup {Absent}, result : Status \cup {"none"}]
          /\ Over \in [pc : {"idle", "preflight", "reserve", "exec", "finish", "done"},
                       job : Job \cup {Absent}, result : Status \cup {"none"}]
          /\ Idle.pc = "idle" /\ Over.pc = "done"
      BY DEF Over, Idle
    <3> QED BY <3>1, <3>2, <3>3
  <2> QED BY <2>1, <2>2
<1>3. ASSUME NEW j \in Job
      PROVE  /\ ~UnderWay(j)' /\ Sole(j)' /\ \A b \in Batch : ~Held(b, j)'
  <2>1. \A b \in Batch : ~Held(b, j)'
    BY <1>2 DEF Held, NoBatch, NoResults
  <2>2. \A m \in Manual : ~ByHand(m, j)'
    BY <1>2 DEF ByHand
  <2> QED BY <2>1, <2>2, UnderWayIsPrime, SolePrime
<1>4. done' \subseteq done /\ upset' \subseteq Job /\ \A j \in done' \ upset' : j \in done \ upset
  BY <1>2, LoadedIs
<1>5. TypeOK'
  <2>1. plan' \in [skip : SUBSET Job, deferred : SUBSET Job]
    BY <1>1 DEF NoPlan
  <2>2. events' \in 0..MaxEvents
    <3>1. events \in 0..MaxEvents /\ MaxEvents \in Nat
      BY CronAssumption DEF CronInv, TypeOK
    <3> QED BY <1>1, <3>1
  <2> QED BY <1>1, <1>2, <1>4, <2>1, <2>2 DEF CronInv, TypeOK
<1>6. HasId'
  BY <1>1, <1>3, <1>4 DEF CronInv, HasId
<1>7. PhasesTrue'
  <2>1. NoBatch.todo = {} /\ NoBatch.running = {}
    BY DEF NoBatch
  <2> QED BY <1>1, <1>2, <2>1 DEF PhasesTrue, Batch
<1>8. JobsTrue'
  BY <1>1, <1>3 DEF JobsTrue, JobTrue, MarkTrue
<1>9. ASSUME NEW j \in done' \ upset' PROVE DoneTrue(j)'
  <2>1. j \in Job /\ Finished(file[j])
    BY <1>4, <1>9, LoadedIs
  <2> QED BY <1>1, <1>3, <2>1 DEF DoneTrue, Finished
<1>10. DonesTrue'
  BY <1>9 DEF DonesTrue
<1> QED BY <1>5, <1>6, <1>7, <1>8, <1>10 DEF CronInv

-----------------------------------------------------------------------------
(* The theorems *)

LEMMA StutterCronInv == CronInv /\ UNCHANGED vars => CronInv'
<1> SUFFICES ASSUME CronInv, UNCHANGED vars PROVE CronInv'
  OBVIOUS
<1>1. /\ file' = file /\ mem' = mem /\ attached' = attached /\ start' = start /\ plan' = plan
      /\ ticking' = ticking /\ timer' = timer /\ batch' = batch /\ man' = man
      /\ known' = known /\ events' = events /\ upset' = upset /\ done' = done
  BY DEF vars, store
<1>2. JobsTrue' /\ DonesTrue' /\ \A j \in Job : UnderWay(j)' <=> UnderWay(j)
  BY <1>1, StoreStays DEF Held, ByHand
<1>3. TypeOK' /\ HasId' /\ PhasesTrue'
  BY <1>1, <1>2 DEF CronInv, TypeOK, HasId, PhasesTrue
<1> QED BY <1>2, <1>3 DEF CronInv

LEMMA NextCronInv == CronInv /\ Next => CronInv'
<1> SUFFICES ASSUME CronInv, Next PROVE CronInv'
  OBVIOUS
<1>1. CASE Starting
  BY <1>1, StartClearKeeps, StartPlanKeeps, StartApplyKeeps, StartRecomputeKeeps DEF Starting
<1>2. CASE Ticking \/ TickFindsRunning
  BY <1>2, TimerKeeps, TickReserveKeeps, TickApplyKeeps DEF Ticking
<1>3. CASE \E b \in Batch : Running(b)
  BY <1>3, RunBeginsKeeps, RunEndsKeeps DEF Running
<1>4. CASE \E m \in Manual : CallRun(m) \/ ManualRun(m)
  BY <1>4, CallKeeps, PreflightKeeps, ReserveKeeps, FinishKeeps DEF ManualRun
<1>5. CASE \E j \in Job : Add(j) \/ Remove(j) \/ EditOf(j) \/ TimePasses(j) \/ MarkAges(j)
  BY <1>5, AddKeeps, RemoveKeeps, SetEnabledKeeps, RescheduleKeeps, TimePassesKeeps, MarkAgesKeeps DEF EditOf
<1>6. CASE Read
  BY <1>6, ReadKeeps
<1>7. CASE Reload \/ Crash
  BY <1>7, ServiceKeeps
<1> QED BY <1>1, <1>2, <1>3, <1>4, <1>5, <1>6, <1>7 DEF Next

\* Every step of the service keeps ids, phases, marks and what is done.
THEOREM CronInvariant == Spec => []CronInv
<1>1. Init => CronInv
  BY InitCronInv
<1>2. CronInv /\ [Next]_vars => CronInv'
  BY NextCronInv, StutterCronInv
<1> QED BY <1>1, <1>2, PTL DEF Spec

LEMMA OneOrNone ==
    ASSUME NEW S, \A x, y \in S : x = y
    PROVE  Cardinality(S) \in Nat /\ Cardinality(S) <= 1 /\ (S = {} => Cardinality(S) = 0)
<1>1. CASE S = {}
  BY <1>1, FS_EmptySet
<1>2. CASE S # {}
  <2>1. PICK x : S = {x}
    BY <1>2
  <2> QED BY <1>2, <2>1, FS_Singleton
<1> QED BY <1>1, <1>2

\* No job runs twice at one time, and its mark in the store tells whether it is under way.
THEOREM MarksAreTrue == Spec => []RunningMarkTrue
<1>1. CronInv => RunningMarkTrue
  <2> SUFFICES ASSUME CronInv PROVE RunningMarkTrue
    OBVIOUS
  <2>1. ASSUME NEW j \in Job \ upset
        PROVE  /\ Executions(j) <= 1
               /\ file[j] # Absent /\ start # "clear" => (Marked(file[j]) <=> UnderWay(j))
    <3> DEFINE inBatch == {b \in Batch : j \in batch[b].running}
               byHand == {m \in Manual : man[m].job = j /\ man[m].pc = "exec"}
    <3>1. Sole(j) /\ MarkTrue(file[j], UnderWay(j), start # "clear")
      BY LoadedIs
    <3>2. (\A b \in inBatch : Held(b, j)) /\ (\A m \in byHand : ByHand(m, j))
      BY DEF Held, ByHand
    <3>3. /\ \A b, c \in inBatch : b = c
          /\ \A m, n \in byHand : m = n
          /\ inBatch = {} \/ byHand = {}
      BY <3>1, <3>2 DEF Sole
    <3>4. Executions(j) = Cardinality(inBatch) + Cardinality(byHand)
      BY DEF Executions
    <3> HIDE DEF inBatch, byHand
    <3>5. /\ Cardinality(inBatch) \in Nat /\ Cardinality(inBatch) <= 1
          /\ inBatch = {} => Cardinality(inBatch) = 0
      BY <3>3, OneOrNone
    <3>6. /\ Cardinality(byHand) \in Nat /\ Cardinality(byHand) <= 1
          /\ byHand = {} => Cardinality(byHand) = 0
      BY <3>3, OneOrNone
    <3>7. Executions(j) <= 1
      BY <3>3, <3>4, <3>5, <3>6
    <3>8. file[j] # Absent /\ start # "clear" => (Marked(file[j]) <=> UnderWay(j))
      BY <3>1 DEF MarkTrue, Marked
    <3> QED BY <3>7, <3>8
  <2> QED BY <2>1 DEF RunningMarkTrue, CronInv
<1> QED BY <1>1, CronInvariant, PTL

\* What the sections do to a date that has come.
DueStays(j) ==
    IsDue(j) /\ ~Marked(file[j]) /\ file'[j] # Absent => file'[j].next = "due" \/ ~file'[j].on

LEMMA MaintainStaysDue ==
    ASSUME NEW st \in Store, NEW j \in Job, st[j] # Absent, st[j].on, st[j].next = "due"
    PROVE  Maintain(st)[j].next = "due"
  BY MaintainIs

\* A section that writes the store st, in which j is due if it was in the file.
LEMMA WriteStaysDue ==
    ASSUME NEW st, NEW ok \in BOOLEAN, NEW j \in Job,
           Save(st, ok) \/ Put(st, ok), upset' = IF ok THEN upset ELSE Job, j \notin upset',
           IsDue(j) /\ ~Marked(file[j]) /\ st[j] # Absent => st[j].next = "due"
    PROVE  DueStays(j)
<1>1. file' = st
  BY DEF Save, Put
<1> QED BY <1>1 DEF DueStays

\* The steps of the timer.
LEMMA TickStaysDue ==
    ASSUME CronInv, TickReserve \/ TickApply, NEW j \in Job \ upset'
    PROVE  DueStays(j)
<1>1. CASE TickReserve
  <2> DEFINE due == TickDue(file)
             st == IF due = {} THEN Maintain(file) ELSE WithMark(file, due)
  <2>1. PICK ok \in BOOLEAN : Save(st, ok) /\ Upsets({}, ok)
    BY <1>1 DEF TickReserve
  <2>2. \A i \in due : i \in Job /\ file[i] # Absent
    BY DEF TickDue
  <2> HIDE DEF due
  <2>3. IsDue(j) => st[j].next = "due"
    <3>1. CASE due = {}
      BY <3>1, LoadedIs, MaintainStaysDue DEF IsDue
    <3>2. CASE due # {}
      <4>1. \A i \in Job : /\ i \notin due => WithMark(file, due)[i] = file[i]
                           /\ i \in due => WithMark(file, due)[i].next = file[i].next
        BY <2>2, LoadedIs, WithMarkIs
      <4> QED BY <3>2, <4>1 DEF IsDue
    <3> QED BY <3>1, <3>2
  <2> HIDE DEF st
  <2> QED BY <2>1, <2>3, WriteStaysDue DEF Upsets
<1>2. CASE TickApply
  <2> DEFINE result == batch["tick"].result
             applied == ApplyResults(file, result)
             st == Maintain(applied)
  <2>1. PICK ok \in BOOLEAN : Save(st, ok) /\ Upsets({}, ok)
    BY <1>2 DEF TickApply
  <2>2. result \in [Job -> Status \cup {"none"}]
    BY DEF CronInv, TypeOK, Batch
  <2>3. upset' = (IF ok THEN upset ELSE Job) /\ j \notin upset
    BY <2>1, LoadedIs DEF Upsets
  <2>4. applied \in Store /\ (result[j] = "none" => applied[j] = file[j])
    BY <2>2, LoadedIs, ApplyResultsIs
  <2>5. IsDue(j) /\ ~Marked(file[j]) => result[j] = "none"
    <3>1. MarkTrue(file[j], UnderWay(j), start # "clear")
      BY <2>3, LoadedIs
    <3>2. result[j] # "none" => UnderWay(j)
      BY DEF UnderWay, Batch
    <3> QED BY <3>1, <3>2 DEF MarkTrue, Marked, IsDue
  <2> HIDE DEF result, applied
  <2>6. IsDue(j) /\ ~Marked(file[j]) => st[j].next = "due"
    BY <2>4, <2>5, MaintainStaysDue DEF IsDue
  <2> HIDE DEF st
  <2> QED BY <2>1, <2>3, <2>6, WriteStaysDue
<1> QED BY <1>1, <1>2

\* The steps of a call by hand.
LEMMA CallStaysDue ==
    ASSUME CronInv, start = "up", NEW m \in Manual, ManualRun(m), NEW j \in Job \ upset'
    PROVE  DueStays(j)
<1>1. CASE Preflight(m) \/ ReserveRefused(m) \/ ManualEnds(m)
  BY <1>1 DEF Preflight, ReserveRefused, ManualEnds, store, DueStays, IsDue
<1>2. CASE Reserve(m)
  <2> DEFINE k == man[m].job
             st == WithMark(mem, {k})
  <2>1. PICK ok \in BOOLEAN : Save(st, ok) /\ Upsets(IF mem[k].on THEN {} ELSE {k}, ok)
    BY <1>2 DEF Reserve
  <2>2. man[m].pc = "reserve" /\ mem[k] # Absent
    BY <1>2 DEF Reserve, Reservable
  <2>3. mem \in Store /\ mem = Loaded /\ k \in Job
    BY <2>2 DEF CronInv, TypeOK, PhasesTrue, Loaded
  <2>4. \A i \in Job : /\ i \notin {k} => st[i] = mem[i]
                       /\ i \in {k} => st[i].next = mem[i].next
    <3>1. \A i \in {k} : i \in Job /\ mem[i] # Absent
      BY <2>2, <2>3
    <3> QED BY <2>3, <3>1, WithMarkIs
  <2> HIDE DEF st, k
  <2>5. file' = st /\ j \notin upset
    BY <2>1, LoadedIs DEF Save, Put, Upsets
  <2>6. IsDue(j) => st[j].next = "due"
    BY <2>3, <2>4, <2>5, LoadedIs DEF IsDue, Agree
  <2> QED BY <2>5, <2>6 DEF DueStays
<1>3. CASE Finish(m)
  <2>1. man[m].pc = "finish" /\ man' = [man EXCEPT ![m] = Over] /\ batch' = batch
    BY <1>3 DEF Finish, ManOver
  <2>2. PICK k \in Job : k = man[m].job
    BY <2>1, CallOver
  <2>3. CASE Loaded[k] = Absent
    BY <1>3, <2>2, <2>3 DEF Finish, store, DueStays, IsDue
  <2>4. CASE Loaded[k] # Absent
    <3> DEFINE new == ApplyJobResult(k, Loaded[k], man[m].result)
               merged == Merged(k, new)
               st == Maintain(merged)
    <3>1. PICK ok \in BOOLEAN : Save(st, ok) /\ Upsets({}, ok)
      BY <1>3, <2>2, <2>4 DEF Finish, Merged
    <3>2. new \in JobState \cup {Absent}
      <4>1. Loaded[k] \in JobState
        BY <2>4, LoadedIs, StoreIs
      <4> QED BY <4>1, ApplyJobResultIs
    <3> HIDE DEF new
    <3>3. merged \in Store /\ \A i \in Job : i # k => merged[i] = file[i]
      BY <3>2, MergedIs
    <3> HIDE DEF merged
    <3>4. upset' = (IF ok THEN upset ELSE Job) /\ j \notin upset
      BY <3>1, LoadedIs DEF Upsets
    <3>5. IsDue(j) /\ ~Marked(file[j]) => j # k
      <4>1. MarkTrue(file[j], UnderWay(j), start # "clear")
        BY <3>4, LoadedIs
      <4>2. j = k => UnderWay(j)
        BY <2>1, <2>2 DEF UnderWay
      <4> QED BY <4>1, <4>2 DEF MarkTrue, Marked, IsDue
    <3>6. IsDue(j) /\ ~Marked(file[j]) => st[j].next = "due"
      BY <3>3, <3>5, MaintainStaysDue DEF IsDue
    <3> HIDE DEF st
    <3> QED BY <3>1, <3>4, <3>6, WriteStaysDue
  <2> QED BY <2>3, <2>4
<1> QED BY <1>1, <1>2, <1>3 DEF ManualRun

\* An edit of another job, or a removal.
LEMMA EditStaysDue ==
    ASSUME CronInv, start = "up", NEW j \in Job \ upset', NEW st, NEW lost, Edit(st, lost),
           st[j] = Loaded[j] \/ st[j] = Absent
    PROVE  DueStays(j)
<1>1. PICK ok \in BOOLEAN : Put(st, ok) /\ Upsets({i \in lost : UnderWay(i)}, ok)
  BY DEF Edit
<1>2. file' = st /\ j \notin upset
  BY <1>1, LoadedIs DEF Put, Upsets
<1>3. Agree(file[j], Loaded[j])
  BY <1>2, LoadedIs
<1> QED BY <1>2, <1>3 DEF DueStays, IsDue, Agree

LEMMA EditsStayDue ==
    ASSUME CronInv, start = "up", NEW j \in Job \ upset', NEW k \in Job, Remove(k) \/ EditOf(k)
    PROVE  DueStays(j) \/ EditOf(j)
<1>1. Loaded \in Store /\ LoadedComputed = Loaded
  BY LoadedIs DEF CronInv, PhasesTrue, Loaded, LoadedComputed
<1>2. CASE Remove(k)
  <2>1. Edit([Loaded EXCEPT ![k] = Absent], {})
    BY <1>1, <1>2 DEF Remove
  <2>2. [Loaded EXCEPT ![k] = Absent][j] \in {Loaded[j], Absent}
    BY <1>1 DEF Store
  <2> QED BY <2>1, <2>2, EditStaysDue
<1>3. CASE EditOf(k) /\ k # j
  <2>1. PICK js, lost : Edit([Loaded EXCEPT ![k] = js], lost)
    BY <1>3 DEF EditOf, SetEnabled, Reschedule
  <2>2. [Loaded EXCEPT ![k] = js][j] = Loaded[j]
    BY <1>1, <1>3 DEF Store
  <2> QED BY <2>1, <2>2, EditStaysDue
<1> QED BY <1>2, <1>3

\* Reads, and the passing of time.
LEMMA OthersStayDue ==
    ASSUME CronInv, NEW j \in Job \ upset',
           Read \/ \E k \in Job : TimePasses(k) \/ MarkAges(k)
    PROVE  DueStays(j)
<1>1. CASE Read
  <2>1. CASE file' = file
    BY <2>1 DEF DueStays, IsDue
  <2>2. CASE file' # file
    <3>1. PICK ok \in BOOLEAN : Save(Maintain(Loaded), ok) /\ Upsets({}, ok)
      BY <1>1, <2>2 DEF Read
    <3>2. upset' = (IF ok THEN upset ELSE Job) /\ j \notin upset
      BY <3>1, LoadedIs DEF Upsets
    <3>3. IsDue(j) => Maintain(Loaded)[j].next = "due"
      <4>1. Loaded \in Store /\ Agree(file[j], Loaded[j])
        BY <3>2, LoadedIs
      <4>2. IsDue(j) => Loaded[j] # Absent /\ Loaded[j].on /\ Loaded[j].next = "due"
        BY <4>1 DEF Agree, IsDue
      <4> QED BY <4>1, <4>2, MaintainStaysDue
    <3> QED BY <3>1, <3>2, <3>3, WriteStaysDue
  <2> QED BY <2>1, <2>2
<1>2. ASSUME NEW k \in Job, TimePasses(k) \/ MarkAges(k)
      PROVE  DueStays(j)
  <2>1. CASE j # k
    <3>1. PICK js : file' = [file EXCEPT ![k] = js]
      BY <1>2 DEF TimePasses, MarkAges, OnCopies
    <3>2. file'[j] = file[j]
      BY <2>1, <3>1, LoadedIs DEF Store
    <3> QED BY <3>2 DEF DueStays, IsDue
  <2>2. CASE j = k /\ TimePasses(k)
    <3>1. file[k] # Absent /\ file' = [file EXCEPT ![k] = IF file[k] = Absent THEN Absent ELSE Later(k, file[k])]
      BY <2>2 DEF TimePasses, OnCopies
    <3>2. file[k] \in JobState /\ file'[k] = Later(k, file[k])
      BY <3>1, LoadedIs, StoreIs DEF Store
    <3>3. Later(k, file[k]).next = IF file[k].next = "later" THEN "due" ELSE file[k].next
      BY <3>2 DEF Later, JobState
    <3> QED BY <2>2, <3>2, <3>3 DEF DueStays, IsDue
  <2>3. CASE j = k /\ MarkAges(k)
    <3> DEFINE aged(js) == IF js.mark = "set" THEN [js EXCEPT !.mark = "stale"] ELSE js
    <3>1. file' = [file EXCEPT ![k] = IF file[k] = Absent THEN Absent ELSE aged(file[k])]
      BY <2>3 DEF MarkAges, OnCopies
    <3>2. file \in Store /\ file[k] \in JobState \cup {Absent}
      BY LoadedIs, StoreIs
    <3>3. CASE file[k] = Absent
      BY <2>3, <3>3 DEF DueStays, IsDue
    <3>4. CASE file[k] # Absent
      <4>1. file'[k] = aged(file[k])
        BY <3>1, <3>2, <3>4 DEF Store
      <4>2. aged(file[k]).next = file[k].next
        BY <3>2, <3>4, Remarked
      <4> HIDE DEF aged
      <4> QED BY <2>3, <4>1, <4>2 DEF DueStays, IsDue
    <3> QED BY <3>3, <3>4
  <2> QED BY <1>2, <2>1, <2>2, <2>3
<1> QED BY <1>1, <1>2

\* While the service is up, a date that has come is given up only by a run or an edit of the
\* job, or by the addition of another.
THEOREM DueIsNotSkipped == Spec => DueNotSkipped
<1> DEFINE kept == start = "up" =>
                     \A j \in Job \ upset' :
                        IsDue(j) /\ ~Marked(file[j]) /\ file'[j] # Absent =>
                           \/ file'[j].next = "due" \/ ~file'[j].on
                           \/ EditOf(j) \/ \E k \in Job : Add(k)
<1>1. CronInv /\ Next => kept
  <2> SUFFICES ASSUME CronInv, Next, start = "up", NEW j \in Job \ upset'
               PROVE  DueStays(j) \/ EditOf(j) \/ \E k \in Job : Add(k)
    BY DEF DueStays
  <2>1. ~Starting
    BY DEF Starting, StartClear, StartPlan, StartApply, StartRecompute
  <2>2. CASE file' = file
    BY <2>2 DEF DueStays, IsDue
  <2>3. CASE Ticking \/ TickFindsRunning \/ \E b \in Batch : Running(b)
    <3>1. CASE TickReserve \/ TickApply
      BY <3>1, TickStaysDue
    <3>2. CASE ~(TickReserve \/ TickApply)
      BY <2>2, <2>3, <3>2
         DEF Ticking, TickBegins, TickFinal, TickFindsRunning, Running, RunBegins, RunEnds, store
    <3> QED BY <3>1, <3>2
  <2>4. ASSUME NEW m \in Manual, CallRun(m) \/ ManualRun(m)
        PROVE  DueStays(j)
    <3>1. CASE CallRun(m)
      BY <3>1 DEF CallRun, store, DueStays, IsDue
    <3> QED BY <2>4, <3>1, CallStaysDue
  <2>5. CASE \E k \in Job : Remove(k) \/ EditOf(k)
    BY <2>5, EditsStayDue
  <2>6. CASE Read \/ \E k \in Job : TimePasses(k) \/ MarkAges(k)
    BY <2>6, OthersStayDue
  <2>7. CASE Reload \/ Crash
    BY <2>2, <2>7 DEF Reload, Crash, NewService
  <2> QED BY <2>1, <2>3, <2>4, <2>5, <2>6, <2>7 DEF Next
<1>2. UNCHANGED vars => kept
  BY DEF vars, store, IsDue
<1>3. CronInv /\ [Next]_vars => [kept]_vars
  BY <1>1
<1> HIDE DEF kept
<1>4. Spec => [][kept]_vars
  BY <1>3, CronInvariant, PTL DEF Spec
<1> QED BY <1>4, PTL DEF DueNotSkipped, kept

\* The scheduler does not take a one-shot whose success has been stored.
THEOREM OneShotsAreDone == Spec => OneShotDone
<1> DEFINE kept == \A j \in done \ upset : \A b \in Batch : j \in batch'[b].todo => j \in batch[b].todo
<1>1. CronInv /\ Next => kept
  <2> SUFFICES ASSUME CronInv, Next, NEW j \in done \ upset, NEW b \in Batch, j \in batch'[b].todo
               PROVE  j \in batch[b].todo
    OBVIOUS
  <2>1. batch \in [Batch -> [todo : SUBSET Job, running : SUBSET Job,
                             result : [Job -> Status \cup {"none"}]]]
    BY DEF CronInv, TypeOK
  <2>2. Finished(Loaded[j]) /\ Finished(file[j]) /\ j \in Job
    BY LoadedIs
  <2>3. NoBatch.todo = {}
    BY DEF NoBatch
  <2>4. CASE batch' = batch
    BY <2>4
  <2>5. CASE StartPlan /\ batch' # batch
    <3>1. PICK more \in SUBSET MayHaveMissed(Loaded, plan.skip) :
            \E now \in SUBSET (Missed(Loaded, plan.skip) \cup more) :
               batch' = [batch EXCEPT !["catchup"].todo = now]
      BY <2>5 DEF StartPlan
    <3>2. PICK now \in SUBSET (Missed(Loaded, plan.skip) \cup more) :
            batch' = [batch EXCEPT !["catchup"].todo = now]
      BY <3>1
    <3>3. j \notin now
      BY <2>2, <3>1, <3>2 DEF Missed, MayHaveMissed, Runnable, Finished
    <3> QED BY <2>1, <3>2, <3>3
  <2>6. CASE TickReserve /\ batch' # batch
    <3>1. batch' = [batch EXCEPT !["tick"].todo = TickDue(file)]
      BY <2>6 DEF TickReserve
    <3>2. j \notin TickDue(file)
      BY <2>2 DEF TickDue, Runnable, Finished
    <3> QED BY <2>1, <3>1, <3>2
  <2>7. CASE StartApply \/ TickApply
    <3>1. PICK c \in Batch : batch' = [batch EXCEPT ![c] = NoBatch]
      BY <2>7 DEF StartApply, TickApply, Batch
    <3> QED BY <2>1, <2>3, <3>1
  <2>8. CASE Crash
    BY <2>3, <2>8 DEF Crash
  <2>9. ASSUME NEW c \in Batch, NEW k \in Job, RunBegins(c, k)
        PROVE  j \in batch[b].todo
    <3>1. batch' = [batch EXCEPT ![c].todo = @ \ {k}, ![c].running = @ \cup {k}]
      BY <2>9 DEF RunBegins
    <3> QED BY <2>1, <3>1
  <2>10. ASSUME NEW c \in Batch, NEW k \in Job, RunEnds(c, k)
         PROVE  j \in batch[b].todo
    <3>1. PICK status : batch' = [batch EXCEPT ![c].running = @ \ {k}, ![c].result[k] = status]
      BY <2>10 DEF RunEnds
    <3> QED BY <2>1, <3>1
  <2>11. CASE \E k \in Job : Add(k) \/ Remove(k) \/ EditOf(k) \/ TimePasses(k) \/ MarkAges(k)
    BY <2>4, <2>11 DEF Add, Remove, EditOf, SetEnabled, Reschedule, Edit, TimePasses, MarkAges, OnCopies
  <2>12. CASE \E m \in Manual : CallRun(m) \/ ManualRun(m)
    BY <2>4, <2>12 DEF CallRun, ManualRun, Preflight, ReserveRefused, Reserve, ManualEnds, Finish
  <2>13. CASE StartClear \/ StartRecompute \/ TickBegins \/ TickFinal \/ TickFindsRunning \/ Read \/ Reload
    BY <2>4, <2>13
       DEF StartClear, StartRecompute, TickBegins, TickFinal, TickFindsRunning, Read, Reload
  <2> QED BY <2>4, <2>5, <2>6, <2>7, <2>8, <2>9, <2>10, <2>11, <2>12, <2>13
          DEF Next, Starting, Ticking, Running
<1>2. CronInv /\ [Next]_vars => [kept]_vars
  BY <1>1
<1> HIDE DEF kept
<1>3. Spec => [][kept]_vars
  BY <1>2, CronInvariant, PTL DEF Spec
<1> QED BY <1>3, PTL DEF OneShotDone, kept
=============================================================================
