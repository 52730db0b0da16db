------------------------ MODULE FollowupQueueProofs ------------------------
(***************************************************************************)
(* Theorems about FollowupQueue, for any messages, routes, settings and    *)
(* number of queue objects: a message is run at most once and none is      *)
(* lost, one drain loop works for the key, and a batch has one target.     *)
(***************************************************************************)
EXTENDS FollowupQueue, FiniteSetTheorems, SequenceTheorems, TLAPS

QueueState ==
    [items : Seq(Msg), droppedMsgs : SUBSET Msg, mode : {"collect", "followup"},
     cap : Nat \ {0}, dropPolicy : {"new", "old", "summarize"}, lastRun : BOOLEAN,
     pc : Pc, kind : Kind, batch : Seq(Msg), noted : SUBSET Msg, late : SUBSET Msg,
     force : BOOLEAN]

Typed ==
    /\ current \in Object \cup {NoQueue}
    /\ queue \in [Object -> QueueState]
    /\ callback \in BOOLEAN
    /\ recent \subseteq Msg /\ accepted \subseteq Msg /\ gone \subseteq Msg
    /\ runs \in [Msg -> 0..2]
    /\ upsets \subseteq Upset

Distinct(s) == \A i, j \in 1..Len(s) : s[i] = s[j] => i = j

\* What a run has taken is at the front of the items: what it takes away is at least that.
Orderly(q) ==
    /\ Distinct(q.items)
    /\ q.pc # "run" => q.batch = <<>>
    /\ q.pc = "run" => q.kind \in {"single", "collect", "summary"}
    /\ \A i \in 1..Len(q.items) : i > Len(q.batch) => q.items[i] \notin Elems(q.batch)

Each == \A o \in Object : Orderly(queue[o])

\* A message is in one object, and in none once it was run; its id is remembered.
Has(q) == Elems(q.items) \cup Elems(q.batch)

Once ==
    /\ \A o \in Object : Has(queue[o]) \subseteq recent
    /\ \A o, p \in Object : o # p => Has(queue[o]) \cap Has(queue[p]) = {}
    /\ \A m \in Msg : runs[m] > 0 =>
          runs[m] = 1 /\ m \in recent /\ \A o \in Object : m \notin Has(queue[o])

\* A loop works for the object in the map, but for one that was cleared while it drained.
OneDrain ==
    "clearInDrain" \notin upsets => \A o \in Object : Draining(queue[o]) => o = current

Driven == current # NoQueue /\ HasWork(queue[current]) /\ callback => Draining(queue[current])

\* Without upsets a run takes away exactly what it has taken, and reports all that was
\* dropped if it reports anything.
Intact(q) ==
    /\ q.pc \in {"run", "next"} => q.kind # "summary"
    /\ q.pc = "run" =>
          /\ Len(q.batch) <= Len(q.items)
          /\ \A i \in 1..Len(q.batch) : q.items[i] = q.batch[i]
          /\ q.noted # {} => q.noted = q.droppedMsgs

AllIntact == upsets = {} => \A o \in Object : Intact(queue[o])

Accounted ==
    upsets = {} => \A m \in accepted :
        \/ runs[m] > 0 \/ m \in gone
        \/ /\ current # NoQueue
           /\ m \in Elems(queue[current].items) \cup queue[current].droppedMsgs

SameTarget(S) == \A m, n \in S : Route[m] = Route[n]

\* What was checked has one target until it is run; what came after the check may not.
OneTarget(q) ==
    /\ q.pc = "run" /\ q.kind = "collect" => SameTarget(Elems(q.batch) \ q.late)
    /\ Checked(q) => SameTarget(Elems(q.items) \ q.late)

Aimed == \A o \in Object : OneTarget(queue[o])

FollowupInv ==
    /\ Typed /\ Each /\ Once
    /\ OneDrain /\ Driven
    /\ AllIntact /\ Accounted
    /\ Aimed

-----------------------------------------------------------------------------
(* Sequences *)

\* t is s without its first n.
Slid(s, t, n) ==
    /\ t \in Seq(Msg)
    /\ n <= Len(s) => Len(t) = Len(s) - n
    /\ n > Len(s) => Len(t) = 0
    /\ \A i \in 1..Len(t) : i + n \in 1..Len(s) /\ t[i] = s[i + n]

\* What SubSeq leaves.
LEMMA Slides ==
    ASSUME NEW s \in Seq(Msg), NEW n \in Nat
    PROVE  Slid(s, SubSeq(s, n + 1, Len(s)), n)
<1> DEFINE t == SubSeq(s, n + 1, Len(s))
<1>1. CASE n >= Len(s)
  <2>1. t \in Seq(Msg) /\ Len(t) = 0
    BY <1>1, SubSeqProperties
  <2> QED BY <1>1, <2>1 DEF Slid
<1>2. CASE n < Len(s)
  <2>1. n + 1 \in 1..Len(s) + 1 /\ Len(s) \in n..Len(s)
    BY <1>2
  <2>2. t \in Seq(Msg) /\ Len(t) = Len(s) - n /\ \A i \in 1..Len(s) - n : t[i] = s[n + 1 + i - 1]
    BY <1>2, <2>1, SubSeqProperties
  <2> HIDE DEF t
  <2>3. \A i \in 1..Len(t) : i + n \in 1..Len(s) /\ t[i] = s[i + n]
    BY <1>2, <2>2
  <2> QED BY <1>2, <2>2, <2>3 DEF Slid, t
<1> QED BY <1>1, <1>2

\* What is left is from there, each once if it was there once.
LEMMA SlidElems ==
    ASSUME NEW s \in Seq(Msg), NEW n \in Nat, NEW t, Slid(s, t, n)
    PROVE  /\ Elems(t) \subseteq Elems(s)
           /\ Distinct(s) => Distinct(t)
<1>1. Elems(t) \subseteq Elems(s)
  BY DEF Slid, Elems
<1>2. ASSUME Distinct(s), NEW i \in 1..Len(t), NEW j \in 1..Len(t), t[i] = t[j]
      PROVE  i = j
  <2>1. i + n \in 1..Len(s) /\ j + n \in 1..Len(s) /\ s[i + n] = s[j + n]
    BY <1>2 DEF Slid
  <2>2. i + n = j + n
    BY <1>2, <2>1 DEF Distinct
  <2> QED BY <2>2
<1> QED BY <1>1, <1>2 DEF Distinct

\* The elements are those of the front and those of the rest.
LEMMA FrontElems ==
    ASSUME NEW s \in Seq(Msg), NEW n \in 0..Len(s), NEW t, Slid(s, t, n)
    PROVE  /\ Elems(s) = Elems(SubSeq(s, 1, n)) \cup Elems(t)
           /\ Elems(SubSeq(s, 1, n)) \subseteq Msg
           /\ n = 0 <=> Elems(SubSeq(s, 1, n)) = {}
<1> DEFINE f == SubSeq(s, 1, n)
<1>1. f \in Seq(Msg) /\ Len(f) = n /\ \A i \in 1..n : f[i] = s[i]
  BY SubSeqProperties
<1> HIDE DEF f
<1>2. ASSUME NEW i \in 1..Len(s) PROVE s[i] \in Elems(f) \cup Elems(t)
  <2>1. CASE i <= n
    BY <1>1, <2>1 DEF Elems
  <2>2. CASE i > n
    <3>1. i - n \in 1..Len(t) /\ t[i - n] = s[i - n + n]
      BY <2>2 DEF Slid
    <3> QED BY <3>1 DEF Elems
  <2> QED BY <2>1, <2>2
<1>3. Elems(f) \subseteq Elems(s) /\ Elems(f) \subseteq Msg
  BY <1>1 DEF Elems
<1>4. Elems(t) \subseteq Elems(s)
  BY SlidElems
<1>5. n = 0 <=> Elems(f) = {}
  BY <1>1 DEF Elems
<1> QED BY <1>2, <1>3, <1>4, <1>5 DEF Elems, f

\* What Append adds.
LEMMA Appended ==
    ASSUME NEW t \in Seq(Msg), NEW m \in Msg
    PROVE  /\ Append(t, m) \in Seq(Msg) /\ Len(Append(t, m)) = Len(t) + 1
           /\ \A i \in 1..Len(t) : Append(t, m)[i] = t[i]
           /\ Append(t, m)[Len(t) + 1] = m
           /\ Elems(Append(t, m)) = Elems(t) \cup {m}
           /\ Distinct(t) /\ m \notin Elems(t) => Distinct(Append(t, m))
<1> DEFINE a == Append(t, m)
<1>1. /\ a \in Seq(Msg) /\ Len(a) = Len(t) + 1
      /\ \A i \in 1..Len(t) : a[i] = t[i]
      /\ a[Len(t) + 1] = m
  BY AppendProperties
<1> HIDE DEF a
<1>2. Elems(a) = Elems(t) \cup {m}
  <2>1. ASSUME NEW i \in 1..Len(a) PROVE a[i] \in Elems(t) \cup {m}
    BY <1>1 DEF Elems
  <2>2. ASSUME NEW i \in 1..Len(t) PROVE t[i] \in Elems(a)
    BY <1>1 DEF Elems
  <2>3. m \in Elems(a)
    BY <1>1 DEF Elems
  <2> QED BY <2>1, <2>2, <2>3 DEF Elems
<1>3. ASSUME Distinct(t), m \notin Elems(t) PROVE Distinct(a)
  BY <1>1, <1>3 DEF Distinct, Elems
<1> QED BY <1>1, <1>2, <1>3 DEF a

\* A sequence without repetitions is as long as it has elements.
LEMMA DistinctCounts ==
    ASSUME NEW s \in Seq(Msg), Distinct(s)
    PROVE  Cardinality(Elems(s)) = Len(s)
<1> DEFINE f == [i \in 1..Len(s) |-> s[i]]
<1>1. f \in Bijection(1..Len(s), Elems(s))
  <2>1. f \in [1..Len(s) -> Elems(s)]
    BY DEF Elems
  <2>2. \A i, j \in 1..Len(s) : f[i] = f[j] => i = j
    BY DEF Distinct
  <2>3. \A m \in Elems(s) : \E i \in 1..Len(s) : f[i] = m
    BY DEF Elems
  <2> HIDE DEF f
  <2> QED BY <2>1, <2>2, <2>3 DEF Bijection, Injection, Surjection, IsInjective
<1> QED BY <1>1, FS_CountingElements DEF ExistsBijection

-----------------------------------------------------------------------------
(* Objects *)

\* What scheduling leaves alone.
Same(q, r) ==
    /\ q.items = r.items /\ q.droppedMsgs = r.droppedMsgs
    /\ q.batch = r.batch /\ q.noted = r.noted /\ q.kind = r.kind /\ q.late = r.late
    /\ q.pc = r.pc \/ (r.pc = "idle" /\ q.pc = "debounce")

\* scheduleFollowupDrain: what it does to the objects.
LEMMA ScheduledIs ==
    ASSUME NEW qs \in [Object -> QueueState], NEW cur \in Object \cup {NoQueue}
    PROVE  /\ Scheduled(qs, cur) \in [Object -> QueueState]
           /\ \A o \in Object : Same(Scheduled(qs, cur)[o], qs[o])
           /\ \A o \in Object : o # cur \/ ~CanBegin(qs, cur) \/ ~HasWork(qs[cur]) =>
                 Scheduled(qs, cur)[o] = qs[o]
           /\ CanBegin(qs, cur) /\ HasWork(qs[cur]) => Scheduled(qs, cur)[cur].pc = "debounce"
<1>1. CASE CanBegin(qs, cur) /\ HasWork(qs[cur])
  <2> DEFINE r == [qs[cur] EXCEPT !.pc = "debounce", !.force = FALSE]
  <2>1. cur \in Object /\ qs[cur] \in QueueState /\ qs[cur].pc = "idle"
    BY <1>1 DEF CanBegin, Draining
  <2>2. r \in QueueState /\ Same(r, qs[cur]) /\ r.pc = "debounce"
    BY <2>1 DEF QueueState, Same, Pc
  <2>3. Scheduled(qs, cur) = [qs EXCEPT ![cur] = r]
    BY <1>1 DEF Scheduled
  <2> HIDE DEF r
  <2>4. \A o \in Object : Scheduled(qs, cur)[o] = IF o = cur THEN r ELSE qs[o]
    BY <2>1, <2>3
  <2>5. Scheduled(qs, cur) \in [Object -> QueueState]
    BY <2>1, <2>2, <2>3
  <2>6. \A o \in Object : Same(qs[o], qs[o])
    BY DEF Same
  <2> QED BY <1>1, <2>1, <2>2, <2>4, <2>5, <2>6
<1>2. CASE ~(CanBegin(qs, cur) /\ HasWork(qs[cur]))
  <2>1. Scheduled(qs, cur) = qs
    BY <1>2 DEF Scheduled
  <2> QED BY <1>2, <2>1 DEF Same
<1> QED BY <1>1, <1>2

\* Object c becomes q, perhaps with a message whose id was not known, and messages it had
\* are run; the drain loops aside, nothing else changes.
LEMMA StoredKeeps ==
    ASSUME Typed, Each, Once, AllIntact, Aimed,
           NEW c \in Object, NEW q \in QueueState,
           queue' \in [Object -> QueueState],
           \A o \in Object : Same(queue'[o], IF o = c THEN q ELSE queue[o]),
           Orderly(q), OneTarget(q), upsets' = {} => upsets = {} /\ Intact(q),
           recent \subseteq recent',
           Has(q) \subseteq Has(queue[c]) \cup (recent' \ recent),
           \A m \in Msg : \/ runs'[m] = runs[m]
                          \/ /\ runs[m] = 0 /\ runs'[m] = 1
                             /\ m \in Has(queue[c]) /\ m \notin Has(q)
    PROVE  Each' /\ Once' /\ AllIntact' /\ Aimed'
<1> DEFINE r(o) == IF o = c THEN q ELSE queue[o]
<1>1. \A o \in Object : Same(queue'[o], r(o)) /\ Orderly(r(o)) /\ OneTarget(r(o))
  BY DEF Each, Aimed
<1>2. upsets' = {} => \A o \in Object : Intact(r(o))
  BY DEF AllIntact
<1>3. \A o \in Object : Has(queue'[o]) = Has(r(o))
  BY <1>1 DEF Same, Has
<1>4. \A o \in Object : /\ o # c => Has(r(o)) = Has(queue[o])
                        /\ Has(r(o)) \subseteq Has(queue[o]) \cup (recent' \ recent)
  OBVIOUS
<1>5. r(c) = q
  OBVIOUS
<1> HIDE DEF r
<1>6. Each'
  BY <1>1 DEF Each, Same, Orderly
<1>7. Aimed'
  <2> SUFFICES ASSUME NEW o \in Object PROVE OneTarget(queue'[o])
    BY DEF Aimed
  <2>1. Same(queue'[o], r(o)) /\ OneTarget(r(o))
    BY <1>1
  <2> QED BY <2>1 DEF Same, OneTarget, Checked
<1>8. AllIntact'
  BY <1>1, <1>2 DEF AllIntact, Same, Intact
<1>9. Once'
  <2>1. ASSUME NEW o \in Object PROVE Has(queue'[o]) \subseteq recent'
    BY <1>3, <1>4 DEF Once
  <2>2. ASSUME NEW o \in Object, NEW p \in Object, o # p
        PROVE  Has(queue'[o]) \cap Has(queue'[p]) = {}
    <3>1. /\ Has(queue[o]) \cap Has(queue[p]) = {}
          /\ Has(queue[o]) \subseteq recent /\ Has(queue[p]) \subseteq recent
      BY <2>2 DEF Once
    <3>2. o # c \/ p # c
      BY <2>2
    <3> QED BY <1>3, <1>4, <3>1, <3>2
  <2>3. ASSUME NEW m \in Msg, runs'[m] > 0
        PROVE  runs'[m] = 1 /\ m \in recent' /\ \A o \in Object : m \notin Has(queue'[o])
    <3>1. CASE runs'[m] = runs[m]
      <4>1. runs[m] = 1 /\ m \in recent /\ \A o \in Object : m \notin Has(queue[o])
        BY <2>3, <3>1 DEF Once
      <4> QED BY <1>3, <1>4, <3>1, <4>1
    <3>2. CASE runs'[m] = 1 /\ m \in Has(queue[c]) /\ m \notin Has(q)
      <4>1. m \in recent /\ \A o \in Object : o # c => m \notin Has(queue[o])
        BY <3>2 DEF Once
      <4> QED BY <1>3, <1>4, <1>5, <3>2, <4>1
    <3> QED BY <2>3, <3>1, <3>2
  <2> QED BY <2>1, <2>2, <2>3 DEF Once
<1> QED BY <1>6, <1>7, <1>8, <1>9
-----------------------------------------------------------------------------
(* Steps of the drain loop *)

\* The loop's own variables are gone.
LEMMA LeftIs ==
    ASSUME NEW q \in QueueState, NEW pc \in Pc
    PROVE  LET r == Left(q, pc) IN
           /\ r \in QueueState /\ r.pc = pc /\ r.kind = "single" /\ r.batch = <<>>
           /\ r.items = q.items /\ r.droppedMsgs = q.droppedMsgs
<1>1. <<>> \in Seq(Msg) /\ {} \in SUBSET Msg /\ "single" \in Kind /\ FALSE \in BOOLEAN
  BY DEF Kind
<1> QED BY <1>1 DEF Left, QueueState

\* The finally block, with the loop's object in state q.
LEMMA EndedIs ==
    ASSUME Typed, NEW o \in Object, NEW q \in QueueState, Draining(queue[o]), Ended(o, q)
    PROVE  LET idle == Left(q, "idle") IN
           /\ idle \in QueueState /\ idle.pc = "idle" /\ idle.batch = <<>>
           /\ idle.items = q.items /\ idle.droppedMsgs = q.droppedMsgs
           /\ queue' \in [Object -> QueueState]
           /\ \A p \in Object : Same(queue'[p], IF p = o THEN idle ELSE queue[p])
           /\ current' \in {current, NoQueue} /\ callback' \in BOOLEAN
           /\ Driven'
           /\ o = current => current' = IF HasWork(q) THEN current ELSE NoQueue
           /\ (\A p \in Object : Draining(queue[p]) => p = current) =>
                  \A p \in Object : Draining(queue'[p]) => p = current'
<1> DEFINE idle == Left(q, "idle")
           qs == [queue EXCEPT ![o] = idle]
<1>1. /\ idle \in QueueState /\ idle.pc = "idle" /\ idle.batch = <<>>
      /\ idle.items = q.items /\ idle.droppedMsgs = q.droppedMsgs
  BY LeftIs DEF Pc
<1>2. IF HasWork(q)
      THEN /\ queue' = Scheduled(qs, current)
           /\ current' = MapScheduled(qs, current)
           /\ callback' = (callback \/ CanBegin(qs, current))
      ELSE queue' = qs /\ current' = NoQueue /\ UNCHANGED callback
  BY DEF Ended
<1>3. HasWork(idle) <=> HasWork(q)
  BY <1>1 DEF HasWork
<1> HIDE DEF idle
<1>4. /\ qs \in [Object -> QueueState] /\ qs[o] = idle
      /\ \A p \in Object : p # o => qs[p] = queue[p]
  BY <1>1 DEF Typed
<1>5. current \in Object \cup {NoQueue} /\ callback \in BOOLEAN /\ NoQueue \notin Object
  BY SettingsAssumption DEF Typed, Object, NoQueue
<1> HIDE DEF qs
<1>6. ~Draining(qs[o])
  BY <1>1, <1>4 DEF Draining
<1>7. \A p \in Object : Same(qs[p], IF p = o THEN idle ELSE queue[p])
  BY <1>4 DEF Same
<1>8. CASE HasWork(q)
  <2>1. queue' = Scheduled(qs, current) /\ current' = MapScheduled(qs, current)
    BY <1>2, <1>8
  <2>2. queue' \in [Object -> QueueState] /\ \A p \in Object : Same(queue'[p], qs[p])
    BY <1>4, <1>5, <2>1, ScheduledIs
  <2>3. /\ \A p \in Object : p # current \/ ~CanBegin(qs, current) \/ ~HasWork(qs[current]) =>
              queue'[p] = qs[p]
        /\ CanBegin(qs, current) /\ HasWork(qs[current]) => queue'[current].pc = "debounce"
    BY <1>4, <1>5, <2>1, ScheduledIs
  <2>4. \A p \in Object : Same(queue'[p], IF p = o THEN idle ELSE queue[p])
    BY <1>4, <2>2
  <2>5. current' \in {current, NoQueue} /\ callback' \in BOOLEAN
    BY <1>2, <1>5, <1>8, <2>1 DEF MapScheduled, CanBegin
  <2>6. Driven'
    <3> SUFFICES ASSUME current' # NoQueue PROVE Draining(queue'[current'])
      BY DEF Driven
    <3>1. current' = current /\ current \in Object
      BY <1>5, <2>1 DEF MapScheduled
    <3>2. CASE CanBegin(qs, current)
      BY <2>1, <2>3, <3>1, <3>2 DEF MapScheduled, Draining
    <3>3. CASE ~CanBegin(qs, current)
      BY <2>3, <3>1, <3>3 DEF CanBegin
    <3> QED BY <3>2, <3>3
  <2>7. o = current => CanBegin(qs, current) /\ HasWork(qs[current]) /\ current' = current
    BY <1>3, <1>4, <1>5, <1>6, <1>8, <2>1 DEF CanBegin, MapScheduled
  <2>8. ASSUME \A p \in Object : Draining(queue[p]) => p = current,
               NEW p \in Object, Draining(queue'[p])
        PROVE  p = current'
    <3>1. o = current /\ current' = current
      BY <2>7, <2>8
    <3>2. p # o => queue'[p] = queue[p]
      BY <1>4, <2>3, <3>1
    <3> QED BY <2>8, <3>1, <3>2
  <2> QED BY <1>1, <1>8, <2>2, <2>4, <2>5, <2>6, <2>7, <2>8 DEF idle
<1>9. CASE ~HasWork(q)
  <2>1. queue' = qs /\ current' = NoQueue /\ callback' = callback
    BY <1>2, <1>9
  <2>2. Driven'
    BY <2>1 DEF Driven
  <2>3. ASSUME \A p \in Object : Draining(queue[p]) => p = current,
               NEW p \in Object, Draining(queue'[p])
        PROVE  FALSE
    <3>1. p # o
      BY <1>6, <2>1, <2>3
    <3>2. Draining(queue[p])
      BY <1>4, <2>1, <2>3, <3>1
    <3> QED BY <2>3, <3>1, <3>2
  <2> QED BY <1>1, <1>4, <1>5, <1>7, <1>9, <2>1, <2>2, <2>3 DEF idle
<1> QED BY <1>8, <1>9

\* A loop that ends leaves the message to the map's object, or goes on with it.
LEMMA EndedKeeps ==
    ASSUME FollowupInv, NEW o \in Object, NEW q \in QueueState, Draining(queue[o]), Ended(o, q),
           Distinct(q.items), Elems(q.items) \subseteq Has(queue[o]),
           UNCHANGED <<recent, accepted, upsets>>,
           gone \subseteq gone', gone' \subseteq Msg, runs' \in [Msg -> 0..2],
           \A m \in Msg : \/ runs'[m] = runs[m]
                          \/ /\ runs[m] = 0 /\ runs'[m] = 1
                             /\ m \in Has(queue[o]) /\ m \notin Elems(q.items),
           upsets = {} =>
               \A m \in Elems(queue[o].items) \cup queue[o].droppedMsgs :
                  m \in Elems(q.items) \cup q.droppedMsgs \/ runs'[m] > 0 \/ m \in gone'
    PROVE  FollowupInv'
<1> DEFINE idle == Left(q, "idle")
<1>0. Typed /\ Each /\ Once /\ OneDrain /\ Driven /\ AllIntact /\ Accounted /\ Aimed
  BY DEF FollowupInv
<1>1. /\ idle \in QueueState /\ idle.pc = "idle" /\ idle.batch = <<>>
      /\ idle.items = q.items /\ idle.droppedMsgs = q.droppedMsgs
      /\ queue' \in [Object -> QueueState]
      /\ \A p \in Object : Same(queue'[p], IF p = o THEN idle ELSE queue[p])
      /\ current' \in {current, NoQueue} /\ callback' \in BOOLEAN
      /\ Driven'
      /\ o = current => current' = IF HasWork(q) THEN current ELSE NoQueue
      /\ (\A p \in Object : Draining(queue[p]) => p = current) =>
            \A p \in Object : Draining(queue'[p]) => p = current'
  BY <1>0, EndedIs
<1> HIDE DEF idle
<1>2. Typed'
  BY <1>0, <1>1 DEF Typed
<1>3. Elems(<<>>) = {}
  BY DEF Elems
<1>4. Orderly(idle) /\ OneTarget(idle) /\ Intact(idle)
  BY <1>1, <1>3 DEF Orderly, OneTarget, Intact, Checked
<1>5. Has(idle) = Elems(q.items)
  BY <1>1, <1>3 DEF Has
<1>6. Each' /\ Once' /\ AllIntact' /\ Aimed'
  BY <1>0, <1>1, <1>4, <1>5, StoredKeeps
<1>7. OneDrain'
  BY <1>0, <1>1 DEF OneDrain
<1>8. Accounted'
  <2> SUFFICES ASSUME upsets = {}, NEW m \in accepted
               PROVE  \/ runs'[m] > 0 \/ m \in gone'
                      \/ /\ current' # NoQueue
                         /\ m \in Elems(queue'[current'].items) \cup queue'[current'].droppedMsgs
    BY DEF Accounted
  <2>1. o = current
    BY <1>0 DEF OneDrain
  <2>2. m \in Msg /\ (runs[m] > 0 => runs'[m] > 0)
    BY <1>0 DEF Typed
  <2>3. CASE m \in Elems(q.items) \cup q.droppedMsgs
    <3>1. HasWork(q)
      BY <1>3, <2>3 DEF HasWork
    <3>2. current' = o /\ o # NoQueue
      BY <1>1, <2>1, <3>1, SettingsAssumption DEF Object, NoQueue
    <3>3. queue'[o].items = q.items /\ queue'[o].droppedMsgs = q.droppedMsgs
      BY <1>1 DEF Same
    <3> QED BY <2>3, <3>2, <3>3
  <2>4. CASE m \notin Elems(q.items) \cup q.droppedMsgs
    BY <1>0, <2>1, <2>2, <2>4 DEF Accounted
  <2> QED BY <2>3, <2>4
<1> QED BY <1>1, <1>2, <1>6, <1>7, <1>8 DEF FollowupInv

\* The loop's object becomes r, which runs nothing, and the loop goes on.
LEMMA GoesOnKeeps ==
    ASSUME FollowupInv, NEW o \in Object, NEW r \in QueueState, Draining(queue[o]),
           r.pc \in {"debounce", "next"}, r.batch = <<>>,
           queue' = [queue EXCEPT ![o] = r],
           Distinct(r.items), Elems(r.items) \subseteq Has(queue[o]), OneTarget(r),
           upsets = {} => Intact(r),
           UNCHANGED <<current, callback, recent, accepted, upsets>>,
           gone \subseteq gone', gone' \subseteq Msg, runs' \in [Msg -> 0..2],
           \A m \in Msg : \/ runs'[m] = runs[m]
                          \/ /\ runs[m] = 0 /\ runs'[m] = 1
                             /\ m \in Has(queue[o]) /\ m \notin Elems(r.items),
           upsets = {} =>
               \A m \in Elems(queue[o].items) \cup queue[o].droppedMsgs :
                  m \in Elems(r.items) \cup r.droppedMsgs \/ runs'[m] > 0 \/ m \in gone'
    PROVE  FollowupInv'
<1>0. Typed /\ Each /\ Once /\ OneDrain /\ Driven /\ AllIntact /\ Accounted /\ Aimed
  BY DEF FollowupInv
<1>1. /\ queue' \in [Object -> QueueState]
      /\ \A p \in Object : queue'[p] = IF p = o THEN r ELSE queue[p]
  BY <1>0 DEF Typed
<1>2. Typed'
  BY <1>0, <1>1 DEF Typed
<1>3. Elems(<<>>) = {}
  BY DEF Elems
<1>4. Orderly(r) /\ Has(r) = Elems(r.items)
  BY <1>3 DEF Orderly, Has
<1>5. \A p \in Object : Same(queue'[p], IF p = o THEN r ELSE queue[p])
  BY <1>1 DEF Same
<1>6. Each' /\ Once' /\ AllIntact' /\ Aimed'
  BY <1>0, <1>1, <1>4, <1>5, StoredKeeps
<1>7. OneDrain'
  BY <1>0, <1>1 DEF OneDrain
<1>8. Driven'
  BY <1>0, <1>1 DEF Driven, Draining
<1>9. Accounted'
  <2> SUFFICES ASSUME upsets = {}, NEW m \in accepted
               PROVE  \/ runs'[m] > 0 \/ m \in gone'
                      \/ /\ current # NoQueue
                         /\ m \in Elems(queue'[current].items) \cup queue'[current].droppedMsgs
    BY DEF Accounted
  <2>1. o = current /\ o # NoQueue
    BY <1>0, SettingsAssumption DEF OneDrain, Object, NoQueue
  <2>2. m \in Msg /\ (runs[m] > 0 => runs'[m] > 0)
    BY <1>0 DEF Typed
  <2>3. queue'[current] = r
    BY <1>1, <2>1
  <2>4. CASE m \in Elems(queue[o].items) \cup queue[o].droppedMsgs
    BY <2>1, <2>3, <2>4
  <2>5. CASE m \notin Elems(queue[o].items) \cup queue[o].droppedMsgs
    BY <1>0, <2>1, <2>2, <2>5 DEF Accounted
  <2> QED BY <2>4, <2>5
<1> QED BY <1>2, <1>6, <1>7, <1>8, <1>9 DEF FollowupInv

\* The head of the loop: it goes on, or it ends.
LEMMA LoopsOnKeeps ==
    ASSUME FollowupInv, NEW o \in Object, NEW q \in QueueState, Draining(queue[o]),
           LoopsOn(o, q),
           Distinct(q.items), Elems(q.items) \subseteq Has(queue[o]),
           UNCHANGED <<recent, accepted, upsets>>,
           gone \subseteq gone', gone' \subseteq Msg, runs' \in [Msg -> 0..2],
           \A m \in Msg : \/ runs'[m] = runs[m]
                          \/ /\ runs[m] = 0 /\ runs'[m] = 1
                             /\ m \in Has(queue[o]) /\ m \notin Elems(q.items),
           upsets = {} =>
               \A m \in Elems(queue[o].items) \cup queue[o].droppedMsgs :
                  m \in Elems(q.items) \cup q.droppedMsgs \/ runs'[m] > 0 \/ m \in gone'
    PROVE  FollowupInv'
<1> DEFINE r == Left(q, "debounce")
<1>1. CASE HasWork(q)
  <2>1. /\ r \in QueueState /\ r.pc = "debounce" /\ r.batch = <<>>
        /\ r.items = q.items /\ r.droppedMsgs = q.droppedMsgs
    BY LeftIs DEF Pc
  <2>2. queue' = [queue EXCEPT ![o] = r] /\ UNCHANGED <<current, callback>>
    BY <1>1 DEF LoopsOn
  <2> HIDE DEF r
  <2>3. OneTarget(r) /\ Intact(r)
    BY <2>1 DEF OneTarget, Intact, Checked
  <2> QED BY <2>1, <2>2, <2>3, GoesOnKeeps
<1>2. CASE ~HasWork(q)
  BY <1>2, EndedKeeps DEF LoopsOn
<1> QED BY <1>1, <1>2

\* The loop runs what it has taken.
LEMMA StartRunKeeps ==
    ASSUME FollowupInv, NEW o \in Object, NEW kind \in {"single", "collect", "summary"},
           NEW batch \in Seq(Msg), NEW noted \in SUBSET Msg, NEW force \in BOOLEAN,
           Draining(queue[o]), StartRun(o, kind, batch, noted, force),
           Len(batch) <= Len(queue[o].items),
           \A i \in 1..Len(batch) : queue[o].items[i] = batch[i],
           noted # {} => noted = queue[o].droppedMsgs,
           kind = "collect" => SameTarget(Elems(batch) \ queue[o].late),
           upsets' = IF kind = "summary" THEN upsets \cup {"summaryRun"} ELSE upsets,
           UNCHANGED <<recent, accepted, runs, gone>>
    PROVE  FollowupInv'
<1> DEFINE q == queue[o]
           r == [q EXCEPT !.pc = "run", !.kind = kind, !.batch = batch, !.noted = noted,
                          !.force = force]
<1>0. Typed /\ Each /\ Once /\ OneDrain /\ Driven /\ AllIntact /\ Accounted /\ Aimed
  BY DEF FollowupInv
<1>1. queue' = [queue EXCEPT ![o] = r] /\ UNCHANGED <<current, callback>>
  BY DEF StartRun
<1>2. q \in QueueState /\ Distinct(q.items) /\ Elems(q.items) \subseteq Has(q)
  BY <1>0 DEF Typed, Each, Orderly, Has
<1>3. /\ r \in QueueState /\ r.pc = "run" /\ r.kind = kind /\ r.batch = batch
      /\ r.noted = noted /\ r.late = q.late
      /\ r.items = q.items /\ r.droppedMsgs = q.droppedMsgs
  BY <1>2 DEF QueueState, Pc, Kind
<1> HIDE DEF r
<1>4. /\ queue' \in [Object -> QueueState]
      /\ \A p \in Object : queue'[p] = IF p = o THEN r ELSE queue[p]
  BY <1>0, <1>1, <1>3 DEF Typed
<1>5. Typed'
  BY <1>0, <1>1, <1>4 DEF Typed, Upset
<1>6. q.items \in Seq(Msg) /\ Len(q.items) \in Nat /\ Len(batch) \in Nat
  BY <1>2 DEF QueueState
<1>7. Elems(batch) \subseteq Elems(q.items)
  BY <1>6 DEF Elems
<1>8. ASSUME NEW i \in 1..Len(q.items), i > Len(batch), q.items[i] \in Elems(batch)
      PROVE  FALSE
  <2>1. PICK j \in 1..Len(batch) : batch[j] = q.items[i]
    BY <1>8 DEF Elems
  <2>2. j \in 1..Len(q.items) /\ q.items[j] = q.items[i]
    BY <1>6, <2>1
  <2>3. j = i
    BY <1>2, <2>2 DEF Distinct
  <2> QED BY <1>6, <1>8, <2>1, <2>3
<1>9. Orderly(r)
  BY <1>2, <1>3, <1>8 DEF Orderly
<1>10. OneTarget(r)
  BY <1>3 DEF OneTarget, Checked
<1>11. upsets' = {} => upsets = {} /\ Intact(r)
  BY <1>3 DEF Intact
<1>12. Has(r) \subseteq Has(q)
  BY <1>2, <1>3, <1>7 DEF Has
<1>13. \A p \in Object : Same(queue'[p], IF p = o THEN r ELSE queue[p])
  BY <1>4 DEF Same
<1> HIDE DEF q
<1>14. Each' /\ Once' /\ AllIntact' /\ Aimed'
  BY <1>0, <1>3, <1>4, <1>9, <1>10, <1>11, <1>12, <1>13, StoredKeeps DEF q
<1>15. OneDrain'
  BY <1>0, <1>1, <1>4 DEF OneDrain
<1>16. Driven'
  BY <1>0, <1>1, <1>3, <1>4 DEF Driven, Draining
<1>17. Accounted'
  <2> SUFFICES ASSUME upsets' = {}
               PROVE  Accounted'
    BY DEF Accounted
  <2>1. upsets = {}
    BY <1>11
  <2>2. \A p \in Object : /\ queue'[p].items = queue[p].items
                          /\ queue'[p].droppedMsgs = queue[p].droppedMsgs
    BY <1>3, <1>4 DEF q
  <2>3. current # NoQueue => current \in Object
    BY <1>0 DEF Typed
  <2> QED BY <1>0, <1>1, <2>1, <2>2, <2>3 DEF Accounted
<1> QED BY <1>5, <1>14, <1>15, <1>16, <1>17 DEF FollowupInv

\* The first item is the front of the items.
LEMMA FirstIsFront ==
    ASSUME NEW s \in Seq(Msg), s # <<>>
    PROVE  LET b == <<Head(s)>> IN
           b \in Seq(Msg) /\ Len(b) <= Len(s) /\ \A i \in 1..Len(b) : s[i] = b[i]
  OBVIOUS

\* hasCrossChannelItems says no of messages with one target.
LEMMA CheckedHaveOneTarget ==
    ASSUME NEW s \in Seq(Msg), ~HasCrossChannelItems(s)
    PROVE  SameTarget(Elems(s))
<1> DEFINE n == Len(s)
           routes == {Route[m] : m \in Elems(s)}
           f == [i \in 1..n |-> Route[s[i]]]
<1>1. f \in Surjection(1..n, routes)
  BY DEF Surjection, Elems
<1>2. IsFiniteSet(1..n)
  <2>1. n \in Nat
    BY LenProperties
  <2> HIDE DEF n
  <2> QED BY <2>1, FS_Interval
<1>3. IsFiniteSet(routes)
  <2> HIDE DEF f, n, routes
  <2> QED BY <1>1, <1>2, FS_Surjection
<1>4. routes = {Unkeyed} \/ ~(Cardinality(routes) > 1)
  BY DEF HasCrossChannelItems
<1> HIDE DEF routes
<1>5. Cardinality(routes) \in Nat
  BY <1>3, FS_CardinalityType
<1>6. routes = {} \/ \E x : routes = {x}
  <2>1. CASE routes = {Unkeyed}
    BY <2>1
  <2>2. CASE ~(Cardinality(routes) > 1)
    <3>1. Cardinality(routes) = 0 \/ Cardinality(routes) = 1
      BY <1>5, <2>2
    <3>2. Cardinality(routes) = 0 <=> routes = {}
      BY <1>3, FS_EmptySet
    <3>3. Cardinality(routes) = 1 <=> \E x : routes = {x}
      BY <1>3, FS_Singleton
    <3> QED BY <3>1, <3>2, <3>3
  <2> QED BY <1>4, <2>1, <2>2
<1>7. \A m \in Elems(s) : Route[m] \in routes
  BY DEF routes
<1> QED BY <1>6, <1>7 DEF SameTarget

\* The loop's step runs nothing, and the loop awaits its answer.
LEMMA WaitsKeeps ==
    ASSUME FollowupInv, NEW o \in Object, queue[o].pc = "debounce",
           NEW kind \in {"skipped", "empty"}, Waits(o, kind),
           kind = "skipped" => SameTarget(Elems(queue[o].items)),
           UNCHANGED <<recent, accepted, runs, gone, upsets>>
    PROVE  FollowupInv'
<1> DEFINE q == queue[o]
           r == [q EXCEPT !.pc = "next", !.kind = kind]
<1>0. Typed /\ Each
  BY DEF FollowupInv
<1>1. q \in QueueState /\ queue \in [Object -> QueueState] /\ Draining(q) /\ Orderly(q)
  BY <1>0 DEF Typed, Each, Draining
<1>2. queue' = [queue EXCEPT ![o] = r] /\ UNCHANGED <<current, callback>>
  BY <1>1 DEF Waits
<1>3. /\ r \in QueueState /\ r.pc = "next" /\ r.kind = kind
      /\ r.items = q.items /\ r.droppedMsgs = q.droppedMsgs /\ r.batch = <<>>
  BY <1>1 DEF QueueState, Pc, Kind, Orderly
<1> HIDE DEF r
<1>4. OneTarget(r) /\ Intact(r)
  BY <1>3 DEF OneTarget, Intact, Checked, SameTarget
<1>5. Distinct(r.items) /\ Elems(r.items) \subseteq Has(q)
  BY <1>1, <1>3 DEF Orderly, Has
<1>6. gone' \subseteq Msg /\ runs' \in [Msg -> 0..2]
  BY <1>0 DEF Typed
<1> HIDE DEF q
<1> QED BY <1>1, <1>2, <1>3, <1>4, <1>5, <1>6, GoesOnKeeps DEF q

\* After the debounce the loop checks what to run: it runs it, or it awaits its answer.
LEMMA DrainStepKeeps ==
    ASSUME FollowupInv, NEW o \in Object, DrainStep(o)
    PROVE  FollowupInv'
<1> DEFINE q == queue[o]
           sum == Summary(q)
           first == <<Head(q.items)>>
<1>0. Typed /\ Each
  BY DEF FollowupInv
<1>1. /\ q \in QueueState /\ q.pc = "debounce" /\ UNCHANGED <<recent, accepted, runs, gone>>
      /\ upsets' = IF queue'[o].pc = "run" /\ queue'[o].kind = "summary"
                   THEN upsets \cup {"summaryRun"} ELSE upsets
      /\ Draining(q) /\ Distinct(q.items) /\ Elems(q.items) \subseteq Has(q)
      /\ queue \in [Object -> QueueState]
  BY <1>0 DEF DrainStep, Typed, Draining, Each, Orderly, Has
<1>2. q.items \in Seq(Msg) /\ q.force \in BOOLEAN /\ q.droppedMsgs \in SUBSET Msg
  BY <1>1 DEF QueueState
<1>3. sum \in SUBSET Msg /\ (sum # {} => sum = q.droppedMsgs)
  BY <1>2 DEF Summary
<1>4. q.items # <<>> => /\ first \in Seq(Msg) /\ Len(first) <= Len(q.items)
                        /\ \A i \in 1..Len(first) : q.items[i] = first[i]
  BY <1>2, FirstIsFront
<1>5. ASSUME NEW kind \in {"single", "summary"}, NEW noted \in {{}, sum}, NEW force \in BOOLEAN,
             q.items # <<>>, StartRun(o, kind, first, noted, force)
      PROVE  FollowupInv'
  <2>1. queue'[o].pc = "run" /\ queue'[o].kind = kind
    BY <1>1, <1>5 DEF StartRun, QueueState
  <2>2. upsets' = IF kind = "summary" THEN upsets \cup {"summaryRun"} ELSE upsets
    BY <1>1, <2>1
  <2>3. noted \in SUBSET Msg /\ (noted # {} => noted = q.droppedMsgs)
    BY <1>3
  <2>4. kind \in {"single", "collect", "summary"} /\ kind # "collect"
    OBVIOUS
  <2> HIDE DEF q, first, sum
  <2> QED BY <1>1, <1>4, <1>5, <2>2, <2>3, <2>4, StartRunKeeps DEF q
<1>6. ASSUME NEW kind \in {"skipped", "empty"}, Waits(o, kind),
             kind = "skipped" => ~Individually(q)
      PROVE  FollowupInv'
  <2>1. queue'[o].pc = "next"
    BY <1>1, <1>6 DEF Waits, QueueState
  <2>2. upsets' = upsets
    BY <1>1, <2>1
  <2>3. kind = "skipped" => SameTarget(Elems(q.items))
    BY <1>2, <1>6, CheckedHaveOneTarget DEF Individually
  <2> HIDE DEF q
  <2> QED BY <1>1, <1>6, <2>2, <2>3, WaitsKeeps DEF q
<1>7. CASE Ended(o, q)
  <2>1. queue'[o].pc # "run"
    BY <1>0, <1>1, <1>7, EndedIs DEF Same
  <2>2. UNCHANGED upsets
    BY <1>1, <2>1
  <2>3. gone' \subseteq Msg /\ runs' \in [Msg -> 0..2]
    BY <1>0, <1>1 DEF Typed
  <2> HIDE DEF q
  <2> QED BY <1>1, <1>7, <2>2, <2>3, EndedKeeps DEF q
<1>8. CASE q.mode = "collect"
  <2>1. \/ ~Individually(q) /\ Waits(o, "skipped")
        \/ q.items # <<>> /\ StartRun(o, "single", first, {}, TRUE)
        \/ Waits(o, "empty")
    BY <1>8 DEF DrainStep, CollectStep
  <2> HIDE DEF q, first, sum
  <2> QED BY <1>5, <1>6, <2>1
<1>9. CASE q.mode # "collect"
  <2>1. \/ q.items # <<>> /\ StartRun(o, "summary", first, sum, q.force)
        \/ q.items # <<>> /\ StartRun(o, "single", first, {}, q.force)
        \/ Ended(o, q)
        \/ Waits(o, "empty")
    BY <1>9 DEF DrainStep, FollowupStep
  <2> HIDE DEF q, first, sum
  <2> QED BY <1>2, <1>5, <1>6, <1>7, <2>1
<1> QED BY <1>8, <1>9

\* A run that is over: its messages are run, and taken away with it.
LEMMA RunEndsKeeps ==
    ASSUME FollowupInv, NEW o \in Object, RunEnds(o)
    PROVE  FollowupInv'
<1> DEFINE q == queue[o]
           told == IF q.kind = "summary" THEN {} ELSE Elems(q.batch)
           left == SubSeq(q.items, Len(q.batch) + 1, Len(q.items))
           after == AfterRun(q)
<1>0. Typed /\ Each /\ Once /\ OneDrain /\ Driven /\ AllIntact /\ Accounted /\ Aimed
  BY DEF FollowupInv
<1>1. /\ q.pc = "run" /\ gone' = gone \cup q.noted
      /\ runs' = [m \in Msg |-> IF m \in told /\ runs[m] < 2 THEN runs[m] + 1 ELSE runs[m]]
      /\ UNCHANGED <<recent, accepted, upsets>>
      /\ IF q.kind = "collect" THEN LoopsOn(o, after)
         ELSE /\ queue' = [queue EXCEPT ![o] = [after EXCEPT !.pc = "next"]]
              /\ UNCHANGED <<current, callback>>
  BY DEF RunEnds
<1>2. q \in QueueState /\ q.items \in Seq(Msg) /\ q.batch \in Seq(Msg) /\ Len(q.batch) \in Nat
      /\ q.noted \subseteq Msg /\ q.droppedMsgs \subseteq Msg
  BY <1>0 DEF Typed, QueueState
<1>3. Slid(q.items, left, Len(q.batch))
  BY <1>2, Slides
<1>4. left \in Seq(Msg) /\ Elems(left) \subseteq Elems(q.items) /\ Distinct(left)
  <2>1. Distinct(q.items)
    BY <1>0 DEF Each, Orderly
  <2>2. left \in Seq(Msg)
    BY <1>3 DEF Slid
  <2> HIDE DEF left, q
  <2> QED BY <1>2, <1>3, <2>1, <2>2, SlidElems
<1>5. /\ after \in QueueState /\ after.items = left
      /\ after.droppedMsgs = IF q.kind = "collect" /\ q.noted # {} THEN {} ELSE q.droppedMsgs
      /\ after.batch = <<>> /\ after.kind = q.kind
  <2>1. <<>> \in Seq(Msg) /\ {} \in SUBSET Msg
    OBVIOUS
  <2> QED BY <1>2, <1>4, <2>1 DEF AfterRun, QueueState
<1> HIDE DEF left
<1>6. \A m \in Elems(left) : m \notin Elems(q.batch)
  <2> SUFFICES ASSUME NEW i \in 1..Len(left) PROVE left[i] \notin Elems(q.batch)
    BY DEF Elems
  <2>1. i + Len(q.batch) \in 1..Len(q.items) /\ left[i] = q.items[i + Len(q.batch)]
    BY <1>3 DEF Slid
  <2>2. i + Len(q.batch) > Len(q.batch) /\ Orderly(q)
    BY <1>0, <1>2, <1>4, LenProperties DEF Each
  <2> QED BY <2>1, <2>2 DEF Orderly
<1>7. ASSUME NEW m \in Msg
      PROVE  \/ runs'[m] = runs[m] /\ m \notin told
             \/ runs[m] = 0 /\ runs'[m] = 1 /\ m \in Has(q) /\ m \notin Elems(left)
  <2>1. CASE m \in told
    <3>1. m \in Elems(q.batch) /\ m \in Has(q)
      BY <2>1 DEF Has
    <3>2. runs[m] = 0
      BY <1>0, <3>1 DEF Once, Typed
    <3> QED BY <1>1, <1>6, <2>1, <3>1, <3>2
  <2>2. CASE m \notin told
    BY <1>1, <2>2
  <2> QED BY <2>1, <2>2
<1>8. runs' \in [Msg -> 0..2] /\ gone' \subseteq Msg /\ gone \subseteq gone'
  <2>1. \A m \in Msg : runs[m] \in 0..2
    BY <1>0 DEF Typed
  <2>2. \A m \in Msg : (IF m \in told /\ runs[m] < 2 THEN runs[m] + 1 ELSE runs[m]) \in 0..2
    BY <2>1
  <2> QED BY <1>0, <1>1, <1>2, <2>2 DEF Typed
<1>9. ASSUME upsets = {}, NEW m \in Elems(q.items) \cup q.droppedMsgs
      PROVE  m \in Elems(left) \cup after.droppedMsgs \/ runs'[m] > 0 \/ m \in gone'
  <2>1. Intact(q)
    BY <1>0, <1>9 DEF AllIntact
  <2>2. told = Elems(q.batch) /\ Len(q.batch) <= Len(q.items)
    BY <1>1, <2>1 DEF Intact
  <2>3. CASE m \in q.droppedMsgs
    BY <1>1, <1>5, <2>1, <2>3 DEF Intact
  <2>4. CASE m \in Elems(q.items)
    <3>1. PICK i \in 1..Len(q.items) : m = q.items[i]
      BY <2>4 DEF Elems
    <3>2. CASE i <= Len(q.batch)
      <4>1. i \in 1..Len(q.batch) /\ q.batch[i] = m
        BY <1>1, <1>2, <2>1, <3>1, <3>2 DEF Intact
      <4>2. m \in told /\ m \in Msg
        <5>1. m \in Elems(q.batch)
          BY <4>1 DEF Elems
        <5>2. m \in Msg
          BY <1>2, <4>1
        <5> QED BY <2>2, <5>1, <5>2
      <4> QED BY <1>7, <4>2
    <3>3. CASE i > Len(q.batch)
      <4>1. i - Len(q.batch) \in 1..Len(left)
        BY <1>2, <1>3, <2>2, <3>3, LenProperties DEF Slid
      <4>2. left[i - Len(q.batch)] = q.items[i - Len(q.batch) + Len(q.batch)]
        BY <1>3, <4>1 DEF Slid
      <4>3. m = left[i - Len(q.batch)]
        BY <1>2, <3>1, <4>2
      <4> QED BY <4>1, <4>3 DEF Elems
    <3> QED BY <1>2, <3>2, <3>3
  <2> QED BY <2>3, <2>4
<1>10. Draining(q)
  BY <1>1 DEF Draining
<1> HIDE DEF after
<1>11. /\ Elems(after.items) \subseteq Has(queue[o]) /\ Distinct(after.items)
       /\ \A m \in Msg : \/ runs'[m] = runs[m]
                        \/ /\ runs[m] = 0 /\ runs'[m] = 1
                           /\ m \in Has(queue[o]) /\ m \notin Elems(after.items)
       /\ upsets = {} =>
              \A m \in Elems(queue[o].items) \cup queue[o].droppedMsgs :
                 m \in Elems(after.items) \cup after.droppedMsgs \/ runs'[m] > 0 \/ m \in gone'
  BY <1>4, <1>5, <1>7, <1>9 DEF Has
<1>12. CASE q.kind = "collect"
  <2>1. LoopsOn(o, after)
    BY <1>1, <1>12
  <2> HIDE DEF told
  <2> QED BY <1>1, <1>5, <1>8, <1>10, <1>11, <2>1, LoopsOnKeeps
<1>13. CASE q.kind # "collect"
  <2> DEFINE r == [after EXCEPT !.pc = "next"]
  <2>1. queue' = [queue EXCEPT ![o] = r] /\ UNCHANGED <<current, callback>>
    BY <1>1, <1>13
  <2>2. /\ r \in QueueState /\ r.pc = "next" /\ r.batch = <<>> /\ r.kind = q.kind
        /\ r.items = after.items /\ r.droppedMsgs = after.droppedMsgs
    BY <1>5 DEF QueueState, Pc
  <2> HIDE DEF r, told
  <2>3. q.kind # "skipped"
    BY <1>0, <1>1 DEF Each, Orderly
  <2>4. OneTarget(r)
    BY <2>2, <2>3 DEF OneTarget, Checked
  <2>5. upsets = {} => Intact(r)
    BY <1>0, <1>1, <2>2 DEF AllIntact, Intact
  <2> QED BY <1>1, <1>5, <1>8, <1>10, <1>11, <2>1, <2>2, <2>4, <2>5, GoesOnKeeps
<1> QED BY <1>12, <1>13

\* The loop has the answer of its step.
LEMMA StepDoneKeeps ==
    ASSUME FollowupInv, NEW o \in Object, StepDone(o)
    PROVE  FollowupInv'
<1> DEFINE q == queue[o]
           told == [q EXCEPT !.droppedMsgs = {}]
<1>0. Typed /\ Each /\ AllIntact /\ Aimed
  BY DEF FollowupInv
<1>1. /\ q \in QueueState /\ q.pc = "next" /\ Draining(q)
      /\ UNCHANGED <<recent, accepted, runs, gone, upsets>>
      /\ Distinct(q.items) /\ Elems(q.items) \subseteq Has(q)
  BY <1>0 DEF StepDone, Typed, Draining, Each, Orderly, Has
<1>2. gone' \subseteq Msg /\ runs' \in [Msg -> 0..2]
  BY <1>0, <1>1 DEF Typed
<1>3. \/ q.kind = "skipped" /\ StartRun(o, "collect", q.items, Summary(q), q.force)
      \/ LoopsOn(o, q)
      \/ q.kind = "summary" /\ LoopsOn(o, told)
      \/ Ended(o, q)
  BY DEF StepDone
<1>4. CASE q.kind = "skipped" /\ StartRun(o, "collect", q.items, Summary(q), q.force)
  <2>1. /\ Summary(q) \in SUBSET Msg /\ (Summary(q) # {} => Summary(q) = q.droppedMsgs)
        /\ q.items \in Seq(Msg) /\ q.force \in BOOLEAN
    BY <1>1 DEF Summary, QueueState
  <2>2. SameTarget(Elems(q.items) \ q.late)
    BY <1>0, <1>1, <1>4 DEF Aimed, OneTarget, Checked
  <2>3. Len(q.items) <= Len(q.items)
    BY <2>1, LenProperties
  <2> DEFINE sum == Summary(q)
  <2>4. StartRun(o, "collect", q.items, sum, q.force)
    BY <1>4
  <2>5. sum \in SUBSET Msg /\ (sum # {} => sum = q.droppedMsgs)
    BY <2>1
  <2>6. upsets' = upsets
    BY <1>1
  <2> HIDE DEF q, sum
  <2> QED BY <1>1, <2>1, <2>2, <2>3, <2>4, <2>5, <2>6, StartRunKeeps DEF q
<1>5. CASE LoopsOn(o, q)
  <2> HIDE DEF q
  <2> QED BY <1>1, <1>2, <1>5, LoopsOnKeeps DEF q
<1>6. CASE q.kind = "summary" /\ LoopsOn(o, told)
  <2>1. told \in QueueState /\ told.items = q.items
    BY <1>1 DEF QueueState
  <2>2. upsets # {}
    BY <1>0, <1>1, <1>6 DEF AllIntact, Intact
  <2>3. LoopsOn(o, told)
    BY <1>6
  <2> HIDE DEF q, told
  <2> QED BY <1>1, <1>2, <2>1, <2>2, <2>3, LoopsOnKeeps DEF q
<1>7. CASE Ended(o, q)
  <2> HIDE DEF q
  <2> QED BY <1>1, <1>2, <1>7, EndedKeeps DEF q
<1> QED BY <1>3, <1>4, <1>5, <1>6, <1>7

\* A run that throws: nothing was run, and nothing is taken away.
LEMMA RunThrowsKeeps ==
    ASSUME FollowupInv, NEW o \in Object, RunThrows(o)
    PROVE  FollowupInv'
<1> DEFINE q == queue[o]
<1>0. Typed /\ Each
  BY DEF FollowupInv
<1>1. /\ q \in QueueState /\ Draining(q) /\ Distinct(q.items) /\ Elems(q.items) \subseteq Has(q)
      /\ UNCHANGED <<recent, accepted, runs, gone, upsets>> /\ Ended(o, q)
  BY <1>0 DEF RunThrows, Typed, Draining, Each, Orderly, Has
<1>2. gone' \subseteq Msg /\ runs' \in [Msg -> 0..2]
  BY <1>0, <1>1 DEF Typed
<1> HIDE DEF q
<1> QED BY <1>1, <1>2, EndedKeeps DEF q
\* An agent run of the session has ended.
LEMMA ScheduleKeeps ==
    ASSUME FollowupInv, ScheduleFollowupDrain
    PROVE  FollowupInv'
<1>0. Typed /\ Each /\ Once /\ OneDrain /\ Driven /\ AllIntact /\ Accounted /\ Aimed
  BY DEF FollowupInv
<1>1. /\ CanBegin(queue, current) /\ queue' = Scheduled(queue, current)
      /\ current' = MapScheduled(queue, current) /\ callback' = TRUE
      /\ UNCHANGED <<recent, accepted, runs, gone, upsets>>
  BY DEF ScheduleFollowupDrain
<1>2. current \in Object /\ queue \in [Object -> QueueState] /\ queue[current] \in QueueState
  BY <1>0, <1>1 DEF Typed, CanBegin
<1>3. /\ queue' \in [Object -> QueueState]
      /\ \A o \in Object : Same(queue'[o], queue[o])
      /\ \A o \in Object : o # current \/ ~HasWork(queue[current]) => queue'[o] = queue[o]
      /\ HasWork(queue[current]) => queue'[current].pc = "debounce"
  BY <1>1, <1>2, ScheduledIs
<1>4. current' = IF HasWork(queue[current]) THEN current ELSE NoQueue
  BY <1>1 DEF MapScheduled
<1>5. Typed'
  BY <1>0, <1>1, <1>3, <1>4 DEF Typed
<1>6. /\ Orderly(queue[current]) /\ OneTarget(queue[current])
      /\ upsets = {} => Intact(queue[current])
  BY <1>0, <1>2 DEF Each, Aimed, AllIntact
<1>7. \A o \in Object : Same(queue'[o], IF o = current THEN queue[current] ELSE queue[o])
  BY <1>3
<1>8. Each' /\ Once' /\ AllIntact' /\ Aimed'
  BY <1>0, <1>1, <1>2, <1>3, <1>6, <1>7, StoredKeeps
<1>9. OneDrain'
  <2> SUFFICES ASSUME "clearInDrain" \notin upsets, NEW o \in Object, Draining(queue'[o])
               PROVE  o = current'
    BY <1>1 DEF OneDrain
  <2>1. ~Draining(queue[o])
    BY <1>0, <1>1 DEF OneDrain, CanBegin
  <2> QED BY <1>3, <1>4, <2>1
<1>10. Driven'
  BY <1>2, <1>3, <1>4 DEF Driven, Draining
<1>11. Accounted'
  <2> SUFFICES ASSUME upsets = {}, NEW m \in accepted
               PROVE  \/ runs[m] > 0 \/ m \in gone
                      \/ /\ current' # NoQueue
                         /\ m \in Elems(queue'[current'].items) \cup queue'[current'].droppedMsgs
    BY <1>1 DEF Accounted
  <2>1. CASE HasWork(queue[current])
    BY <1>0, <1>2, <1>3, <1>4, <2>1 DEF Accounted, Same
  <2>2. CASE ~HasWork(queue[current])
    BY <1>0, <2>2 DEF Accounted, HasWork, Elems
  <2> QED BY <2>1, <2>2
<1> QED BY <1>5, <1>8, <1>9, <1>10, <1>11 DEF FollowupInv

-----------------------------------------------------------------------------
(* Enqueues and clears *)

\* getFollowupQueue: the object in the map as it is, or a new one.
LEMMA ConfiguredIs ==
    ASSUME FollowupInv, HasTarget, NEW s \in Settings
    PROVE  LET q == Configured(s) IN
           /\ Target \in Object /\ q \in QueueState
           /\ q.pc = queue[Target].pc /\ q.cap \in Nat \ {0}
           /\ Orderly(q) /\ OneTarget(q) /\ (upsets = {} => Intact(q))
           /\ Has(q) \subseteq Has(queue[Target])
           /\ current # NoQueue =>
                 /\ Target = current /\ q.items = queue[current].items
                 /\ q.droppedMsgs = queue[current].droppedMsgs
           /\ current = NoQueue => q.pc = "idle" /\ q.items = <<>> /\ q.droppedMsgs = {}
<1> DEFINE q == Configured(s)
           base == IF current # NoQueue THEN queue[current] ELSE Fresh
<1>0. Typed /\ Each /\ AllIntact /\ Aimed
  BY DEF FollowupInv
<1>1. s.mode \in {"collect", "followup"} /\ s.cap \in Nat \ {0}
      /\ s.dropPolicy \in {"new", "old", "summarize"}
  BY SettingsAssumption
<1>2. Fresh \in QueueState /\ Fresh.pc = "idle" /\ Fresh.items = <<>> /\ Fresh.batch = <<>>
      /\ Fresh.droppedMsgs = {}
  <2>1. <<>> \in Seq(Msg) /\ "idle" \in Pc /\ "single" \in Kind
    BY DEF Pc, Kind
  <2> QED BY <2>1 DEF Fresh, QueueState
<1>3. Target \in Object /\ (current # NoQueue => Target = current)
      /\ (current = NoQueue => ~Draining(queue[Target]))
  BY <1>0 DEF HasTarget, Target, Typed
<1>4. base \in QueueState
  BY <1>0, <1>2 DEF Typed
<1>5. q = [base EXCEPT !.mode = s.mode, !.cap = s.cap, !.dropPolicy = s.dropPolicy]
  BY DEF Configured
<1>6. /\ q \in QueueState /\ q.cap = s.cap
      /\ q.items = base.items /\ q.droppedMsgs = base.droppedMsgs /\ q.pc = base.pc
      /\ q.kind = base.kind /\ q.batch = base.batch /\ q.noted = base.noted
      /\ q.late = base.late
  <2> HIDE DEF base
  <2> QED BY <1>1, <1>4, <1>5 DEF QueueState
<1> HIDE DEF q
<1>7. CASE current # NoQueue
  <2>1. base = queue[current] /\ current = Target /\ current \in Object
    BY <1>0, <1>3, <1>7 DEF Typed
  <2>2. Orderly(base) /\ OneTarget(base) /\ (upsets = {} => Intact(base))
    BY <1>0, <2>1 DEF Each, Aimed, AllIntact
  <2> HIDE DEF base
  <2>3. Orderly(q) /\ OneTarget(q) /\ (upsets = {} => Intact(q)) /\ Has(q) = Has(base)
    BY <1>6, <2>2 DEF Orderly, OneTarget, Intact, Has, Checked
  <2> QED BY <1>1, <1>3, <1>6, <1>7, <2>1, <2>3 DEF q
<1>8. CASE current = NoQueue
  <2>1. base = Fresh /\ queue[Target].pc = "idle"
    BY <1>3, <1>8 DEF Draining
  <2> HIDE DEF base
  <2>2. q.pc = "idle" /\ q.items = <<>> /\ q.batch = <<>> /\ q.droppedMsgs = {}
    BY <1>2, <1>6, <2>1
  <2>3. Orderly(q) /\ OneTarget(q) /\ Intact(q) /\ Has(q) = {}
    BY <2>2 DEF Orderly, OneTarget, Intact, Has, Elems, Distinct, Checked
  <2> QED BY <1>1, <1>3, <1>6, <1>8, <2>1, <2>2, <2>3 DEF q
<1> QED BY <1>7, <1>8

\* A message that is not taken: the object only gets the settings.
LEMMA NotTakenKeeps ==
    ASSUME FollowupInv, HasTarget, NEW s \in Settings, NEW q \in QueueState,
           Same(q, Configured(s)), q.pc = Configured(s).pc,
           queue' = [queue EXCEPT ![Target] = q], current' = Target,
           UNCHANGED <<callback, recent, accepted, runs, gone, upsets>>
    PROVE  FollowupInv'
<1> DEFINE t == Configured(s)
<1>0. Typed /\ Each /\ Once /\ OneDrain /\ Driven /\ AllIntact /\ Accounted /\ Aimed
  BY DEF FollowupInv
<1>1. /\ Target \in Object /\ q.pc = queue[Target].pc
      /\ Orderly(t) /\ OneTarget(t) /\ (upsets = {} => Intact(t))
      /\ Has(t) \subseteq Has(queue[Target])
      /\ current # NoQueue =>
            /\ Target = current /\ q.items = queue[current].items
            /\ q.droppedMsgs = queue[current].droppedMsgs
      /\ current = NoQueue => q.pc = "idle" /\ q.items = <<>> /\ q.droppedMsgs = {}
  BY ConfiguredIs DEF Same
<1>2. Same(q, t) /\ q.pc = t.pc
  OBVIOUS
<1> HIDE DEF t
<1>3. Orderly(q) /\ OneTarget(q) /\ (upsets' = {} => upsets = {} /\ Intact(q)) /\ Has(q) = Has(t)
  BY <1>1, <1>2 DEF Same, Orderly, OneTarget, Intact, Has, Checked
<1>4. /\ queue' \in [Object -> QueueState]
      /\ \A o \in Object : queue'[o] = IF o = Target THEN q ELSE queue[o]
  BY <1>0, <1>1 DEF Typed
<1>5. Typed'
  BY <1>0, <1>1, <1>4 DEF Typed
<1>6. \A o \in Object : Same(queue'[o], IF o = Target THEN q ELSE queue[o])
  BY <1>4 DEF Same
<1>7. Each' /\ Once' /\ AllIntact' /\ Aimed'
  BY <1>0, <1>1, <1>3, <1>4, <1>6, StoredKeeps
<1>8. OneDrain'
  <2> SUFFICES ASSUME "clearInDrain" \notin upsets, NEW o \in Object, Draining(queue'[o])
               PROVE  o = Target
    BY DEF OneDrain
  <2>1. o # Target => queue'[o] = queue[o]
    BY <1>4
  <2>2. Draining(queue[o])
    BY <1>1, <1>4, <2>1 DEF Draining
  <2>3. current = o /\ current # NoQueue
    BY <1>0, <2>2, SettingsAssumption DEF OneDrain, Object, NoQueue
  <2> QED BY <1>1, <2>3
<1>9. queue'[current'] = q
  BY <1>1, <1>4
<1>10. Driven'
  BY <1>0, <1>1, <1>9 DEF Driven, HasWork, Draining
<1>11. Accounted'
  BY <1>0, <1>1, <1>9 DEF Accounted
<1> QED BY <1>5, <1>7, <1>8, <1>10, <1>11 DEF FollowupInv

\* A message that is known.
LEMMA EnqueueDuplicateKeeps ==
    ASSUME FollowupInv, NEW m \in Msg, NEW s \in Settings, EnqueueDuplicate(m, s)
    PROVE  FollowupInv'
<1>1. Same(Configured(s), Configured(s)) /\ HasTarget
  BY DEF Same, EnqueueDuplicate
<1>2. Configured(s) \in QueueState
  BY <1>1, ConfiguredIs
<1> QED BY <1>1, <1>2, NotTakenKeeps DEF EnqueueDuplicate

\* A message that is refused.
LEMMA EnqueueRefusedKeeps ==
    ASSUME FollowupInv, NEW m \in Msg, NEW s \in Settings, EnqueueRefused(m, s)
    PROVE  FollowupInv'
<1> DEFINE t == Configured(s)
           q == [t EXCEPT !.lastRun = TRUE]
<1>1. HasTarget /\ t \in QueueState
  BY ConfiguredIs DEF EnqueueRefused
<1>2. q \in QueueState /\ Same(q, t) /\ q.pc = t.pc
  <2> HIDE DEF t
  <2> QED BY <1>1 DEF QueueState, Same
<1>3. /\ queue' = [queue EXCEPT ![Target] = q] /\ current' = Target
      /\ UNCHANGED <<callback, recent, accepted, runs, gone, upsets>>
  BY DEF EnqueueRefused
<1> HIDE DEF q
<1> QED BY <1>1, <1>2, <1>3, NotTakenKeeps
\* A message that is taken: room is made for it, and the drain is kicked.
LEMMA EnqueueAcceptedKeeps ==
    ASSUME FollowupInv, NEW m \in Msg, NEW s \in Settings, EnqueueAccepted(m, s)
    PROVE  FollowupInv'
<1> DEFINE q == Configured(s)
           n == DropCount(q)
           out == Elems(SubSeq(q.items, 1, n))
           left == SubSeq(q.items, n + 1, Len(q.items))
           filled == [q EXCEPT
               !.lastRun = TRUE,
               !.items = Append(left, m),
               !.droppedMsgs = IF q.dropPolicy = "summarize" THEN q.droppedMsgs \cup out
                               ELSE q.droppedMsgs,
               !.late = IF Checked(q) THEN q.late \cup {m} ELSE q.late]
           qs == [queue EXCEPT ![Target] = filled]
<1>0. Typed /\ Each /\ Once /\ OneDrain /\ Driven /\ AllIntact /\ Accounted /\ Aimed
  BY DEF FollowupInv
<1>1. /\ HasTarget /\ ~IsDuplicate(m) /\ ~Refuses(q)
      /\ queue' = Kicked(qs) /\ current' = Target
      /\ recent' = recent \cup {m} /\ accepted' = accepted \cup {m}
      /\ gone' = IF q.dropPolicy = "old" THEN gone \cup out ELSE gone
      /\ upsets' = IF out # {} /\ Summarising(q) THEN upsets \cup {"dropInRun"} ELSE upsets
      /\ UNCHANGED <<callback, runs>>
  BY DEF EnqueueAccepted, Remember
<1>2. /\ Target \in Object /\ q \in QueueState
      /\ q.pc = queue[Target].pc /\ q.cap \in Nat \ {0}
      /\ Orderly(q) /\ OneTarget(q) /\ (upsets = {} => Intact(q))
      /\ Has(q) \subseteq Has(queue[Target])
      /\ current # NoQueue =>
            /\ Target = current /\ q.items = queue[current].items
            /\ q.droppedMsgs = queue[current].droppedMsgs
      /\ current = NoQueue => q.pc = "idle" /\ q.items = <<>> /\ q.droppedMsgs = {}
  BY <1>1, ConfiguredIs
<1> HIDE DEF q
<1>3. /\ q.items \in Seq(Msg) /\ q.batch \in Seq(Msg) /\ q.droppedMsgs \subseteq Msg
      /\ q.dropPolicy \in {"new", "old", "summarize"}
      /\ Len(q.items) \in Nat /\ Len(q.batch) \in Nat
  BY <1>2 DEF QueueState
<1>4. n \in 0..Len(q.items)
  BY <1>2, <1>3 DEF DropCount
<1> HIDE DEF n
<1>5. Slid(q.items, left, n)
  BY <1>3, <1>4, Slides
<1> HIDE DEF left
<1>6. /\ left \in Seq(Msg) /\ Len(left) = Len(q.items) - n
      /\ \A i \in 1..Len(left) : i + n \in 1..Len(q.items) /\ left[i] = q.items[i + n]
  BY <1>3, <1>4, <1>5 DEF Slid
<1>7. Elems(left) \subseteq Elems(q.items) /\ Distinct(left)
  <2>1. Distinct(q.items)
    BY <1>2 DEF Orderly
  <2> QED BY <1>3, <1>4, <1>5, <2>1, SlidElems
<1>8. /\ Elems(q.items) = out \cup Elems(left) /\ out \subseteq Msg
      /\ n = 0 <=> out = {}
  BY <1>3, <1>4, <1>5, FrontElems
<1> HIDE DEF out
<1>9. m \notin recent /\ m \notin Has(q)
  BY <1>0, <1>1, <1>2 DEF IsDuplicate, Once
<1>10. m \notin Elems(left) /\ m \notin Elems(q.batch)
  BY <1>7, <1>9 DEF Has
<1> DEFINE items == Append(left, m)
<1>11. /\ items \in Seq(Msg) /\ Len(items) = Len(left) + 1
       /\ \A i \in 1..Len(left) : items[i] = left[i]
       /\ items[Len(left) + 1] = m
       /\ Elems(items) = Elems(left) \cup {m} /\ Distinct(items)
  BY <1>6, <1>7, <1>10, Appended
<1> HIDE DEF items
<1>12. /\ filled \in QueueState /\ filled.items = items
       /\ filled.droppedMsgs = IF q.dropPolicy = "summarize" THEN q.droppedMsgs \cup out
                               ELSE q.droppedMsgs
       /\ filled.pc = q.pc /\ filled.batch = q.batch /\ filled.kind = q.kind
       /\ filled.noted = q.noted
       /\ filled.late = IF Checked(q) THEN q.late \cup {m} ELSE q.late
  <2>1. q.droppedMsgs \cup out \in SUBSET Msg /\ TRUE \in BOOLEAN
        /\ (IF Checked(q) THEN q.late \cup {m} ELSE q.late) \in SUBSET Msg
    BY <1>2, <1>3, <1>8 DEF QueueState
  <2> QED BY <1>2, <1>11, <2>1 DEF QueueState, items
<1> HIDE DEF filled
<1>13. Orderly(filled)
  <2>1. ASSUME NEW i \in 1..Len(items), i > Len(q.batch) PROVE items[i] \notin Elems(q.batch)
    <3>1. CASE i = Len(left) + 1
      BY <1>10, <1>11, <3>1
    <3>2. CASE i # Len(left) + 1
      <4>1. i \in 1..Len(left) /\ items[i] = q.items[i + n] /\ i + n \in 1..Len(q.items)
            /\ i + n > Len(q.batch)
        <5>1. Len(left) \in Nat /\ n \in Nat
          BY <1>3, <1>4, <1>6
        <5>2. i \in 1..Len(left)
          BY <1>11, <2>1, <3>2, <5>1
        <5>3. items[i] = q.items[i + n] /\ i + n \in 1..Len(q.items)
          BY <1>6, <1>11, <5>2
        <5>4. i + n > Len(q.batch)
          BY <1>3, <2>1, <5>1, <5>2
        <5> QED BY <5>2, <5>3, <5>4
      <4> QED BY <1>2, <4>1 DEF Orderly
    <3> QED BY <3>1, <3>2
  <2> QED BY <1>2, <1>11, <1>12, <2>1 DEF Orderly
<1>14. OneTarget(filled)
  <2>1. q.pc = "run" => ~Checked(q) /\ ~Checked(filled)
    BY <1>12 DEF Checked
  <2>2. ASSUME Checked(filled) PROVE SameTarget(Elems(items) \ filled.late)
    <3>1. Checked(q) /\ SameTarget(Elems(q.items) \ q.late)
      BY <1>2, <1>12, <2>2 DEF Checked, OneTarget
    <3>2. Elems(items) \ filled.late \subseteq Elems(q.items) \ q.late
      BY <1>7, <1>11, <1>12, <3>1
    <3> QED BY <3>1, <3>2 DEF SameTarget
  <2> QED BY <1>2, <1>12, <2>1, <2>2 DEF OneTarget
<1>15. ASSUME upsets' = {} PROVE upsets = {} /\ Intact(filled)
  <2>1. upsets = {} /\ Intact(q)
    BY <1>1, <1>2, <1>15
  <2> SUFFICES ASSUME q.pc = "run" PROVE Intact(filled)
    BY <1>12, <2>1 DEF Intact
  <2>2. out = {} /\ n = 0
    BY <1>1, <1>8, <1>15 DEF Summarising
  <2>3. Len(items) = Len(q.items) + 1
    BY <1>6, <1>11, <2>2
  <2>4. ASSUME NEW i \in 1..Len(q.batch) PROVE items[i] = q.batch[i]
    <3>1. i \in 1..Len(left) /\ q.items[i] = q.batch[i]
      BY <1>3, <1>6, <2>1, <2>2 DEF Intact
    <3>2. items[i] = q.items[i + n] /\ i + n = i
      BY <1>6, <1>11, <2>2, <3>1
    <3> QED BY <3>1, <3>2
  <2>5. filled.droppedMsgs = q.droppedMsgs
    BY <1>12, <2>2
  <2> QED BY <1>3, <1>12, <2>1, <2>3, <2>4, <2>5 DEF Intact
<1>16. Has(filled) \subseteq Has(queue[Target]) \cup (recent' \ recent)
  BY <1>1, <1>2, <1>7, <1>9, <1>11, <1>12 DEF Has
<1>17. /\ qs \in [Object -> QueueState]
       /\ \A o \in Object : qs[o] = IF o = Target THEN filled ELSE queue[o]
  BY <1>0, <1>2, <1>12 DEF Typed
<1> HIDE DEF qs
<1>18. HasWork(filled)
  <2>1. Len(items) # 0
    BY <1>6, <1>11
  <2> QED BY <1>12, <2>1 DEF HasWork
<1>19. /\ queue' \in [Object -> QueueState]
       /\ \A o \in Object : Same(queue'[o], qs[o])
       /\ \A o \in Object : o # Target => queue'[o] = qs[o]
       /\ callback => Draining(queue'[Target])
  <2>1. CASE callback
    <3>1. queue' = Scheduled(qs, Target) /\ HasWork(qs[Target])
      BY <1>1, <1>2, <1>17, <1>18, <2>1 DEF Kicked
    <3>2. Target # NoQueue
      BY <1>2, SettingsAssumption DEF Object, NoQueue
    <3>3. /\ queue' \in [Object -> QueueState]
          /\ \A o \in Object : Same(queue'[o], qs[o])
          /\ \A o \in Object : o # Target \/ ~CanBegin(qs, Target) => queue'[o] = qs[o]
          /\ CanBegin(qs, Target) => queue'[Target].pc = "debounce"
      BY <1>2, <1>17, <3>1, ScheduledIs
    <3> QED BY <1>2, <3>2, <3>3 DEF CanBegin, Draining
  <2>2. CASE ~callback
    BY <1>1, <1>17, <2>2 DEF Kicked, Same
  <2> QED BY <2>1, <2>2
<1>20. \A o \in Object : Same(queue'[o], IF o = Target THEN filled ELSE queue[o])
  BY <1>17, <1>19
<1>21. Typed'
  <2>1. upsets' \subseteq Upset
    BY <1>0, <1>1 DEF Typed, Upset
  <2>2. gone' \subseteq Msg
    BY <1>0, <1>1, <1>8 DEF Typed
  <2> QED BY <1>0, <1>1, <1>2, <1>19, <2>1, <2>2 DEF Typed
<1>22. Each' /\ Once' /\ AllIntact' /\ Aimed'
  <2>1. recent \subseteq recent' /\ \A x \in Msg : runs'[x] = runs[x]
    BY <1>1
  <2> QED
    BY <1>0, <1>2, <1>12, <1>13, <1>14, <1>15, <1>16, <1>19, <1>20, <2>1, StoredKeeps
<1>23. OneDrain'
  <2> SUFFICES ASSUME "clearInDrain" \notin upsets, NEW o \in Object, o # Target,
                      Draining(queue'[o])
               PROVE  FALSE
    BY <1>1 DEF OneDrain
  <2>1. Draining(queue[o])
    BY <1>17, <1>19
  <2>2. current = o /\ current # NoQueue
    BY <1>0, <2>1, SettingsAssumption DEF OneDrain, Object, NoQueue
  <2> QED BY <1>2, <2>2
<1>24. Driven'
  BY <1>1, <1>19 DEF Driven
<1>25. Accounted'
  <2> SUFFICES ASSUME upsets' = {}, NEW x \in accepted'
               PROVE  \/ runs[x] > 0 \/ x \in gone'
                      \/ x \in Elems(queue'[Target].items) \cup queue'[Target].droppedMsgs
    <3>1. Target # NoQueue
      BY <1>2, SettingsAssumption DEF Object, NoQueue
    <3> QED BY <1>1, <3>1 DEF Accounted
  <2>1. queue'[Target].items = items /\ queue'[Target].droppedMsgs = filled.droppedMsgs
    BY <1>2, <1>12, <1>20 DEF Same
  <2>2. CASE x = m
    BY <1>11, <2>1, <2>2
  <2>3. CASE x \in accepted
    <3>1. upsets = {}
      BY <1>15
    <3>2. runs[x] > 0 \/ x \in gone \/ x \in Elems(q.items) \cup q.droppedMsgs
      BY <1>0, <1>2, <2>3, <3>1 DEF Accounted
    <3>3. x \in out => x \in gone' \/ x \in filled.droppedMsgs
      <4>1. CASE q.dropPolicy = "new"
        <5>1. ~(n > 0)
          BY <1>1, <4>1 DEF Refuses, n
        <5> QED BY <1>4, <1>8, <5>1
      <4> QED BY <1>1, <1>3, <1>12, <4>1
    <3>4. x \in Elems(left) => x \in Elems(items)
      BY <1>11
    <3>5. gone \subseteq gone' /\ q.droppedMsgs \subseteq filled.droppedMsgs
      BY <1>1, <1>12
    <3> QED BY <1>8, <2>1, <3>2, <3>3, <3>4, <3>5
  <2> QED BY <1>1, <2>2, <2>3
<1> QED BY <1>21, <1>22, <1>23, <1>24, <1>25 DEF FollowupInv

\* clearSessionQueues.
LEMMA ClearKeeps ==
    ASSUME FollowupInv, ClearSessionQueues
    PROVE  FollowupInv'
<1> DEFINE q == queue[current]
           r == [q EXCEPT !.items = <<>>, !.droppedMsgs = {}, !.lastRun = FALSE]
<1>0. Typed /\ Each /\ Once /\ OneDrain /\ Driven /\ AllIntact /\ Accounted /\ Aimed
  BY DEF FollowupInv
<1>1. /\ IF current = NoQueue THEN UNCHANGED <<queue, gone>>
         ELSE /\ queue' = [queue EXCEPT ![current] = r]
              /\ gone' = gone \cup Elems(q.items) \cup q.droppedMsgs
      /\ current' = NoQueue /\ callback' = FALSE
      /\ upsets' = IF current # NoQueue /\ Draining(q) THEN upsets \cup {"clearInDrain"}
                   ELSE upsets
      /\ UNCHANGED <<recent, accepted, runs>>
  BY DEF ClearSessionQueues
<1>2. Driven'
  BY <1>1 DEF Driven
<1>3. CASE current = NoQueue
  <2>1. queue' = queue /\ gone' = gone /\ upsets' = upsets
    BY <1>1, <1>3
  <2> QED
    BY <1>0, <1>1, <1>2, <1>3, <2>1
    DEF FollowupInv, Typed, Each, Once, OneDrain, AllIntact, Accounted, Aimed
<1>4. CASE current # NoQueue
  <2>1. current \in Object /\ q \in QueueState
    BY <1>0, <1>4 DEF Typed
  <2>2. /\ r \in QueueState /\ r.items = <<>> /\ r.droppedMsgs = {}
        /\ r.pc = q.pc /\ r.batch = q.batch /\ r.kind = q.kind /\ r.noted = q.noted
        /\ r.late = q.late
    <3>1. <<>> \in Seq(Msg) /\ {} \in SUBSET Msg /\ FALSE \in BOOLEAN
      OBVIOUS
    <3> QED BY <2>1, <3>1 DEF QueueState
  <2> HIDE DEF r
  <2>3. /\ queue' \in [Object -> QueueState]
        /\ \A o \in Object : queue'[o] = IF o = current THEN r ELSE queue[o]
    BY <1>0, <1>1, <1>4, <2>2 DEF Typed
  <2>4. q.items \in Seq(Msg) /\ q.droppedMsgs \subseteq Msg
    BY <2>1 DEF QueueState
  <2>5. Typed'
    <3>1. Elems(q.items) \subseteq Msg
      BY <2>4 DEF Elems
    <3>2. gone' \subseteq Msg
      BY <1>0, <1>1, <1>4, <2>4, <3>1 DEF Typed
    <3>3. upsets' \subseteq Upset
      BY <1>0, <1>1 DEF Typed, Upset
    <3> QED BY <1>0, <1>1, <2>3, <3>2, <3>3 DEF Typed
  <2>6. Orderly(q) /\ OneTarget(q)
    BY <1>0, <2>1 DEF Each, Aimed
  <2>7. Len(<<>>) = 0 /\ Elems(<<>>) = {}
    BY DEF Elems
  <2>8. Orderly(r) /\ OneTarget(r)
    BY <2>2, <2>6, <2>7 DEF Orderly, OneTarget, Distinct, SameTarget
  <2>9. upsets' = {} => upsets = {} /\ Intact(r)
    BY <1>1, <1>4, <2>2 DEF Draining, Intact
  <2>10. Has(r) \subseteq Has(q)
    BY <2>2, <2>7 DEF Has
  <2>11. \A o \in Object : Same(queue'[o], IF o = current THEN r ELSE queue[o])
    BY <2>3 DEF Same
  <2>12. recent \subseteq recent' /\ \A x \in Msg : runs'[x] = runs[x]
    BY <1>1
  <2> HIDE DEF q
  <2>13. Each' /\ Once' /\ AllIntact' /\ Aimed'
    BY <1>0, <2>1, <2>2, <2>3, <2>8, <2>9, <2>10, <2>11, <2>12, StoredKeeps DEF q
  <2>14. OneDrain'
    <3> SUFFICES ASSUME "clearInDrain" \notin upsets', NEW o \in Object, Draining(queue'[o])
                 PROVE  FALSE
      BY DEF OneDrain
    <3>1. ~Draining(q) /\ "clearInDrain" \notin upsets
      BY <1>1, <1>4
    <3>2. Draining(queue[o])
      BY <2>2, <2>3 DEF Draining, q
    <3> QED BY <1>0, <3>1, <3>2 DEF OneDrain, q
  <2>15. Accounted'
    BY <1>0, <1>1, <1>4, <2>9 DEF Accounted, q
  <2> QED BY <1>2, <2>5, <2>13, <2>14, <2>15 DEF FollowupInv
<1> QED BY <1>3, <1>4

-----------------------------------------------------------------------------
\* The invariant holds of the empty map, and every step keeps it.
LEMMA FollowupInit == Init => FollowupInv
<1> SUFFICES ASSUME Init PROVE FollowupInv
  OBVIOUS
<1>1. Fresh \in QueueState /\ Fresh.pc = "idle" /\ Fresh.items = <<>> /\ Fresh.batch = <<>>
  <2>1. <<>> \in Seq(Msg) /\ "idle" \in Pc /\ "single" \in Kind
    BY DEF Pc, Kind
  <2> QED BY <2>1 DEF Fresh, QueueState
<1>2. Orderly(Fresh) /\ OneTarget(Fresh) /\ Intact(Fresh) /\ Has(Fresh) = {} /\ ~Draining(Fresh)
  BY <1>1 DEF Orderly, OneTarget, Intact, Has, Elems, Distinct, Draining, Checked
<1>3. queue \in [Object -> QueueState] /\ \A o \in Object : queue[o] = Fresh
  BY <1>1 DEF Init
<1>4. Typed
  <2>1. runs \in [Msg -> 0..2]
    BY DEF Init
  <2>2. current \in Object \cup {NoQueue} /\ callback \in BOOLEAN
    BY DEF Init
  <2>3. recent \subseteq Msg /\ accepted \subseteq Msg /\ gone \subseteq Msg /\ upsets \subseteq Upset
    BY DEF Init
  <2> QED BY <1>3, <2>1, <2>2, <2>3 DEF Typed
<1>5. Each /\ AllIntact /\ Aimed /\ OneDrain
  BY <1>2, <1>3 DEF Each, AllIntact, Aimed, OneDrain
<1>6. Once
  BY <1>2, <1>3 DEF Init, Once
<1>7. Driven /\ Accounted
  BY DEF Init, Driven, Accounted
<1> QED
  BY <1>4, <1>5, <1>6, <1>7 DEF FollowupInv

LEMMA FollowupStepInv == FollowupInv /\ [Next]_vars => FollowupInv'
<1> SUFFICES ASSUME FollowupInv, [Next]_vars PROVE FollowupInv'
  OBVIOUS
<1>1. CASE UNCHANGED vars
  BY <1>1
  DEF vars, FollowupInv, Typed, Each, Once, OneDrain, Driven, AllIntact, Accounted, Aimed
<1> QED
  BY <1>1, ScheduleKeeps, EnqueueDuplicateKeeps, EnqueueRefusedKeeps, EnqueueAcceptedKeeps,
     DrainStepKeeps, RunEndsKeeps, StepDoneKeeps, RunThrowsKeeps, ClearKeeps DEF Next

\* Every reachable state satisfies the inductive invariant: see FollowupInv.
THEOREM FollowupInvariant == Spec => []FollowupInv
  BY FollowupInit, FollowupStepInv, PTL DEF Spec

\* However many messages and clears there are: no message is run twice, though it is delivered
\* again and its run is retried, and unless the queue is upset none vanishes.
THEOREM MessagesHandledOnce == Spec => []HandledOnce
<1>1. FollowupInv => HandledOnce
  <2> SUFFICES ASSUME FollowupInv PROVE HandledOnce
    OBVIOUS
  <2>0. Typed /\ Each /\ Once /\ Accounted
    BY DEF FollowupInv
  <2>1. ASSUME NEW o \in Object
        PROVE  /\ queue[o] \in QueueState
               /\ Cardinality(Elems(queue[o].items)) = Len(queue[o].items)
    <3>1. queue[o] \in QueueState /\ Distinct(queue[o].items)
      BY <2>0 DEF Typed, Each, Orderly
    <3>2. queue[o].items \in Seq(Msg)
      BY <3>1 DEF QueueState
    <3> QED BY <3>1, <3>2, DistinctCounts
  <2>2. TypeOK
    BY <2>0, <2>1 DEF TypeOK, Typed, QueueState
  <2>3. \A m \in Msg : runs[m] < 2
    BY <2>0 DEF Typed, Once
  <2>4. ASSUME upsets = {}, NEW m \in accepted
        PROVE  m \in Held \/ runs[m] > 0 \/ m \in gone
    <3>1. ASSUME current # NoQueue, m \in Elems(queue[current].items) \cup queue[current].droppedMsgs
          PROVE  m \in Held
      <4>1. current \in Live
        BY <2>0, <3>1 DEF Live, Typed
      <4> QED BY <3>1, <4>1 DEF Held
    <3> QED BY <2>0, <2>4, <3>1 DEF Accounted
  <2> QED BY <2>2, <2>3, <2>4 DEF HandledOnce, NoSilentLoss
<1> QED BY <1>1, FollowupInvariant, PTL

\* However many queue objects there are: messages with a callback to run them are being
\* drained, by one loop, unless one that was cleared has still to notice.
THEOREM OneLoopDrains == Spec => []DrainedByOne
<1>1. FollowupInv => DrainedByOne
  <2> SUFFICES ASSUME FollowupInv PROVE DrainedByOne
    OBVIOUS
  <2>1. OneDrain /\ Driven
    BY DEF FollowupInv
  <2>2. ASSUME "clearInDrain" \notin upsets
        PROVE  Cardinality({o \in Object : Draining(queue[o])}) <= 1
    <3>1. \/ {o \in Object : Draining(queue[o])} = {}
          \/ {o \in Object : Draining(queue[o])} = {current}
      BY <2>1, <2>2 DEF OneDrain
    <3>2. Cardinality({}) = 0 /\ Cardinality({current}) = 1
      BY FS_EmptySet, FS_Singleton
    <3> QED BY <3>1, <3>2
  <2> QED BY <2>1, <2>2 DEF DrainedByOne, Driven
<1> QED BY <1>1, FollowupInvariant, PTL

\* A batch that is run as one prompt has one target, whatever was enqueued, dropped and
\* cleared since it was checked, but for what was enqueued before it was taken.
THEOREM BatchesHaveOneTarget == Spec => []CollectedHaveOneTarget
<1>1. ASSUME NEW S, SameTarget(S) PROVE Cardinality({Route[m] : m \in S}) <= 1
  <2> DEFINE routes == {Route[m] : m \in S}
  <2>1. routes = {} \/ \E r : routes = {r}
    BY <1>1 DEF SameTarget
  <2> HIDE DEF routes
  <2>2. ASSUME routes = {} PROVE Cardinality(routes) <= 1
    BY <2>2, FS_EmptySet
  <2>3. ASSUME NEW r, routes = {r} PROVE Cardinality(routes) <= 1
    <3>1. Cardinality(routes) = 1
      BY <2>3, FS_Singleton
    <3> QED BY <3>1
  <2>4. Cardinality(routes) <= 1
    BY <2>1, <2>2, <2>3
  <2> QED BY <2>4 DEF routes
<1>2. FollowupInv => CollectedHaveOneTarget
  BY <1>1 DEF FollowupInv, Aimed, OneTarget, CollectedHaveOneTarget
<1> QED BY <1>2, FollowupInvariant, PTL
=============================================================================
