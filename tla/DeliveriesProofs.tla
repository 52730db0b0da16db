--------------------------- MODULE DeliveriesProofs ---------------------------
(***************************************************************************)
(* Theorems about the two components that owe somebody a message.  Of      *)
(* DeliveryQueue, for any deliveries, payloads, retries and crashes: no    *)
(* delivery is lost, and none is sent again once acknowledged.  Of         *)
(* SubagentRegistry, for any runs, sessions and upsets: each run that ends *)
(* is announced once by one flow at a time, or accounted for.              *)
(***************************************************************************)
EXTENDS DeliveryQueue, SubagentRegistry, TLAPS

-----------------------------------------------------------------------------
(* DeliveryQueue *)

\* A live sender has its own delivery; one that has not begun has left no trace; and a
\* recovery takes a delivery once.
Placed ==
    /\ \A d \in Delivery :
          /\ job[d] = d
          /\ pc[d] = "idle" => /\ ~Exists(d) /\ ackedBy[d] = {}
                               /\ \A a \in Actor : ~HasInHand(a, d)
    /\ \A r \in Recoverer : Working(r) => pending[r][job[r]] = NoFile

\* What failDelivery counts on, it has read.
HasRead == \A a \in Actor : pc[a] = "write" => copy[a] \in Entry

\* A failure of a will not go unnoticed.
Counted(a) == job[a] \notin bestEffort \/ (a \in withOnError /\ ~partial[a])

\* The sender has sent what lies behind it, and acknowledges what has been sent.
SendingTrue ==
    \A a \in Actor :
        /\ pc[a] \in {"idle", "send"} /\ Counted(a) =>
              \A p \in Payload : p < next[a] => p \in sent[job[a]]
        /\ pc[a] = "ack" /\ (job[a] \notin bestEffort \/ a \in withOnError) =>
              AllSent(job[a]) \/ job[a] \in aborted

\* The two promises of NoLoss.
NoneLost ==
    /\ \A d \in queueId \ bestEffort :
          Exists(d) \/ d \in failed \/ AllSent(d) \/ d \in aborted
    /\ \A d \in bestEffort \cap withOnError :
          "live" \in ackedBy[d] => AllSent(d) \/ d \in aborted

\* A delivery that no recovery loaded beside another actor is in one hand at a time, and
\* once it is acknowledged its file is gone and stays away.
Apart ==
    \A d \in Delivery \ shared :
        /\ \A a, b \in Actor : HasInHand(a, d) /\ HasInHand(b, d) => a = b
        /\ ackedBy[d] # {} => ~Exists(d) /\ \A a \in Actor : ~HasInHand(a, d)

DeliveryInv == TypeOK /\ Placed /\ HasRead /\ SendingTrue /\ NoneLost /\ Apart

-----------------------------------------------------------------------------
(* Files and hands *)

\* An entry is not NoFile, and its attempts are a number.
LEMMA Entries ==
    /\ NoFile \notin Entry
    /\ \A e \in Entry : e.retryCount \in Nat
    /\ [retryCount |-> 0, attempted |-> FALSE] \in Entry
    /\ \A n \in Nat : [retryCount |-> n + 1, attempted |-> TRUE] \in Entry
BY DEF NoFile, Entry

\* Who is who, and what each one holds.
LEMMA Actors ==
    ASSUME TypeOK
    PROVE  /\ \A d \in Delivery : /\ d \in Actor /\ d \notin Recoverer
                                  /\ json[d] \in Entry \cup {NoFile}
           /\ \A r \in Recoverer : /\ r \in Actor /\ r \notin Delivery
                                   /\ pending[r] \in [Delivery -> Entry \cup {NoFile}]
           /\ \A a \in Actor : /\ job[a] \in Delivery
                               /\ a \in Recoverer \/ a \in Delivery
BY DeliveryAssumption DEF TypeOK, Actor

\* Nothing has been written at first.
LEMMA InitDeliveryInv == Init => DeliveryInv
<1> SUFFICES ASSUME Init
             PROVE  DeliveryInv
  OBVIOUS
<1>1. TypeOK
  <2>1. /\ next \in [Actor -> 1..Payloads + 1] /\ crashes \in 0..MaxCrashes
        /\ sent \in [Delivery -> SUBSET Payload]
    BY PayloadsAssumption, CrashesAssumption DEF Init
  <2>2. job \in [Actor -> Delivery]
    BY DEF Init, Actor
  <2>3. /\ json \in [Delivery -> Entry \cup {NoFile}]
        /\ pending \in [Recoverer -> [Delivery -> Entry \cup {NoFile}]]
        /\ copy \in [Actor -> Entry \cup {NoFile}]
    BY DEF Init, NothingPending, NoFiles
  <2>4. pc \in [Actor -> PC] /\ age \in Seq(Delivery)
    BY DEF Init, PC
  <2> QED BY <2>1, <2>2, <2>3, <2>4 DEF Init, TypeOK
<1>2. \A a \in Actor, d \in Delivery : ~HasInHand(a, d) /\ ~Exists(d) /\ ~Working(a)
  BY DEF Init, Exists, HasInHand, Working, NothingPending, NoFiles
<1>3. Placed
  BY <1>2, Actors, <1>1 DEF Init, Placed
<1>4. SendingTrue /\ HasRead
  BY DEF Init, SendingTrue, HasRead, Payload
<1>5. NoneLost /\ Apart
  BY <1>2 DEF Init, NoneLost, Apart
<1> QED
  BY <1>1, <1>3, <1>4, <1>5 DEF DeliveryInv

\* Where no hand takes anything up, and a file comes back only from the hand that has it.
LEMMA HandsKeep ==
    ASSUME DeliveryInv, UNCHANGED <<shared, ackedBy>>,
           \A a \in Actor, d \in Delivery : HasInHand(a, d)' => HasInHand(a, d),
           \A d \in Delivery : /\ job'[d] = d /\ (pc'[d] = "idle" => pc[d] = "idle")
                               /\ Exists(d)' => Exists(d) \/ \E a \in Actor : HasInHand(a, d),
           \A r \in Recoverer : Working(r)' => pending'[r][job'[r]] = NoFile
    PROVE  Placed' /\ Apart'
<1>1. Placed'
  BY DEF DeliveryInv, Placed
<1>2. Apart'
  BY DEF DeliveryInv, Apart
<1> QED BY <1>1, <1>2

\* Where only a moves, what the others have sent and are to acknowledge has been sent.
LEMMA SendersKeep ==
    ASSUME DeliveryInv, NEW a \in Actor,
           \A b \in Actor : b # a => /\ pc'[b] = pc[b] /\ partial'[b] = partial[b]
                                     /\ next'[b] = next[b] /\ job'[b] = job[b],
           UNCHANGED <<params, sent>>, aborted \subseteq aborted',
           pc'[a] \in {"idle", "send"} /\ Counted(a)' =>
               \A p \in Payload : p < next'[a] => p \in sent[job'[a]],
           pc'[a] = "ack" /\ (job'[a] \notin bestEffort \/ a \in withOnError) =>
               AllSent(job'[a]) \/ job'[a] \in aborted'
    PROVE  SendingTrue'
BY DEF DeliveryInv, SendingTrue, Counted, AllSent, params

-----------------------------------------------------------------------------
(* Steps that leave the files alone *)

\* a goes on, and nothing is written.
Moves(a, l) ==
    /\ l \in PC \ {"idle", "write"}
    /\ pc' = [pc EXCEPT ![a] = l]
    /\ l \in {"send", "ack", "read", "move"} => Working(a) \/ (a \in Delivery /\ pc[a] = "idle")
    /\ UNCHANGED <<json, job, copy, pending, ackedBy, shared>>

\* Such a step keeps what is said of places and hands.
LEMMA MovesKeep ==
    ASSUME DeliveryInv, NEW a \in Actor, NEW l, Moves(a, l)
    PROVE  /\ Placed' /\ HasRead' /\ Apart' /\ pc' \in [Actor -> PC]
           /\ pc'[a] = l /\ \A b \in Actor : b # a => pc'[b] = pc[b]
<1>1. /\ pc'[a] = l /\ \A b \in Actor : b # a => pc'[b] = pc[b]
      /\ pc' \in [Actor -> PC] /\ l \notin {"idle", "write"}
  BY DEF DeliveryInv, TypeOK, Moves
<1>2. UNCHANGED <<json, job, copy, pending, ackedBy, shared>>
  BY DEF Moves
<1>3. \A d \in Delivery : d \in Actor /\ d \notin Recoverer /\ job[d] = d
  BY Actors DEF DeliveryInv, Placed
<1>4. HasRead'
  BY <1>1, <1>2 DEF DeliveryInv, HasRead
<1>5. CASE a \in Delivery /\ pc[a] = "idle"
  <2>1. /\ ~Exists(a) /\ ackedBy[a] = {}
        /\ \A b \in Actor : ~HasInHand(b, a)
    BY <1>5 DEF DeliveryInv, Placed
  <2>2. \A b \in Actor, d \in Delivery : d # a => (HasInHand(b, d)' <=> HasInHand(b, d))
    BY <1>1, <1>2, <1>3, <1>5 DEF HasInHand, Working
  <2>3. \A b \in Actor : HasInHand(b, a)' => b = a
    BY <1>1, <1>2, <1>3, <1>5, <2>1 DEF HasInHand, Working
  <2>4. \A d \in Delivery : Exists(d)' <=> Exists(d)
    BY <1>2 DEF Exists
  <2>5. Placed'
    <3>1. \A r \in Recoverer : Working(r)' <=> Working(r)
      BY <1>1, <1>3, <1>5, Actors DEF DeliveryInv, Working
    <3>2. \A d \in Delivery : pc'[d] = "idle" => pc[d] = "idle" /\ d # a
      BY <1>1, <1>3
    <3> QED BY <1>2, <1>3, <2>2, <2>4, <3>1, <3>2 DEF DeliveryInv, Placed
  <2>6. Apart'
    <3> SUFFICES ASSUME NEW d \in Delivery \ shared
                 PROVE  /\ \A b, c \in Actor : HasInHand(b, d)' /\ HasInHand(c, d)' => b = c
                        /\ ackedBy[d] # {} => ~Exists(d) /\ \A b \in Actor : ~HasInHand(b, d)'
      BY <1>2, <2>4 DEF Apart
    <3>1. CASE d = a
      BY <2>1, <2>3, <3>1
    <3>2. CASE d # a
      BY <2>2, <3>2 DEF DeliveryInv, Apart
    <3> QED BY <3>1, <3>2
  <2> QED BY <1>1, <1>4, <2>5, <2>6
<1>6. CASE ~(a \in Delivery /\ pc[a] = "idle")
  <2>1. \A b \in Actor : Working(b)' => Working(b)
    BY <1>1, <1>6 DEF Moves, Working
  <2>2. \A b \in Actor, d \in Delivery : HasInHand(b, d)' => HasInHand(b, d)
    BY <1>2, <2>1 DEF HasInHand
  <2>3. \A d \in Delivery : /\ job'[d] = d /\ (pc'[d] = "idle" => pc[d] = "idle")
                            /\ Exists(d)' => Exists(d)
    BY <1>1, <1>2, <1>3 DEF Exists
  <2>4. \A r \in Recoverer : Working(r)' => pending'[r][job'[r]] = NoFile
    BY <1>2, <2>1, Actors DEF DeliveryInv, Placed
  <2> QED BY <1>1, <1>2, <1>4, <2>2, <2>3, <2>4, HandsKeep
<1> QED BY <1>5, <1>6

\* A payload that is sent is recorded, and what was recorded stays.
LEMMA SendOkKeeps ==
    ASSUME DeliveryInv, NEW a \in Actor, SendOk(a)
    PROVE  DeliveryInv'
<1> DEFINE d == job[a]
           n == next[a]
<1>0. /\ pc[a] = "send" /\ n <= Payloads
      /\ sent' = [sent EXCEPT ![d] = sent[d] \cup {n}] /\ next' = [next EXCEPT ![a] = n + 1]
      /\ UNCHANGED <<files, pc, job, partial, copy, params, queueId, pending, aborted, ackedBy,
                     shared, crashes>>
  BY DEF SendOk, Sending
<1>1. /\ d \in Delivery /\ n \in 1..Payloads + 1 /\ Payloads \in Nat
      /\ sent \in [Delivery -> SUBSET Payload] /\ next \in [Actor -> 1..Payloads + 1]
  BY PayloadsAssumption DEF DeliveryInv, TypeOK
<1>2. n \in Payload /\ n + 1 \in 1..Payloads + 1
  BY <1>0, <1>1 DEF Payload
<1>3. /\ sent' \in [Delivery -> SUBSET Payload] /\ n \in sent'[d]
      /\ \A e \in Delivery : sent[e] \subseteq sent'[e]
  BY <1>0, <1>1, <1>2
<1>4. next' \in [Actor -> 1..Payloads + 1]
      /\ next'[a] = n + 1 /\ \A b \in Actor : b # a => next'[b] = next[b]
  BY <1>0, <1>1, <1>2
<1> HIDE DEF d, n
<1>5. TypeOK'
  BY <1>0, <1>3, <1>4 DEF DeliveryInv, TypeOK, files, params
<1>6. Placed' /\ HasRead' /\ Apart'
  <2>1. Moves(a, "send")
    BY <1>0 DEF DeliveryInv, TypeOK, Moves, Working, files, PC
  <2> QED BY <2>1, MovesKeep
<1>7. \A e \in Delivery : AllSent(e) => AllSent(e)'
  BY <1>3 DEF AllSent
<1>8. SendingTrue'
  <2> SUFFICES ASSUME NEW b \in Actor
               PROVE  /\ (pc[b] \in {"idle", "send"} /\ Counted(b) =>
                            \A q \in Payload : q < next[b] => q \in sent[job[b]])'
                      /\ (pc[b] = "ack" /\ (job[b] \notin bestEffort \/ b \in withOnError) =>
                            AllSent(job[b]) \/ job[b] \in aborted)'
    BY DEF SendingTrue
  <2>1. job[b] \in Delivery
    BY Actors DEF DeliveryInv
  <2>2. ASSUME pc[b] \in {"idle", "send"}, Counted(b), NEW q \in Payload, q < next'[b]
        PROVE  q \in sent'[job[b]]
    <3>1. q < next[b] \/ (b = a /\ q = n)
      BY <1>1, <1>2, <1>4, <2>2 DEF n, Payload
    <3>2. q < next[b] => q \in sent[job[b]]
      BY <2>2 DEF DeliveryInv, SendingTrue
    <3> QED BY <1>3, <2>1, <3>1, <3>2 DEF d
  <2> QED BY <1>0, <1>7, <2>1, <2>2 DEF DeliveryInv, SendingTrue, Counted, params
<1>9. NoneLost'
  <2>1. queueId \subseteq Delivery /\ bestEffort \subseteq Delivery
    BY DEF DeliveryInv, TypeOK
  <2> QED BY <1>0, <1>7, <2>1 DEF DeliveryInv, NoneLost, Exists, files, params
<1> QED
  BY <1>5, <1>6, <1>8, <1>9 DEF DeliveryInv

\* A failure that a caller with onError hears of is noted.
LEMMA QuietFailureKeeps ==
    ASSUME DeliveryInv, NEW a \in Actor, SendFailsQuietly(a)
    PROVE  DeliveryInv'
<1>0. /\ pc[a] = "send" /\ next[a] <= Payloads /\ job[a] \in bestEffort
      /\ next' = [next EXCEPT ![a] = next[a] + 1]
      /\ partial' = [partial EXCEPT ![a] = partial[a] \/ a \in withOnError]
      /\ UNCHANGED <<files, pc, job, copy, rest>>
  BY DEF SendFailsQuietly, Sending
<1>1. /\ next[a] \in 1..Payloads + 1 /\ Payloads \in Nat /\ partial[a] \in BOOLEAN
      /\ next \in [Actor -> 1..Payloads + 1] /\ partial \in [Actor -> BOOLEAN]
  BY PayloadsAssumption DEF DeliveryInv, TypeOK
<1>2. next' \in [Actor -> 1..Payloads + 1]
  BY <1>0, <1>1
<1>3. partial' \in [Actor -> BOOLEAN] /\ partial'[a] = (partial[a] \/ a \in withOnError)
  BY <1>0, <1>1
<1>4. TypeOK'
  BY <1>0, <1>2, <1>3 DEF DeliveryInv, TypeOK, files, rest, params, history
<1>5. Placed' /\ HasRead' /\ Apart'
  <2>1. Moves(a, "send")
    BY <1>0 DEF DeliveryInv, TypeOK, Moves, Working, files, rest, history, PC
  <2> QED BY <2>1, MovesKeep
<1>6. SendingTrue'
  <2>1. UNCHANGED <<pc, job, params, sent, aborted>>
    BY <1>0 DEF rest, history
  <2>2. ~Counted(a)'
    BY <1>0, <1>3, <2>1 DEF Counted, params
  <2>3. \A b \in Actor : b # a => partial'[b] = partial[b] /\ next'[b] = next[b]
    BY <1>0, <1>1
  <2>4. pc'[a] # "ack"
    BY <1>0, <2>1
  <2> QED BY <2>1, <2>2, <2>3, <2>4, SendersKeep
<1>7. NoneLost'
  BY <1>0 DEF DeliveryInv, NoneLost, Exists, AllSent, files, rest, params, history
<1> QED
  BY <1>4, <1>5, <1>6, <1>7 DEF DeliveryInv

\* A step that only goes on, to a place that asks for nothing.
LEMMA GoingKeeps ==
    ASSUME DeliveryInv, NEW a \in Actor, NEW l, Moves(a, l),
           UNCHANGED <<failed, age, params, queueId, sent, crashes>>,
           next' \in [Actor -> 1..Payloads + 1], partial' \in [Actor -> BOOLEAN],
           \A b \in Actor : b # a => next'[b] = next[b] /\ partial'[b] = partial[b],
           marker' \subseteq marker, aborted \subseteq aborted', aborted' \subseteq Delivery,
           l = "send" => pc[a] = "idle" /\ UNCHANGED <<next, partial>>,
           l = "ack" /\ (job[a] \notin bestEffort \/ a \in withOnError) =>
               AllSent(job[a]) \/ job[a] \in aborted'
    PROVE  DeliveryInv'
<1>1. /\ Placed' /\ HasRead' /\ Apart' /\ pc' \in [Actor -> PC]
      /\ pc'[a] = l /\ \A b \in Actor : b # a => pc'[b] = pc[b]
  BY MovesKeep
<1>2. UNCHANGED <<json, job, copy, pending, ackedBy, shared>> /\ l # "idle"
  BY DEF Moves
<1>3. TypeOK'
  BY <1>1, <1>2 DEF DeliveryInv, TypeOK, params
<1>4. SendingTrue'
  <2>1. l = "send" /\ Counted(a)' => \A p \in Payload : p < next'[a] => p \in sent[job[a]]
    BY <1>2 DEF DeliveryInv, SendingTrue, Counted, params
  <2> QED BY <1>1, <1>2, <2>1, SendersKeep
<1>5. NoneLost'
  BY <1>2 DEF DeliveryInv, NoneLost, Exists, AllSent, params
<1> QED
  BY <1>1, <1>3, <1>4, <1>5 DEF DeliveryInv

\* A sender or recovery whose core is over.
LEMMA LeavesKeep ==
    ASSUME DeliveryInv, NEW a \in Actor, NEW l \in {"ack", "read", "move", "done"},
           pc[a] = "send", Leaves(a, l),
           UNCHANGED <<files, job, copy, params, queueId, pending, sent, ackedBy, shared, crashes>>,
           aborted \subseteq aborted', aborted' \subseteq Delivery,
           l = "ack" /\ (job[a] \notin bestEffort \/ a \in withOnError) =>
               AllSent(job[a]) \/ job[a] \in aborted'
    PROVE  DeliveryInv'
<1>1. Moves(a, l)
  BY DEF Leaves, Goto, Moves, Working, files, PC
<1>2. /\ next' \in [Actor -> 1..Payloads + 1] /\ partial' \in [Actor -> BOOLEAN]
      /\ \A b \in Actor : b # a => next'[b] = next[b] /\ partial'[b] = partial[b]
  BY PayloadsAssumption DEF Leaves, DeliveryInv, TypeOK
<1> QED BY <1>1, <1>2, GoingKeeps DEF files

\* The steps of that kind.
LEMMA GoingSteps ==
    ASSUME DeliveryInv
    PROVE  /\ \A d \in Delivery : PersistFails(d) \/ LiveThrows(d) \/ LiveAborted(d) => DeliveryInv'
           /\ \A r \in Recoverer, permanent \in BOOLEAN :
                  RecoveryThrows(r, permanent) => DeliveryInv'
           /\ \A a \in Actor : CoreReturns(a) \/ AckFails(a) \/ AckPhase2(a) => DeliveryInv'
<1>0. /\ \A d \in Delivery : d \in Actor /\ d \notin Recoverer /\ job[d] = d
      /\ \A r \in Recoverer : r \in Actor
      /\ aborted \subseteq Delivery
      /\ next \in [Actor -> 1..Payloads + 1] /\ partial \in [Actor -> BOOLEAN]
      /\ \A a \in Actor : next[a] \in 1..Payloads + 1 /\ Payloads \in Nat /\ job[a] \in Delivery
  BY Actors, PayloadsAssumption DEF DeliveryInv, TypeOK, Placed
<1>1. ASSUME NEW d \in Delivery, PersistFails(d)
      PROVE  DeliveryInv'
  <2>1. Moves(d, "send")
    BY <1>0, <1>1 DEF PersistFails, Moves, Goto, PC, files, rest, history
  <2> QED BY <1>0, <1>1, <2>1, GoingKeeps DEF PersistFails, files, rest, history
<1>2. ASSUME NEW d \in Delivery, LiveThrows(d)
      PROVE  DeliveryInv'
  BY <1>0, <1>2, LeavesKeep DEF LiveThrows, CoreThrows, rest, history
<1>3. ASSUME NEW d \in Delivery, LiveAborted(d)
      PROVE  DeliveryInv'
  BY <1>0, <1>3, LeavesKeep DEF LiveAborted, Sending
<1>4. ASSUME NEW r \in Recoverer, NEW permanent \in BOOLEAN, RecoveryThrows(r, permanent)
      PROVE  DeliveryInv'
  BY <1>0, <1>4, LeavesKeep DEF RecoveryThrows, CoreThrows, rest, history
<1>5. ASSUME NEW a \in Actor, CoreReturns(a)
      PROVE  DeliveryInv'
  <2> DEFINE l == IF a \in Recoverer THEN "ack"
                  ELSE IF a \notin queueId THEN "done" ELSE IF partial[a] THEN "read" ELSE "ack"
  <2>1. /\ pc[a] = "send" /\ next[a] = Payloads + 1 /\ Leaves(a, l)
        /\ UNCHANGED <<files, job, copy, rest>>
    BY <1>5 DEF CoreReturns
  <2>2. l = "ack" /\ (job[a] \notin bestEffort \/ a \in withOnError) => AllSent(job[a])
    <3>1. l = "ack" /\ (job[a] \notin bestEffort \/ a \in withOnError) => Counted(a)
      BY <1>0 DEF Counted, DeliveryInv, TypeOK
    <3>2. \A p \in Payload : p < next[a]
      BY <1>0, <2>1 DEF Payload
    <3>3. sent[job[a]] \subseteq Payload
      BY <1>0 DEF DeliveryInv, TypeOK
    <3> QED BY <2>1, <3>1, <3>2, <3>3 DEF DeliveryInv, SendingTrue, AllSent
  <2>3. l \in {"ack", "read", "move", "done"}
    OBVIOUS
  <2> HIDE DEF l
  <2> QED BY <1>0, <2>1, <2>2, <2>3, LeavesKeep DEF rest, history
<1>6. ASSUME NEW a \in Actor, AckFails(a)
      PROVE  DeliveryInv'
  <2> DEFINE l == IF a \in Recoverer THEN "read" ELSE "done"
  <2>1. Moves(a, l)
    BY <1>0, <1>6 DEF AckFails, Moves, Working, Goto, PC, files, rest, history
  <2> QED BY <1>0, <1>6, <2>1, GoingKeeps DEF AckFails, files, rest, history
<1>7. ASSUME NEW a \in Actor, AckPhase2(a)
      PROVE  DeliveryInv'
  <2>1. Moves(a, Through(a)) /\ Through(a) \in {"scan", "done"}
    BY <1>0, <1>7 DEF AckPhase2, Through, Moves, Working, Goto, PC, rest, history
  <2> QED BY <1>0, <1>7, <2>1, GoingKeeps DEF AckPhase2, rest, history
<1> QED
  BY <1>1, <1>2, <1>3, <1>4, <1>5, <1>6, <1>7

-----------------------------------------------------------------------------
(* Steps on the file of a delivery *)

\* The file is written before anything is sent, by a sender that has left no trace.
LEMMA PersistKeeps ==
    ASSUME DeliveryInv, NEW d \in Delivery, Persist(d)
    PROVE  DeliveryInv'
<1> DEFINE e == [retryCount |-> 0, attempted |-> FALSE]
<1>0. /\ pc[d] = "idle" /\ json' = [json EXCEPT ![d] = e] /\ age' = Append(age, d)
      /\ queueId' = queueId \cup {d} /\ pc' = [pc EXCEPT ![d] = "send"]
      /\ UNCHANGED <<marker, failed, job, next, partial, copy, params, pending, history, crashes>>
  BY DEF Persist, Goto
<1>1. /\ d \in Actor /\ e \in Entry /\ e # NoFile
      /\ \A c \in Delivery : c \in Actor /\ c \notin Recoverer /\ job[c] = c
      /\ \A r \in Recoverer : r \in Actor
      /\ ackedBy[d] = {} /\ \A a \in Actor : ~HasInHand(a, d)
  BY <1>0, Actors, Entries DEF DeliveryInv, Placed
<1> HIDE DEF e
<1>2. /\ pc'[d] = "send" /\ \A a \in Actor : a # d => pc'[a] = pc[a]
      /\ json'[d] = e /\ \A c \in Delivery : c # d => json'[c] = json[c]
  BY <1>0, <1>1 DEF DeliveryInv, TypeOK
<1>3. TypeOK'
  BY <1>0, <1>1 DEF DeliveryInv, TypeOK, PC, params, history
<1>4. /\ UNCHANGED <<job, copy, pending, ackedBy, shared, sent, aborted, failed, bestEffort,
                     withOnError, partial, next>>
      /\ \A c \in Delivery : c # d =>
             /\ Exists(c)' <=> Exists(c)
             /\ \A a \in Actor : HasInHand(a, c)' <=> HasInHand(a, c)
      /\ \A a \in Actor : HasInHand(a, d)' => a = d
      /\ Exists(d)' /\ \A r \in Recoverer : Working(r)' <=> Working(r)
  BY <1>0, <1>1, <1>2 DEF HasInHand, Working, Exists, params, history
<1>5. Placed'
  BY <1>1, <1>2, <1>4 DEF DeliveryInv, Placed
<1>6. SendingTrue' /\ HasRead'
  BY <1>0, <1>1, <1>2, <1>4 DEF DeliveryInv, SendingTrue, HasRead, Counted, AllSent
<1>7. NoneLost'
  <2>1. queueId \subseteq Delivery
    BY DEF DeliveryInv, TypeOK
  <2> QED BY <1>0, <1>4, <2>1 DEF DeliveryInv, NoneLost, AllSent
<1>8. Apart'
  <2> SUFFICES ASSUME NEW c \in Delivery \ shared
               PROVE  /\ \A a, b \in Actor : HasInHand(a, c)' /\ HasInHand(b, c)' => a = b
                      /\ ackedBy[c] # {} => ~Exists(c)' /\ \A a \in Actor : ~HasInHand(a, c)'
    BY <1>4 DEF Apart
  <2>1. CASE c = d
    BY <1>1, <1>4, <2>1
  <2>2. CASE c # d
    BY <1>4, <2>2 DEF DeliveryInv, Apart
  <2> QED BY <2>1, <2>2
<1> QED
  BY <1>3, <1>5, <1>6, <1>7, <1>8 DEF DeliveryInv

\* Only a delivery that has been sent or given up is acknowledged, and then its file is gone.
LEMMA AckKeeps ==
    ASSUME DeliveryInv, NEW a \in Actor, NEW d \in Delivery, d = job[a], AckPhase1(a)
    PROVE  DeliveryInv'
<1>0. /\ \A c \in Delivery : c \in Actor /\ c \notin Recoverer /\ job[c] = c
      /\ \A r \in Recoverer : r \in Actor
      /\ a \in Recoverer \/ a = d
      /\ next \in [Actor -> 1..Payloads + 1] /\ partial \in [Actor -> BOOLEAN]
  BY Actors DEF DeliveryInv, TypeOK, Placed
<1>1. CASE ~Exists(d)
  <2>1. /\ Moves(a, Through(a)) /\ Through(a) \in {"scan", "done"}
        /\ UNCHANGED <<failed, age, next, partial, params, queueId, sent, crashes, aborted>>
        /\ marker' \subseteq marker
    BY <1>0, <1>1 DEF AckPhase1, Goto, Moves, Working, Through, PC
  <2> QED BY <1>0, <2>1, GoingKeeps DEF DeliveryInv, TypeOK
<1>2. CASE Exists(d)
  <2>0. /\ pc[a] = "ack" /\ json' = [json EXCEPT ![d] = NoFile] /\ marker' = marker \cup {d}
        /\ ackedBy' = [ackedBy EXCEPT ![d] = ackedBy[d] \cup {Who(a)}]
        /\ pc' = [pc EXCEPT ![a] = "unlink"]
        /\ UNCHANGED <<failed, age, job, next, partial, copy, bestEffort, withOnError, queueId,
                       pending, sent, aborted, shared, crashes>>
    BY <1>2 DEF AckPhase1, Acked, Goto, params
  <2>1. /\ pc'[a] = "unlink" /\ \A b \in Actor : b # a => pc'[b] = pc[b]
        /\ json'[d] = NoFile /\ \A c \in Delivery : c # d => json'[c] = json[c]
        /\ ackedBy'[d] = ackedBy[d] \cup {Who(a)}
        /\ \A c \in Delivery : c # d => ackedBy'[c] = ackedBy[c]
    BY <2>0 DEF DeliveryInv, TypeOK
  <2>2. TypeOK'
    <3>1. Who(a) \in {"live", "recovery"} /\ "unlink" \in PC
      BY DEF Who, PC
    <3> QED BY <2>0, <3>1 DEF DeliveryInv, TypeOK
  <2>3. /\ ~Exists(d)' /\ \A c \in Delivery : c # d => (Exists(c)' <=> Exists(c))
        /\ \A b \in Actor : Working(b)' => Working(b)
        /\ \A b \in Actor, c \in Delivery : HasInHand(b, c)' => HasInHand(b, c)
        /\ HasInHand(a, d)
    BY <2>0, <2>1 DEF Exists, Working, HasInHand
  <2>4. ~HasInHand(a, d)'
    <3>1. a \in Recoverer => pending[a][d] = NoFile
      BY <2>0 DEF DeliveryInv, Placed, Working
    <3> QED BY <2>0, <2>1, <3>1 DEF HasInHand, Working
  <2>5. pc[d] # "idle"
    BY <1>2 DEF DeliveryInv, Placed
  <2>6. Placed'
    <3>1. \A c \in Delivery : pc'[c] = "idle" => pc[c] = "idle" /\ c # d
      BY <1>0, <2>1, <2>5
    <3> QED BY <1>0, <2>0, <2>1, <2>3, <3>1 DEF DeliveryInv, Placed
  <2>7. SendingTrue' /\ HasRead'
    BY <2>0, <2>1 DEF DeliveryInv, SendingTrue, HasRead, Counted, AllSent
  <2>8. NoneLost'
    <3>1. d \notin bestEffort \/ a \in withOnError => AllSent(d) \/ d \in aborted
      BY <2>0 DEF DeliveryInv, SendingTrue
    <3>2. "live" \in ackedBy'[d] => "live" \in ackedBy[d] \/ a = d
      BY <1>0, <2>1 DEF Who
    <3>3. \A c \in Delivery : AllSent(c)' <=> AllSent(c)
      BY <2>0 DEF AllSent
    <3>4. queueId \subseteq Delivery /\ bestEffort \subseteq Delivery
      BY DEF DeliveryInv, TypeOK
    <3> QED BY <2>0, <2>1, <2>3, <3>1, <3>2, <3>3, <3>4 DEF DeliveryInv, NoneLost
  <2>9. Apart'
    <3> SUFFICES ASSUME NEW c \in Delivery \ shared
                 PROVE  /\ \A b, e \in Actor : HasInHand(b, c)' /\ HasInHand(e, c)' => b = e
                        /\ ackedBy'[c] # {} => ~Exists(c)' /\ \A b \in Actor : ~HasInHand(b, c)'
      BY <2>0 DEF Apart
    <3>1. \A b, e \in Actor : HasInHand(b, c)' /\ HasInHand(e, c)' => b = e
      BY <2>3 DEF DeliveryInv, Apart
    <3>2. CASE c # d
      BY <2>1, <2>3, <3>1, <3>2 DEF DeliveryInv, Apart
    <3>3. CASE c = d
      <4>1. \A b \in Actor : HasInHand(b, d) => b = a
        BY <2>3, <3>3 DEF DeliveryInv, Apart
      <4> QED BY <2>3, <2>4, <3>1, <3>3, <4>1
    <3> QED BY <3>2, <3>3
  <2> QED BY <2>2, <2>6, <2>7, <2>8, <2>9 DEF DeliveryInv
<1> QED BY <1>1, <1>2

\* What a sender reads before it counts its attempt.
LEMMA ReadKeeps ==
    ASSUME DeliveryInv, NEW a \in Actor, NEW d \in Delivery, d = job[a], FailRead(a)
    PROVE  DeliveryInv'
<1>0. \A c \in Delivery : c \in Actor /\ job[c] = c /\ json[c] \in Entry \cup {NoFile}
  BY Actors DEF DeliveryInv, Placed
<1>1. /\ pc[a] = "read" /\ copy' = [copy EXCEPT ![a] = json[d]]
      /\ pc' = [pc EXCEPT ![a] = IF Exists(d) THEN "write" ELSE Through(a)]
      /\ UNCHANGED <<json, marker, failed, age, job, next, partial, bestEffort, withOnError,
                     queueId, pending, sent, aborted, ackedBy, shared, crashes>>
  BY DEF FailRead, Goto, files, rest, params, history
<1>2. /\ pc'[a] = IF Exists(d) THEN "write" ELSE Through(a)
      /\ \A b \in Actor : b # a => pc'[b] = pc[b] /\ copy'[b] = copy[b]
      /\ copy'[a] = json[d] /\ Through(a) \in {"scan", "done"}
  BY <1>1 DEF DeliveryInv, TypeOK, Through
<1>3. TypeOK'
  BY <1>0, <1>1 DEF DeliveryInv, TypeOK, PC, Through
<1>4. /\ \A b \in Actor : Working(b)' => Working(b)
      /\ \A b \in Actor, c \in Delivery : HasInHand(b, c)' => HasInHand(b, c)
      /\ \A c \in Delivery : Exists(c)' <=> Exists(c)
  BY <1>1, <1>2 DEF Working, HasInHand, Exists
<1>5. Placed' /\ Apart'
  <2>1. \A c \in Delivery : pc'[c] = "idle" => pc[c] = "idle"
    BY <1>0, <1>1, <1>2
  <2>2. \A r \in Recoverer : Working(r)' => pending'[r][job'[r]] = NoFile
    BY <1>1, <1>4, Actors DEF DeliveryInv, Placed
  <2> QED BY <1>0, <1>1, <1>4, <2>1, <2>2, HandsKeep
<1>6. HasRead'
  BY <1>0, <1>1, <1>2 DEF DeliveryInv, HasRead, Exists
<1>7. SendingTrue'
  BY <1>1, <1>2 DEF DeliveryInv, SendingTrue, Counted, AllSent
<1>8. NoneLost'
  BY <1>1 DEF DeliveryInv, NoneLost, Exists, AllSent
<1> QED
  BY <1>3, <1>5, <1>6, <1>7, <1>8 DEF DeliveryInv

\* The attempt is counted on what was read: the file may have changed since, or be gone.
LEMMA WriteKeeps ==
    ASSUME DeliveryInv, NEW a \in Actor, NEW d \in Delivery, d = job[a], FailWrite(a)
    PROVE  DeliveryInv'
<1> DEFINE e == [retryCount |-> copy[a].retryCount + 1, attempted |-> TRUE]
<1>0. \A c \in Delivery : c \in Actor /\ job[c] = c
  BY Actors DEF DeliveryInv, Placed
<1>1. /\ pc[a] = "write" /\ json' = [json EXCEPT ![d] = e]
      /\ pc' = [pc EXCEPT ![a] = Through(a)] /\ copy' = [copy EXCEPT ![a] = NoFile]
      /\ UNCHANGED <<marker, failed, age, job, next, partial, bestEffort, withOnError,
                     queueId, pending, sent, aborted, ackedBy, shared, crashes>>
  BY DEF FailWrite, Goto, rest, params, history
<1>2. e \in Entry /\ e # NoFile
  <2>1. copy[a].retryCount \in Nat
    BY <1>1, Entries DEF DeliveryInv, HasRead
  <2> QED BY <2>1, Entries
<1> HIDE DEF e
<1>3. /\ pc'[a] = Through(a) /\ Through(a) \in {"scan", "done"} /\ Through(a) \in PC
      /\ \A b \in Actor : b # a => pc'[b] = pc[b] /\ copy'[b] = copy[b]
      /\ json'[d] = e /\ \A c \in Delivery : c # d => json'[c] = json[c]
  BY <1>1 DEF DeliveryInv, TypeOK, Through, PC
<1>4. TypeOK'
  BY <1>1, <1>2, <1>3 DEF DeliveryInv, TypeOK
<1>5. /\ Exists(d)' /\ \A c \in Delivery : c # d => (Exists(c)' <=> Exists(c))
      /\ \A b \in Actor : Working(b)' => Working(b)
      /\ \A b \in Actor, c \in Delivery : HasInHand(b, c)' => HasInHand(b, c)
      /\ HasInHand(a, d)
  BY <1>1, <1>2, <1>3 DEF Exists, Working, HasInHand
<1>6. Placed' /\ Apart'
  <2>1. \A c \in Delivery : pc'[c] = "idle" => pc[c] = "idle"
    BY <1>0, <1>1, <1>3
  <2>2. \A r \in Recoverer : Working(r)' => pending'[r][job'[r]] = NoFile
    BY <1>1, <1>5, Actors DEF DeliveryInv, Placed
  <2> QED BY <1>0, <1>1, <1>5, <2>1, <2>2, HandsKeep
<1>7. HasRead'
  BY <1>3 DEF DeliveryInv, HasRead
<1>8. SendingTrue'
  BY <1>1, <1>3 DEF DeliveryInv, SendingTrue, Counted, AllSent
<1>9. NoneLost'
  <2>1. queueId \subseteq Delivery /\ bestEffort \subseteq Delivery
    BY DEF DeliveryInv, TypeOK
  <2> QED BY <1>1, <1>5, <2>1 DEF DeliveryInv, NoneLost, AllSent
<1> QED
  BY <1>4, <1>6, <1>7, <1>8, <1>9 DEF DeliveryInv

-----------------------------------------------------------------------------
(* Steps of a recovery, and the end of a process *)

\* Nobody loses what is moved to failed/.
LEMMA MoveKeeps ==
    ASSUME DeliveryInv, NEW r \in Recoverer, MoveToFailed(r), NEW d \in Delivery, d = job[r]
    PROVE  DeliveryInv'
<1>0. /\ r \in Actor /\ r \notin Delivery
      /\ \A c \in Delivery : c \in Actor /\ job[c] = c
  BY Actors DEF DeliveryInv, Placed
<1>1. /\ pc[r] = "move" /\ pc' = [pc EXCEPT ![r] = "scan"]
      /\ json' = [json EXCEPT ![d] = NoFile]
      /\ failed \subseteq failed' /\ failed' \subseteq failed \cup {d}
      /\ Exists(d) => d \in failed'
      /\ UNCHANGED <<marker, age, job, next, partial, copy, bestEffort, withOnError, queueId,
                     pending, sent, aborted, ackedBy, shared, crashes>>
  BY DEF MoveToFailed, Goto, rest, params, history, DeliveryInv, TypeOK, Exists
<1>2. /\ pc'[r] = "scan" /\ \A b \in Actor : b # r => pc'[b] = pc[b]
      /\ json'[d] = NoFile /\ \A c \in Delivery : c # d => json'[c] = json[c]
  BY <1>0, <1>1 DEF DeliveryInv, TypeOK
<1>3. TypeOK'
  BY <1>1 DEF DeliveryInv, TypeOK, PC
<1>4. /\ \A b \in Actor : Working(b)' => Working(b)
      /\ ~Exists(d)' /\ \A c \in Delivery : c # d => (Exists(c)' <=> Exists(c))
      /\ \A b \in Actor, c \in Delivery : HasInHand(b, c)' => HasInHand(b, c)
  BY <1>0, <1>1, <1>2 DEF Exists, Working, HasInHand
<1>5. Placed' /\ Apart'
  <2>1. \A c \in Delivery : pc'[c] = "idle" => pc[c] = "idle"
    BY <1>0, <1>2
  <2>2. \A s \in Recoverer : Working(s)' => pending'[s][job'[s]] = NoFile
    BY <1>1, <1>4, Actors DEF DeliveryInv, Placed
  <2> QED BY <1>0, <1>1, <1>4, <2>1, <2>2, HandsKeep
<1>6. SendingTrue' /\ HasRead'
  BY <1>1, <1>2 DEF DeliveryInv, SendingTrue, HasRead, Counted, AllSent
<1>7. NoneLost'
  <2>1. queueId \subseteq Delivery /\ bestEffort \subseteq Delivery
    BY DEF DeliveryInv, TypeOK
  <2>2. ASSUME NEW c \in queueId \ bestEffort
        PROVE  Exists(c)' \/ c \in failed' \/ AllSent(c)' \/ c \in aborted
    <3>1. /\ c \in Delivery
          /\ Exists(c) \/ c \in failed \/ AllSent(c) \/ c \in aborted
      BY <2>1, <2>2 DEF DeliveryInv, NoneLost
    <3> QED BY <1>1, <1>4, <3>1 DEF AllSent
  <2>3. ASSUME NEW c \in bestEffort \cap withOnError, "live" \in ackedBy[c]
        PROVE  AllSent(c)' \/ c \in aborted
    BY <1>1, <2>1, <2>3 DEF DeliveryInv, NoneLost, AllSent
  <2> QED BY <1>1, <2>2, <2>3 DEF NoneLost
<1> QED
  BY <1>3, <1>5, <1>6, <1>7 DEF DeliveryInv

\* A recovery takes stock: what it finds is in nobody else's hand, or is shared from then on.
LEMMA LoadKeeps ==
    ASSUME DeliveryInv, NEW r \in Recoverer, Load(r)
    PROVE  DeliveryInv'
<1>0. /\ r \in Actor /\ r \notin Delivery
      /\ \A c \in Delivery : c \in Actor /\ c \notin Recoverer /\ job[c] = c
  BY Actors DEF DeliveryInv, Placed
<1>1. /\ pc[r] = "idle" /\ pc' = [pc EXCEPT ![r] = "scan"]
      /\ pending' = [pending EXCEPT ![r] = json] /\ marker' = {}
      /\ shared' = shared \cup
             {d \in Delivery : Exists(d) /\ \E a \in Actor \ {r} : HasInHand(a, d)}
      /\ UNCHANGED <<json, failed, age, job, next, partial, copy, bestEffort, withOnError, queueId,
                     sent, aborted, ackedBy, crashes>>
  BY DEF Load, Goto, Starts, params
<1>2. /\ pc'[r] = "scan" /\ \A b \in Actor : b # r => pc'[b] = pc[b]
      /\ pending'[r] = json /\ \A s \in Recoverer : s # r => pending'[s] = pending[s]
  BY <1>0, <1>1 DEF DeliveryInv, TypeOK
<1>3. TypeOK'
  BY <1>1 DEF DeliveryInv, TypeOK, PC
<1>4. /\ ~Working(r)' /\ \A b \in Actor : b # r => (Working(b)' <=> Working(b))
      /\ \A c \in Delivery :
            /\ Exists(c)' <=> Exists(c)
            /\ HasInHand(r, c)' => Exists(c)
            /\ \A b \in Actor : b # r => (HasInHand(b, c)' <=> HasInHand(b, c))
  BY <1>0, <1>1, <1>2 DEF Exists, Working, HasInHand
<1>5. Placed'
  BY <1>0, <1>1, <1>2, <1>4, Actors DEF DeliveryInv, Placed
<1>6. SendingTrue' /\ HasRead'
  BY <1>1, <1>2 DEF DeliveryInv, SendingTrue, HasRead, Counted, AllSent
<1>7. NoneLost'
  BY <1>1, <1>4 DEF DeliveryInv, NoneLost, AllSent, Exists
<1>8. Apart'
  <2> SUFFICES ASSUME NEW c \in Delivery \ shared'
               PROVE  /\ \A a, b \in Actor : HasInHand(a, c)' /\ HasInHand(b, c)' => a = b
                      /\ ackedBy[c] # {} => ~Exists(c) /\ \A a \in Actor : ~HasInHand(a, c)'
    BY <1>1, <1>4 DEF Apart
  <2>1. /\ c \in Delivery \ shared
        /\ Exists(c) => \A a \in Actor : a # r => ~HasInHand(a, c)
    BY <1>1
  <2>2. \A a, b \in Actor : HasInHand(a, c) /\ HasInHand(b, c) => a = b
    BY <2>1 DEF DeliveryInv, Apart
  <2>3. ackedBy[c] # {} => ~Exists(c) /\ \A a \in Actor : ~HasInHand(a, c)
    BY <2>1 DEF DeliveryInv, Apart
  <2> QED BY <1>4, <2>1, <2>2, <2>3
<1> QED
  BY <1>3, <1>5, <1>6, <1>7, <1>8 DEF DeliveryInv

\* A recovery takes an entry up, moves it out, or leaves it for another time.
LEMMA TakeKeeps ==
    ASSUME DeliveryInv, NEW r \in Recoverer, NEW d \in Delivery,
           NEW l \in {"send", "move", "scan"}, Take(r, d, l)
    PROVE  DeliveryInv'
<1>0. /\ r \in Actor /\ r \notin Delivery
      /\ \A c \in Delivery : c \in Actor /\ c \notin Recoverer /\ job[c] = c
      /\ pending[r][d] # NoFile
  BY Actors DEF DeliveryInv, Placed, Take, Oldest
<1>1. /\ pc[r] = "scan" /\ pc' = [pc EXCEPT ![r] = l]
      /\ pending' = [pending EXCEPT ![r] = [pending[r] EXCEPT ![d] = NoFile]]
      /\ job' = [job EXCEPT ![r] = d] /\ next' = [next EXCEPT ![r] = 1]
      /\ UNCHANGED <<json, marker, failed, age, partial, copy, bestEffort, withOnError, queueId,
                     sent, aborted, ackedBy, shared, crashes>>
  BY DEF Take, Goto, files, params, history
<1>2. /\ pc'[r] = l /\ job'[r] = d /\ next'[r] = 1
      /\ \A b \in Actor : b # r => pc'[b] = pc[b] /\ job'[b] = job[b] /\ next'[b] = next[b]
      /\ pending'[r][d] = NoFile /\ \A c \in Delivery : c # d => pending'[r][c] = pending[r][c]
      /\ \A s \in Recoverer : s # r => pending'[s] = pending[s]
  BY <1>0, <1>1, Actors DEF DeliveryInv, TypeOK
<1>3. TypeOK'
  <2>1. 1 \in 1..Payloads + 1 /\ l \in PC
    BY PayloadsAssumption DEF PC
  <2>2. pending' \in [Recoverer -> [Delivery -> Entry \cup {NoFile}]]
    <3>1. [pending[r] EXCEPT ![d] = NoFile] \in [Delivery -> Entry \cup {NoFile}]
      BY Actors DEF DeliveryInv
    <3> QED BY <1>1, <3>1 DEF DeliveryInv, TypeOK
  <2> QED BY <1>0, <1>1, <2>1, <2>2 DEF DeliveryInv, TypeOK
<1>4. /\ \A b \in Actor : b # r => (Working(b)' <=> Working(b))
      /\ \A c \in Delivery : Exists(c)' <=> Exists(c)
      /\ \A b \in Actor, c \in Delivery : HasInHand(b, c)' => HasInHand(b, c)
  BY <1>0, <1>1, <1>2 DEF Exists, Working, HasInHand
<1>5. Placed' /\ Apart'
  <2>1. \A c \in Delivery : job'[c] = c /\ (pc'[c] = "idle" => pc[c] = "idle")
    BY <1>0, <1>2
  <2>2. \A s \in Recoverer : Working(s)' => pending'[s][job'[s]] = NoFile
    BY <1>2, <1>4, Actors DEF DeliveryInv, Placed
  <2> QED BY <1>1, <1>4, <2>1, <2>2, HandsKeep
<1>6. SendingTrue'
  <2>1. pc'[r] # "ack" /\ \A p \in Payload : ~(p < next'[r])
    BY <1>2 DEF Payload
  <2>2. \A b \in Actor : b # r => /\ pc'[b] = pc[b] /\ partial'[b] = partial[b]
                                  /\ next'[b] = next[b] /\ job'[b] = job[b]
    BY <1>1, <1>2
  <2>3. UNCHANGED <<params, sent, aborted>>
    BY <1>1 DEF params
  <2> QED BY <1>0, <2>1, <2>2, <2>3, SendersKeep
<1>7. HasRead'
  BY <1>1, <1>2 DEF DeliveryInv, HasRead
<1>8. NoneLost'
  BY <1>1, <1>4 DEF DeliveryInv, NoneLost, AllSent, Exists
<1> QED
  BY <1>3, <1>5, <1>6, <1>7, <1>8 DEF DeliveryInv

\* The rest of the entries is left for another time.
LEMMA RecoveryEndsKeeps ==
    ASSUME DeliveryInv, NEW r \in Recoverer, RecoveryEnds(r)
    PROVE  DeliveryInv'
<1>0. /\ r \in Actor /\ r \notin Delivery
      /\ \A c \in Delivery : c \in Actor /\ job[c] = c
  BY Actors DEF DeliveryInv, Placed
<1>1. /\ pc[r] = "scan" /\ pc' = [pc EXCEPT ![r] = "done"]
      /\ pending' = [pending EXCEPT ![r] = NoFiles]
      /\ UNCHANGED <<json, marker, failed, age, job, next, partial, copy, bestEffort, withOnError,
                     queueId, sent, aborted, ackedBy, shared, crashes>>
  BY DEF RecoveryEnds, Goto, files, params, history
<1>2. /\ pc'[r] = "done" /\ \A b \in Actor : b # r => pc'[b] = pc[b]
      /\ \A c \in Delivery : pending'[r][c] = NoFile
      /\ \A s \in Recoverer : s # r => pending'[s] = pending[s]
  BY <1>0, <1>1 DEF DeliveryInv, TypeOK, NoFiles
<1>3. TypeOK'
  <2>1. NoFiles \in [Delivery -> Entry \cup {NoFile}]
    BY DEF NoFiles
  <2> QED BY <1>1, <2>1 DEF DeliveryInv, TypeOK, PC
<1>4. /\ \A b \in Actor : Working(b)' => b # r /\ Working(b)
      /\ \A c \in Delivery : Exists(c)' <=> Exists(c)
      /\ \A b \in Actor, c \in Delivery : HasInHand(b, c)' => HasInHand(b, c)
  BY <1>0, <1>1, <1>2 DEF Exists, Working, HasInHand
<1>5. Placed' /\ Apart'
  <2>1. \A c \in Delivery : job'[c] = c /\ (pc'[c] = "idle" => pc[c] = "idle")
    BY <1>0, <1>1, <1>2
  <2>2. \A s \in Recoverer : Working(s)' => pending'[s][job'[s]] = NoFile
    BY <1>1, <1>2, <1>4, Actors DEF DeliveryInv, Placed
  <2> QED BY <1>1, <1>4, <2>1, <2>2, HandsKeep
<1>6. SendingTrue' /\ HasRead'
  BY <1>1, <1>2 DEF DeliveryInv, SendingTrue, HasRead, Counted, AllSent
<1>7. NoneLost'
  BY <1>1, <1>4 DEF DeliveryInv, NoneLost, AllSent, Exists
<1> QED
  BY <1>3, <1>5, <1>6, <1>7 DEF DeliveryInv

\* A process that ends leaves the files, and the next one begins without senders.
LEMMA RestartKeeps == DeliveryInv /\ (Crash \/ QuietRestart) => DeliveryInv'
<1> SUFFICES ASSUME DeliveryInv, Crash \/ QuietRestart
             PROVE  DeliveryInv'
  OBVIOUS
<1>0. \A c \in Delivery : c \in Actor /\ c \notin Recoverer /\ job[c] = c
  BY Actors DEF DeliveryInv, Placed
<1>1. /\ pc' = [a \in Actor |-> IF a \in Recoverer \/ pc[a] = "idle" THEN "idle" ELSE "done"]
      /\ pending' = NothingPending
      /\ partial' = [a \in Actor |-> FALSE] /\ copy' = [a \in Actor |-> NoFile]
      /\ next' = [a \in Actor |-> 1]
      /\ crashes' \in 0..MaxCrashes
      /\ UNCHANGED <<json, marker, failed, age, job, bestEffort, withOnError, queueId, sent,
                     aborted, ackedBy, shared>>
  BY CrashesAssumption
     DEF Crash, QuietRestart, NewProcess, files, params, history, DeliveryInv, TypeOK
<1>2. /\ \A a \in Actor : /\ pc'[a] \in {"idle", "done"} /\ next'[a] = 1
                          /\ a \notin Recoverer /\ pc'[a] = "idle" => pc[a] = "idle"
      /\ \A r \in Recoverer, c \in Delivery : pending'[r][c] = NoFile
  BY <1>1 DEF NothingPending, NoFiles
<1>3. TypeOK'
  <2>1. /\ NothingPending \in [Recoverer -> [Delivery -> Entry \cup {NoFile}]]
        /\ pc' \in [Actor -> PC] /\ next' \in [Actor -> 1..Payloads + 1]
        /\ partial' \in [Actor -> BOOLEAN] /\ copy' \in [Actor -> Entry \cup {NoFile}]
    BY <1>1, PayloadsAssumption DEF NothingPending, NoFiles, PC
  <2> QED BY <1>1, <2>1 DEF DeliveryInv, TypeOK
<1>4. /\ \A a \in Actor : ~Working(a)'
      /\ \A c \in Delivery : Exists(c)' <=> Exists(c)
      /\ \A a \in Actor, c \in Delivery : ~HasInHand(a, c)'
  BY <1>1, <1>2 DEF Exists, Working, HasInHand
<1>5. Placed' /\ Apart'
  <2>1. \A c \in Delivery : job'[c] = c /\ (pc'[c] = "idle" => pc[c] = "idle")
    BY <1>0, <1>1, <1>2
  <2>2. \A r \in Recoverer : ~Working(r)'
    BY <1>4, Actors DEF DeliveryInv
  <2> QED BY <1>1, <1>4, <2>1, <2>2, HandsKeep
<1>6. SendingTrue' /\ HasRead'
  BY <1>2 DEF SendingTrue, HasRead, Payload
<1>7. NoneLost'
  BY <1>1, <1>4 DEF DeliveryInv, NoneLost, AllSent, Exists
<1> QED
  BY <1>3, <1>5, <1>6, <1>7 DEF DeliveryInv

-----------------------------------------------------------------------------
(* The theorems *)

\* Every step keeps the invariant.
LEMMA NextDeliveryInv == DeliveryInv /\ [Next]_vars => DeliveryInv'
<1> SUFFICES ASSUME DeliveryInv, [Next]_vars
             PROVE  DeliveryInv'
  OBVIOUS
<1>0. /\ \A d \in Delivery : d \in Actor
      /\ \A r \in Recoverer : r \in Actor
      /\ \A a \in Actor : job[a] \in Delivery
  BY Actors DEF DeliveryInv
<1>1. ASSUME NEW a \in Actor, Work(a)
      PROVE  DeliveryInv'
  BY <1>0, <1>1, SendOkKeeps, QuietFailureKeeps, GoingSteps, AckKeeps, ReadKeeps, WriteKeeps
     DEF Work
<1>2. ASSUME NEW d \in Delivery, LiveNext(d)
      PROVE  DeliveryInv'
  BY <1>0, <1>1, <1>2, PersistKeeps, GoingSteps DEF LiveNext
<1>3. ASSUME NEW r \in Recoverer, Load(r) \/ RecoveryWork(r)
      PROVE  DeliveryInv'
  BY <1>0, <1>1, <1>3, GoingSteps, MoveKeeps, LoadKeeps, RecoveryEndsKeeps DEF RecoveryWork
<1>4. ASSUME NEW r \in Recoverer, NEW d \in Delivery,
             TakeExhausted(r, d) \/ TakeEligible(r, d) \/ TakeDeferred(r, d)
      PROVE  DeliveryInv'
  BY <1>4, TakeKeeps DEF TakeExhausted, TakeEligible, TakeDeferred
<1>5. CASE UNCHANGED vars
  BY <1>5 DEF vars, files, actors, rest, params, history, DeliveryInv, TypeOK, Placed, HasRead,
              SendingTrue, NoneLost, Apart, Exists, HasInHand, Working, Counted, AllSent
<1> QED
  BY <1>2, <1>3, <1>4, <1>5, RestartKeeps DEF Next, RecoveryNext

\* The inductive invariant of the queue (delivery-queue.ts, deliver.ts).
THEOREM DeliveryInvariant == Spec => []DeliveryInv
<1>1. Init => DeliveryInv
  BY InitDeliveryInv
<1>2. DeliveryInv /\ [Next]_vars => DeliveryInv'
  BY NextDeliveryInv
<1> QED BY <1>1, <1>2, PTL DEF Spec

\* At least once: a delivery that was persisted is in the queue, in failed/, sent or given up,
\* whoever crashes or races (ackDelivery, failDelivery, moveToFailed).
THEOREM NothingIsLost == Spec => []NoLoss
<1>1. DeliveryInv => NoLoss
  BY DEF DeliveryInv, NoneLost, NoLoss
<1> QED BY <1>1, DeliveryInvariant, PTL

\* No recovery takes up what has been acknowledged, in this process or a later one, unless a
\* recovery has loaded it while another actor still had it (ackDelivery's first phase,
\* loadPendingDeliveries).
THEOREM AcknowledgedIsDone == Spec => AckedNotReplayed
<1> DEFINE A == \A r \in Recoverer, d \in Delivery :
                    pending[r][d] = NoFile /\ pending'[r][d] # NoFile =>
                        ackedBy[d] = {} \/ d \in shared'
<1>1. DeliveryInv /\ [Next]_vars => [A]_vars
  <2> SUFFICES ASSUME DeliveryInv, Next, NEW r \in Recoverer, NEW d \in Delivery,
                      pending[r][d] = NoFile, pending'[r][d] # NoFile,
                      ackedBy[d] # {}, d \notin shared'
               PROVE  FALSE
    OBVIOUS
  <2>0. pending \in [Recoverer -> [Delivery -> Entry \cup {NoFile}]]
    BY DEF DeliveryInv, TypeOK
  <2>1. ASSUME NEW s \in Recoverer, Load(s)
        PROVE  FALSE
    <3>1. s = r /\ Exists(d) /\ d \notin shared
      BY <2>0, <2>1 DEF Load, Starts, Exists
    <3> QED BY <3>1 DEF DeliveryInv, Apart
  <2>2. ASSUME NEW a \in Actor, Work(a)
        PROVE  UNCHANGED pending
    BY <2>2 DEF Work, SendOk, SendFailsQuietly, CoreReturns, AckPhase1, AckFails, AckPhase2,
                FailRead, FailWrite, rest
  <2>3. ASSUME NEW c \in Delivery, LiveNext(c)
        PROVE  UNCHANGED pending
    BY <2>2, <2>3, Actors DEF DeliveryInv, LiveNext, Persist, PersistFails, LiveThrows,
                              LiveAborted, rest
  <2>4. ASSUME NEW s \in Recoverer, RecoveryWork(s)
        PROVE  FALSE
    <3>1. s \in Actor
      BY Actors DEF DeliveryInv
    <3> QED BY <2>0, <2>2, <2>4, <3>1
               DEF RecoveryWork, RecoveryThrows, MoveToFailed, RecoveryEnds, rest, NoFiles
  <2>5. ASSUME NEW s \in Recoverer, NEW c \in Delivery, NEW l, Take(s, c, l)
        PROVE  FALSE
    BY <2>0, <2>5 DEF Take
  <2>6. CASE Crash \/ QuietRestart
    BY <2>6 DEF Crash, QuietRestart, NewProcess, NothingPending, NoFiles
  <2> QED
    BY <2>1, <2>3, <2>4, <2>5, <2>6
       DEF Next, RecoveryNext, TakeExhausted, TakeEligible, TakeDeferred
<1> QED BY <1>1, DeliveryInvariant, PTL DEF Spec, AckedNotReplayed

-----------------------------------------------------------------------------
(* SubagentRegistry *)

Record == [present : BOOLEAN, ended : BOOLEAN,
           reason : {"none", "complete", "error", "killed"},
           suppress : {"none", "steer", "killed"},
           handled : BOOLEAN, completed : {"no", "yes", "early", "late"},
           retries : 0..MaxAnnounces, tried : BOOLEAN, wake : BOOLEAN, woken : BOOLEAN]
Excuses == {"overlapped", "letGo", "retryLost", "lost", "unheard", "crashed", "deletedEarly"}

RegistryTyped ==
    /\ entries \in [RunId -> Record] /\ disk \in [RunId -> Record]
    /\ turn \in [RunId -> {"none", "running", "failing", "over"}]
    /\ sessionOf \in [RunId -> Session \cup {Outside}] /\ sessions \subseteq Session
    /\ freezing \in [RunId -> 0..2]
    /\ flow \in [RunId -> {"no", "checking", "waking", "sending", "done", "failed", "deferred"}]
    /\ final \in [RunId -> {"no", "keep", "delete"}]
    /\ restored \in BOOLEAN /\ spent \in 0..MaxUpsets
    /\ announced \in [RunId -> 0..2] /\ excused \in [RunId -> SUBSET Excuses]
    /\ \A s \in DOMAIN style : style[s].cleanup \in {"keep", "delete"}

Begun(r) == turn[r] # "none"
Excused(r) == "letGo" \in excused[r] \/ "retryLost" \in excused[r]
Told(r) == announced[r] > 0 \/ Excused(r)
ToldOnce(r) == announced[r] > 0 /\ "lost" \notin excused[r]
Spoken(r) == flow[r] # "no" \/ final[r] # "no" \/ ToldOnce(r)

\* A run id that was not given has left no trace, and the session of one that was is known.
NotBegun(r, e) ==
    IF Begun(r) THEN sessionOf[r] \in DOMAIN style
    ELSE /\ ~e.present /\ e.completed = "no" /\ ~disk[r].present /\ disk[r].completed = "no"
         /\ flow[r] = "no" /\ final[r] = "no" /\ freezing[r] = 0
         /\ announced[r] = 0 /\ r \notin steering

\* A record, in memory or in the file.  While the run is announced, and when its requester has
\* been told, the record says so: nobody else can claim it, be it read again after a crash.
RecordTrue(r, e) == e.present =>
    /\ e.reason # "none" \/ e.handled \/ e.completed # "no" \/ e.retries > 0 \/ e.tried => e.ended
    /\ e.suppress = "killed" => e.handled /\ e.retries = 0
    /\ e.retries >= MaxAnnounces => ~Claimable(e)
    /\ Spoken(r) => e.ended /\ e.suppress # "killed" /\ ~Claimable(e)

\* What is completed, or has gone, is accounted for.
AccountTrue(r, e) ==
    /\ Begun(r) /\ ~e.present => Told(r)
    /\ Begun(r) /\ e.completed # "no" /\ e.suppress # "killed" => Told(r)

\* The flow and the finalization.
Announcing(r, e) ==
    /\ flow[r] # "no" => final[r] = "no"
    /\ flow[r] \notin {"no", "done"} => ~ToldOnce(r)
    /\ flow[r] = "done" \/ final[r] # "no" => Told(r)
    /\ "overlapped" \notin excused[r]
    /\ announced[r] <= 1 \/ "lost" \in excused[r]
    /\ e.present =>
          /\ flow[r] # "no" => e.retries < MaxAnnounces
          /\ e.handled /\ e.completed = "no" => flow[r] # "no" \/ final[r] # "no" \/ "crashed" \in excused[r]

\* Who comes back to a run that is open.
Marked(r, e) == e.suppress = "steer" => r \in steering \/ "crashed" \in excused[r] \/ e.completed # "no"
Comes(r, e) ==
    \/ freezing[r] > 0 \/ r \in resumeTimers \/ (r \in retryTimers /\ r \notin resumed)
    \/ r \in steering /\ e.suppress = "steer"
    \/ "crashed" \in excused[r]
Heard(r) == r \in waits \cup errorTimers \/ turn[r] = "running" \/ "unheard" \in excused[r]
Waking(r, e) == e.present =>
    /\ Marked(r, e)
    /\ e.ended /\ Claimable(e) => Comes(r, e)
    /\ ~e.ended => Heard(r) /\ freezing[r] = 0
    /\ ~e.ended /\ turn[r] = "failing" => r \in errorTimers

\* Between the end of a process and the restore there is the file only.
Down(r) == ~restored =>
    /\ ~entries[r].present /\ entries[r].completed = "no"
    /\ flow[r] = "no" /\ final[r] = "no" /\ freezing[r] = 0
    /\ r \notin steering \cup sweeping \cup retryTimers \cup resumeTimers \cup waits \cup errorTimers
    /\ turn[r] \in {"none", "over"}
    /\ disk[r].present /\ disk[r].completed = "no" /\ (disk[r].handled \/ disk[r].suppress = "steer")
          => "crashed" \in excused[r]

FileTrue(r) == RecordTrue(r, disk[r]) /\ AccountTrue(r, disk[r])
RunTrue(r) ==
    /\ NotBegun(r, entries[r]) /\ RecordTrue(r, entries[r])
    /\ restored => AccountTrue(r, entries[r])
    /\ FileTrue(r)
    /\ Announcing(r, entries[r]) /\ Waking(r, entries[r]) /\ Down(r)

RegistryInv == RegistryTyped /\ \A r \in RunId : RunTrue(r)

-----------------------------------------------------------------------------
\* The invariant gives what the runs check.
LEMMA KeepsRuns == RegistryInv => RunsKept
<1> SUFFICES ASSUME RegistryInv PROVE RunsKept
  OBVIOUS
<1>1. RegistryTypeOK
  BY DEF RegistryInv, RegistryTyped, RegistryTypeOK, Record
<1>2. ClaimedHasWorker
  BY DEF RegistryInv, RunTrue, Announcing, ClaimedHasWorker, Present
<1>3. OpenHasWaker
  BY DEF RegistryInv, RunTrue, Waking, Comes, Heard, OpenHasWaker, Present
<1>4. NoOverlap /\ AnnouncedOnce
  BY DEF RegistryInv, RunTrue, Announcing, NoOverlap, AnnouncedOnce
<1>5. Accounted
  <2> SUFFICES ASSUME NEW r \in Used,
                      \/ entries[r].completed # "no" /\ entries[r].suppress # "killed"
                      \/ restored /\ ~entries[r].present
               PROVE  Told(r)
    BY DEF Accounted, Told, Excused
  <2>1. r \in RunId /\ Begun(r) /\ RunTrue(r)
    BY DEF Used, Begun, RegistryInv
  <2>2. restored
    BY <2>1 DEF RunTrue, Down
  <2> QED BY <2>1, <2>2 DEF RunTrue, AccountTrue
<1> QED BY <1>1, <1>2, <1>3, <1>4, <1>5 DEF RunsKept

\* The record of a new run, and that of a run without one.
LEMMA NewRecords ==
    /\ Fresh \in Record /\ Fresh.present /\ ~Fresh.ended /\ Fresh.reason = "none"
    /\ Fresh.suppress = "none" /\ ~Fresh.handled /\ Fresh.completed = "no"
    /\ Fresh.retries = 0 /\ ~Fresh.tried
    /\ Absent \in Record /\ ~Absent.present /\ Absent.completed = "no"
<1>1. 0 \in 0..MaxAnnounces
  BY RegistryAssumption
<1>2. Fresh \in Record /\ Fresh.completed = "no"
  BY <1>1 DEF Fresh, Record
<1>3. Absent \in Record /\ ~Absent.present /\ Absent.completed = Fresh.completed
  <2> HIDE DEF Fresh
  <2> QED BY <1>2 DEF Absent, Record
<1> QED BY <1>2, <1>3 DEF Fresh

LEMMA InitRegistryInv == RegistryInit => RegistryInv
<1> SUFFICES ASSUME RegistryInit PROVE RegistryInv
  OBVIOUS
<1>1. /\ Absent \in Record /\ ~Absent.present /\ Absent.completed = "no"
  BY NewRecords
<1>2. RegistryTyped
  BY <1>1, RegistryAssumption DEF RegistryInit, RegistryTyped, Excuses
<1>3. ASSUME NEW r \in RunId PROVE RunTrue(r)
  <2>1. /\ entries[r] = Absent /\ disk[r] = Absent /\ restored /\ turn[r] = "none"
        /\ flow[r] = "no" /\ final[r] = "no" /\ announced[r] = 0 /\ excused[r] = {}
        /\ freezing[r] = 0 /\ steering = {}
    BY DEF RegistryInit
  <2> QED BY <1>1, <2>1
          DEF RunTrue, NotBegun, RecordTrue, AccountTrue, FileTrue, Announcing, Waking, Down, Begun,
              ToldOnce
<1> QED BY <1>2, <1>3 DEF RegistryInv

\* What a step about other runs leaves of a run: all but, perhaps, the file written.
Still(r) ==
    /\ entries'[r] = entries[r] /\ (disk'[r] = disk[r] \/ disk'[r] = entries[r])
    /\ turn'[r] = turn[r] /\ sessionOf'[r] = sessionOf[r] /\ freezing'[r] = freezing[r]
    /\ flow'[r] = flow[r] /\ final'[r] = final[r]
    /\ announced'[r] = announced[r] /\ excused'[r] = excused[r]
    /\ r \in errorTimers' <=> r \in errorTimers
    /\ r \in waits' <=> r \in waits
    /\ r \in retryTimers' <=> r \in retryTimers
    /\ r \in resumeTimers' <=> r \in resumeTimers
    /\ r \in resumed' <=> r \in resumed
    /\ r \in steering' <=> r \in steering

LEMMA StillTrue ==
    ASSUME NEW r \in RunId, RunTrue(r), Still(r), restored, restored', style' = style
    PROVE  RunTrue(r)'
<1>1. /\ Begun(r)' <=> Begun(r)
      /\ Told(r)' <=> Told(r)
      /\ ToldOnce(r)' <=> ToldOnce(r)
      /\ Spoken(r)' <=> Spoken(r)
  BY DEF Still, Begun, Told, ToldOnce, Spoken, Excused
<1>2. NotBegun(r, entries[r])'
  BY <1>1 DEF Still, RunTrue, NotBegun
<1>5. RecordTrue(r, entries[r])' /\ AccountTrue(r, entries[r])' /\ FileTrue(r)'
  <2>1. RecordTrue(r, entries[r]) /\ AccountTrue(r, entries[r])
    BY DEF RunTrue
  <2>2. RecordTrue(r, disk[r]) /\ AccountTrue(r, disk[r])
    BY DEF RunTrue, FileTrue
  <2>3. RecordTrue(r, entries[r])' /\ AccountTrue(r, entries[r])'
    BY <1>1, <2>1 DEF Still, RecordTrue, AccountTrue
  <2>4. RecordTrue(r, disk[r])' /\ AccountTrue(r, disk[r])'
    BY <1>1, <2>1, <2>2 DEF Still, RecordTrue, AccountTrue
  <2> QED BY <2>3, <2>4 DEF FileTrue
<1>6. Announcing(r, entries[r])'
  BY <1>1 DEF Still, RunTrue, Announcing
<1>7. Waking(r, entries[r])'
  BY DEF Still, RunTrue, Waking, Marked, Comes, Heard
<1> QED BY <1>2, <1>5, <1>6, <1>7 DEF RunTrue, Down

\* As long as the gateway is down nothing happens.
LEMMA IsUp ==
    ASSUME RegistryInv, NEW r \in RunId,
           \/ freezing[r] > 0 \/ flow[r] # "no" \/ final[r] # "no" \/ entries[r].present
           \/ turn[r] \in {"running", "failing"}
           \/ r \in steering \cup sweeping \cup retryTimers \cup resumeTimers \cup waits
                    \cup errorTimers
    PROVE  restored
  BY DEF RegistryInv, RegistryTyped, RunTrue, Down

-----------------------------------------------------------------------------
(* resumeSubagentRun *)

\* A record that is claimed, one that is completed.
LEMMA ClaimIs ==
    ASSUME NEW e \in Record, NEW c, c = [e EXCEPT !.handled = TRUE]
    PROVE  /\ c \in Record /\ c.present = e.present /\ c.ended = e.ended /\ c.reason = e.reason
           /\ c.suppress = e.suppress /\ c.handled /\ c.completed = e.completed
           /\ c.retries = e.retries /\ c.tried = e.tried
  BY DEF Record

LEMMA CompletedIs ==
    ASSUME NEW r, NEW e \in Record, NEW c, c = Completed(r, e)
    PROVE  /\ c \in Record /\ c.present = e.present /\ c.ended = e.ended /\ c.reason = e.reason
           /\ c.suppress = e.suppress /\ c.handled = e.handled /\ c.completed \in {"yes", "early"}
           /\ c.retries = e.retries /\ c.tried = e.tried
  BY DEF Record, Completed

How == {"none", "prune", "giveUp", "later", "wait", "park", "announce"}
Left(r, e, how) ==
    IF how = "prune" THEN Absent
    ELSE IF how = "giveUp" THEN Completed(r, e)
    ELSE IF how = "announce" THEN [e EXCEPT !.handled = TRUE] ELSE e

\* What Resume makes of a run: why, and what.
Case(r, e, how, tried) ==
    /\ how # "none" => tried /\ e.present
    /\ how \in {"giveUp", "later", "wait", "park", "announce"} => e.completed = "no"
    /\ how = "giveUp" => e.retries >= MaxAnnounces
    /\ how = "later" => e.tried
    /\ how = "wait" => ~e.ended
    /\ how = "park" => e.ended /\ e.suppress = "steer"
    /\ how = "announce" => e.ended /\ ~e.handled /\ ~(e.retries >= MaxAnnounces)
    /\ how = "none" /\ tried => ~e.present \/ e.completed # "no" \/ (e.ended /\ e.handled)

Does(r, e, how, back, timers) ==
    /\ entries'[r] = Left(r, e, how)
    /\ r \in resumed' <=> (r \in back /\ how # "prune") \/ how \in {"later", "park", "announce", "wait"}
    /\ r \in resumeTimers' <=> r \in timers \/ how = "later"
    /\ r \in waits' <=> r \in waits \/ how = "wait"
    /\ flow'[r] = IF how = "announce" THEN "checking" ELSE flow[r]
    /\ \E why \in SUBSET {"retryLost", "letGo"} :
          /\ excused'[r] = excused[r] \cup why
          /\ how \in {"giveUp", "prune"} => why # {}

LEMMA ResumeIs ==
    ASSUME RegistryTyped, NEW rs, rs \subseteq RunId, NEW from \in [RunId -> Record], NEW back,
           NEW timers, Resume(rs, from, back, timers), NEW r \in RunId
    PROVE  \E how \in How : /\ Case(r, from[r], how, r \in rs /\ r \notin back)
                            /\ Does(r, from[r], how, back, timers)
<1>1. PICK luck \in [rs -> Luck] :
        LET how == [q \in RunId |-> IF q \in rs THEN Resumption(q, from[q], luck[q], back)
                                    ELSE "none"]
            With(k) == {q \in rs : how[q] \in k}
        IN  /\ entries' = [q \in RunId |->
                  IF how[q] = "prune"
                  THEN Absent
                  ELSE IF how[q] = "giveUp" THEN Completed(q, from[q])
                  ELSE IF how[q] = "announce" THEN [from[q] EXCEPT !.handled = TRUE]
                  ELSE from[q]]
            /\ resumed' = (back \ With({"prune"})) \cup With({"later", "park", "announce", "wait"})
            /\ resumeTimers' = timers \cup With({"later"})
            /\ waits' = waits \cup With({"wait"})
            /\ flow' = [q \in RunId |-> IF how[q] = "announce" THEN "checking" ELSE flow[q]]
            /\ excused' = [q \in RunId |-> excused[q] \cup
                  IF how[q] = "prune" /\ "deletedEarly" \in excused[q] THEN {"retryLost"}
                  ELSE IF how[q] \in {"giveUp", "prune"} THEN {"letGo"} ELSE {}]
  BY DEF Resume
<1> DEFINE f == [q \in RunId |-> IF q \in rs THEN Resumption(q, from[q], luck[q], back)
                                 ELSE "none"]
           h == f[r]
<1>2. h = IF r \in rs THEN Resumption(r, from[r], luck[r], back) ELSE "none"
  OBVIOUS
<1>3. Does(r, from[r], h, back, timers)
  <2> DEFINE With(k) == {q \in rs : f[q] \in k}
             why == IF h = "prune" /\ "deletedEarly" \in excused[r] THEN {"retryLost"}
                    ELSE IF h \in {"giveUp", "prune"} THEN {"letGo"} ELSE {}
  <2>1. \A k : r \in With(k) <=> r \in rs /\ h \in k
    OBVIOUS
  <2>2. /\ entries'[r] = Left(r, from[r], h)
        /\ flow'[r] = IF h = "announce" THEN "checking" ELSE flow[r]
        /\ excused'[r] = excused[r] \cup why
    BY <1>1 DEF Left
  <2>3. /\ resumed' = (back \ With({"prune"})) \cup With({"later", "park", "announce", "wait"})
        /\ resumeTimers' = timers \cup With({"later"})
        /\ waits' = waits \cup With({"wait"})
    BY <1>1
  <2>4. r \notin rs => h = "none"
    BY <1>2
  <2> HIDE DEF With, f, h
  <2>5. /\ r \in resumed' <=> (r \in back /\ h # "prune") \/ h \in {"later", "park", "announce", "wait"}
        /\ r \in resumeTimers' <=> r \in timers \/ h = "later"
        /\ r \in waits' <=> r \in waits \/ h = "wait"
    BY <2>1, <2>3, <2>4
  <2>6. why \in SUBSET {"retryLost", "letGo"} /\ (h \in {"giveUp", "prune"} => why # {})
    OBVIOUS
  <2> HIDE DEF why
  <2> QED BY <2>2, <2>5, <2>6 DEF Does
<1> HIDE DEF f, h
<1>4. h \in How /\ Case(r, from[r], h, r \in rs /\ r \notin back)
  <2>1. PICK e \in Record : e = from[r]
    OBVIOUS
  <2>2. e.present \in BOOLEAN /\ e.ended \in BOOLEAN /\ e.handled \in BOOLEAN /\ e.tried \in BOOLEAN
    BY <2>1 DEF Record
  <2>3. CASE r \notin rs \/ r \in back \/ ~e.present
    BY <1>2, <2>1, <2>3 DEF Resumption, How, Case
  <2>4. CASE r \in rs /\ r \notin back /\ e.present
    <3>1. h = IF sessionOf[r] \notin sessions THEN "prune"
              ELSE IF e.completed # "no" THEN "none"
              ELSE IF e.retries >= MaxAnnounces THEN "giveUp"
              ELSE IF e.tried /\ luck[r] = "early" THEN "later"
              ELSE IF ~e.ended THEN "wait"
              ELSE IF e.suppress = "steer" THEN "park"
              ELSE IF e.handled THEN "none" ELSE "announce"
      BY <1>2, <2>1, <2>4 DEF Resumption
    <3> QED BY <2>1, <2>2, <2>4, <3>1 DEF How, Case
  <2> QED BY <2>3, <2>4
<1> QED BY <1>3, <1>4

LEMMA ResumeTyped ==
    ASSUME RegistryTyped, NEW rs, rs \subseteq RunId, NEW from \in [RunId -> Record], NEW back,
           NEW timers, Resume(rs, from, back, timers)
    PROVE  /\ entries' \in [RunId -> Record] /\ disk' \in [RunId -> Record]
           /\ flow' \in [RunId -> {"no", "checking", "waking", "sending", "done", "failed", "deferred"}]
           /\ excused' \in [RunId -> SUBSET Excuses]
           /\ disk' = entries' \/ (disk' = disk /\ entries' = entries)
<1>1. /\ DOMAIN entries' = RunId /\ entries' = [r \in RunId |-> entries'[r]]
      /\ DOMAIN flow' = RunId /\ flow' = [r \in RunId |-> flow'[r]]
      /\ DOMAIN excused' = RunId /\ excused' = [r \in RunId |-> excused'[r]]
  BY DEF Resume
<1>2. disk' = entries' \/ (disk' = disk /\ entries' = entries)
  BY DEF Resume, PersistRuns
<1>3. ASSUME NEW r \in RunId
      PROVE  /\ entries'[r] \in Record /\ excused'[r] \in SUBSET Excuses
             /\ flow'[r] \in {"no", "checking", "waking", "sending", "done", "failed", "deferred"}
  <2>1. PICK how \in How : Does(r, from[r], how, back, timers)
    BY ResumeIs
  <2>2. Left(r, from[r], how) \in Record
    BY ClaimIs, CompletedIs, NewRecords DEF Left
  <2>3. excused[r] \in SUBSET Excuses /\ flow[r] \in {"no", "checking", "waking", "sending", "done", "failed", "deferred"}
    BY DEF RegistryTyped
  <2> QED BY <2>1, <2>2, <2>3 DEF Does, Excuses
<1>4. entries' \in [RunId -> Record]
  BY <1>1, <1>3
<1> QED BY <1>1, <1>2, <1>3, <1>4 DEF RegistryTyped

\* What a run must be for Resume, which tries it or not.
ComesStill(r, e, back, timers) ==
    \/ freezing[r] > 0 \/ r \in timers \/ (r \in retryTimers' /\ r \notin back)
    \/ (r \in steering' /\ e.suppress = "steer")
    \/ "crashed" \in excused[r]
Ready(r, e, tried, back, timers) ==
    /\ NotBegun(r, e) /\ RecordTrue(r, e) /\ AccountTrue(r, e) /\ FileTrue(r) /\ Announcing(r, e)
    /\ e.present =>
          /\ Marked(r, e)
          /\ e.ended /\ Claimable(e) /\ ~tried => ComesStill(r, e, back, timers)
          /\ ~e.ended /\ ~tried => Heard(r)
          /\ ~e.ended => freezing[r] = 0
          /\ ~e.ended /\ turn[r] = "failing" => r \in errorTimers

\* What Resume leaves alone.
Around(r, e) ==
    /\ restored' /\ style' = style /\ turn'[r] = turn[r] /\ sessionOf'[r] = sessionOf[r]
    /\ final'[r] = final[r] /\ announced'[r] = announced[r] /\ freezing'[r] = freezing[r]
    /\ r \in errorTimers' <=> r \in errorTimers
    /\ r \in steering' => r \in steering
    /\ e.suppress = "steer" /\ r \in steering => r \in steering'

LEMMA ResumeKeeps ==
    ASSUME RegistryTyped, NEW r \in RunId, NEW e \in Record, NEW how \in How,
           NEW tried \in BOOLEAN, NEW back, NEW timers,
           Case(r, e, how, tried), Does(r, e, how, back, timers),
           Ready(r, e, tried, back, timers), Around(r, e),
           disk'[r] = entries'[r] \/ (disk'[r] = disk[r] /\ how # "announce")
    PROVE  RunTrue(r)'
<1>1. PICK why \in SUBSET {"retryLost", "letGo"} :
            excused'[r] = excused[r] \cup why /\ (how \in {"giveUp", "prune"} => why # {})
  BY DEF Does
<1>2. /\ \A x \in excused[r] : x \in excused'[r]
      /\ \A x \in {"lost", "overlapped", "crashed", "unheard"} : x \in excused'[r] <=> x \in excused[r]
      /\ how \in {"giveUp", "prune"} => Excused(r)'
      /\ Excused(r) => Excused(r)'
  BY <1>1 DEF Excused
<1>3. Begun(r)' <=> Begun(r)
  BY DEF Around, Begun
<1>4. ToldOnce(r)' <=> ToldOnce(r)
  BY <1>2 DEF Around, ToldOnce
<1>5. /\ Told(r) => Told(r)'
      /\ how \in {"giveUp", "prune"} => Told(r)'
  BY <1>2 DEF Around, Told
<1>6. how # "announce" => flow'[r] = flow[r] /\ (Spoken(r)' <=> Spoken(r))
  BY <1>4 DEF Does, Around, Spoken
<1>7. how = "announce" =>
        /\ flow'[r] = "checking" /\ Claimable(e) /\ e.ended /\ e.suppress # "killed"
        /\ flow[r] = "no" /\ final[r] = "no" /\ ~ToldOnce(r)
  <2> SUFFICES ASSUME how = "announce"
               PROVE  /\ flow'[r] = "checking" /\ Claimable(e) /\ e.ended /\ e.suppress # "killed"
                      /\ ~Spoken(r)
    BY DEF Spoken
  <2>1. flow'[r] = "checking" /\ Claimable(e) /\ e.ended
    BY DEF Case, Does, Claimable
  <2> QED BY <2>1 DEF Ready, RecordTrue, Claimable
<1>8. e.present /\ ~e.ended => how \in {"none", "wait", "prune"} /\ (how = "none" => ~tried)
  <2> SUFFICES ASSUME e.present, ~e.ended
               PROVE  how \in {"none", "wait", "prune"} /\ (how = "none" => ~tried)
    OBVIOUS
  <2>1. e.completed = "no" /\ e.retries <= 0 /\ ~e.tried /\ e.retries \in Nat
    BY DEF Ready, RecordTrue, Record
  <2> QED BY <2>1, RegistryAssumption DEF Case, How
<1>0. PICK d : d = entries'[r]
  OBVIOUS
<1>9. /\ d \in Record
      /\ how \in {"none", "later", "wait", "park"} => d = e
      /\ how = "prune" => ~d.present /\ d.completed = "no" /\ Begun(r)
      /\ how = "giveUp" => /\ d.present /\ d.ended = e.ended /\ d.suppress = e.suppress
                           /\ d.handled = e.handled /\ d.completed # "no" /\ d.retries = e.retries
                           /\ d.reason = e.reason /\ d.tried = e.tried /\ e.ended
      /\ how = "announce" => /\ d.present /\ d.ended = e.ended /\ d.suppress = e.suppress
                             /\ d.handled /\ d.completed = "no" /\ d.retries = e.retries
                             /\ d.reason = e.reason /\ d.tried = e.tried
  <2>1. d = Left(r, e, how)
    BY <1>0 DEF Does
  <2>2. how \in {"prune", "giveUp"} => Begun(r) /\ e.present
    BY DEF Case, Ready, NotBegun
  <2>3. how = "giveUp" => e.ended
    BY <1>8, <2>2
  <2>4. how \in {"none", "later", "wait", "park"} => d = e
    BY <2>1 DEF Left
  <2>5. CASE how \in {"none", "later", "wait", "park"}
    BY <2>4, <2>5
  <2>6. CASE how = "prune"
    BY <2>1, <2>2, <2>6, NewRecords DEF Left
  <2>7. CASE how = "giveUp"
    <3>1. d = Completed(r, e)
      BY <2>1, <2>7 DEF Left
    <3> QED BY <2>2, <2>3, <2>7, <3>1, CompletedIs
  <2>8. CASE how = "announce"
    <3>1. d = [e EXCEPT !.handled = TRUE]
      BY <2>1, <2>8 DEF Left
    <3> QED BY <2>8, <3>1, ClaimIs DEF Case
  <2> QED BY <2>5, <2>6, <2>7, <2>8 DEF How
<1>10. NotBegun(r, d)'
  <2>1. CASE Begun(r)
    BY <1>3, <2>1 DEF Ready, NotBegun, Around
  <2>2. CASE ~Begun(r)
    <3>1. ~e.present /\ e.completed = "no" /\ ~disk[r].present /\ disk[r].completed = "no"
      BY <2>2 DEF Ready, NotBegun
    <3>2. how = "none"
      BY <3>1 DEF Case
    <3>3. d = e /\ (disk'[r] = d \/ disk'[r] = disk[r])
      BY <1>0, <1>9, <3>2
    <3> QED BY <1>3, <1>6, <2>2, <3>1, <3>2, <3>3 DEF Ready, NotBegun, Around
  <2> QED BY <2>1, <2>2
<1>11. RecordTrue(r, d)'
  <2>1. CASE how \in {"none", "later", "wait", "park"}
    BY <1>6, <1>9, <2>1 DEF Ready, RecordTrue
  <2>2. CASE how = "prune"
    BY <1>9, <2>2 DEF RecordTrue
  <2>3. CASE how = "giveUp"
    BY <1>6, <1>9, <2>3 DEF Ready, RecordTrue, Claimable, Case
  <2>4. CASE how = "announce"
    <3>1. e.retries \in Nat /\ e.present
      BY <2>4 DEF Record, Case
    <3> QED BY <1>7, <1>9, <2>4, <3>1 DEF Ready, RecordTrue, Claimable, Case
  <2> QED BY <2>1, <2>2, <2>3, <2>4 DEF How
<1>12. AccountTrue(r, d)'
  <2>1. CASE how \in {"none", "later", "wait", "park"}
    BY <1>3, <1>5, <1>9, <2>1 DEF Ready, AccountTrue
  <2>2. CASE how \in {"prune", "giveUp"}
    BY <1>5, <2>2 DEF AccountTrue
  <2>3. CASE how = "announce"
    BY <1>9, <2>3 DEF AccountTrue
  <2> QED BY <2>1, <2>2, <2>3 DEF How
<1>13. FileTrue(r)'
  <2>1. CASE disk'[r] = d
    BY <1>11, <1>12, <2>1 DEF FileTrue, RecordTrue, AccountTrue
  <2>2. CASE disk'[r] = disk[r] /\ how # "announce"
    BY <1>3, <1>5, <1>6, <2>2 DEF Ready, FileTrue, RecordTrue, AccountTrue
  <2> QED BY <1>0, <2>1, <2>2
<1>14. Announcing(r, d)'
  <2>0. final'[r] = final[r] /\ announced'[r] = announced[r]
    BY DEF Around
  <2>1. CASE how # "announce"
    <3>1. /\ flow'[r] # "no" => final'[r] = "no"
          /\ flow'[r] \notin {"no", "done"} => ~ToldOnce(r)'
          /\ flow'[r] = "done" \/ final'[r] # "no" => Told(r)'
          /\ "overlapped" \notin excused'[r]
          /\ announced'[r] <= 1 \/ "lost" \in excused'[r]
      BY <1>2, <1>4, <1>5, <1>6, <2>0, <2>1 DEF Ready, Announcing
    <3>2. d.present => /\ flow'[r] # "no" => d.retries < MaxAnnounces
                       /\ d.handled /\ d.completed = "no" =>
                            flow'[r] # "no" \/ final'[r] # "no" \/ "crashed" \in excused'[r]
      <4>1. CASE how \in {"none", "later", "wait", "park"}
        BY <1>2, <1>6, <1>9, <2>0, <4>1 DEF Ready, Announcing
      <4>2. CASE how = "prune"
        BY <1>9, <4>2
      <4>3. CASE how = "giveUp"
        BY <1>6, <1>9, <4>3 DEF Case, Ready, Announcing
      <4> QED BY <2>1, <4>1, <4>2, <4>3 DEF How
    <3> QED BY <3>1, <3>2 DEF Announcing
  <2>2. CASE how = "announce"
    <3>1. d.retries < MaxAnnounces
      BY <1>9, <2>2, RegistryAssumption DEF Case, Record
    <3>2. "overlapped" \notin excused'[r] /\ (announced'[r] <= 1 \/ "lost" \in excused'[r])
      BY <1>2, <2>0 DEF Ready, Announcing
    <3> QED BY <1>4, <1>7, <2>0, <2>2, <3>1, <3>2 DEF Announcing
  <2> QED BY <2>1, <2>2
<1>15. Waking(r, d)'
  <2> SUFFICES ASSUME d.present
               PROVE  /\ Marked(r, d)'
                      /\ d.ended /\ Claimable(d) => Comes(r, d)'
                      /\ ~d.ended => Heard(r)' /\ freezing'[r] = 0
                      /\ ~d.ended /\ turn'[r] = "failing" => r \in errorTimers'
    BY DEF Waking, Claimable
  <2>1. e.present /\ d.suppress = e.suppress /\ d.ended = e.ended /\ how # "prune"
        /\ (e.completed # "no" => d.completed # "no")
    BY <1>9 DEF How, Case
  <2>2. Marked(r, d)'
    BY <1>2, <2>1 DEF Ready, Marked, Around
  <2>3. d.ended /\ Claimable(d) => Comes(r, d)'
    <3> SUFFICES ASSUME d.ended, Claimable(d) PROVE Comes(r, d)'
      OBVIOUS
    <3>1. how \in {"none", "later", "park", "wait"} /\ d = e
      BY <1>9 DEF Claimable, How
    <3>2. CASE how = "later"
      BY <3>2 DEF Does, Comes
    <3>3. CASE how = "park"
      <4>1. e.suppress = "steer" /\ e.completed = "no"
        BY <3>3 DEF Case
      <4>2. r \in steering \/ "crashed" \in excused[r]
        BY <2>1, <4>1 DEF Ready, Marked
      <4> QED BY <1>2, <3>1, <4>1, <4>2 DEF Comes, Around
    <3>4. CASE how = "wait"
      BY <2>1, <3>4 DEF Case
    <3>5. CASE how = "none"
      <4>1. ~tried
        BY <3>1, <3>5 DEF Case, Claimable
      <4>2. ComesStill(r, e, back, timers)
        BY <2>1, <3>1, <4>1 DEF Ready
      <4> QED BY <1>2, <3>1, <3>5, <4>2 DEF ComesStill, Comes, Around, Does
    <3> QED BY <3>1, <3>2, <3>3, <3>4, <3>5
  <2>4. ~d.ended => Heard(r)' /\ freezing'[r] = 0 /\ (turn'[r] = "failing" => r \in errorTimers')
    <3> SUFFICES ASSUME ~e.ended PROVE Heard(r)' /\ freezing'[r] = 0 /\ (turn'[r] = "failing" => r \in errorTimers')
      BY <2>1
    <3>1. how = "wait" \/ (how = "none" /\ ~tried)
      BY <1>8, <2>1
    <3>2. how = "wait" \/ Heard(r)
      BY <2>1, <3>1 DEF Ready
    <3>3. Heard(r)'
      BY <1>2, <3>2 DEF Does, Heard, Around
    <3> QED BY <2>1, <3>3 DEF Ready, Around
  <2> QED BY <2>2, <2>3, <2>4
<1>16. /\ NotBegun(r, entries[r])' /\ RecordTrue(r, entries[r])' /\ AccountTrue(r, entries[r])'
       /\ Announcing(r, entries[r])' /\ Waking(r, entries[r])'
  BY <1>0, <1>10, <1>11, <1>12, <1>14, <1>15
     DEF NotBegun, RecordTrue, AccountTrue, Announcing, Waking, Marked, Comes
<1> QED BY <1>13, <1>16 DEF RunTrue, Down, Around

\* All that Resume does to one run.
LEMMA ResumesKeep ==
    ASSUME RegistryTyped, NEW rs, rs \subseteq RunId, NEW from \in [RunId -> Record], NEW back,
           NEW timers, Resume(rs, from, back, timers),
           NEW r \in RunId,
           Ready(r, from[r], r \in rs /\ r \notin back, back, timers), Around(r, from[r]),
           entries[r].present /\ entries[r].handled => from[r].handled
    PROVE  RunTrue(r)'
<1>1. PICK how \in How : /\ Case(r, from[r], how, r \in rs /\ r \notin back)
                         /\ Does(r, from[r], how, back, timers)
  BY ResumeIs
<1>2. disk' = entries' \/ (disk' = disk /\ entries' = entries)
  BY ResumeTyped
<1>3. PICK e \in Record : e = from[r]
  OBVIOUS
<1>4. how = "announce" => entries'[r].present /\ entries'[r].handled /\ ~e.handled
  <2> SUFFICES ASSUME how = "announce"
               PROVE  entries'[r].present /\ entries'[r].handled /\ ~e.handled
    OBVIOUS
  <2>1. entries'[r] = [e EXCEPT !.handled = TRUE]
    BY <1>1, <1>3 DEF Does, Left
  <2> QED BY <1>1, <1>3, <2>1, ClaimIs DEF Case
<1>5. disk'[r] = entries'[r] \/ (disk'[r] = disk[r] /\ how # "announce")
  BY <1>2, <1>3, <1>4
<1> QED BY <1>1, <1>3, <1>5, ResumeKeeps

LEMMA RetryTimerKeeps ==
    ASSUME RegistryInv, NEW r \in RunId, RetryTimer(r)
    PROVE  RegistryInv'
<1>1. RegistryTyped /\ restored /\ r \in retryTimers
  BY IsUp DEF RegistryInv, RetryTimer
<1>2. /\ Resume({r}, entries, resumed, resumeTimers) /\ retryTimers' = retryTimers \ {r}
      /\ UNCHANGED <<sessionOf, style, sessions, turn, restored, spent, errorTimers, freezing, final,
                     steering, sweeping, announced>>
  BY DEF RetryTimer, world
<1>3. entries \in [RunId -> Record]
  BY <1>1 DEF RegistryTyped
<1>4. RegistryTyped'
  BY <1>1, <1>2, <1>3, ResumeTyped DEF RegistryTyped
<1>5. ASSUME NEW q \in RunId PROVE RunTrue(q)'
  <2>1. RunTrue(q)
    BY DEF RegistryInv
  <2>2. Around(q, entries[q])
    BY <1>1, <1>2 DEF Around
  <2>3. Ready(q, entries[q], q \in {r} /\ q \notin resumed, resumed, resumeTimers)
    BY <1>1, <1>2, <2>1 DEF RunTrue, Ready, Waking, Comes, ComesStill
  <2> QED BY <1>1, <1>2, <1>3, <2>2, <2>3, ResumesKeep
<1> QED BY <1>4, <1>5 DEF RegistryInv

LEMMA ResumeTimerKeeps ==
    ASSUME RegistryInv, NEW r \in RunId, ResumeTimer(r)
    PROVE  RegistryInv'
<1>1. RegistryTyped /\ restored /\ r \in resumeTimers
  BY IsUp DEF RegistryInv, ResumeTimer
<1>2. /\ Resume({r}, entries, resumed \ {r}, resumeTimers \ {r})
      /\ UNCHANGED <<sessionOf, style, sessions, turn, restored, spent, errorTimers, freezing, final,
                     retryTimers, steering, sweeping, announced>>
  BY DEF ResumeTimer, world
<1>3. entries \in [RunId -> Record]
  BY <1>1 DEF RegistryTyped
<1>4. RegistryTyped'
  BY <1>1, <1>2, <1>3, ResumeTyped DEF RegistryTyped
<1>5. ASSUME NEW q \in RunId PROVE RunTrue(q)'
  <2>1. RunTrue(q)
    BY DEF RegistryInv
  <2>2. Around(q, entries[q])
    BY <1>1, <1>2 DEF Around
  <2>3. Ready(q, entries[q], q \in {r} /\ q \notin resumed \ {r}, resumed \ {r}, resumeTimers \ {r})
    BY <1>1, <1>2, <2>1 DEF RunTrue, Ready, Waking, Comes, ComesStill
  <2> QED BY <1>1, <1>2, <1>3, <2>2, <2>3, ResumesKeep
<1> QED BY <1>4, <1>5 DEF RegistryInv

LEMMA RestoreKeeps == RegistryInv /\ Restore => RegistryInv'
<1> SUFFICES ASSUME RegistryInv, Restore PROVE RegistryInv'
  OBVIOUS
<1> DEFINE rs == {r \in RunId : disk[r].present}
<1>1. RegistryTyped /\ ~restored /\ restored'
  BY DEF RegistryInv, Restore
<1>2. /\ Resume(rs, disk, {}, {})
      /\ UNCHANGED <<sessionOf, style, sessions, turn, spent, errorTimers, freezing, final,
                     retryTimers, steering, sweeping, announced>>
  BY DEF Restore
<1>3. disk \in [RunId -> Record] /\ rs \subseteq RunId
  BY <1>1 DEF RegistryTyped
<1>4. RegistryTyped'
  BY <1>1, <1>2, <1>3, ResumeTyped DEF RegistryTyped
<1>5. ASSUME NEW q \in RunId PROVE RunTrue(q)'
  <2>1. RunTrue(q) /\ Down(q)
    BY DEF RegistryInv, RunTrue
  <2>2. Around(q, disk[q])
    BY <1>1, <1>2 DEF Around
  <2>3. Ready(q, disk[q], q \in rs /\ q \notin {}, {}, {})
    <3>1. NotBegun(q, disk[q]) /\ FileTrue(q) /\ RecordTrue(q, disk[q]) /\ AccountTrue(q, disk[q])
      BY <2>1 DEF RunTrue, NotBegun, FileTrue
    <3>2. Announcing(q, disk[q])
      BY <1>1, <2>1 DEF RunTrue, Down, Announcing
    <3>3. disk[q].present => Marked(q, disk[q])
      BY <1>1, <2>1 DEF Down, Marked
    <3>4. disk[q].present => q \in rs /\ turn[q] # "failing" /\ freezing[q] = 0
      BY <1>1, <2>1 DEF Down
    <3> QED BY <3>1, <3>2, <3>3, <3>4 DEF Ready
  <2>4. ~entries[q].present
    BY <1>1, <2>1 DEF Down
  <2> QED BY <1>1, <1>2, <1>3, <2>2, <2>3, <2>4, ResumesKeep
<1> QED BY <1>4, <1>5 DEF RegistryInv

\* After a steer that failed the mark goes, and a run that has ended is resumed.
LEMMA SteerFailsKeeps ==
    ASSUME RegistryInv, NEW r \in RunId, SteerFails(r)
    PROVE  RegistryInv'
<1>1. /\ RegistryTyped /\ restored /\ r \in steering /\ steering' = steering \ {r}
      /\ UNCHANGED <<sessionOf, style, sessions, turn, restored, spent, errorTimers, freezing, final,
                     retryTimers, sweeping, announced>>
  BY IsUp DEF RegistryInv, SteerFails, SteerDone, world
<1>2. CASE ~(entries[r].present /\ entries[r].suppress = "steer")
  <2>1. UNCHANGED <<entries, disk, resumed, resumeTimers, waits, flow, excused>>
    BY <1>2 DEF SteerFails
  <2>2. RegistryTyped'
    BY <1>1, <2>1 DEF RegistryTyped
  <2>3. ASSUME NEW q \in RunId PROVE RunTrue(q)'
    <3>1. RunTrue(q)
      BY DEF RegistryInv
    <3>2. CASE q # r
      <4>1. Still(q)
        BY <1>1, <2>1, <3>2 DEF Still
      <4> QED BY <1>1, <3>1, <4>1, StillTrue
    <3>3. CASE q = r
      <4>1. Begun(r)
        BY <1>1, <3>1, <3>3 DEF RunTrue, NotBegun
      <4>2. NotBegun(r, entries[r])'
        BY <1>1, <3>1, <3>3, <4>1 DEF RunTrue, NotBegun, Begun
      <4>3. RecordTrue(r, entries[r])' /\ AccountTrue(r, entries[r])' /\ FileTrue(r)' /\ Announcing(r, entries[r])'
        BY <1>1, <2>1, <3>1, <3>3
           DEF RunTrue, RecordTrue, AccountTrue, FileTrue, Announcing, Begun, Told, ToldOnce, Spoken,
               Excused
      <4>4. Waking(r, entries[r])'
        BY <1>1, <1>2, <2>1, <3>1, <3>3 DEF RunTrue, Waking, Marked, Comes, Heard
      <4> QED BY <1>1, <3>3, <4>2, <4>3, <4>4 DEF RunTrue, Down
    <3> QED BY <3>2, <3>3
  <2> QED BY <2>2, <2>3 DEF RegistryInv
<1>3. CASE entries[r].present /\ entries[r].suppress = "steer"
  <2> DEFINE cleared == [entries EXCEPT ![r].suppress = "none"]
             again == IF entries[r].ended /\ entries[r].completed = "no" THEN {r} ELSE {}
  <2>1. Resume(again, cleared, resumed \ {r}, resumeTimers)
    BY <1>3 DEF SteerFails
  <2>2. entries \in [RunId -> Record] /\ again \subseteq RunId
    BY <1>1 DEF RegistryTyped
  <2>3. PICK e \in Record : e = entries[r]
    BY <2>2
  <2>4. PICK c : c = [e EXCEPT !.suppress = "none"]
    OBVIOUS
  <2>5. /\ c \in Record /\ c.present = e.present /\ c.ended = e.ended /\ c.reason = e.reason
        /\ c.suppress = "none" /\ c.handled = e.handled /\ c.completed = e.completed
        /\ c.retries = e.retries /\ c.tried = e.tried
    BY <2>4 DEF Record
  <2>6. cleared[r] = c /\ \A q \in RunId \ {r} : cleared[q] = entries[q]
    BY <2>2, <2>3, <2>4
  <2>7. cleared \in [RunId -> Record]
    BY <2>2, <2>3, <2>4, <2>5
  <2>8. r \in again <=> e.ended /\ e.completed = "no"
    BY <2>3
  <2>9. \A q \in RunId \ {r} : q \notin again
    OBVIOUS
  <2> HIDE DEF cleared, again
  <2>10. RegistryTyped'
    BY <1>1, <2>1, <2>2, <2>7, ResumeTyped DEF RegistryTyped
  <2>11. ASSUME NEW q \in RunId PROVE RunTrue(q)'
    <3>1. RunTrue(q)
      BY DEF RegistryInv
    <3>2. CASE q # r
      <4>1. cleared[q] = entries[q] /\ q \notin again
        BY <2>6, <2>9, <3>2
      <4>2. Around(q, cleared[q])
        BY <1>1, <3>2 DEF Around
      <4>3. Ready(q, cleared[q], q \in again /\ q \notin resumed \ {r}, resumed \ {r}, resumeTimers)
        BY <1>1, <3>1, <3>2, <4>1 DEF RunTrue, Ready, Waking, Comes, ComesStill
      <4> QED BY <1>1, <2>1, <2>2, <2>7, <4>1, <4>2, <4>3, ResumesKeep
    <3>3. CASE q = r
      <4>1. Around(r, c)
        BY <1>1, <2>5 DEF Around
      <4>2. NotBegun(r, c) /\ RecordTrue(r, c) /\ AccountTrue(r, c) /\ FileTrue(r) /\ Announcing(r, c)
        BY <1>1, <1>3, <2>3, <2>5, <3>1, <3>3
           DEF RunTrue, NotBegun, RecordTrue, AccountTrue, Announcing, Claimable
      <4>3. /\ Marked(r, c) /\ (c.ended /\ Claimable(c) => r \in again)
            /\ ~c.ended => Heard(r) /\ freezing[r] = 0 /\ (turn[r] = "failing" => r \in errorTimers)
        BY <1>3, <2>3, <2>5, <2>8, <3>1, <3>3 DEF RunTrue, Waking, Marked, Claimable
      <4>4. Ready(r, c, r \in again /\ r \notin resumed \ {r}, resumed \ {r}, resumeTimers)
        BY <4>2, <4>3 DEF Ready
      <4> QED BY <1>1, <2>1, <2>2, <2>3, <2>5, <2>6, <2>7, <3>3, <4>1, <4>4, ResumesKeep
    <3> QED BY <3>2, <3>3
  <2> QED BY <2>10, <2>11 DEF RegistryInv
<1> QED BY <1>2, <1>3

LEMMA FinalizeKeeps ==
    ASSUME RegistryInv, NEW r \in RunId, Finalize(r)
    PROVE  RegistryInv'
<1> DEFINE after == [entries EXCEPT ![r] = IF final[r] = "delete" THEN Absent ELSE Completed(r, @)]
           others == {q \in RunId \ {r} : /\ Claimable(after[q]) /\ after[q].ended
                                          /\ after[q].suppress # "steer"}
<1>1. /\ RegistryTyped /\ restored /\ final[r] # "no" /\ final' = [final EXCEPT ![r] = "no"]
      /\ errorTimers' = IF final[r] = "delete" THEN errorTimers \ {r} ELSE errorTimers
      /\ UNCHANGED <<sessionOf, style, sessions, turn, restored, spent, freezing,
                     retryTimers, steering, sweeping, announced>>
  BY IsUp DEF RegistryInv, Finalize, world
<1>2. Resume(others, after, resumed \ others, resumeTimers)
  BY DEF Finalize
<1>3. entries \in [RunId -> Record] /\ final \in [RunId -> {"no", "keep", "delete"}]
  BY <1>1 DEF RegistryTyped
<1>4. PICK e \in Record : e = entries[r]
  BY <1>3
<1>5. PICK d : d = IF final[r] = "delete" THEN Absent ELSE Completed(r, e)
  OBVIOUS
<1>6. /\ d \in Record
      /\ d.present => /\ d.completed # "no" /\ d.present = e.present /\ d.ended = e.ended
                      /\ d.reason = e.reason /\ d.suppress = e.suppress /\ d.handled = e.handled
                      /\ d.retries = e.retries /\ d.tried = e.tried
  BY <1>5, NewRecords, CompletedIs
<1>7. after[r] = d /\ \A q \in RunId \ {r} : after[q] = entries[q]
  BY <1>3, <1>4, <1>5
<1>8. after \in [RunId -> Record]
  BY <1>3, <1>4, <1>5, <1>6
<1>9. /\ others \subseteq RunId /\ r \notin others
      /\ \A q \in RunId \ {r} : q \in others <=> /\ Claimable(entries[q]) /\ entries[q].ended
                                                 /\ entries[q].suppress # "steer"
  BY <1>7
<1> HIDE DEF after, others
<1>10. RegistryTyped'
  BY <1>1, <1>2, <1>3, <1>8, <1>9, ResumeTyped DEF RegistryTyped
<1>11. ASSUME NEW q \in RunId, q # r PROVE RunTrue(q)'
  <2>1. RunTrue(q)
    BY DEF RegistryInv
  <2>2. after[q] = entries[q] /\ final'[q] = final[q] /\ (q \in errorTimers' <=> q \in errorTimers)
    BY <1>1, <1>3, <1>7, <1>11
  <2>3. Around(q, after[q])
    BY <1>1, <2>2 DEF Around
  <2>4. Ready(q, after[q], q \in others /\ q \notin resumed \ others, resumed \ others, resumeTimers)
    BY <1>1, <1>9, <1>11, <2>1, <2>2 DEF RunTrue, Ready, Waking, Comes, ComesStill
  <2> QED BY <1>1, <1>2, <1>8, <1>9, <2>2, <2>3, <2>4, ResumesKeep
<1>12. RunTrue(r)'
  <2>1. RunTrue(r) /\ flow[r] = "no" /\ Begun(r) /\ Spoken(r) /\ Told(r)
    BY <1>1 DEF RegistryInv, RunTrue, Announcing, NotBegun, Spoken
  <2>2. PICK how \in How : /\ Case(r, d, how, r \in others /\ r \notin resumed \ others)
                           /\ Does(r, d, how, resumed \ others, resumeTimers)
    BY <1>1, <1>2, <1>7, <1>8, <1>9, ResumeIs
  <2>3. how = "none" /\ entries'[r] = d /\ flow'[r] = "no" /\ final'[r] = "no"
    BY <1>1, <1>3, <1>9, <2>1, <2>2 DEF Case, Does, Left, How
  <2>4. \E why \in SUBSET {"retryLost", "letGo"} : excused'[r] = excused[r] \cup why
    BY <2>2 DEF Does
  <2>5. /\ "overlapped" \notin excused'[r] /\ (announced'[r] <= 1 \/ "lost" \in excused'[r])
        /\ Told(r)' /\ (ToldOnce(r)' <=> ToldOnce(r)) /\ Begun(r)'
    BY <1>1, <2>1, <2>4 DEF RunTrue, Announcing, Told, ToldOnce, Excused, Begun
  <2>6. Spoken(r)' => Spoken(r)
    BY <2>1
  <2>7. RecordTrue(r, d)' /\ AccountTrue(r, d)'
    BY <1>4, <1>6, <2>1, <2>5 DEF RunTrue, RecordTrue, AccountTrue, Claimable
  <2>8. disk'[r] = d \/ disk'[r] = disk[r]
    BY <1>1, <1>2, <1>8, <1>9, <2>3, ResumeTyped
  <2>9. FileTrue(r)'
    <3>1. CASE disk'[r] = d
      BY <2>7, <3>1 DEF FileTrue, RecordTrue, AccountTrue
    <3>2. CASE disk'[r] = disk[r]
      BY <2>1, <2>5, <2>6, <3>2 DEF RunTrue, FileTrue, RecordTrue, AccountTrue
    <3> QED BY <2>8, <3>1, <3>2
  <2>10. Announcing(r, d)'
    BY <1>6, <2>3, <2>5 DEF Announcing
  <2>11. Waking(r, d)'
    BY <1>4, <1>6, <2>1 DEF RunTrue, Waking, Marked, Claimable, RecordTrue
  <2>12. NotBegun(r, d)'
    BY <1>1, <2>1, <2>5 DEF RunTrue, NotBegun
  <2>13. /\ RecordTrue(r, entries[r])' /\ AccountTrue(r, entries[r])' /\ Announcing(r, entries[r])'
         /\ Waking(r, entries[r])' /\ NotBegun(r, entries[r])'
    BY <2>3, <2>7, <2>10, <2>11, <2>12
       DEF RecordTrue, AccountTrue, Announcing, Waking, Marked, Comes, NotBegun
  <2> QED BY <1>1, <2>9, <2>13 DEF RunTrue, Down
<1> QED BY <1>10, <1>11, <1>12 DEF RegistryInv

-----------------------------------------------------------------------------
(* Steps of one run *)

\* A step is about one run if it leaves the others.
LEMMA OneKeeps ==
    ASSUME RegistryInv, NEW r \in RunId, restored, restored', style' = style, RegistryTyped',
           RunTrue(r)', \A q \in RunId \ {r} : Still(q)
    PROVE  RegistryInv'
<1>1. ASSUME NEW q \in RunId PROVE RunTrue(q)'
  BY StillTrue DEF RegistryInv
<1> QED BY <1>1 DEF RegistryInv

\* completeSubagentRun ends the run, and takes back a kill.
LEMMA CompleteIs ==
    ASSUME RegistryTyped, NEW r \in RunId, NEW why \in {"complete", "error"}, NEW over,
           Complete(r, why, over)
    PROVE  /\ entries' \in [RunId -> Record] /\ freezing' \in [RunId -> 0..2]
           /\ \A q \in RunId \ {r} : entries'[q] = entries[q] /\ freezing'[q] = freezing[q]
           /\ ~entries[r].present => entries' = entries /\ freezing' = freezing
           /\ entries[r].present =>
                /\ entries'[r].present /\ entries'[r].ended /\ freezing'[r] > 0
                /\ entries'[r].retries = entries[r].retries
                /\ entries[r].completed = "no" => entries'[r].completed = "no"
                /\ \/ /\ entries[r].suppress = "killed" /\ entries'[r].suppress = "none"
                      /\ ~entries'[r].handled /\ entries'[r].completed = "no"
                   \/ /\ entries'[r].suppress = entries[r].suppress
                      /\ entries'[r].handled = entries[r].handled
                      /\ entries[r].completed # "no" => entries'[r].completed # "no"
<1>1. entries \in [RunId -> Record] /\ freezing \in [RunId -> 0..2]
  BY DEF RegistryTyped
<1>2. CASE ~entries[r].present
  BY <1>1, <1>2 DEF Complete
<1>3. CASE entries[r].present
  <2>1. PICK e \in Record : e = entries[r]
    BY <1>1
  <2> DEFINE revived == /\ why = "complete" /\ e.suppress = "killed"
                        /\ e.handled \/ e.completed # "no"
             base == IF revived
                     THEN [e EXCEPT !.suppress = "none", !.handled = FALSE, !.completed = "no"]
                     ELSE IF over /\ e.completed = "early" THEN [e EXCEPT !.completed = "late"]
                     ELSE e
             d == [base EXCEPT !.ended = TRUE, !.reason = why]
  <2>2. /\ freezing[r] < 2 /\ entries' = [entries EXCEPT ![r] = d]
        /\ freezing' = [freezing EXCEPT ![r] = freezing[r] + 1]
    BY <1>3, <2>1 DEF Complete
  <2>3. /\ base \in Record /\ base.present = e.present /\ base.retries = e.retries
        /\ e.completed = "no" => base.completed = "no"
        /\ \/ /\ e.suppress = "killed" /\ base.suppress = "none"
              /\ ~base.handled /\ base.completed = "no"
           \/ /\ base.suppress = e.suppress
              /\ base.handled = e.handled
              /\ e.completed # "no" => base.completed # "no"
    <3>1. CASE revived
      <4>1. base = [e EXCEPT !.suppress = "none", !.handled = FALSE, !.completed = "no"]
        BY <3>1
      <4>2. e.suppress = "killed"
        BY <3>1
      <4> HIDE DEF base, revived
      <4> QED BY <4>1, <4>2 DEF Record
    <3>2. CASE ~revived /\ over /\ e.completed = "early"
      <4>1. base = [e EXCEPT !.completed = "late"]
        BY <3>2
      <4> HIDE DEF base, revived
      <4> QED BY <3>2, <4>1 DEF Record
    <3>3. CASE ~revived /\ ~(over /\ e.completed = "early")
      <4>1. base = e
        BY <3>3
      <4> HIDE DEF base, revived
      <4> QED BY <4>1
    <3> QED BY <3>1, <3>2, <3>3
  <2> HIDE DEF base
  <2>4. /\ d \in Record /\ d.present = base.present /\ d.ended /\ d.retries = base.retries
        /\ d.completed = base.completed /\ d.suppress = base.suppress /\ d.handled = base.handled
    BY <2>3 DEF Record
  <2> HIDE DEF d
  <2>5. entries'[r] = d /\ \A q \in RunId \ {r} : entries'[q] = entries[q]
    BY <1>1, <2>2
  <2>6. /\ freezing' \in [RunId -> 0..2] /\ freezing'[r] > 0
        /\ \A q \in RunId \ {r} : freezing'[q] = freezing[q]
    BY <1>1, <2>2
  <2>7. entries' \in [RunId -> Record]
    BY <1>1, <2>2, <2>4
  <2> QED BY <1>3, <2>1, <2>3, <2>4, <2>5, <2>6, <2>7
<1> QED BY <1>2, <1>3

\* What Complete leaves alone of its run.
BesideCompletion(r) ==
    /\ restored /\ restored' /\ style' = style /\ sessionOf' = sessionOf
    /\ turn'[r] = turn[r] \/ (turn[r] # "none" /\ turn'[r] = "over")
    /\ flow' = flow /\ final' = final /\ announced' = announced /\ excused' = excused
    /\ steering' = steering
    /\ disk'[r] = disk[r] \/ (entries[r].present /\ disk'[r] = [entries[r] EXCEPT !.ended = TRUE])

LEMMA CompletedKeeps ==
    ASSUME RegistryTyped, NEW r \in RunId, RunTrue(r), NEW why \in {"complete", "error"}, NEW over,
           Complete(r, why, over), BesideCompletion(r)
    PROVE  RunTrue(r)'
<1>1. PICK e \in Record : e = entries[r]
  BY DEF RegistryTyped
<1>2. PICK d : d = entries'[r]
  OBVIOUS
<1>3. /\ ~e.present => d = e /\ freezing'[r] = freezing[r]
      /\ e.present =>
            /\ d.present /\ d.ended /\ freezing'[r] > 0 /\ d.retries = e.retries
            /\ e.completed = "no" => d.completed = "no"
            /\ \/ /\ e.suppress = "killed" /\ d.suppress = "none" /\ ~d.handled /\ d.completed = "no"
               \/ /\ d.suppress = e.suppress /\ d.handled = e.handled
                  /\ e.completed # "no" => d.completed # "no"
  BY <1>1, <1>2, CompleteIs
<1>4. /\ Begun(r)' <=> Begun(r)
      /\ Told(r)' <=> Told(r)
      /\ ToldOnce(r)' <=> ToldOnce(r)
      /\ Spoken(r)' <=> Spoken(r)
  BY DEF BesideCompletion, Begun, Told, ToldOnce, Spoken, Excused
<1>5. e.present => Begun(r) /\ e.retries \in Nat
  BY <1>1 DEF RunTrue, NotBegun, Record
<1>6. NotBegun(r, d)'
  <2>1. CASE e.present
    BY <1>4, <1>5, <2>1 DEF RunTrue, NotBegun, BesideCompletion
  <2>2. CASE ~e.present
    <3>1. d = e /\ disk'[r] = disk[r] /\ freezing'[r] = freezing[r]
      BY <1>1, <1>3, <2>2 DEF BesideCompletion
    <3> QED BY <1>1, <1>4, <3>1 DEF RunTrue, NotBegun, BesideCompletion
  <2> QED BY <2>1, <2>2
<1>7. RecordTrue(r, d)' /\ AccountTrue(r, d)'
  <2>1. CASE ~e.present
    BY <1>1, <1>3, <1>4, <2>1 DEF RunTrue, RecordTrue, AccountTrue, BesideCompletion
  <2>2. CASE e.present
    <3>0. RecordTrue(r, e) /\ AccountTrue(r, e)
      BY <1>1 DEF RunTrue, BesideCompletion
    <3>1. CASE e.suppress = "killed" /\ d.suppress = "none" /\ ~d.handled /\ d.completed = "no"
      BY <1>3, <1>4, <1>5, <2>2, <3>0, <3>1, RegistryAssumption DEF RecordTrue, AccountTrue
    <3>2. CASE /\ d.suppress = e.suppress /\ d.handled = e.handled
               /\ e.completed # "no" <=> d.completed # "no"
      BY <1>3, <1>4, <1>5, <2>2, <3>0, <3>2 DEF RecordTrue, AccountTrue, Claimable
    <3> QED BY <1>3, <2>2, <3>1, <3>2
  <2> QED BY <2>1, <2>2
<1>8. FileTrue(r)'
  <2>1. CASE disk'[r] = disk[r]
    BY <1>4, <2>1 DEF RunTrue, FileTrue, RecordTrue, AccountTrue
  <2>2. CASE e.present /\ disk'[r] = [e EXCEPT !.ended = TRUE]
    <3>1. PICK c : c = [e EXCEPT !.ended = TRUE]
      OBVIOUS
    <3>2. /\ c.present /\ c.ended /\ c.reason = e.reason /\ c.suppress = e.suppress
          /\ c.handled = e.handled /\ c.completed = e.completed /\ c.retries = e.retries
          /\ c.tried = e.tried
      BY <2>2, <3>1 DEF Record
    <3>3. RecordTrue(r, e) /\ AccountTrue(r, e)
      BY <1>1 DEF RunTrue, BesideCompletion
    <3>4. RecordTrue(r, c)' /\ AccountTrue(r, c)'
      BY <1>4, <2>2, <3>2, <3>3 DEF RecordTrue, AccountTrue, Claimable
    <3> QED BY <2>2, <3>1, <3>4 DEF FileTrue, RecordTrue, AccountTrue
  <2> QED BY <1>1, <2>1, <2>2 DEF BesideCompletion
<1>9. Announcing(r, d)'
  BY <1>1, <1>3, <1>4 DEF RunTrue, Announcing, BesideCompletion
<1>10. Waking(r, d)'
  BY <1>1, <1>3 DEF RunTrue, Waking, Marked, Comes, BesideCompletion
<1>11. /\ RecordTrue(r, entries[r])' /\ AccountTrue(r, entries[r])' /\ Announcing(r, entries[r])'
       /\ Waking(r, entries[r])' /\ NotBegun(r, entries[r])'
  BY <1>2, <1>6, <1>7, <1>9, <1>10
     DEF RecordTrue, AccountTrue, Announcing, Waking, Marked, Comes, NotBegun
<1> QED BY <1>8, <1>11 DEF RunTrue, Down, BesideCompletion

LEMMA TurnEndsKeeps ==
    ASSUME RegistryInv, NEW r \in RunId, TurnEnds(r)
    PROVE  RegistryInv'
<1>1. /\ RegistryTyped /\ restored /\ turn[r] # "none"
      /\ turn' = [turn EXCEPT ![r] = "over"] /\ errorTimers' = errorTimers \ {r}
      /\ Complete(r, "complete", TRUE)
      /\ UNCHANGED <<disk, sessionOf, style, sessions, restored, spent, waits, flow, final,
                     retryTimers, resumeTimers, resumed, steering, sweeping, announced, excused>>
  BY IsUp DEF RegistryInv, TurnEnds, outcomes
<1>2. /\ entries' \in [RunId -> Record] /\ freezing' \in [RunId -> 0..2]
      /\ \A q \in RunId \ {r} : entries'[q] = entries[q] /\ freezing'[q] = freezing[q]
  BY <1>1, CompleteIs
<1>3. /\ turn' \in [RunId -> {"none", "running", "failing", "over"}]
      /\ turn'[r] = "over" /\ \A q \in RunId \ {r} : turn'[q] = turn[q]
  BY <1>1 DEF RegistryTyped
<1>4. RegistryTyped'
  BY <1>1, <1>2, <1>3 DEF RegistryTyped
<1>5. BesideCompletion(r)
  BY <1>1, <1>3 DEF BesideCompletion
<1>6. RunTrue(r)'
  BY <1>1, <1>5, CompletedKeeps DEF RegistryInv
<1>7. ASSUME NEW q \in RunId \ {r} PROVE Still(q)
  BY <1>1, <1>2, <1>3 DEF Still
<1> QED BY <1>1, <1>4, <1>6, <1>7, OneKeeps

LEMMA ErrorTimerKeeps ==
    ASSUME RegistryInv, NEW r \in RunId, ErrorTimer(r)
    PROVE  RegistryInv'
<1>1. /\ RegistryTyped /\ restored /\ RunTrue(r) /\ errorTimers' = errorTimers \ {r}
      /\ UNCHANGED <<disk, sessionOf, style, sessions, turn, restored, spent, waits, flow, final,
                     retryTimers, resumeTimers, resumed, steering, sweeping, announced, excused>>
  BY IsUp DEF RegistryInv, ErrorTimer, world, outcomes
<1>2. CASE entries[r].reason = "complete"
  <2>1. UNCHANGED <<entries, freezing>>
    BY <1>2 DEF ErrorTimer
  <2>2. RegistryTyped'
    BY <1>1, <2>1 DEF RegistryTyped
  <2>3. entries[r].present => entries[r].ended
    BY <1>1, <1>2 DEF RunTrue, RecordTrue
  <2>4. RunTrue(r)'
    BY <1>1, <2>1, <2>3
       DEF RunTrue, NotBegun, RecordTrue, AccountTrue, FileTrue, Announcing, Waking, Marked, Comes, Down,
           Begun, Told, ToldOnce, Spoken, Excused
  <2>5. ASSUME NEW q \in RunId \ {r} PROVE Still(q)
    BY <1>1, <2>1 DEF Still
  <2> QED BY <1>1, <2>2, <2>4, <2>5, OneKeeps
<1>3. CASE entries[r].reason # "complete"
  <2>1. Complete(r, "error", turn[r] = "over")
    BY <1>3 DEF ErrorTimer
  <2>2. /\ entries' \in [RunId -> Record] /\ freezing' \in [RunId -> 0..2]
        /\ \A q \in RunId \ {r} : entries'[q] = entries[q] /\ freezing'[q] = freezing[q]
    BY <1>1, <2>1, CompleteIs
  <2>3. RegistryTyped'
    BY <1>1, <2>2 DEF RegistryTyped
  <2>4. BesideCompletion(r)
    BY <1>1 DEF BesideCompletion
  <2>5. RunTrue(r)'
    BY <1>1, <2>1, <2>4, CompletedKeeps
  <2>6. ASSUME NEW q \in RunId \ {r} PROVE Still(q)
    BY <1>1, <2>2 DEF Still
  <2> QED BY <1>1, <2>3, <2>5, <2>6, OneKeeps
<1> QED BY <1>2, <1>3

LEMMA WaitAnswersKeeps ==
    ASSUME RegistryInv, NEW r \in RunId, WaitAnswers(r)
    PROVE  RegistryInv'
<1>1. /\ RegistryTyped /\ restored /\ RunTrue(r) /\ errorTimers' = errorTimers \ {r}
      /\ waits' = waits \ {r}
      /\ disk' = IF entries[r].present THEN [entries EXCEPT ![r].ended = TRUE] ELSE disk
      /\ UNCHANGED <<sessionOf, style, sessions, turn, restored, flow, final, retryTimers,
                     resumeTimers, resumed, steering, sweeping, announced, excused>>
  BY IsUp DEF RegistryInv, WaitAnswers, outcomes
<1>2. PICK why \in {"complete", "error"} : Complete(r, why, turn[r] = "over")
  BY DEF WaitAnswers
<1>3. /\ entries' \in [RunId -> Record] /\ freezing' \in [RunId -> 0..2]
      /\ \A q \in RunId \ {r} : entries'[q] = entries[q] /\ freezing'[q] = freezing[q]
  BY <1>1, <1>2, CompleteIs
<1>4. spent' \in 0..MaxUpsets
  BY <1>1, RegistryAssumption DEF WaitAnswers, Upset, RegistryTyped
<1>5. /\ disk' \in [RunId -> Record]
      /\ disk'[r] = disk[r] \/ (entries[r].present /\ disk'[r] = [entries[r] EXCEPT !.ended = TRUE])
      /\ \A q \in RunId \ {r} : disk'[q] = disk[q] \/ disk'[q] = entries[q]
  <2>1. entries \in [RunId -> Record] /\ disk \in [RunId -> Record]
    BY <1>1 DEF RegistryTyped
  <2>2. \A e \in Record : [e EXCEPT !.ended = TRUE] \in Record
    BY DEF Record
  <2>3. entries[r].present => disk' = [entries EXCEPT ![r] = [entries[r] EXCEPT !.ended = TRUE]]
    BY <1>1
  <2> QED BY <1>1, <2>1, <2>2, <2>3
<1>6. RegistryTyped'
  BY <1>1, <1>3, <1>4, <1>5 DEF RegistryTyped
<1>7. BesideCompletion(r)
  BY <1>1, <1>5 DEF BesideCompletion
<1>8. RunTrue(r)'
  BY <1>1, <1>2, <1>7, CompletedKeeps
<1>9. ASSUME NEW q \in RunId \ {r} PROVE Still(q)
  BY <1>1, <1>3, <1>5 DEF Still
<1> QED BY <1>1, <1>6, <1>8, <1>9, OneKeeps

LEMMA FrozenKeeps ==
    ASSUME RegistryInv, NEW r \in RunId, Frozen(r)
    PROVE  RegistryInv'
<1>1. /\ RegistryTyped /\ restored /\ RunTrue(r) /\ freezing' = [freezing EXCEPT ![r] = freezing[r] - 1]
      /\ freezing[r] > 0
      /\ UNCHANGED <<sessionOf, style, sessions, turn, restored, spent, errorTimers, waits, final,
                     retryTimers, resumeTimers, resumed, steering, sweeping, announced>>
  BY IsUp DEF RegistryInv, Frozen, world
<1>2. PICK e \in Record : e = entries[r]
  BY <1>1 DEF RegistryTyped
<1>3. /\ freezing' \in [RunId -> 0..2]
      /\ \A q \in RunId \ {r} : freezing'[q] = freezing[q]
  BY <1>1 DEF RegistryTyped
<1>4. CASE Claimable(e) /\ e.suppress # "steer"
  <2>1. ~Spoken(r) /\ flow[r] = "no" /\ final[r] = "no" /\ ~ToldOnce(r) /\ e.suppress # "killed"
    BY <1>1, <1>2, <1>4 DEF RunTrue, RecordTrue, Claimable, Spoken
  <2>2. StartFlow(r)
    BY <1>2, <1>4 DEF Frozen
  <2>3. PICK d : d = [e EXCEPT !.handled = TRUE]
    OBVIOUS
  <2>4. /\ entries' = [entries EXCEPT ![r] = d] /\ disk' = entries'
        /\ flow' = [flow EXCEPT ![r] = "checking"] /\ excused' = excused
    BY <1>2, <1>4, <2>1, <2>2, <2>3 DEF StartFlow, PersistRuns
  <2>5. /\ d \in Record /\ d.present = e.present /\ d.ended = e.ended /\ d.reason = e.reason
        /\ d.suppress = e.suppress /\ d.handled /\ d.completed = e.completed
        /\ d.retries = e.retries /\ d.tried = e.tried /\ e.retries \in Nat
    BY <2>3, ClaimIs DEF Record
  <2>6. /\ entries' \in [RunId -> Record] /\ entries'[r] = d /\ flow'[r] = "checking"
        /\ flow' \in [RunId -> {"no", "checking", "waking", "sending", "done", "failed", "deferred"}]
        /\ \A q \in RunId \ {r} : entries'[q] = entries[q] /\ flow'[q] = flow[q]
    BY <1>1, <2>4, <2>5 DEF RegistryTyped
  <2>7. RegistryTyped'
    BY <1>1, <1>3, <2>4, <2>6 DEF RegistryTyped
  <2>8. ASSUME NEW q \in RunId \ {r} PROVE Still(q)
    BY <1>1, <1>3, <2>4, <2>6 DEF Still
  <2>9. e.present /\ Begun(r) /\ e.completed = "no" /\ ~e.handled
    BY <1>1, <1>2, <1>4 DEF RunTrue, NotBegun, Claimable
  <2>10. RunTrue(r)'
    <3>1. ToldOnce(r)' <=> ToldOnce(r)
      BY <1>1, <2>4 DEF ToldOnce
    <3>3. NotBegun(r, entries[r])' /\ AccountTrue(r, entries[r])'
      BY <1>1, <2>5, <2>6, <2>9 DEF RunTrue, NotBegun, AccountTrue, Begun
    <3>4. e.retries < MaxAnnounces
      BY <1>1, <1>2, <1>4, <2>5, <2>9, RegistryAssumption DEF RunTrue, RecordTrue
    <3>5. e.ended
      BY <1>1, <1>2, <2>9 DEF RunTrue, Waking
    <3>6. RecordTrue(r, entries[r])'
      BY <1>1, <1>2, <2>1, <2>5, <2>6, <2>9, <3>4, <3>5 DEF RunTrue, RecordTrue, Claimable
    <3>7. FileTrue(r)'
      BY <2>4, <3>3, <3>6 DEF FileTrue, RecordTrue, AccountTrue
    <3>8. Announcing(r, entries[r])'
      BY <1>1, <2>1, <2>4, <2>5, <2>6, <3>1, <3>4 DEF RunTrue, Announcing
    <3>9. Waking(r, entries[r])'
      BY <1>1, <1>4, <2>5, <2>6, <3>5 DEF Waking, Marked, Claimable
    <3> QED BY <1>1, <3>3, <3>6, <3>7, <3>8, <3>9 DEF RunTrue, Down
  <2> QED BY <1>1, <2>7, <2>8, <2>10, OneKeeps
<1>5. CASE ~(Claimable(e) /\ e.suppress # "steer")
  <2>1. UNCHANGED <<entries, flow, excused>> /\ disk' = entries'
    BY <1>2, <1>5 DEF Frozen, PersistRuns
  <2>2. RegistryTyped'
    BY <1>1, <1>3, <2>1 DEF RegistryTyped
  <2>3. ASSUME NEW q \in RunId \ {r} PROVE Still(q)
    BY <1>1, <1>3, <2>1 DEF Still
  <2>4. RunTrue(r)'
    <3>1. NotBegun(r, entries[r])' /\ RecordTrue(r, entries[r])' /\ AccountTrue(r, entries[r])'
          /\ Announcing(r, entries[r])'
      BY <1>1, <2>1 DEF RunTrue, NotBegun, RecordTrue, AccountTrue, Announcing, Begun, Told, ToldOnce,
                       Spoken, Excused
    <3>2. FileTrue(r)'
      BY <2>1, <3>1 DEF FileTrue, RecordTrue, AccountTrue
    <3>3. Waking(r, entries[r])'
      BY <1>1, <1>2, <1>5, <2>1 DEF RunTrue, Waking, Marked, Comes, Heard, Claimable
    <3> QED BY <1>1, <3>1, <3>2, <3>3 DEF RunTrue, Down
  <2> QED BY <1>1, <2>2, <2>3, <2>4, OneKeeps
<1> QED BY <1>4, <1>5

\* A flow that goes on.
LEMMA FlowMoves ==
    ASSUME RegistryInv, NEW r \in RunId, flow[r] \notin {"no", "done"},
           NEW place \in {"waking", "sending", "done", "failed", "deferred"},
           flow' = [flow EXCEPT ![r] = place],
           announced' \in [RunId -> 0..2], excused' \in [RunId -> SUBSET Excuses],
           spent' \in 0..MaxUpsets,
           \A q \in RunId \ {r} : announced'[q] = announced[q] /\ excused'[q] = excused[q],
           announced'[r] >= announced[r], excused[r] \subseteq excused'[r],
           excused'[r] \subseteq excused[r] \cup {"letGo", "lost"},
           IF place = "done" THEN Told(r)' ELSE ~ToldOnce(r)',
           announced'[r] <= 1 \/ "lost" \in excused'[r],
           UNCHANGED <<entries, disk, sessionOf, style, sessions, turn, restored, errorTimers, waits,
                       freezing, final, retryTimers, resumeTimers, resumed, steering, sweeping>>
    PROVE  RegistryInv'
<1>1. RegistryTyped /\ RunTrue(r) /\ restored
  BY IsUp DEF RegistryInv
<1>2. /\ flow' \in [RunId -> {"no", "checking", "waking", "sending", "done", "failed", "deferred"}]
      /\ flow'[r] = place /\ \A q \in RunId \ {r} : flow'[q] = flow[q]
  BY <1>1 DEF RegistryTyped
<1>3. RegistryTyped'
  BY <1>1, <1>2 DEF RegistryTyped
<1>4. ASSUME NEW q \in RunId \ {r} PROVE Still(q)
  BY <1>2 DEF Still
<1>5. announced[r] \in Nat /\ announced'[r] \in Nat
  BY <1>1 DEF RegistryTyped
<1>6. /\ Begun(r)' <=> Begun(r)
      /\ Told(r) => Told(r)'
      /\ Spoken(r) /\ Begun(r)
  BY <1>1, <1>5 DEF Begun, Told, Excused, Spoken, RunTrue, NotBegun
<1>7. NotBegun(r, entries[r])' /\ RecordTrue(r, entries[r])' /\ AccountTrue(r, entries[r])' /\ FileTrue(r)'
  BY <1>1, <1>6 DEF RunTrue, NotBegun, RecordTrue, AccountTrue, FileTrue
<1>8. Announcing(r, entries[r])'
  BY <1>1, <1>2, <1>6 DEF RunTrue, Announcing
<1>9. Waking(r, entries[r])'
  BY <1>1 DEF RunTrue, Waking, Marked, Comes, Heard
<1> QED BY <1>1, <1>3, <1>4, <1>7, <1>8, <1>9, OneKeeps DEF RunTrue, Down

LEMMA FlowChecksKeeps ==
    ASSUME RegistryInv, NEW r \in RunId, FlowChecks(r)
    PROVE  RegistryInv'
<1>1. RegistryTyped /\ RunTrue(r) /\ flow[r] = "checking" /\ ~ToldOnce(r)
  BY DEF RegistryInv, FlowChecks, RunTrue, Announcing
<1>2. UNCHANGED <<entries, disk, sessionOf, style, sessions, turn, restored, spent, errorTimers, waits,
                  freezing, final, retryTimers, resumeTimers, resumed, steering, sweeping, announced>>
  BY DEF FlowChecks, world
<1>3. \/ \E place \in {"waking", "sending", "deferred"} :
            flow' = [flow EXCEPT ![r] = place] /\ excused' = excused
      \/ /\ flow' = [flow EXCEPT ![r] = "done"]
         /\ excused' = [excused EXCEPT ![r] = excused[r] \cup {"letGo"}]
  BY DEF FlowChecks, Excuse, Sends
<1>4. announced \in [RunId -> 0..2] /\ excused \in [RunId -> SUBSET Excuses] /\ spent \in 0..MaxUpsets
  BY <1>1 DEF RegistryTyped
<1>5. announced[r] <= 1 \/ "lost" \in excused[r]
  BY <1>1 DEF RunTrue, Announcing
<1>6. CASE \E place \in {"waking", "sending", "deferred"} :
              flow' = [flow EXCEPT ![r] = place] /\ excused' = excused
  <2>1. PICK place \in {"waking", "sending", "deferred"} :
            flow' = [flow EXCEPT ![r] = place] /\ excused' = excused
    BY <1>6
  <2>2. ~ToldOnce(r)'
    BY <1>1, <1>2, <2>1 DEF ToldOnce
  <2>3. announced'[r] >= announced[r]
    BY <1>2, <1>4
  <2> QED BY <1>1, <1>2, <1>4, <1>5, <2>1, <2>2, <2>3, FlowMoves
<1>7. CASE /\ flow' = [flow EXCEPT ![r] = "done"]
           /\ excused' = [excused EXCEPT ![r] = excused[r] \cup {"letGo"}]
  <2>1. /\ excused' \in [RunId -> SUBSET Excuses] /\ excused'[r] = excused[r] \cup {"letGo"}
        /\ \A q \in RunId \ {r} : excused'[q] = excused[q]
    BY <1>4, <1>7 DEF Excuses
  <2>2. Told(r)'
    BY <2>1 DEF Told, Excused
  <2>3. announced'[r] >= announced[r]
    BY <1>2, <1>4
  <2>4. announced'[r] <= 1 \/ "lost" \in excused'[r]
    BY <1>2, <1>5, <2>1
  <2> QED BY <1>1, <1>2, <1>4, <1>7, <2>1, <2>2, <2>3, <2>4, FlowMoves
<1> QED BY <1>3, <1>6, <1>7

LEMMA SendEndsKeeps ==
    ASSUME RegistryInv, NEW r \in RunId, SendEnds(r)
    PROVE  RegistryInv'
<1>1. RegistryTyped /\ RunTrue(r) /\ flow[r] = "sending" /\ ~ToldOnce(r)
  BY DEF RegistryInv, SendEnds, RunTrue, Announcing
<1>2. PICK how \in {"told", "failed", "lost"} :
        /\ how # "told" => spent < MaxUpsets
        /\ spent' = IF how # "told" THEN spent + 1 ELSE spent
        /\ announced' = IF how # "failed" /\ announced[r] < 2
                        THEN [announced EXCEPT ![r] = announced[r] + 1] ELSE announced
        /\ excused' = IF how = "lost" THEN [excused EXCEPT ![r] = excused[r] \cup {"lost"}] ELSE excused
        /\ flow' = [flow EXCEPT ![r] = IF how = "told" THEN "done" ELSE "failed"]
  BY DEF SendEnds, Excuse
<1>3. announced \in [RunId -> 0..2] /\ excused \in [RunId -> SUBSET Excuses] /\ spent \in 0..MaxUpsets
  BY <1>1 DEF RegistryTyped
<1>4. /\ announced' \in [RunId -> 0..2] /\ announced'[r] >= announced[r]
      /\ \A q \in RunId \ {r} : announced'[q] = announced[q]
      /\ how # "failed" => announced'[r] > 0
      /\ how = "failed" => announced'[r] = announced[r]
      /\ announced[r] = 0 => announced'[r] <= 1
  BY <1>2, <1>3
<1>5. /\ excused' \in [RunId -> SUBSET Excuses]
      /\ \A q \in RunId \ {r} : excused'[q] = excused[q]
      /\ IF how = "lost" THEN excused'[r] = excused[r] \cup {"lost"} ELSE excused'[r] = excused[r]
  BY <1>2, <1>3 DEF Excuses
<1>6. spent' \in 0..MaxUpsets
  BY <1>2, <1>3, RegistryAssumption
<1>7. announced[r] = 0 \/ "lost" \in excused[r]
  BY <1>1, <1>3 DEF ToldOnce
<1>8. announced'[r] <= 1 \/ "lost" \in excused'[r]
  BY <1>4, <1>5, <1>7
<1>9. UNCHANGED <<entries, disk, sessionOf, style, sessions, turn, restored, errorTimers, waits,
                  freezing, final, retryTimers, resumeTimers, resumed, steering, sweeping>>
  BY DEF SendEnds
<1>10. IF how = "told" THEN Told(r)' ELSE ~ToldOnce(r)'
  BY <1>1, <1>4, <1>5 DEF Told, ToldOnce
<1>11. excused[r] \subseteq excused'[r] /\ excused'[r] \subseteq excused[r] \cup {"letGo", "lost"}
  BY <1>5
<1>12. CASE how = "told"
  <2>1. flow' = [flow EXCEPT ![r] = "done"] /\ Told(r)'
    BY <1>2, <1>10, <1>12
  <2> QED BY <1>1, <1>4, <1>5, <1>6, <1>8, <1>9, <1>11, <2>1, FlowMoves
<1>13. CASE how # "told"
  <2>1. flow' = [flow EXCEPT ![r] = "failed"] /\ ~ToldOnce(r)'
    BY <1>2, <1>10, <1>13
  <2> QED BY <1>1, <1>4, <1>5, <1>6, <1>8, <1>9, <1>11, <2>1, FlowMoves
<1> QED BY <1>12, <1>13

\* A run that is replaced, and the one in its place.
LEMMA ReplacedKeeps ==
    ASSUME RegistryInv, NEW r \in RunId, NEW n \in RunId, NEW woken \in BOOLEAN, Begun(r),
           Replaced(r, n, woken), restored,
           \/ flow' = flow
           \/ flow[r] = "waking" /\ flow' = [flow EXCEPT ![r] = "deferred"],
           steering' = steering \/ steering' = steering \ {r},
           UNCHANGED <<style, sessions, restored, spent, freezing, final, retryTimers, resumeTimers,
                       sweeping, announced>>
    PROVE  RegistryInv'
<1>1. RegistryTyped /\ RunTrue(r) /\ RunTrue(n)
  BY DEF RegistryInv
<1>2. n # r /\ ~Begun(n)
  BY DEF Replaced, IsNext, Used, Begun
<1>3. PICK d : d = [Fresh EXCEPT !.woken = woken]
  OBVIOUS
<1>4. /\ d \in Record /\ d.present /\ ~d.ended /\ d.reason = "none" /\ d.suppress = "none"
      /\ ~d.handled /\ d.completed = "no" /\ d.retries = 0 /\ ~d.tried
  BY <1>3, NewRecords DEF Record
<1>5. /\ entries' = [entries EXCEPT ![r] = Absent, ![n] = d] /\ disk' = entries'
      /\ sessionOf' = [sessionOf EXCEPT ![n] = sessionOf[r]]
      /\ turn' = [turn EXCEPT ![n] = "running"]
      /\ errorTimers' = errorTimers \ {r} /\ resumed' = resumed \ {r} /\ waits' = waits \cup {n}
      /\ excused' = [excused EXCEPT ![r] = excused[r] \cup {"letGo"}]
  BY <1>3 DEF Replaced, PersistRuns, Excuse
<1>6. /\ entries' \in [RunId -> Record] /\ entries'[r] = Absent /\ entries'[n] = d
      /\ \A q \in RunId \ {r, n} : entries'[q] = entries[q]
  BY <1>1, <1>2, <1>4, <1>5, NewRecords DEF RegistryTyped
<1>7. /\ sessionOf' \in [RunId -> Session \cup {Outside}] /\ sessionOf'[n] = sessionOf[r]
      /\ \A q \in RunId \ {n} : sessionOf'[q] = sessionOf[q]
      /\ turn' \in [RunId -> {"none", "running", "failing", "over"}] /\ turn'[n] = "running"
      /\ \A q \in RunId \ {n} : turn'[q] = turn[q]
  BY <1>1, <1>5 DEF RegistryTyped
<1>8. /\ excused' \in [RunId -> SUBSET Excuses] /\ excused'[r] = excused[r] \cup {"letGo"}
      /\ \A q \in RunId \ {r} : excused'[q] = excused[q]
  BY <1>1, <1>5 DEF RegistryTyped, Excuses
<1>9. /\ flow' \in [RunId -> {"no", "checking", "waking", "sending", "done", "failed", "deferred"}]
      /\ flow'[r] = flow[r] \/ (flow[r] = "waking" /\ flow'[r] = "deferred")
      /\ \A q \in RunId \ {r} : flow'[q] = flow[q]
  BY <1>1 DEF RegistryTyped
<1>10. RegistryTyped'
  BY <1>1, <1>5, <1>6, <1>7, <1>8, <1>9 DEF RegistryTyped
<1>11. ASSUME NEW q \in RunId \ {r, n} PROVE RunTrue(q)'
  <2>1. Still(q)
    BY <1>5, <1>6, <1>7, <1>8, <1>9, <1>11 DEF Still
  <2> QED BY <2>1, StillTrue DEF RegistryInv
<1>12. RunTrue(r)'
  <2>1. Told(r)' /\ Begun(r)' /\ (ToldOnce(r)' <=> ToldOnce(r))
    BY <1>2, <1>7, <1>8 DEF Told, Excused, Begun, ToldOnce
  <2>2. ~entries'[r].present /\ ~disk'[r].present /\ entries'[r].completed = "no"
    BY <1>5, <1>6, NewRecords
  <2>3. NotBegun(r, entries[r])'
    BY <1>1, <1>2, <1>7, <2>1 DEF RunTrue, NotBegun
  <2>4. RecordTrue(r, entries[r])' /\ AccountTrue(r, entries[r])' /\ FileTrue(r)'
    BY <2>1, <2>2 DEF RecordTrue, AccountTrue, FileTrue
  <2>5. Announcing(r, entries[r])'
    BY <1>1, <1>8, <1>9, <2>1, <2>2 DEF RunTrue, Announcing
  <2> QED BY <2>2, <2>3, <2>4, <2>5 DEF RunTrue, Waking, Down
<1>13. RunTrue(n)'
  <2>1. /\ Begun(n)' /\ flow'[n] = "no" /\ final'[n] = "no" /\ announced'[n] = 0 /\ freezing'[n] = 0
        /\ excused'[n] = excused[n] /\ n \in waits' /\ turn'[n] = "running"
    BY <1>1, <1>2, <1>5, <1>7, <1>8, <1>9 DEF RunTrue, NotBegun, Begun
  <2>2. ~Spoken(n)' /\ ~ToldOnce(n)'
    BY <2>1 DEF Spoken, ToldOnce
  <2>3. NotBegun(n, entries[n])'
    BY <1>1, <1>7, <2>1 DEF RunTrue, NotBegun
  <2>4. RecordTrue(n, d)' /\ AccountTrue(n, d)'
    BY <1>4, <2>2, RegistryAssumption DEF RecordTrue, AccountTrue
  <2>5. RecordTrue(n, entries[n])' /\ AccountTrue(n, entries[n])' /\ FileTrue(n)'
    BY <1>5, <1>6, <2>4 DEF RecordTrue, AccountTrue, FileTrue
  <2>6. Announcing(n, entries[n])'
    BY <1>1, <1>4, <1>6, <2>1, <2>2 DEF RunTrue, Announcing
  <2>7. Waking(n, entries[n])'
    BY <1>4, <1>6, <2>1 DEF Waking, Marked, Heard
  <2> QED BY <2>3, <2>5, <2>6, <2>7 DEF RunTrue, Down
<1> QED BY <1>10, <1>11, <1>12, <1>13 DEF RegistryInv

LEMMA SteerRestartsKeeps ==
    ASSUME RegistryInv, NEW r \in RunId, SteerRestarts(r)
    PROVE  RegistryInv'
<1>1. r \in steering /\ steering' = steering \ {r}
  BY DEF SteerRestarts, SteerDone
<1>2. restored /\ Begun(r)
  BY <1>1, IsUp DEF RegistryInv, RunTrue, NotBegun
<1>3. PICK n \in RunId : Replaced(r, n, FALSE)
  BY DEF SteerRestarts
<1>4. UNCHANGED <<style, sessions, restored, spent, freezing, flow, final,
                  retryTimers, resumeTimers, sweeping, announced>>
  BY DEF SteerRestarts
<1> QED BY <1>1, <1>2, <1>3, <1>4, ReplacedKeeps

LEMMA FlowWakesKeeps ==
    ASSUME RegistryInv, NEW r \in RunId, FlowWakes(r)
    PROVE  RegistryInv'
<1>1. RegistryTyped /\ RunTrue(r) /\ restored /\ flow[r] = "waking" /\ ~ToldOnce(r) /\ Begun(r)
  BY IsUp DEF RegistryInv, FlowWakes, RunTrue, Announcing, NotBegun
<1>2. UNCHANGED <<style, sessions, restored, spent, freezing, final, retryTimers,
                  resumeTimers, steering, sweeping, announced>>
  BY DEF FlowWakes
<1>3. CASE (\E n \in RunId : Replaced(r, n, TRUE)) /\ flow' = [flow EXCEPT ![r] = "deferred"]
  BY <1>1, <1>2, <1>3, ReplacedKeeps
<1>4. CASE /\ flow' = [flow EXCEPT ![r] = Sends(r)]
           /\ UNCHANGED <<entries, disk, sessionOf, turn, errorTimers, waits, resumed, excused>>
  <2>1. PICK place \in {"sending", "deferred"} : flow' = [flow EXCEPT ![r] = place]
    BY <1>4 DEF Sends
  <2>2. announced \in [RunId -> 0..2] /\ excused \in [RunId -> SUBSET Excuses] /\ spent \in 0..MaxUpsets
    BY <1>1 DEF RegistryTyped
  <2>3. announced[r] <= 1 \/ "lost" \in excused[r]
    BY <1>1 DEF RunTrue, Announcing
  <2>4. ~ToldOnce(r)'
    BY <1>1, <1>2, <1>4 DEF ToldOnce
  <2>5. announced'[r] >= announced[r]
    BY <1>2, <2>2
  <2> QED BY <1>1, <1>2, <1>4, <2>1, <2>2, <2>3, <2>4, <2>5, FlowMoves
<1> QED BY <1>3, <1>4 DEF FlowWakes

LEMMA RegisterKeeps ==
    ASSUME RegistryInv, NEW r \in RunId, NEW s \in Session, Register(r, s)
    PROVE  RegistryInv'
<1>1. /\ RegistryTyped /\ RunTrue(r) /\ restored /\ ~Begun(r) /\ s \in DOMAIN style
      /\ entries' = [entries EXCEPT ![r] = Fresh] /\ disk' = entries'
      /\ sessionOf' = [sessionOf EXCEPT ![r] = s] /\ sessions' = sessions \cup {s}
      /\ turn' = [turn EXCEPT ![r] = "running"] /\ waits' = waits \cup {r}
      /\ UNCHANGED <<style, restored, spent, errorTimers, freezing, flow, final,
                     retryTimers, resumeTimers, resumed, steering, sweeping, announced, excused>>
  BY DEF RegistryInv, Register, IsNext, Used, Begun, PersistRuns, outcomes
<1>2. /\ entries' \in [RunId -> Record] /\ entries'[r] = Fresh
      /\ \A q \in RunId \ {r} : entries'[q] = entries[q]
      /\ sessionOf' \in [RunId -> Session \cup {Outside}] /\ sessionOf'[r] = s
      /\ turn' \in [RunId -> {"none", "running", "failing", "over"}] /\ turn'[r] = "running"
      /\ \A q \in RunId \ {r} : sessionOf'[q] = sessionOf[q] /\ turn'[q] = turn[q]
  BY <1>1, NewRecords DEF RegistryTyped
<1>3. RegistryTyped'
  BY <1>1, <1>2 DEF RegistryTyped
<1>4. ASSUME NEW q \in RunId \ {r} PROVE Still(q)
  BY <1>1, <1>2 DEF Still
<1>5. /\ Begun(r)' /\ flow'[r] = "no" /\ final'[r] = "no" /\ announced'[r] = 0 /\ freezing'[r] = 0
      /\ excused'[r] = excused[r] /\ r \in waits'
  BY <1>1, <1>2 DEF RunTrue, NotBegun, Begun
<1>6. ~Spoken(r)' /\ ~ToldOnce(r)'
  BY <1>5 DEF Spoken, ToldOnce
<1>7. NotBegun(r, entries[r])'
  BY <1>1, <1>2, <1>5 DEF NotBegun
<1>8. RecordTrue(r, Fresh)' /\ AccountTrue(r, Fresh)'
  BY <1>6, NewRecords, RegistryAssumption DEF RecordTrue, AccountTrue
<1>9. RecordTrue(r, entries[r])' /\ AccountTrue(r, entries[r])' /\ FileTrue(r)'
  BY <1>1, <1>2, <1>8 DEF RecordTrue, AccountTrue, FileTrue
<1>10. Announcing(r, entries[r])'
  BY <1>1, <1>2, <1>5, <1>6, NewRecords DEF RunTrue, Announcing
<1>11. Waking(r, entries[r])'
  BY <1>2, <1>5, NewRecords DEF Waking, Marked, Heard
<1>12. RunTrue(r)'
  BY <1>1, <1>7, <1>9, <1>10, <1>11 DEF RunTrue, Down
<1> QED BY <1>1, <1>3, <1>4, <1>12, OneKeeps

\* The record of a run whose announcement is tried again.
LEMMA TriedIs ==
    ASSUME NEW e \in Record, e.retries < MaxAnnounces, NEW t,
           t = [e EXCEPT !.retries = @ + 1, !.tried = TRUE]
    PROVE  /\ t \in Record /\ t.present = e.present /\ t.ended = e.ended /\ t.reason = e.reason
           /\ t.suppress = e.suppress /\ t.handled = e.handled /\ t.completed = e.completed
<1>1. PICK n \in 0..MaxAnnounces : n = e.retries + 1
  BY RegistryAssumption DEF Record
<1>2. t = [e EXCEPT !.retries = n, !.tried = TRUE]
  BY <1>1
<1> QED BY <1>2 DEF Record

\* What FlowLeaves does with the run: nothing, a finalization, or another try.
LeavesRun(r, e, d) ==
    \/ /\ ~e.present /\ d = e /\ entries' = entries /\ final' = final
       /\ UNCHANGED <<disk, resumed, retryTimers>>
    \/ /\ e.present /\ d \in Record /\ d.present /\ d.ended = e.ended /\ d.reason = e.reason
       /\ d.suppress = e.suppress /\ d.handled = e.handled /\ d.completed = e.completed
       /\ flow[r] = "done" \/ "letGo" \in excused'[r]
       /\ entries' = [entries EXCEPT ![r] = d]
       /\ final'[r] \in {"keep", "delete"} /\ final' = [final EXCEPT ![r] = final'[r]]
       /\ UNCHANGED <<disk, resumed, retryTimers>>
    \/ /\ e.present /\ d \in Record /\ d.present /\ d.ended = e.ended
       /\ d.suppress = e.suppress /\ ~d.handled /\ d.completed = e.completed
       /\ d.retries < MaxAnnounces /\ flow[r] # "done"
       /\ entries' = [entries EXCEPT ![r] = d] /\ disk' = entries' /\ final' = final
       /\ retryTimers' = retryTimers \cup {r} /\ resumed' = resumed \ {r}

LEMMA FlowLeavesIs ==
    ASSUME RegistryTyped, NEW r \in RunId, RunTrue(r), FlowLeaves(r),
           NEW e \in Record, e = entries[r]
    PROVE  /\ \E d : LeavesRun(r, e, d)
           /\ \E why \in SUBSET {"deletedEarly", "letGo"} :
                  excused' = [excused EXCEPT ![r] = excused[r] \cup why]
<1> DEFINE early == IF Deletes(r) /\ flow[r] = "failed" THEN {"deletedEarly"} ELSE {}
           excusing(why) == excused' = [excused EXCEPT ![r] = excused[r] \cup early \cup why]
           counts == Pending(sessionOf[r]) = {}
           tried == IF counts THEN [e EXCEPT !.retries = @ + 1, !.tried = TRUE] ELSE e
           finalizing(c, cleanup) ==
               /\ entries' = [entries EXCEPT ![r] = [c EXCEPT !.wake = FALSE]]
               /\ final' = [final EXCEPT ![r] = cleanup]
               /\ UNCHANGED <<disk, resumed, retryTimers>>
<1>1. \/ /\ ~e.present /\ excusing({})
         /\ UNCHANGED <<entries, disk, final, resumed, retryTimers>>
      \/ /\ e.present /\ flow[r] = "done" /\ finalizing(e, Style(r).cleanup) /\ excusing({})
      \/ /\ e.present /\ flow[r] # "done" /\ finalizing(tried, "keep") /\ excusing({"letGo"})
      \/ /\ e.present /\ flow[r] # "done"
         /\ counts => tried.retries < MaxAnnounces
         /\ entries' = [entries EXCEPT ![r] = [tried EXCEPT !.handled = FALSE, !.tried = TRUE,
                                                           !.wake = @ \/ ~counts]]
         /\ PersistRuns
         /\ RetryLater(r) /\ excusing({}) /\ UNCHANGED final
  BY DEF FlowLeaves
<1>2. early \in SUBSET {"deletedEarly", "letGo"} /\ counts \in BOOLEAN
  OBVIOUS
<1> HIDE DEF early, counts
<1>3. \E why \in SUBSET {"deletedEarly", "letGo"} :
          excused' = [excused EXCEPT ![r] = excused[r] \cup why]
  <2>1. excusing({}) \/ excusing({"letGo"})
    BY <1>1
  <2>2. CASE excusing({})
    <3>1. excused' = [excused EXCEPT ![r] = excused[r] \cup early]
      BY <2>2
    <3> QED BY <1>2, <3>1
  <2>3. CASE excusing({"letGo"})
    <3>1. PICK why : why = early \cup {"letGo"}
      OBVIOUS
    <3>2. excused' = [excused EXCEPT ![r] = excused[r] \cup why]
      BY <2>3, <3>1
    <3> QED BY <1>2, <3>1, <3>2
  <2> QED BY <2>1, <2>2, <2>3
<1>4. /\ flow[r] # "no" /\ e.present => e.retries < MaxAnnounces /\ sessionOf[r] \in DOMAIN style
      /\ final \in [RunId -> {"no", "keep", "delete"}]
      /\ excused \in [RunId -> SUBSET Excuses]
  BY DEF FlowLeaves, RunTrue, Announcing, NotBegun, RegistryTyped
<1>5. e.present => /\ tried \in Record /\ tried.present = e.present /\ tried.ended = e.ended
                   /\ tried.reason = e.reason /\ tried.suppress = e.suppress
                   /\ tried.handled = e.handled /\ tried.completed = e.completed
                   /\ tried.wake \in BOOLEAN /\ (counts \/ tried.retries < MaxAnnounces)
  <2> SUFFICES ASSUME e.present, e.retries < MaxAnnounces
               PROVE  /\ tried \in Record /\ tried.present = e.present /\ tried.ended = e.ended
                      /\ tried.reason = e.reason /\ tried.suppress = e.suppress
                      /\ tried.handled = e.handled /\ tried.completed = e.completed
                      /\ tried.wake \in BOOLEAN /\ (counts \/ tried.retries < MaxAnnounces)
    BY <1>4 DEF FlowLeaves
  <2>1. CASE counts
    <3>1. PICK t : t = [e EXCEPT !.retries = @ + 1, !.tried = TRUE]
      OBVIOUS
    <3>2. tried = t
      BY <2>1, <3>1
    <3> HIDE DEF tried
    <3>3. /\ t \in Record /\ t.present = e.present /\ t.ended = e.ended
          /\ t.reason = e.reason /\ t.suppress = e.suppress
          /\ t.handled = e.handled /\ t.completed = e.completed
      BY ONLY <3>1, e \in Record, e.retries < MaxAnnounces, TriedIs
    <3> QED BY <2>1, <3>2, <3>3 DEF Record
  <2>2. CASE ~counts
    <3>1. tried = e
      BY <2>2
    <3> HIDE DEF tried
    <3> QED BY <3>1 DEF Record
  <2> QED BY <2>1, <2>2
<1> HIDE DEF tried
<1>6. CASE ~e.present
  <2>1. LeavesRun(r, e, e)
    BY <1>1, <1>6 DEF LeavesRun
  <2> QED BY <1>3, <2>1
<1>7. CASE e.present /\ flow[r] = "done" /\ finalizing(e, Style(r).cleanup)
  <2>1. PICK d : d = [e EXCEPT !.wake = FALSE]
    OBVIOUS
  <2>2. /\ d \in Record /\ d.present /\ d.ended = e.ended /\ d.reason = e.reason
        /\ d.suppress = e.suppress /\ d.handled = e.handled /\ d.completed = e.completed
    BY <1>7, <2>1 DEF Record
  <2>3. PICK c \in {"keep", "delete"} : c = Style(r).cleanup
    BY <1>4, <1>7 DEF RegistryTyped, Style
  <2>4. final' = [final EXCEPT ![r] = c] /\ final'[r] = c
    BY <1>4, <1>7, <2>3
  <2>5. LeavesRun(r, e, d)
    BY <1>7, <2>1, <2>2, <2>4 DEF LeavesRun
  <2> QED BY <1>3, <2>5
<1>8. CASE e.present /\ flow[r] # "done" /\ finalizing(tried, "keep") /\ excusing({"letGo"})
  <2>1. PICK d : d = [tried EXCEPT !.wake = FALSE]
    OBVIOUS
  <2>2. PICK t \in Record : t = tried
    BY <1>5, <1>8
  <2>3. /\ d \in Record /\ d.present = t.present /\ d.ended = t.ended /\ d.reason = t.reason
        /\ d.suppress = t.suppress /\ d.handled = t.handled /\ d.completed = t.completed
    BY <2>1, <2>2 DEF Record
  <2>4. final' = [final EXCEPT ![r] = "keep"] /\ final'[r] = "keep"
    BY <1>4, <1>8
  <2>5. "letGo" \in excused'[r]
    BY <1>4, <1>8
  <2>6. entries' = [entries EXCEPT ![r] = d] /\ UNCHANGED <<disk, resumed, retryTimers>>
    BY <1>8, <2>1
  <2>7. LeavesRun(r, e, d)
    BY <1>5, <1>8, <2>2, <2>3, <2>4, <2>5, <2>6 DEF LeavesRun
  <2> QED BY <1>3, <2>7
<1>9. CASE /\ e.present /\ flow[r] # "done"
           /\ counts => tried.retries < MaxAnnounces
           /\ entries' = [entries EXCEPT ![r] = [tried EXCEPT !.handled = FALSE, !.tried = TRUE,
                                                             !.wake = @ \/ ~counts]]
           /\ PersistRuns
           /\ RetryLater(r) /\ UNCHANGED final
  <2>1. PICK t \in Record : t = tried
    BY <1>5, <1>9
  <2>2. PICK w \in BOOLEAN : w = (t.wake \/ ~counts)
    BY <1>2
  <2>3. PICK d : d = [t EXCEPT !.handled = FALSE, !.tried = TRUE, !.wake = w]
    OBVIOUS
  <2>4. /\ d \in Record /\ d.present = t.present /\ d.ended = t.ended
        /\ d.suppress = t.suppress /\ ~d.handled /\ d.completed = t.completed
        /\ d.retries = t.retries
    BY <2>3 DEF Record
  <2>5. entries' = [entries EXCEPT ![r] = d]
    BY <1>9, <2>1, <2>2, <2>3
  <2>6. d.retries < MaxAnnounces
    BY <1>5, <1>9, <2>1, <2>4
  <2>7. LeavesRun(r, e, d)
    BY <1>5, <1>9, <2>1, <2>4, <2>5, <2>6 DEF LeavesRun, PersistRuns, RetryLater
  <2> QED BY <1>3, <2>7
<1> QED BY <1>1, <1>6, <1>7, <1>8, <1>9, <1>3

LEMMA FlowLeavesKeeps ==
    ASSUME RegistryInv, NEW r \in RunId, FlowLeaves(r)
    PROVE  RegistryInv'
<1>1. /\ RegistryTyped /\ RunTrue(r) /\ restored
      /\ flow[r] \in {"done", "failed", "deferred"} /\ flow' = [flow EXCEPT ![r] = "no"]
      /\ sessions' \subseteq sessions
      /\ UNCHANGED <<sessionOf, style, turn, restored, spent, errorTimers, waits, freezing,
                     resumeTimers, steering, sweeping, announced>>
  BY IsUp DEF RegistryInv, FlowLeaves
<1>2. PICK e \in Record : e = entries[r]
  BY <1>1 DEF RegistryTyped
<1>3. /\ \E d : LeavesRun(r, e, d)
      /\ \E why \in SUBSET {"deletedEarly", "letGo"} :
             excused' = [excused EXCEPT ![r] = excused[r] \cup why]
  BY <1>1, <1>2, FlowLeavesIs
<1>4. PICK d : LeavesRun(r, e, d)
  BY <1>3
<1>5. PICK why \in SUBSET {"deletedEarly", "letGo"} :
          excused' = [excused EXCEPT ![r] = excused[r] \cup why]
  BY <1>3
<1>6. /\ excused' \in [RunId -> SUBSET Excuses] /\ excused'[r] = excused[r] \cup why
      /\ \A q \in RunId \ {r} : excused'[q] = excused[q]
  BY <1>1, <1>5 DEF RegistryTyped, Excuses
<1>7. /\ flow' \in [RunId -> {"no", "checking", "waking", "sending", "done", "failed", "deferred"}]
      /\ flow'[r] = "no" /\ \A q \in RunId \ {r} : flow'[q] = flow[q]
  BY <1>1 DEF RegistryTyped
<1>8. /\ final' \in [RunId -> {"no", "keep", "delete"}]
      /\ \A q \in RunId \ {r} : final'[q] = final[q]
  BY <1>1, <1>4 DEF RegistryTyped, LeavesRun
<1>9. /\ entries' \in [RunId -> Record] /\ entries'[r] = d
      /\ \A q \in RunId \ {r} : entries'[q] = entries[q]
      /\ disk' = disk \/ disk' = entries'
  BY <1>1, <1>2, <1>4 DEF RegistryTyped, LeavesRun
<1>10. RegistryTyped'
  BY <1>1, <1>6, <1>7, <1>8, <1>9 DEF RegistryTyped
<1>11. ASSUME NEW q \in RunId \ {r} PROVE Still(q)
  <2>1. (q \in retryTimers' <=> q \in retryTimers) /\ (q \in resumed' <=> q \in resumed)
    BY <1>4 DEF LeavesRun
  <2> QED BY <1>1, <1>6, <1>7, <1>8, <1>9, <2>1 DEF Still
<1>12. /\ Begun(r)' /\ Begun(r) /\ (ToldOnce(r)' <=> ToldOnce(r)) /\ (Told(r) => Told(r)')
       /\ "overlapped" \notin excused'[r]
       /\ announced'[r] <= 1 \/ "lost" \in excused'[r]
       /\ Spoken(r) /\ final[r] = "no" /\ sessionOf[r] \in DOMAIN style
       /\ "crashed" \in excused[r] => "crashed" \in excused'[r]
       /\ e.present => e.ended /\ e.suppress # "killed" /\ ~Claimable(e)
       /\ flow[r] = "done" => Told(r)
       /\ flow[r] # "done" => ~ToldOnce(r)
  BY <1>1, <1>2, <1>6
     DEF Begun, ToldOnce, Told, Excused, Spoken, RunTrue, Announcing, NotBegun, RecordTrue
<1>13. NotBegun(r, entries[r])'
  BY <1>1, <1>12 DEF NotBegun
<1>14. /\ RecordTrue(r, d)' /\ AccountTrue(r, d)' /\ Announcing(r, d)' /\ Waking(r, d)'
       /\ FileTrue(r)'
  <2>1. CASE /\ ~e.present /\ d = e /\ entries' = entries /\ final' = final
             /\ UNCHANGED <<disk, resumed, retryTimers>>
    <3>1. Spoken(r)' => Spoken(r)
      BY <1>12
    <3>2. RecordTrue(r, d)' /\ AccountTrue(r, d)' /\ FileTrue(r)'
      BY <1>1, <1>2, <1>12, <2>1, <3>1 DEF RunTrue, RecordTrue, AccountTrue, FileTrue
    <3>3. Announcing(r, d)' /\ Waking(r, d)'
      BY <1>7, <1>12, <2>1 DEF Announcing, Waking
    <3> QED BY <3>2, <3>3
  <2>2. CASE /\ e.present /\ d \in Record /\ d.present /\ d.ended = e.ended /\ d.reason = e.reason
             /\ d.suppress = e.suppress /\ d.handled = e.handled /\ d.completed = e.completed
             /\ flow[r] = "done" \/ "letGo" \in excused'[r]
             /\ final'[r] \in {"keep", "delete"}
             /\ UNCHANGED <<disk, resumed, retryTimers>>
    <3>1. Told(r)' /\ ~Claimable(d)
      BY <1>12, <2>2 DEF Told, Excused, Claimable
    <3>2. RecordTrue(r, d)' /\ AccountTrue(r, d)'
      BY <1>12, <2>2, <3>1 DEF RecordTrue, AccountTrue
    <3>3. FileTrue(r)'
      BY <1>1, <1>12, <2>2, <3>1 DEF RunTrue, RecordTrue, AccountTrue, FileTrue
    <3>4. Announcing(r, d)'
      BY <1>7, <1>12, <2>2, <3>1 DEF Announcing
    <3>5. Waking(r, d)'
      BY <1>1, <1>2, <1>12, <2>2, <3>1 DEF RunTrue, Waking, Marked
    <3> QED BY <3>2, <3>3, <3>4, <3>5
  <2>3. CASE /\ e.present /\ d \in Record /\ d.present /\ d.ended = e.ended
             /\ d.suppress = e.suppress /\ ~d.handled /\ d.completed = e.completed
             /\ d.retries < MaxAnnounces /\ flow[r] # "done" /\ final' = final
             /\ disk' = entries'
             /\ retryTimers' = retryTimers \cup {r} /\ resumed' = resumed \ {r}
    <3>1. ~Spoken(r)'
      BY <1>7, <1>12, <2>3 DEF Spoken
    <3>2. d.retries \in Nat
      BY <2>3 DEF Record
    <3>3. RecordTrue(r, d)'
      BY <1>12, <2>3, <3>1, <3>2, RegistryAssumption DEF RecordTrue
    <3>4. AccountTrue(r, d)'
      BY <1>1, <1>2, <1>12, <2>3 DEF RunTrue, AccountTrue
    <3>5. FileTrue(r)'
      BY <1>9, <2>3, <3>3, <3>4 DEF FileTrue, RecordTrue, AccountTrue
    <3>6. Announcing(r, d)'
      BY <1>7, <1>12, <2>3 DEF Announcing
    <3>7. Waking(r, d)'
      BY <1>1, <1>2, <1>12, <2>3 DEF RunTrue, Waking, Marked, Comes
    <3> QED BY <3>3, <3>4, <3>5, <3>6, <3>7
  <2> QED BY <1>4, <2>1, <2>2, <2>3 DEF LeavesRun
<1>15. /\ RecordTrue(r, entries[r])' /\ AccountTrue(r, entries[r])' /\ Announcing(r, entries[r])'
       /\ Waking(r, entries[r])'
  BY <1>9, <1>14 DEF RecordTrue, AccountTrue, Announcing, Waking, Marked, Comes
<1>16. RunTrue(r)'
  BY <1>1, <1>13, <1>14, <1>15 DEF RunTrue, Down
<1> QED BY <1>1, <1>10, <1>11, <1>16, OneKeeps

\* The bound on the upsets is kept.
LEMMA UpsetTyped ==
    ASSUME RegistryTyped, Upset
    PROVE  spent' \in 0..MaxUpsets
  BY RegistryAssumption DEF RegistryTyped, Upset

\* The turn of a run and what is heard of it change, and nothing else.
LEMMA HearingKeeps ==
    ASSUME RegistryInv, NEW r \in RunId, restored, RegistryTyped',
           UNCHANGED <<entries, sessionOf, style, restored, freezing, flow, final, retryTimers,
                       resumeTimers, resumed, steering, announced>>,
           disk' = disk \/ disk' = entries,
           turn[r] # "none" /\ turn'[r] # "none",
           \A q \in RunId \ {r} :
                /\ turn'[q] = turn[q] /\ excused'[q] = excused[q]
                /\ q \in waits' <=> q \in waits
                /\ q \in errorTimers' <=> q \in errorTimers,
           excused'[r] = excused[r] \/ excused'[r] = excused[r] \cup {"unheard"},
           entries[r].present /\ ~entries[r].ended =>
                Heard(r)' /\ (turn'[r] = "failing" => r \in errorTimers')
    PROVE  RegistryInv'
<1>1. RegistryTyped /\ RunTrue(r)
  BY DEF RegistryInv
<1>2. ASSUME NEW q \in RunId \ {r} PROVE Still(q)
  BY DEF Still
<1>3. /\ Begun(r) /\ Begun(r)' /\ (Told(r)' <=> Told(r)) /\ (ToldOnce(r)' <=> ToldOnce(r))
      /\ Spoken(r)' <=> Spoken(r)
      /\ "overlapped" \in excused'[r] <=> "overlapped" \in excused[r]
      /\ "lost" \in excused'[r] <=> "lost" \in excused[r]
      /\ "crashed" \in excused'[r] <=> "crashed" \in excused[r]
  BY DEF Begun, Told, Excused, ToldOnce, Spoken
<1>4. NotBegun(r, entries[r])'
  BY <1>1, <1>3 DEF RunTrue, NotBegun
<1>5. RecordTrue(r, entries[r])' /\ AccountTrue(r, entries[r])'
  BY <1>1, <1>3 DEF RunTrue, RecordTrue, AccountTrue
<1>6. FileTrue(r)'
  <2>1. CASE disk' = entries
    BY <1>5, <2>1 DEF FileTrue, RecordTrue, AccountTrue
  <2>2. CASE disk' = disk
    BY <1>1, <1>3, <2>2 DEF RunTrue, FileTrue, RecordTrue, AccountTrue
  <2> QED BY <2>1, <2>2
<1>7. Announcing(r, entries[r])'
  BY <1>1, <1>3 DEF RunTrue, Announcing
<1>8. Waking(r, entries[r])'
  BY <1>1, <1>3 DEF RunTrue, Waking, Marked, Comes
<1> QED BY <1>1, <1>2, <1>4, <1>5, <1>6, <1>7, <1>8, OneKeeps DEF RunTrue, Down

LEMMA TurnErrsKeeps ==
    ASSUME RegistryInv, NEW r \in RunId, TurnErrs(r)
    PROVE  RegistryInv'
<1>1. /\ RegistryTyped /\ restored /\ turn[r] = "running" /\ Upset
      /\ turn' = [turn EXCEPT ![r] = "failing"]
      /\ errorTimers' = IF entries[r].present THEN errorTimers \cup {r} ELSE errorTimers
      /\ UNCHANGED <<entries, disk, sessionOf, style, sessions, restored, waits, freezing,
                     flow, final, retryTimers, resumeTimers, resumed, steering,
                     sweeping, announced, excused>>
  BY IsUp DEF RegistryInv, TurnErrs, outcomes
<1>2. /\ turn' \in [RunId -> {"none", "running", "failing", "over"}] /\ turn'[r] = "failing"
      /\ \A q \in RunId \ {r} : turn'[q] = turn[q]
  BY <1>1 DEF RegistryTyped
<1>3. RegistryTyped'
  BY <1>1, <1>2, UpsetTyped DEF RegistryTyped
<1> QED BY <1>1, <1>2, <1>3, HearingKeeps DEF Heard

LEMMA TurnRetriesKeeps ==
    ASSUME RegistryInv, NEW r \in RunId, TurnRetries(r)
    PROVE  RegistryInv'
<1>1. /\ RegistryTyped /\ RunTrue(r) /\ restored /\ turn[r] = "failing"
      /\ disk' = disk \/ disk' = entries
      /\ \/ turn' = [turn EXCEPT ![r] = "running"] /\ errorTimers' = errorTimers \ {r}
         \/ turn' = [turn EXCEPT ![r] = "over"] /\ errorTimers' = errorTimers
      /\ UNCHANGED <<entries, sessionOf, style, sessions, restored, spent, waits, freezing,
                     flow, final, retryTimers, resumeTimers, resumed, steering,
                     sweeping, announced, excused>>
  BY IsUp DEF RegistryInv, TurnRetries, PersistRuns, outcomes
<1>2. /\ turn' \in [RunId -> {"none", "running", "failing", "over"}]
      /\ turn'[r] = "running" \/ (turn'[r] = "over" /\ errorTimers' = errorTimers)
      /\ \A q \in RunId \ {r} : /\ turn'[q] = turn[q]
                                /\ q \in errorTimers' <=> q \in errorTimers
  BY <1>1 DEF RegistryTyped
<1>3. RegistryTyped'
  BY <1>1, <1>2 DEF RegistryTyped
<1>4. entries[r].present /\ ~entries[r].ended => r \in errorTimers
  BY <1>1 DEF RunTrue, Waking
<1>5. entries[r].present /\ ~entries[r].ended =>
           Heard(r)' /\ (turn'[r] = "failing" => r \in errorTimers')
  BY <1>2, <1>4 DEF Heard
<1> QED BY <1>1, <1>2, <1>3, <1>5, HearingKeeps

LEMMA WaitFailsKeeps ==
    ASSUME RegistryInv, NEW r \in RunId, WaitFails(r)
    PROVE  RegistryInv'
<1>1. /\ RegistryTyped /\ RunTrue(r) /\ restored /\ Upset
      /\ waits' = waits \ {r}
      /\ excused' = IF turn[r] = "over" /\ r \notin errorTimers /\ ~entries[r].ended
                    THEN [excused EXCEPT ![r] = excused[r] \cup {"unheard"}] ELSE excused
      /\ UNCHANGED <<entries, disk, sessionOf, style, sessions, turn, restored, errorTimers,
                     freezing, flow, final, retryTimers, resumeTimers, resumed, steering,
                     sweeping, announced>>
  BY IsUp DEF RegistryInv, WaitFails, Excuse
<1>2. /\ excused' \in [RunId -> SUBSET Excuses]
      /\ \A q \in RunId \ {r} : excused'[q] = excused[q]
      /\ IF turn[r] = "over" /\ r \notin errorTimers /\ ~entries[r].ended
         THEN excused'[r] = excused[r] \cup {"unheard"} ELSE excused'[r] = excused[r]
  BY <1>1 DEF RegistryTyped, Excuses
<1>3. RegistryTyped'
  BY <1>1, <1>2, UpsetTyped DEF RegistryTyped
<1>4. CASE Begun(r)
  <2>1. turn[r] \in {"running", "failing", "over"}
    BY <1>1, <1>4 DEF RegistryTyped, Begun
  <2>2. entries[r].present /\ ~entries[r].ended =>
             Heard(r)' /\ (turn'[r] = "failing" => r \in errorTimers')
    BY <1>1, <1>2, <2>1 DEF RunTrue, Waking, Heard
  <2> QED BY <1>1, <1>2, <1>3, <2>1, <2>2, HearingKeeps
<1>5. CASE ~Begun(r)
  <2>1. turn[r] = "none" /\ ~entries[r].present /\ excused' = excused
    BY <1>1, <1>5 DEF Begun, RunTrue, NotBegun
  <2>2. ASSUME NEW q \in RunId \ {r} PROVE Still(q)
    BY <1>1, <2>1 DEF Still
  <2>3. /\ ~Begun(r)' /\ (ToldOnce(r)' <=> ToldOnce(r)) /\ (Told(r)' <=> Told(r)) /\ (Spoken(r)' <=> Spoken(r))
    BY <1>1, <2>1 DEF Begun, ToldOnce, Told, Excused, Spoken
  <2>4. NotBegun(r, entries[r])' /\ RecordTrue(r, entries[r])' /\ AccountTrue(r, entries[r])' /\ FileTrue(r)'
    BY <1>1, <1>5, <2>1, <2>3 DEF RunTrue, NotBegun, RecordTrue, AccountTrue, FileTrue
  <2>5. Announcing(r, entries[r])' /\ Waking(r, entries[r])'
    BY <1>1, <2>1, <2>3 DEF RunTrue, Announcing, Waking
  <2> QED BY <1>1, <1>3, <2>2, <2>4, <2>5, OneKeeps DEF RunTrue, Down
<1> QED BY <1>4, <1>5

\* A kill or a steer finds a run that has not ended and that nobody has claimed.
LEMMA OpenIs ==
    ASSUME RegistryInv, NEW r \in RunId, entries[r].present, ~entries[r].ended
    PROVE  /\ restored /\ Begun(r) /\ ~Spoken(r) /\ ~entries[r].handled
           /\ entries[r].completed = "no" /\ entries[r].retries = 0 /\ ~entries[r].tried
           /\ entries[r].suppress # "killed"
<1>1. RegistryTyped /\ RunTrue(r) /\ restored
  BY IsUp DEF RegistryInv
<1>2. PICK e \in Record : e = entries[r]
  BY <1>1 DEF RegistryTyped
<1>3. e.retries \in Nat
  BY <1>2 DEF Record
<1> QED BY <1>1, <1>2, <1>3 DEF RunTrue, NotBegun, RecordTrue

\* The record of a run that has not ended is changed, and written.
LEMMA MarkedKeeps ==
    ASSUME RegistryInv, NEW r \in RunId, entries[r].present, ~entries[r].ended,
           NEW d \in Record, d.present, d.retries = 0,
           entries' = [entries EXCEPT ![r] = d], disk' = entries', RegistryTyped',
           UNCHANGED <<sessionOf, style, turn, restored, waits, freezing, flow, final, retryTimers,
                       resumeTimers, resumed, announced, excused>>,
           \A q \in RunId \ {r} : /\ q \in errorTimers' <=> q \in errorTimers
                                  /\ q \in steering' <=> q \in steering,
           \/ /\ d.ended /\ d.suppress = "killed" /\ d.handled /\ d.completed # "no"
           \/ /\ ~d.ended /\ d.suppress = "steer" /\ ~d.handled /\ d.completed = "no" /\ ~d.tried
              /\ d.reason = entries[r].reason /\ r \in steering' /\ errorTimers' = errorTimers
    PROVE  RegistryInv'
<1>1. /\ RegistryTyped /\ RunTrue(r) /\ restored /\ Begun(r) /\ ~Spoken(r)
      /\ entries[r].completed = "no"
  BY OpenIs DEF RegistryInv
<1>2. entries'[r] = d /\ \A q \in RunId \ {r} : entries'[q] = entries[q]
  BY <1>1 DEF RegistryTyped
<1>3. ASSUME NEW q \in RunId \ {r} PROVE Still(q)
  BY <1>2 DEF Still
<1>4. /\ Begun(r)' /\ ~Spoken(r)' /\ (Told(r)' <=> Told(r)) /\ ~ToldOnce(r)'
      /\ flow'[r] = "no" /\ final'[r] = "no"
  BY <1>1 DEF Begun, Spoken, Told, Excused, ToldOnce
<1>5. NotBegun(r, entries[r])'
  BY <1>1, <1>4 DEF RunTrue, NotBegun
<1>6. RecordTrue(r, d)' /\ AccountTrue(r, d)'
  BY <1>1, <1>4, RegistryAssumption DEF RunTrue, RecordTrue, AccountTrue, Claimable
<1>7. Announcing(r, d)'
  BY <1>1, <1>4, RegistryAssumption DEF RunTrue, Announcing
<1>8. Waking(r, d)'
  BY <1>1 DEF RunTrue, Waking, Marked, Claimable, Heard
<1>9. FileTrue(r)'
  BY <1>2, <1>6 DEF FileTrue, RecordTrue, AccountTrue
<1>10. /\ RecordTrue(r, entries[r])' /\ AccountTrue(r, entries[r])' /\ Announcing(r, entries[r])'
       /\ Waking(r, entries[r])'
  BY <1>2, <1>6, <1>7, <1>8 DEF RecordTrue, AccountTrue, Announcing, Waking, Marked, Comes
<1> QED BY <1>1, <1>3, <1>5, <1>9, <1>10, OneKeeps DEF RunTrue, Down

LEMMA KillKeeps ==
    ASSUME RegistryInv, NEW r \in RunId, Kill(r)
    PROVE  RegistryInv'
<1>1. /\ RegistryTyped /\ Upset /\ entries[r].present /\ ~entries[r].ended /\ entries[r].retries = 0
      /\ errorTimers' = errorTimers \ {r} /\ disk' = entries'
      /\ UNCHANGED <<sessionOf, style, sessions, turn, restored, waits, freezing, flow, final,
                     retryTimers, resumeTimers, resumed, steering, sweeping, announced, excused>>
  BY OpenIs DEF RegistryInv, Kill, PersistRuns, outcomes
<1>2. PICK e \in Record : e = entries[r]
  BY <1>1 DEF RegistryTyped
<1>3. PICK c : c = [e EXCEPT !.ended = TRUE, !.reason = "killed", !.handled = TRUE,
                              !.suppress = "killed"]
  OBVIOUS
<1>4. c \in Record /\ c.present = e.present /\ c.ended /\ c.suppress = "killed" /\ c.handled
      /\ c.retries = e.retries
  BY <1>3 DEF Record
<1>5. PICK d : d = Completed(r, c)
  OBVIOUS
<1>6. /\ d \in Record /\ d.present /\ d.ended /\ d.suppress = "killed" /\ d.handled
      /\ d.completed # "no" /\ d.retries = 0
  BY <1>1, <1>2, <1>4, <1>5, CompletedIs
<1>7. entries' = [entries EXCEPT ![r] = d]
  BY <1>2, <1>3, <1>5 DEF Kill
<1>8. entries' \in [RunId -> Record]
  BY <1>1, <1>6, <1>7 DEF RegistryTyped
<1>9. RegistryTyped'
  BY <1>1, <1>8, UpsetTyped DEF RegistryTyped
<1>10. \A q \in RunId \ {r} : (q \in errorTimers' <=> q \in errorTimers) /\ (q \in steering' <=> q \in steering)
  BY <1>1
<1> QED BY <1>1, <1>6, <1>7, <1>9, <1>10, MarkedKeeps

LEMMA SteerBeginsKeeps ==
    ASSUME RegistryInv, NEW r \in RunId, SteerBegins(r)
    PROVE  RegistryInv'
<1>1. /\ RegistryTyped /\ Upset /\ entries[r].present /\ ~entries[r].ended /\ entries[r].retries = 0
      /\ ~entries[r].handled /\ entries[r].completed = "no" /\ ~entries[r].tried
      /\ steering' = steering \cup {r} /\ disk' = entries'
      /\ UNCHANGED <<sessionOf, style, sessions, turn, restored, errorTimers, waits, freezing, flow, final,
                     retryTimers, resumeTimers, resumed, sweeping, announced, excused>>
  BY OpenIs DEF RegistryInv, SteerBegins, PersistRuns, outcomes
<1>2. PICK e \in Record : e = entries[r]
  BY <1>1 DEF RegistryTyped
<1>3. PICK d : d = [e EXCEPT !.suppress = "steer"]
  OBVIOUS
<1>4. /\ d \in Record /\ d.present = e.present /\ d.ended = e.ended /\ d.suppress = "steer"
      /\ d.handled = e.handled /\ d.completed = e.completed /\ d.retries = e.retries
      /\ d.tried = e.tried /\ d.reason = e.reason
  BY <1>3 DEF Record
<1>5. entries' = [entries EXCEPT ![r] = d]
  BY <1>2, <1>3 DEF SteerBegins
<1>6. entries' \in [RunId -> Record]
  BY <1>1, <1>4, <1>5 DEF RegistryTyped
<1>7. RegistryTyped'
  BY <1>1, <1>6, UpsetTyped DEF RegistryTyped
<1>8. /\ r \in steering'
      /\ \A q \in RunId \ {r} : (q \in errorTimers' <=> q \in errorTimers) /\ (q \in steering' <=> q \in steering)
  BY <1>1
<1> QED BY <1>1, <1>2, <1>4, <1>5, <1>7, <1>8, MarkedKeeps

LEMMA SweepKeeps ==
    ASSUME RegistryInv, NEW r \in RunId, Sweep(r)
    PROVE  RegistryInv'
<1>1. /\ RegistryTyped /\ RunTrue(r) /\ restored /\ Begun(r) /\ Upset
      /\ errorTimers' = errorTimers \ {r}
      /\ entries' = [entries EXCEPT ![r] = Absent]
      /\ excused' = [excused EXCEPT ![r] = excused[r] \cup {"letGo"}]
      /\ UNCHANGED <<disk, sessionOf, style, sessions, turn, restored, waits, freezing, flow,
                     final, retryTimers, resumeTimers, resumed, steering, announced>>
  BY IsUp DEF RegistryInv, RunTrue, NotBegun, Sweep, Excuse
<1>2. /\ entries' \in [RunId -> Record] /\ entries'[r] = Absent
      /\ \A q \in RunId \ {r} : entries'[q] = entries[q]
      /\ excused' \in [RunId -> SUBSET Excuses] /\ excused'[r] = excused[r] \cup {"letGo"}
      /\ \A q \in RunId \ {r} : excused'[q] = excused[q]
  BY <1>1, NewRecords DEF RegistryTyped, Excuses
<1>3. RegistryTyped'
  BY <1>1, <1>2, UpsetTyped DEF RegistryTyped
<1>4. ASSUME NEW q \in RunId \ {r} PROVE Still(q)
  BY <1>1, <1>2 DEF Still
<1>5. /\ Begun(r)' /\ Told(r)' /\ (ToldOnce(r)' <=> ToldOnce(r)) /\ (Spoken(r)' <=> Spoken(r))
  BY <1>1, <1>2 DEF Begun, Told, Excused, ToldOnce, Spoken
<1>6. ~entries'[r].present /\ entries'[r].completed = "no"
  BY <1>2, NewRecords
<1>7. NotBegun(r, entries[r])'
  BY <1>1, <1>5 DEF RunTrue, NotBegun
<1>8. RecordTrue(r, entries[r])' /\ AccountTrue(r, entries[r])' /\ Waking(r, entries[r])'
  BY <1>5, <1>6 DEF RecordTrue, AccountTrue, Waking
<1>9. FileTrue(r)'
  BY <1>1, <1>5 DEF RunTrue, FileTrue, RecordTrue, AccountTrue
<1>10. Announcing(r, entries[r])'
  BY <1>1, <1>2, <1>5, <1>6 DEF RunTrue, Announcing
<1> QED BY <1>1, <1>3, <1>4, <1>7, <1>8, <1>9, <1>10, OneKeeps DEF RunTrue, Down

LEMMA SweepEndsKeeps ==
    ASSUME RegistryInv, NEW r \in RunId, SweepEnds(r)
    PROVE  RegistryInv'
<1>1. /\ RegistryTyped /\ restored /\ sessions' \subseteq sessions
      /\ disk' = disk \/ disk' = entries
      /\ UNCHANGED <<entries, sessionOf, style, turn, restored, spent, errorTimers, waits, freezing,
                     flow, final, retryTimers, resumeTimers, resumed, steering, announced, excused>>
  BY IsUp DEF RegistryInv, SweepEnds, PersistRuns, outcomes
<1>2. RegistryTyped'
  BY <1>1 DEF RegistryTyped
<1>3. ASSUME NEW q \in RunId PROVE RunTrue(q)'
  <2>1. Still(q)
    BY <1>1 DEF Still
  <2> QED BY <1>1, <2>1, StillTrue DEF RegistryInv
<1> QED BY <1>2, <1>3 DEF RegistryInv

\* The process ends: what is written is true, and what it says is claimed is excused.
LEMMA GatewayDiesKeeps == RegistryInv /\ GatewayDies => RegistryInv'
<1> SUFFICES ASSUME RegistryInv, GatewayDies PROVE RegistryInv'
  OBVIOUS
<1>1. /\ RegistryTyped /\ Upset /\ restored /\ restored' = FALSE
      /\ entries' = [r \in RunId |-> Absent]
      /\ turn' = [r \in RunId |-> IF turn[r] = "none" THEN "none" ELSE "over"]
      /\ errorTimers' = {} /\ waits' = {} /\ retryTimers' = {}
      /\ resumeTimers' = {} /\ resumed' = {} /\ steering' = {} /\ sweeping' = {}
      /\ freezing' = [r \in RunId |-> 0]
      /\ flow' = [r \in RunId |-> "no"] /\ final' = [r \in RunId |-> "no"]
      /\ excused' = [r \in RunId |-> excused[r] \cup
            IF disk[r].present /\ disk[r].completed = "no"
               /\ (disk[r].handled \/ disk[r].suppress = "steer")
            THEN {"crashed"} ELSE {}]
      /\ UNCHANGED <<disk, sessionOf, style, sessions, announced>>
  BY DEF RegistryInv, GatewayDies
<1>2. /\ entries' \in [RunId -> Record]
      /\ turn' \in [RunId -> {"none", "running", "failing", "over"}]
      /\ freezing' \in [RunId -> 0..2]
      /\ flow' \in [RunId -> {"no", "checking", "waking", "sending", "done", "failed", "deferred"}]
      /\ final' \in [RunId -> {"no", "keep", "delete"}]
      /\ excused' \in [RunId -> SUBSET Excuses]
  BY <1>1, NewRecords DEF RegistryTyped, Excuses
<1>3. RegistryTyped'
  BY <1>1, <1>2, UpsetTyped DEF RegistryTyped
<1>4. ASSUME NEW r \in RunId PROVE RunTrue(r)'
  <2>1. RunTrue(r)
    BY DEF RegistryInv
  <2>2. /\ entries'[r] = Absent /\ flow'[r] = "no" /\ final'[r] = "no" /\ freezing'[r] = 0
        /\ turn'[r] \in {"none", "over"} /\ (turn'[r] # "none" <=> turn[r] # "none")
    BY <1>1
  <2>3. /\ excused'[r] = excused[r] \/ excused'[r] = excused[r] \cup {"crashed"}
        /\ disk[r].present /\ disk[r].completed = "no" /\ (disk[r].handled \/ disk[r].suppress = "steer")
             => "crashed" \in excused'[r]
    BY <1>1
  <2>4. /\ Begun(r)' <=> Begun(r)
        /\ Told(r)' <=> Told(r)
        /\ ToldOnce(r)' <=> ToldOnce(r)
        /\ Spoken(r)' => Spoken(r)
    BY <1>1, <2>2, <2>3 DEF Begun, Told, Excused, ToldOnce, Spoken
  <2>5. ~entries'[r].present /\ entries'[r].completed = "no"
    BY <2>2, NewRecords
  <2>6. NotBegun(r, entries[r])'
    BY <1>1, <2>1, <2>2, <2>4, <2>5 DEF RunTrue, NotBegun
  <2>7. RecordTrue(r, entries[r])' /\ Waking(r, entries[r])'
    BY <2>5 DEF RecordTrue, Waking
  <2>8. FileTrue(r)'
    BY <1>1, <2>1, <2>4 DEF RunTrue, FileTrue, RecordTrue, AccountTrue
  <2>9. Announcing(r, entries[r])'
    BY <1>1, <2>1, <2>2, <2>3, <2>5 DEF RunTrue, Announcing
  <2>10. Down(r)'
    BY <1>1, <2>2, <2>3, <2>5 DEF Down
  <2> QED BY <1>1, <2>6, <2>7, <2>8, <2>9, <2>10 DEF RunTrue
<1> QED BY <1>3, <1>4 DEF RegistryInv

LEMMA RegistryStutters == RegistryInv /\ UNCHANGED registryVars => RegistryInv'
<1> SUFFICES ASSUME RegistryInv, UNCHANGED registryVars PROVE RegistryInv'
  OBVIOUS
<1>1. /\ entries' = entries /\ disk' = disk /\ sessionOf' = sessionOf /\ style' = style
      /\ sessions' = sessions /\ turn' = turn /\ restored' = restored /\ spent' = spent
      /\ errorTimers' = errorTimers /\ waits' = waits /\ freezing' = freezing /\ flow' = flow
      /\ final' = final /\ retryTimers' = retryTimers /\ resumeTimers' = resumeTimers
      /\ resumed' = resumed /\ steering' = steering /\ sweeping' = sweeping
      /\ announced' = announced /\ excused' = excused
  BY DEF registryVars, world, work, outcomes
<1>2. RegistryTyped'
  BY <1>1 DEF RegistryInv, RegistryTyped
<1>3. ASSUME NEW r \in RunId PROVE RunTrue(r)'
  <2>1. RunTrue(r)
    BY DEF RegistryInv
  <2>2. /\ NotBegun(r, entries[r])' /\ RecordTrue(r, entries[r])' /\ FileTrue(r)'
        /\ (restored => AccountTrue(r, entries[r]))'
    BY <1>1, <2>1 DEF RunTrue, NotBegun, RecordTrue, AccountTrue, FileTrue, Begun, Told, ToldOnce,
                      Spoken, Excused
  <2>3. Announcing(r, entries[r])' /\ Down(r)'
    BY <1>1, <2>1 DEF RunTrue, Announcing, Down, Told, ToldOnce, Excused
  <2>4. Waking(r, entries[r])'
    BY <1>1, <2>1 DEF RunTrue, Waking, Marked, Comes, Heard
  <2> QED BY <2>2, <2>3, <2>4 DEF RunTrue
<1> QED BY <1>2, <1>3 DEF RegistryInv

LEMMA NextRegistryInv == RegistryInv /\ [RegistryNext]_registryVars => RegistryInv'
<1> SUFFICES ASSUME RegistryInv, [RegistryNext]_registryVars PROVE RegistryInv'
  OBVIOUS
<1>1. ASSUME NEW r \in RunId, NEW s \in Session, Register(r, s) PROVE RegistryInv'
  BY <1>1, RegisterKeeps
<1>2. ASSUME NEW r \in RunId, Turns(r) PROVE RegistryInv'
  BY <1>2, TurnEndsKeeps, TurnErrsKeeps, TurnRetriesKeeps DEF Turns
<1>3. ASSUME NEW r \in RunId, Waits(r) PROVE RegistryInv'
  BY <1>3, WaitAnswersKeeps, WaitFailsKeeps DEF Waits
<1>4. ASSUME NEW r \in RunId, Timers(r) \/ ResumeTimer(r) PROVE RegistryInv'
  BY <1>4, RetryTimerKeeps, ErrorTimerKeeps, ResumeTimerKeeps DEF Timers
<1>5. ASSUME NEW r \in RunId, Cleanup(r) \/ FlowLeaves(r) PROVE RegistryInv'
  BY <1>5, FrozenKeeps, FlowChecksKeeps, FlowWakesKeeps, SendEndsKeeps, FinalizeKeeps,
     FlowLeavesKeeps DEF Cleanup
<1>6. ASSUME NEW r \in RunId, Others(r) PROVE RegistryInv'
  BY <1>6, KillKeeps, SteerBeginsKeeps, SweepKeeps DEF Others
<1>7. ASSUME NEW r \in RunId, Ends(r) PROVE RegistryInv'
  BY <1>7, SteerRestartsKeeps, SteerFailsKeeps, SweepEndsKeeps DEF Ends
<1>8. CASE UNCHANGED registryVars
  BY <1>8, RegistryStutters
<1> QED
  BY <1>1, <1>2, <1>3, <1>4, <1>5, <1>6, <1>7, <1>8, GatewayDiesKeeps, RestoreKeeps DEF RegistryNext

\* Whatever events, waits, kills, steers, sweeps and crashes come between, the records, in memory
\* and in the file, tell the truth about the announcements, and who comes back to a run is known.
THEOREM RegistryInvariant == RegistrySpec => []RegistryInv
<1>1. RegistryInit => RegistryInv
  BY InitRegistryInv
<1>2. RegistryInv /\ [RegistryNext]_registryVars => RegistryInv'
  BY NextRegistryInv
<1> QED BY <1>1, <1>2, PTL DEF RegistrySpec

\* Each run that ends is cleaned up by one flow at a time and announced once, unless an answer is
\* lost; a claim has its worker and an open run its waker; what is gone is accounted for.
THEOREM RunsAreKept == RegistrySpec => []RunsKept
  BY RegistryInvariant, KeepsRuns, PTL
=============================================================================
