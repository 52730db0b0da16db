------------------------------ MODULE LockFile ------------------------------
(***************************************************************************)
(* Lock files of one making: plugin-sdk/file-lock.ts ("file"), agents/     *)
(* session-write-lock.ts ("session", and "registry" for the file of the    *)
(* sandboxes, which is not reentrant) and infra/gateway-lock.ts            *)
(* ("gateway").  A caller creates the file exclusively, then writes who it *)
(* is; one that finds the file there reads it, judges its owner, and       *)
(* removes a stale file by its name, with awaits between all of these.     *)
(* Within a process callers share the lock, by a count; a gateway has one  *)
(* caller.                                                                 *)
(*                                                                         *)
(* The directory and pid 0 or the like are left out.  Linux: the start     *)
(* time of a live process can be read.  Callers may give up at any delay.  *)
(***************************************************************************)
EXTENDS Integers, FiniteSets

CONSTANTS
    Caller, Process,
    processOf,         \* caller |-> its process
    GatewayCaller,     \* one caller of each process
    Id,                \* names for files; those of files that nothing refers to are used again
    MaxFaults          \* bound: crashes, failed writes, forced releases, agings, sweeps and
                       \* files taken for stale because they are gone

ASSUME LockAssumption ==
    /\ processOf \in [Caller -> Process] /\ GatewayCaller \subseteq Caller
    /\ IsFiniteSet(Caller) /\ IsFiniteSet(Process) /\ "recycled" \notin Process
    /\ 0 \notin Id /\ Cardinality(Id) > Cardinality(Caller) + Cardinality(Process)
    /\ MaxFaults \in Nat

VARIABLES
    kind,      \* which of the three it is
    lock,      \* the file, or NoFile
    held,      \* process |-> HELD_LOCKS: an object, named by its file, and count; or NoLock
    alive,     \* processes that have not died
    at,        \* caller |-> where it is
    mine,      \* caller |-> the file it created or shares, 0 for none
    saw,       \* caller |-> what it read until it has judged it, or NoFile
    letGo,     \* processes whose watchdog has yet to remove the file
    faults,    \* counts faults
    causes     \* history: what may let two in

lockVars == <<kind, lock, held, alive, at, mine, saw, letGo, faults, causes>>

Kinds == {"file", "session", "registry", "gateway"}
\* Those of session-write-lock.ts.
Session == kind \in {"session", "registry"}
Reentrant == kind \in {"file", "session"}
NoFile == [id |-> 0]
NoLock == [id |-> 0, count |-> 0]
\* "recycled": the owner is dead, but another program has got its pid.
Owner == Process \cup {"recycled"}
Seen == [owner : Owner, written : BOOLEAN, old : BOOLEAN]
File == [id : Id, owner : Owner, written : BOOLEAN, old : BOOLEAN]

Callers == IF kind = "gateway" THEN GatewayCaller ELSE Caller
\* "lost": inside, but its lock was let go by force.
In(c) == at[c] \in {"in", "lost"}

LockTypeOK ==
    /\ kind \in Kinds
    /\ lock \in File \cup {NoFile}
    /\ held \in [Process -> [id : Id \cup {0}, count : 0..Cardinality(Caller)]]
    /\ alive \subseteq Process /\ letGo \subseteq Process
    /\ at \in [Caller -> {"idle", "open", "write", "undo", "read", "judge", "stat", "rm", "delay",
                          "in", "lost", "closing", "dead", "sweep", "sweepRm"}]
    /\ mine \in [Caller -> Id \cup {0}]
    /\ \A c \in Caller : saw[c] \in Seen \cup {NoFile}
    /\ faults \in 0..MaxFaults
    /\ causes \subseteq {"leftover", "old", "vanished", "silent", "forced", "swept"}

LockInit ==
    /\ kind \in Kinds
    /\ lock = NoFile
    /\ held = [p \in Process |-> NoLock]
    /\ alive = Process
    /\ at = [c \in Caller |-> "idle"]
    /\ mine = [c \in Caller |-> 0]
    /\ saw = [c \in Caller |-> NoFile]
    /\ letGo = {} /\ faults = 0 /\ causes = {}

Goto(c, pc) == at' = [at EXCEPT ![c] = pc]
Fault(cause) == faults < MaxFaults /\ faults' = faults + 1 /\ causes' = causes \cup {cause}
NoFault == UNCHANGED <<faults, causes>>
Enter(c, id) == Goto(c, "in") /\ mine' = [mine EXCEPT ![c] = id]
Leave(c, pc) == Goto(c, pc) /\ mine' = [mine EXCEPT ![c] = 0]

-----------------------------------------------------------------------------
(* Acquisition *)

\* A lock that the process holds is shared.
Acquire(c) ==
    /\ at[c] = "idle"
    /\ LET p == processOf[c] IN
       IF Reentrant /\ held[p] # NoLock
       THEN held' = [held EXCEPT ![p].count = @ + 1] /\ Enter(c, held[p].id)
       ELSE Goto(c, "open") /\ UNCHANGED <<held, mine>>
    /\ UNCHANGED <<kind, lock, alive, saw, letGo>> /\ NoFault

FreshId ==
    CHOOSE i \in Id : (\A d \in Caller : i # mine[d]) /\ \A p \in Process : i # held[p].id

\* open with "wx", which fails with EEXIST if the file is there.
OpenFile(c) ==
    /\ at[c] = "open"
    /\ \/ /\ lock = NoFile
          /\ lock' = [id |-> FreshId, owner |-> processOf[c], written |-> FALSE, old |-> FALSE]
          /\ mine' = [mine EXCEPT ![c] = FreshId]
          /\ Goto(c, "write")
       \/ /\ lock # NoFile
          /\ Goto(c, "read")
          /\ UNCHANGED <<lock, mine>>
    /\ UNCHANGED <<kind, held, alive, saw, letGo>> /\ NoFault

\* Of a file that is not the one at the path any more, the payload is of no use.
Write(c) ==
    /\ at[c] = "write"
    /\ lock' = IF lock.id = mine[c] THEN [lock EXCEPT !.written = TRUE] ELSE lock
    /\ held' = IF kind = "gateway" THEN held
               ELSE [held EXCEPT ![processOf[c]] = [id |-> mine[c], count |-> 1]]
    /\ Goto(c, "in")
    /\ UNCHANGED <<kind, alive, mine, saw, letGo>> /\ NoFault

\* The write fails: the call throws, and only a session's removes the file first.
WriteFails(c) ==
    /\ at[c] = "write"
    /\ Fault("leftover")
    /\ IF Session THEN Goto(c, "undo") /\ UNCHANGED mine ELSE Leave(c, "idle")
    /\ UNCHANGED <<kind, lock, held, alive, saw, letGo>>

-----------------------------------------------------------------------------
(* Judgement of the file that is there *)

Read(c) ==
    /\ at[c] = "read"
    /\ saw' = [saw EXCEPT ![c] = IF lock = NoFile THEN NoFile
                  ELSE [owner |-> lock.owner, written |-> lock.written, old |-> lock.old]]
    /\ Goto(c, "judge")
    /\ UNCHANGED <<kind, lock, held, alive, mine, letGo>> /\ NoFault

Payload(c) == saw[c] # NoFile /\ saw[c].written
OwnerDead(f) == f.owner \notin alive /\ (f.owner = "recycled" => kind # "file")

\* The gateway's port is looked at before its pid; it is free when the gateway is still
\* starting or too slow to answer, and taken when another program has it.
JudgeByPort(c) ==
    /\ kind = "gateway" /\ at[c] = "judge" /\ Payload(c)
    /\ Goto(c, "rm")
    /\ causes' = IF OwnerDead(saw[c]) THEN causes ELSE causes \cup {"silent"}
    /\ saw' = [saw EXCEPT ![c] = NoFile]
    /\ UNCHANGED <<kind, lock, held, alive, mine, letGo, faults>>

\* By the pid and its start time, and by the age that the file states.  A gateway that
\* is alive keeps its file at any age.
AfterJudgement(c) ==
    IF ~Payload(c) THEN "stat"
    ELSE IF OwnerDead(saw[c]) \/ (saw[c].old /\ kind # "gateway") THEN "rm"
    ELSE IF kind = "file" THEN "stat" ELSE "delay"

Judge(c) ==
    /\ at[c] = "judge"
    /\ Goto(c, AfterJudgement(c))
    /\ saw' = [saw EXCEPT ![c] = NoFile]
    /\ UNCHANGED <<kind, lock, held, alive, mine, letGo>> /\ NoFault

\* Mutant: a session's file that is gone by now is stale too.
GoneIsStale_Session == kind \in {"file", "session"}
\* file-lock.ts takes a file that is gone by now for a stale one.
GoneIsStale == kind = "file"

\* By its age on disk.
Stat(c) ==
    /\ at[c] = "stat"
    /\ IF lock = NoFile
       THEN /\ Goto(c, IF GoneIsStale THEN "rm" ELSE "delay")
            /\ IF kind = "file" THEN Fault("vanished") ELSE NoFault
       ELSE Goto(c, IF lock.old THEN "rm" ELSE "delay") /\ NoFault
    /\ UNCHANGED <<kind, lock, held, alive, mine, saw, letGo>>

\* The file of that name is removed, whichever it is by now.  Another attempt, or the call
\* throws if this was the last.
RemoveFile(c) ==
    /\ at[c] = "rm"
    /\ lock' = NoFile
    /\ \E pc \in {"open", "idle"} : Goto(c, pc)
    /\ UNCHANGED <<kind, held, alive, mine, saw, letGo>> /\ NoFault

Delayed(c) ==
    /\ at[c] = "delay"
    /\ \E pc \in {"open", "idle"} : Goto(c, pc)
    /\ UNCHANGED <<kind, lock, held, alive, mine, saw, letGo>> /\ NoFault

-----------------------------------------------------------------------------
(* Release *)

\* A session's release wants the very object that it got; a file's, one of that name.
MayLetGo(c) ==
    IF Session THEN held[processOf[c]].id = mine[c] ELSE held[processOf[c]] # NoLock

\* The last one of the process deletes the entry before it closes and removes the file.
Release(c) ==
    /\ In(c)
    /\ LET p == processOf[c] IN
       IF kind = "gateway" THEN Leave(c, "closing") /\ UNCHANGED held
       ELSE IF ~MayLetGo(c) THEN Leave(c, "idle") /\ UNCHANGED held
       ELSE IF held[p].count > 1
       THEN held' = [held EXCEPT ![p].count = @ - 1] /\ Leave(c, "idle")
       ELSE held' = [held EXCEPT ![p] = NoLock] /\ Leave(c, "closing")
    /\ UNCHANGED <<kind, lock, alive, saw, letGo>> /\ NoFault

\* By name, too; a session's write that failed does the same.
RemoveOwn(c) ==
    /\ at[c] \in {"closing", "undo"}
    /\ lock' = NoFile
    /\ Leave(c, "idle")
    /\ UNCHANGED <<kind, held, alive, saw, letGo>> /\ NoFault

-----------------------------------------------------------------------------
(* cleanStaleLockFiles: the gateway sweeps the session locks when it starts *)

Sweep(c) ==
    /\ kind = "session" /\ at[c] = "idle" /\ lock # NoFile
    /\ faults < MaxFaults /\ faults' = faults + 1
    /\ Goto(c, "sweep")
    /\ UNCHANGED <<kind, lock, held, alive, mine, saw, letGo, causes>>

\* A file that is gone, or whose owner has still to write, is stale here.
SweepReads(c) ==
    /\ at[c] = "sweep"
    /\ IF lock = NoFile \/ ~lock.written \/ OwnerDead(lock) \/ lock.old
       THEN /\ Goto(c, "sweepRm")
            /\ causes' = IF lock # NoFile /\ OwnerDead(lock) THEN causes ELSE causes \cup {"swept"}
       ELSE Goto(c, "idle") /\ UNCHANGED causes
    /\ UNCHANGED <<kind, lock, held, alive, mine, saw, letGo, faults>>

SweepRemoves(c) ==
    /\ at[c] = "sweepRm"
    /\ lock' = NoFile
    /\ Goto(c, "idle")
    /\ UNCHANGED <<kind, held, alive, mine, saw, letGo>> /\ NoFault

-----------------------------------------------------------------------------
(* What goes wrong *)

Lost(p) == at' = [c \in Caller |-> IF processOf[c] = p /\ at[c] = "in" THEN "lost" ELSE at[c]]

\* The watchdog of the session locks finds one held for too long.
Watchdog(p) ==
    /\ Session /\ held[p] # NoLock /\ p \in alive /\ p \notin letGo
    /\ Fault("forced")
    /\ held' = [held EXCEPT ![p] = NoLock]
    /\ letGo' = letGo \cup {p}
    /\ Lost(p)
    /\ UNCHANGED <<kind, lock, alive, mine, saw>>

WatchdogRemoves(p) ==
    /\ p \in letGo
    /\ lock' = NoFile
    /\ letGo' = letGo \ {p}
    /\ UNCHANGED <<kind, held, alive, at, mine, saw>> /\ NoFault

\* A signal to end: the process releases every session lock at once, and may live on to
\* shut down.
Signalled(p) ==
    /\ Session /\ held[p] # NoLock /\ p \in alive
    /\ Fault("forced")
    /\ held' = [held EXCEPT ![p] = NoLock]
    /\ lock' = NoFile
    /\ Lost(p)
    /\ UNCHANGED <<kind, alive, mine, saw, letGo>>

\* Its file, if it has one, stays.
Dies(p) ==
    /\ p \in alive
    /\ Fault("leftover")
    /\ alive' = alive \ {p}
    /\ letGo' = letGo \ {p}
    /\ held' = [held EXCEPT ![p] = NoLock]
    /\ at' = [c \in Caller |-> IF processOf[c] = p THEN "dead" ELSE at[c]]
    /\ mine' = [c \in Caller |-> IF processOf[c] = p THEN 0 ELSE mine[c]]
    /\ lock' \in {lock} \cup (IF lock # NoFile /\ lock.owner = p
                            THEN {[lock EXCEPT !.owner = "recycled"]} ELSE {})
    /\ UNCHANGED <<kind, saw>>

\* The file becomes as old as staleMs: a matter of time once one was left behind.
Ages ==
    /\ lock # NoFile /\ ~lock.old
    /\ IF "leftover" \in causes THEN NoFault ELSE Fault("old")
    /\ lock' = [lock EXCEPT !.old = TRUE]
    /\ UNCHANGED <<kind, held, alive, at, mine, saw, letGo>>

-----------------------------------------------------------------------------
Attempt(c) ==
    OpenFile(c) \/ Write(c) \/ WriteFails(c) \/ Read(c) \/ JudgeByPort(c) \/ Judge(c) \/ Stat(c)
        \/ RemoveFile(c) \/ Delayed(c)

LockNext ==
    \/ \E c \in Callers : Acquire(c) \/ Attempt(c) \/ Release(c) \/ RemoveOwn(c)
    \/ \E c \in Callers : Sweep(c) \/ SweepReads(c) \/ SweepRemoves(c)
    \/ \E p \in Process : Watchdog(p) \/ WatchdogRemoves(p) \/ Signalled(p) \/ Dies(p)
    \/ Ages

LockSpec == LockInit /\ [][LockNext]_lockVars

-----------------------------------------------------------------------------
(* Properties *)

\* One process is inside of the lock at a time, and of the registry's one caller; within
\* a process HELD_LOCKS counts the callers that are inside, so that none of them lets go
\* the lock of another.  The exceptions: a lock was left behind, became old with its owner
\* alive, was let go by force, was swept by a starting gateway, or a gateway did not answer
\* at its port; and a "file" is at times taken for stale just because it is being
\* released.  The count of a session's lock is right even after a release by force:
\* whoever was inside then holds an object that is not the current one.
LockExcludes ==
    /\ LockTypeOK
    /\ causes = {} => \A c, d \in Caller : In(c) /\ In(d) =>
          c = d \/ (Reentrant /\ processOf[c] = processOf[d])
    /\ (kind = "file" /\ causes = {}) \/ (Session /\ causes \subseteq {"forced"}) =>
          \A p \in Process :
              LET inside == {c \in Caller : processOf[c] = p /\ at[c] = "in"} IN
              /\ held[p].count = Cardinality(inside)
              /\ \A c \in inside : mine[c] = held[p].id
=============================================================================
