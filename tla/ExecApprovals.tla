---------------------------- MODULE ExecApprovals ----------------------------
(***************************************************************************)
(* Approvals of commands: gateway/exec-approval-manager.ts with its        *)
(* requests (gateway/server-methods/exec-approval.ts), the node runs that  *)
(* they allow (gateway/node-invoke-system-run-approval.ts) and the agent   *)
(* that asks (agents/bash-tools.exec-approval-request.ts).  An approval is *)
(* ruled on by an operator, or expires; its record stays for a while, for  *)
(* those who come late.                                                    *)
(*                                                                         *)
(* All of it about one id, which can be registered again once its record   *)
(* is gone; the search by prefix and the binding of a run to its client,   *)
(* node and command are left out.                                          *)
(***************************************************************************)
EXTENDS Naturals

CONSTANT MaxRegistrations  \* bound: registrations of the id

ASSUME RegistrationsAssumption == MaxRegistrations \in Nat

VARIABLES
    registrations,  \* so far; they are numbered
    entry,          \* the registration in the manager's map, 0 for none
    record,         \* registration |-> resolvedAtMs is set, decision, resolvedBy
    promise,        \* registration |-> "open", or the decision it resolved to
    expiryTimers,   \* registrations whose timer is armed
    graceTimers,    \* registrations to be deleted
    clock,          \* now as seen from expiresAtMs of the entry, or of the last one
    hasClients,     \* requests under way for which operators were connected
    asker,          \* registration |-> where its request is
    waitsOn,        \* registration |-> that whose promise its asker awaits
    answer,         \* registration |-> what its asker was told
    ruling,         \* history: registration |-> what an operator decided
    runs            \* history: registration |-> runs allowed, counted to 2

approvalVars == <<registrations, entry, record, promise, expiryTimers, graceTimers, clock,
                  hasClients, asker, waitsOn, answer, ruling, runs>>

Registration == 1..MaxRegistrations
Decision == {"allow-once", "allow-always", "deny"}
Fresh == [resolved |-> FALSE, decision |-> "undefined", by |-> "undefined"]

Record == [resolved : BOOLEAN, decision : Decision \cup {"undefined"},
           by : {"undefined", "null", "operator", "no-approval-route"}]
Place == {"idle", "forwarding", "accepted", "waiting", "answered"}
Outcome == Decision \cup {"none", "null", "no route", "not found"}

ApprovalTypeOK ==
    /\ registrations \in 0..MaxRegistrations /\ entry \in 0..registrations
    /\ record \in [Registration -> Record]
    /\ promise \in [Registration -> Decision \cup {"open", "null"}]
    /\ expiryTimers \subseteq Registration /\ graceTimers \subseteq Registration
    /\ clock \in {"before", "at", "after"}
    /\ hasClients \subseteq Registration
    /\ asker \in [Registration -> Place]
    /\ waitsOn \in [Registration -> 0..MaxRegistrations]
    /\ answer \in [Registration -> Outcome]
    /\ ruling \in [Registration -> Decision \cup {"none"}]
    /\ runs \in [Registration -> 0..2]

ApprovalInit ==
    /\ registrations = 0 /\ entry = 0
    /\ record = [r \in Registration |-> Fresh]
    /\ promise = [r \in Registration |-> "open"]
    /\ expiryTimers = {} /\ graceTimers = {} /\ hasClients = {}
    /\ clock = "before"
    /\ asker = [r \in Registration |-> "idle"]
    /\ waitsOn = [r \in Registration |-> 0]
    /\ answer = [r \in Registration |-> "none"]
    /\ ruling = [r \in Registration |-> "none"]
    /\ runs = [r \in Registration |-> 0]

-----------------------------------------------------------------------------
(* The manager *)

Open == entry # 0 /\ ~record[entry].resolved

\* Mutant: who waits for an approval that expires is not told.
Settled_RulingsOnly(d) == IF d = "null" THEN promise ELSE [promise EXCEPT ![entry] = d]
Settled(d) == [promise EXCEPT ![entry] = d]

\* What resolve and expire have in common; expire leaves the decision undefined.
ResolveEntry(decision, by) ==
    /\ record' = [record EXCEPT ![entry] = [resolved |-> TRUE, decision |-> decision, by |-> by]]
    /\ promise' = Settled(IF decision = "undefined" THEN "null" ELSE decision)
    /\ expiryTimers' = expiryTimers \ {entry}
    /\ graceTimers' = graceTimers \cup {entry}

\* expire, by id: of whatever the id stands for now.
ExpireEntry(by) ==
    IF Open THEN ResolveEntry("undefined", by)
    ELSE UNCHANGED <<record, promise, expiryTimers, graceTimers>>

Expires(r) ==
    /\ r \in expiryTimers /\ clock # "before"
    /\ ExpireEntry("null")
    /\ UNCHANGED <<registrations, entry, clock, hasClients, asker, waitsOn, answer, ruling, runs>>

\* RESOLVED_ENTRY_GRACE_MS after it was resolved.
GraceEnds(r) ==
    /\ r \in graceTimers
    /\ graceTimers' = graceTimers \ {r}
    /\ entry' = IF entry = r THEN 0 ELSE entry
    /\ UNCHANGED <<registrations, record, promise, expiryTimers, clock, hasClients, asker, waitsOn,
                   answer, ruling, runs>>

-----------------------------------------------------------------------------
(* Requests *)

\* exec.approval.request, until it awaits the forwarder.  An id in the map is refused.
Request ==
    /\ entry = 0 /\ registrations < MaxRegistrations
    /\ LET r == registrations + 1 IN
       /\ registrations' = r /\ entry' = r
       /\ expiryTimers' = expiryTimers \cup {r}
       /\ clock' = "before"
       /\ hasClients' \in {hasClients, hasClients \cup {r}}
       /\ asker' = [asker EXCEPT ![r] = "forwarding"]
    /\ UNCHANGED <<record, promise, graceTimers, waitsOn, answer, ruling, runs>>

Tell(r, what) ==
    /\ asker' = [asker EXCEPT ![r] = "answered"]
    /\ answer' = [answer EXCEPT ![r] = what]

\* Nobody to ask: the clients are those of before the await.
NoRoute(r) ==
    /\ asker[r] = "forwarding" /\ r \notin hasClients
    /\ ExpireEntry("no-approval-route")
    /\ Tell(r, "no route")
    /\ UNCHANGED <<registrations, entry, clock, hasClients, waitsOn, ruling, runs>>

\* An asker of two phases is told the id and comes back with exec.approval.waitDecision.
\* The other one waits for the answer to its request.
Routed(r) ==
    /\ asker[r] = "forwarding"
    /\ \/ asker' = [asker EXCEPT ![r] = "accepted"] /\ UNCHANGED waitsOn
       \/ asker' = [asker EXCEPT ![r] = "waiting"] /\ waitsOn' = [waitsOn EXCEPT ![r] = r]
    /\ hasClients' = hasClients \ {r}
    /\ UNCHANGED <<registrations, entry, record, promise, expiryTimers, graceTimers, clock, answer,
                   ruling, runs>>

\* exec.approval.waitDecision, by id; an error is taken by the agent for no decision.
WaitDecision(r) ==
    /\ asker[r] = "accepted"
    /\ IF entry = 0 THEN Tell(r, "not found") /\ UNCHANGED waitsOn
       ELSE /\ asker' = [asker EXCEPT ![r] = "waiting"]
            /\ waitsOn' = [waitsOn EXCEPT ![r] = entry]
            /\ UNCHANGED answer
    /\ UNCHANGED <<registrations, entry, record, promise, expiryTimers, graceTimers, clock,
                   hasClients, ruling, runs>>

Answer(r) ==
    /\ asker[r] = "waiting" /\ promise[waitsOn[r]] # "open"
    /\ Tell(r, promise[waitsOn[r]])
    /\ UNCHANGED <<registrations, entry, record, promise, expiryTimers, graceTimers, clock,
                   hasClients, waitsOn, ruling, runs>>

MayResolve == Open

\* exec.approval.resolve; the id is looked up among those that are open.
Resolve(decision) ==
    /\ MayResolve
    /\ ResolveEntry(decision, "operator")
    /\ ruling' = [ruling EXCEPT ![entry] = IF @ = "none" THEN decision ELSE @]
    /\ UNCHANGED <<registrations, entry, clock, hasClients, asker, waitsOn, answer, runs>>

-----------------------------------------------------------------------------
(* Runs on a node *)

\* Mutant: whatever is resolved without a decision has timed out.
TimedOut_Undecided == record[entry].resolved /\ record[entry].decision = "undefined"
\* Not consumed, and not for want of a route.
TimedOut ==
    record[entry].resolved /\ record[entry].decision = "undefined" /\ record[entry].by = "null"

\* A node's system.run with an approval of this id.  Whoever asks may claim that the
\* approval timed out and that its fallback is to allow.
NodeRuns(fallback) ==
    /\ entry # 0 /\ clock # "after"
    /\ \/ record[entry].decision = "allow-once"
          /\ record' = [record EXCEPT ![entry].decision = "undefined"]  \* consumeAllowOnce
       \/ record[entry].decision = "allow-always" /\ UNCHANGED record
       \/ fallback /\ TimedOut /\ UNCHANGED record
    /\ runs' = [runs EXCEPT ![entry] = IF @ = 2 THEN 2 ELSE @ + 1]
    /\ UNCHANGED <<registrations, entry, promise, expiryTimers, graceTimers, clock, hasClients,
                   asker, waitsOn, answer, ruling>>

TimePasses ==
    /\ registrations > 0 /\ clock # "after"
    /\ clock' = IF clock = "before" THEN "at" ELSE "after"
    /\ UNCHANGED <<registrations, entry, record, promise, expiryTimers, graceTimers, hasClients,
                   asker, waitsOn, answer, ruling, runs>>

-----------------------------------------------------------------------------
Timers == TimePasses \/ \E r \in Registration : Expires(r)
Answers(r) == NoRoute(r) \/ Routed(r) \/ WaitDecision(r) \/ Answer(r)

ApprovalNext ==
    \/ Request
    \/ \E r \in Registration : Answers(r)
    \/ \E d \in Decision : Resolve(d)
    \/ \E fallback \in BOOLEAN : NodeRuns(fallback)
    \/ TimePasses
    \/ \E r \in Registration : Expires(r) \/ GraceEnds(r)

ApprovalSpec == ApprovalInit /\ [][ApprovalNext]_approvalVars

-----------------------------------------------------------------------------
(* Properties *)

\* What an operator decided is done.  An allow-once allows one run, however runs,
\* rulings, expiries and late askers interleave; after a deny, or before anybody
\* decided, nothing runs; without a ruling only what timed out does, for a client that
\* claims its fallback.  The first ruling stands, and who waited for it is told it, and
\* not that of another registration unless its own was gone when it came to ask.  Nobody
\* is told that a ruling timed out.
ApprovalsHonoured ==
    /\ ApprovalTypeOK
    /\ \A r \in Registration :
          /\ ruling[r] = "allow-once" => runs[r] <= 1
          /\ runs[r] > 0 /\ ruling[r] = "none" => record[r].by = "null"
          /\ runs[r] > 0 => ruling[r] # "deny"
          /\ ruling[r] # "none" => promise[r] = ruling[r]
          /\ waitsOn[r] \notin {0, r} => entry # r
          /\ answer[r] \in Decision => answer[r] = ruling[waitsOn[r]]
          /\ answer[r] = "null" => ruling[waitsOn[r]] = "none"

\* Every request is answered, whether somebody decides or not.
AskersAnswered ==
    \A r \in Registration : asker[r] = "forwarding" ~> asker[r] = "answered"
=============================================================================
