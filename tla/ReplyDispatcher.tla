--------------------------- MODULE ReplyDispatcher ---------------------------
(***************************************************************************)
(* Reply dispatchers (src/src/auto-reply/reply/reply-dispatcher.ts, with   *)
(* dispatcher-registry.ts and withReplyDispatcher of auto-reply/           *)
(* dispatch.ts).  A dispatcher delivers the replies of one message one     *)
(* after the other, and counts them in `pending`, with one more as a       *)
(* reservation while the run may still hand it replies.  The registry of   *)
(* dispatchers is what a restart looks at before it interrupts.  A         *)
(* delivery that fails counts like one that succeeds; the kinds of replies *)
(* and the delays between them are left out.                               *)
(***************************************************************************)
EXTENDS Integers

CONSTANTS
    Dispatcher,   \* messages that are answered
    MaxReplies    \* bound: replies of one message

ASSUME RepliesAssumption == MaxReplies \in Nat

VARIABLES
    turn,         \* of the run behind a dispatcher: "none", "open", "marked", "complete"
    handed,       \* how many replies it has handed over
    chain,        \* how many of them sendChain has yet to deliver
    pending,      \* the counter of the dispatcher
    registered,   \* activeDispatchers
    late          \* history: those that were handed a reply after they had gone idle

replyVars == <<turn, handed, chain, pending, registered, late>>

RepliesTypeOK ==
    /\ turn \in [Dispatcher -> {"none", "open", "marked", "complete"}]
    /\ handed \in [Dispatcher -> 0..MaxReplies] /\ chain \in [Dispatcher -> 0..MaxReplies]
    /\ pending \in [Dispatcher -> Int]
    /\ registered \subseteq Dispatcher /\ late \subseteq Dispatcher

RepliesInit ==
    /\ turn = [d \in Dispatcher |-> "none"]
    /\ handed = [d \in Dispatcher |-> 0] /\ chain = [d \in Dispatcher |-> 0]
    /\ pending = [d \in Dispatcher |-> 0]
    /\ registered = {} /\ late = {}

\* The reservation is there from the start.
CreateReplyDispatcher(d) ==
    /\ turn[d] = "none"
    /\ turn' = [turn EXCEPT ![d] = "open"]
    /\ pending' = [pending EXCEPT ![d] = 1]
    /\ registered' = registered \cup {d}
    /\ UNCHANGED <<handed, chain, late>>

\* sendToolResult, sendBlockReply, sendFinalReply.
EnqueueReply(d) ==
    /\ turn[d] \in {"open", "marked"} /\ handed[d] < MaxReplies
    /\ handed' = [handed EXCEPT ![d] = @ + 1]
    /\ chain' = [chain EXCEPT ![d] = @ + 1]
    /\ pending' = [pending EXCEPT ![d] = @ + 1]
    /\ late' = IF d \in registered THEN late ELSE late \cup {d}
    /\ UNCHANGED <<turn, registered>>

\* Mutant: the reservation goes with the last reply that is there.
CountDown_DropsReservation(d, n, completeCalled) ==
    LET left == IF n = 1 THEN 0 ELSE n
    IN  /\ pending' = [pending EXCEPT ![d] = left]
        /\ registered' = IF left = 0 THEN registered \ {d} ELSE registered

\* pending becomes n, less the reservation when that is all that is left of a run that is
\* complete; at 0 the dispatcher is forgotten.
CountDown(d, n, completeCalled) ==
    LET left == IF n = 1 /\ completeCalled THEN 0 ELSE n
    IN  /\ pending' = [pending EXCEPT ![d] = left]
        /\ registered' = IF left = 0 THEN registered \ {d} ELSE registered

\* The reply at the front is delivered, or its delivery fails.
Delivered(d) ==
    /\ chain[d] > 0
    /\ chain' = [chain EXCEPT ![d] = @ - 1]
    /\ CountDown(d, pending[d] - 1, turn[d] \in {"marked", "complete"})
    /\ UNCHANGED <<turn, handed, late>>

\* markComplete leaves the reservation to a microtask.
MarkComplete(d) ==
    /\ turn[d] = "open"
    /\ turn' = [turn EXCEPT ![d] = "marked"]
    /\ UNCHANGED <<handed, chain, pending, registered, late>>

ClearReservation(d) ==
    /\ turn[d] = "marked"
    /\ turn' = [turn EXCEPT ![d] = "complete"]
    /\ IF pending[d] = 1 THEN CountDown(d, 1, TRUE) ELSE UNCHANGED <<pending, registered>>
    /\ UNCHANGED <<handed, chain, late>>

RepliesNext ==
    \E d \in Dispatcher :
        \/ CreateReplyDispatcher(d) \/ EnqueueReply(d) \/ Delivered(d)
        \/ MarkComplete(d) \/ ClearReservation(d)

\* getTotalPendingReplies() > 0.
RepliesPending == \E d \in registered : pending[d] > 0

\* Replies are owed: a run that may hand over more, or one in the chain.
Owed(d) == turn[d] = "open" \/ chain[d] > 0
=============================================================================
