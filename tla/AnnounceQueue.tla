---------------------------- MODULE AnnounceQueue ----------------------------
(***************************************************************************)
(* The announce queue of one requester session: agents/                    *)
(* subagent-announce-queue.ts with utils/queue-helpers.ts.  What subagents *)
(* have to tell a busy session waits, is sent one by one or collected into *)
(* one prompt, and is sent again after a send that failed, also when only  *)
(* its answer was lost.  The gateway's agent method (gateway/              *)
(* server-methods/agent.ts) looks for the key of a request, awaits the     *)
(* session store, and records the key; a restart in process keeps the      *)
(* queue and forgets the keys, while requests under way go on.             *)
(*                                                                         *)
(* The times of the debounce and of the backoff are left out, as is the    *)
(* gateway's forgetting of old keys.  A new process has no queue.          *)
(***************************************************************************)
EXTENDS Naturals, Sequences, FiniteSets, SequencesExt

CONSTANTS
    Announcement,  \* each with an announceId of its own
    Route,         \* announcement |-> where its origin wants the answer
    Unroutable,    \* the route of an origin without a key
    Settings,      \* queue settings that enqueues come with
    MaxMishaps     \* bound: sends that fail, and restarts of the gateway

\* A cap is positive: zod-schema.core.ts, createQueue's default.
ASSUME AnnounceAssumption ==
    /\ Settings # {} /\ MaxMishaps \in Nat
    /\ \A s \in Settings : s.cap \in Nat \ {0} /\ s.dropPolicy \in {"new", "old", "summarize"}

VARIABLES
    items,     \* announcements waiting, the one being sent among them
    dropped,   \* droppedCount and summaryLines: announcements dropped with a summary
    settings,  \* mode, cap and dropPolicy of the queue, of the last enqueue
    drain,     \* where the drain is: "none" for no queue, or "debounce", "checked" (that all
               \* goes together), "send", "spin"
    forced,    \* collectState.forceIndividualCollect
    sending,   \* what the send under way tells, summarises and removes, its key, and where
               \* its request is: "way" to the gateway, "past" the look for its key,
               \* "answered", or "gone"
    late,      \* requests past that look, whose sends have failed, by number; former: of a
               \* gateway that has been restarted
    mishaps,   \* counts failed sends and restarts
    keys,      \* idempotency keys that the gateway has recorded
    told,      \* history: announcement |-> agent runs that had its prompt, to 2
    reported,  \* history: announcements that a summary counted
    over,      \* history: announcements accepted or refused, those dropped for good
    upsets     \* history: what may lose an announcement or tell it twice

announceVars == <<items, dropped, settings, drain, forced, sending, late, mishaps, keys, told,
                  reported, over, upsets>>

Nothing == [tells |-> {}, sums |-> {}, removes |-> 0, key |-> <<>>, at |-> "none"]
ToTell == ToSet(items)

AnnounceTypeOK ==
    /\ items \in Seq(Announcement) /\ dropped \subseteq Announcement
    /\ settings \in Settings
    /\ drain \in {"none", "debounce", "checked", "send", "spin"}
    /\ forced \in BOOLEAN
    /\ sending.at \in {"none", "way", "past", "answered", "gone"}
    /\ sending.tells \subseteq Announcement /\ sending.sums \subseteq Announcement
    /\ keys \subseteq Announcement /\ reported \subseteq Announcement
    /\ told \in [Announcement -> 0..2]
    /\ over.seen \subseteq Announcement /\ over.gone \subseteq over.seen
    /\ upsets \subseteq {"overflow", "lent", "answerLost", "regrouped", "batch",
                   "keyUsed", "window", "forgotten"}
    /\ drain = "none" <=> items = <<>> /\ dropped = {}
    /\ drain = "send" <=> sending # Nothing

AnnounceInit ==
    /\ items = <<>> /\ dropped = {}
    /\ settings = CHOOSE s \in Settings : TRUE
    /\ drain = "none" /\ forced = FALSE
    /\ sending = Nothing
    /\ late = {} /\ mishaps = 0
    /\ keys = {} /\ reported = {} /\ upsets = {}
    /\ told = [a \in Announcement |-> 0]
    /\ over = [seen |-> {}, gone |-> {}]

-----------------------------------------------------------------------------
(* enqueueAnnounce; never while the drain spins, which starves the event loop. *)

Overflows(s) == Len(items) >= s.cap

\* What was sent without an answer is not alone any more.
Newcomer == IF drain = "send" \/ "answerLost" \in upsets THEN {"regrouped"} ELSE {}

\* With the settings of the enqueue, by the policy "new"; the caller does not look at
\* the false that it gets.
Refuse(a, s) ==
    /\ Overflows(s) /\ s.dropPolicy = "new"
    /\ over' = [seen |-> over.seen \cup {a}, gone |-> over.gone \cup {a}]
    /\ upsets' = upsets \cup Newcomer
    /\ UNCHANGED <<items, dropped, drain>>

\* The front makes room.  A send under way will remove what is at the front then.
Accept(a, s) ==
    /\ ~(Overflows(s) /\ s.dropPolicy = "new")
    /\ LET n == IF Overflows(s) THEN Len(items) - s.cap + 1 ELSE 0
           front == ToSet(SubSeq(items, 1, n)) IN
       /\ items' = Append(SubSeq(items, n + 1, Len(items)), a)
       /\ dropped' = IF s.dropPolicy = "summarize" THEN dropped \cup front ELSE dropped
       /\ over' = [seen |-> over.seen \cup {a},
                   gone |-> IF s.dropPolicy = "old" THEN over.gone \cup front ELSE over.gone]
       /\ upsets' = upsets
            \cup (IF n > 0 /\ drain = "send" THEN {"overflow"} ELSE {})
            \cup Newcomer
    /\ drain' = IF drain = "none" THEN "debounce" ELSE drain

Enqueue(a, s) ==
    /\ drain # "spin" /\ a \notin over.seen
    /\ settings' = s
    /\ Refuse(a, s) \/ Accept(a, s)
    /\ UNCHANGED <<forced, sending, late, mishaps, keys, told, reported>>

-----------------------------------------------------------------------------
(* The drain, after the debounce *)

Summary == IF settings.dropPolicy = "summarize" THEN dropped ELSE {}
Cross ==
    \/ \E a \in ToTell : Route[a] = Unroutable
    \/ \E a, b \in ToTell : Route[a] # Route[b]
Individual == settings.mode = "collect" /\ (forced \/ Cross)

Send(tells, sums, removes, key) ==
    /\ sending' = [tells |-> tells, sums |-> sums, removes |-> removes, key |-> <<key>>,
                   at |-> "way"]
    /\ drain' = "send"
    /\ UNCHANGED <<items, dropped, settings, late, mishaps, keys, told, reported, over>>

\* All that waits can go together, as it stands before an await.
Check ==
    /\ drain = "debounce"
    /\ settings.mode = "collect" /\ ~Individual
    /\ drain' = "checked"
    /\ UNCHANGED <<items, dropped, settings, forced, sending, late, mishaps, keys, told, reported, over,
                   upsets>>

\* All that waits after it goes, what would not go together or not at once included.
SendCollected ==
    /\ drain = "checked" /\ items # <<>>
    /\ Send(ToTell, Summary, Len(items), Last(items))
    /\ upsets' = upsets \cup {"batch"}
         \cup (IF settings.mode # "collect" \/ Individual THEN {"regrouped"} ELSE {})
    /\ UNCHANGED forced

SendNext ==
    /\ drain = "debounce" /\ items # <<>>
    /\ Individual \/ (settings.mode # "collect" /\ Summary = {})
    /\ forced' = (Individual \/ forced)
    /\ Send({Head(items)}, {}, 1, Head(items))
    /\ UNCHANGED upsets

\* The prompt of the summary in place of that of the next item.
SendSummary ==
    /\ drain = "debounce" /\ items # <<>>
    /\ settings.mode # "collect" /\ Summary # {}
    /\ Send({}, Summary, 1, Head(items))
    /\ upsets' = upsets \cup {"lent"}
    /\ UNCHANGED forced

\* Only dropped announcements are left, and no item that could carry their summary: the
\* loop ends, and its finally block starts the next at once, without waiting for
\* anything, for ever.
Spin ==
    /\ items = <<>>
    /\ drain = "checked" \/ (drain = "debounce" /\ (settings.mode # "collect" \/ Individual))
    /\ drain' = "spin"
    /\ UNCHANGED <<items, dropped, settings, forced, sending, late, mishaps, keys, told, reported, over,
                   upsets>>

-----------------------------------------------------------------------------
(* The gateway *)

\* The look for the key: for a known one the answer is at hand.
Arrives ==
    /\ drain = "send" /\ sending.at = "way"
    /\ LET known == sending.key[1] \in keys IN
       /\ sending' = [sending EXCEPT !.at = IF known THEN "answered" ELSE "past"]
       /\ upsets' = IF known /\ ~(sending.sums \subseteq reported) THEN upsets \cup {"keyUsed"}
                    ELSE upsets
    /\ UNCHANGED <<items, dropped, settings, drain, forced, late, mishaps, keys, told, reported, over>>

\* After the await, without another look: the key is recorded, the answer is given, and a
\* run starts.
Runs(req) ==
    /\ told' = [a \in Announcement |->
                  IF a \in req.tells /\ told[a] < 2 THEN told[a] + 1 ELSE told[a]]
    /\ reported' = reported \cup req.sums
KeyTwice(req) == IF req.key[1] \in keys THEN {"window"} ELSE {}

Records ==
    /\ drain = "send" /\ sending.at = "past"
    /\ Runs(sending)
    /\ keys' = keys \cup {sending.key[1]}
    /\ upsets' = upsets \cup KeyTwice(sending)
    /\ sending' = [sending EXCEPT !.at = "answered"]
    /\ UNCHANGED <<items, dropped, settings, drain, forced, late, mishaps, over>>

\* The same for a request whose caller has given up.  That of a former gateway has its key
\* recorded where nobody looks any more.
RecordsLate(req) ==
    /\ drain # "spin" /\ req \in late
    /\ Runs(req)
    /\ keys' = IF req.former THEN keys ELSE keys \cup {req.key[1]}
    /\ upsets' = upsets \cup KeyTwice(req)
    /\ late' = late \ {req}
    /\ UNCHANGED <<items, dropped, settings, drain, forced, sending, mishaps, over>>

Mishap == mishaps < MaxMishaps /\ mishaps' = mishaps + 1

\* The request under way goes on, without anybody who waits for its answer.
GoesOn(former) ==
    LET req == [tells |-> sending.tells, sums |-> sending.sums, key |-> sending.key,
                former |-> former, nth |-> mishaps]
    IN /\ sending.at = "past"
       /\ late' = {[other EXCEPT !.former = @ \/ former] : other \in late} \cup {req}

\* What was sent without an answer; it was to go alone, perhaps, and may not the next time.
AnswerLost == {"answerLost"} \cup IF forced THEN {"regrouped"} ELSE {}

\* The gateway restarts in process: keys are forgotten, connections closed, and requests
\* under way go on or fail.
Restart ==
    /\ drain # "spin" /\ Mishap
    /\ keys' = {}
    /\ \/ GoesOn(TRUE) /\ upsets' = upsets \cup {"forgotten"} \cup AnswerLost
       \/ /\ late' = {[other EXCEPT !.former = TRUE] : other \in late}
          /\ upsets' = upsets
               \cup IF drain = "send" \/ "answerLost" \in upsets THEN {"forgotten"} ELSE {}
    /\ sending' = IF sending.at \in {"way", "past"} THEN [sending EXCEPT !.at = "gone"] ELSE sending
    /\ UNCHANGED <<items, dropped, settings, drain, forced, told, reported, over>>

-----------------------------------------------------------------------------
(* The end of a send *)

\* Mutant: the end of the loop looks for items only.
Rescheduled_ItemsOnly == IF items' = <<>> THEN "none" ELSE "debounce"
\* The loop goes on, or its finally block schedules the next.
Rescheduled == IF items' = <<>> /\ dropped' = {} THEN "none" ELSE "debounce"

\* By position, whatever is there by now.
Left == SubSeq(items, sending.removes + 1, Len(items))

\* The answer comes.  The summary is cleared with all that was dropped meanwhile.  A drain
\* that has emptied the queue ends; unless something is enqueued between the removal of a
\* single item and its next look, which finds it with what it had forced.
Sent ==
    /\ drain = "send" /\ sending.at = "answered"
    /\ items' = Left
    /\ dropped' = IF sending.sums = {} THEN dropped ELSE {}
    /\ drain' = Rescheduled
    /\ forced' \in IF drain' = "none" THEN {forced, FALSE} ELSE {forced}
    /\ sending' = Nothing
    /\ UNCHANGED <<settings, late, mishaps, keys, told, reported, over, upsets>>

\* Mutant: what could not be sent is not sent again.
Retained_Not == Left
Retained == items

\* The send throws: its request goes on, its answer is lost, or it comes to nothing.  All
\* of it is kept for another try.
SendThrows ==
    /\ drain = "send"
    /\ \/ /\ GoesOn(FALSE) \/ (sending.at = "answered" /\ UNCHANGED late)
          /\ Mishap /\ upsets' = upsets \cup AnswerLost
       \/ sending.at \in {"way", "past"} /\ Mishap /\ UNCHANGED <<late, upsets>>
       \/ sending.at = "gone" /\ UNCHANGED <<late, mishaps, upsets>>
    /\ items' = Retained
    /\ UNCHANGED <<dropped, settings, keys, told, reported, over>>
    /\ drain' = Rescheduled
    /\ forced' = FALSE /\ sending' = Nothing

-----------------------------------------------------------------------------
Drains == Check \/ SendCollected \/ SendNext \/ SendSummary \/ Spin
SendEnds == Arrives \/ Records \/ Sent \/ SendThrows

AnnounceNext ==
    \/ \E a \in Announcement, s \in Settings : Enqueue(a, s)
    \/ Check \/ SendCollected \/ SendNext \/ SendSummary \/ Spin
    \/ Arrives \/ Records \/ Sent \/ SendThrows
    \/ Restart \/ \E req \in late : RecordsLate(req)

AnnounceSpec == AnnounceInit /\ [][AnnounceNext]_announceVars

-----------------------------------------------------------------------------
(* Properties *)

\* No announcement is lost: it waits, was told to the session, or was dropped by the
\* policy, with a summary that waits or was given if the policy says so; except once the
\* queue overflowed during a send, a summary took an item's place, or went with an item
\* whose key had been used without it.  And it is told once, also after its answer was
\* lost; except that it may go under the key of another then, in a batch, if anything was
\* enqueued since it was sent or it was not to be sent so; that its repetition may pass
\* the look for its key before the first request has recorded it; and that a restarted
\* gateway has forgotten what was sent without an answer.
AnnounceKept ==
    /\ AnnounceTypeOK
    /\ \A a \in Announcement :
          /\ upsets \cap {"overflow", "lent", "keyUsed"} = {} /\ a \in over.seen =>
                a \in ToTell \cup dropped \cup reported \cup over.gone \/ told[a] > 0
          /\ \/ {"answerLost", "regrouped", "batch"} \subseteq upsets
             \/ "window" \in upsets \/ "forgotten" \in upsets
             \/ told[a] <= 1

\* What waits, with its prompt or for a summary, is dealt with in the end if sends are
\* answered at times, unless the drain spins.
AnnouncesSent ==
    \A a \in Announcement :
        a \in ToTell \cup dropped ~> a \notin ToTell \cup dropped \/ drain = "spin"

\* "Summarize keeps a short bullet list of dropped messages and injects it as a synthetic
\* followup prompt": whoever is dropped with a summary is counted by one in the end.
SummaryInjected == \A a \in Announcement : a \in dropped ~> a \in reported
=============================================================================
