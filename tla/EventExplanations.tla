-------------------------- MODULE EventExplanations --------------------------
(***************************************************************************)
(* "Explain Event": the event page (EventViewer.qml), its debouncer, the   *)
(* bridge that answers at once from the knowledge base and asks for more,  *)
(* the explainer's pool workers (event_explainer_v5.py), and the Groq      *)
(* provider with its rate limiter and circuit breaker (providers/groq.py). *)
(*                                                                         *)
(* An explanation is told apart by its event, not by who wrote it: when    *)
(* the remote model fails, the knowledge base's text takes its place in    *)
(* every later step, its row included.  Lists of events are sequences,     *)
(* newest first; the page keeps an index into its list, the bridge reads   *)
(* that index in its own.                                                  *)
(*                                                                         *)
(* Left out: cancel_request and cancelled ids of the provider, which       *)
(* nothing in the program calls; texts, prompts and previews.  With        *)
(* max_retries = 1 a request has one attempt.                              *)
(***************************************************************************)
EXTENDS Naturals, Sequences

CONSTANTS
    Events,       \* events of the log
    Log,          \* the log when it holds them all, newest first
    MaxRequests,  \* bound: requests not yet answered on the page
    FailureLimit, \* failures that open the breaker
    NoEvent       \* nothing is selected or shown

ASSUME ExplanationBounds ==
    /\ MaxRequests \in Nat \ {0} /\ FailureLimit \in Nat \ {0}
    /\ Log \in Seq(Events) /\ NoEvent \notin Events

VARIABLES
    selected,   \* selectedEvent
    place,      \* selectedEventIndex, from 1; 0 when nothing was selected
    aiBusy, aiError,
    aiData,     \* the event whose explanation is shown
    listed,     \* eventModel
    reading,    \* the loading thread: "no", "reads", "has" (set, not yet told)
    loaded,     \* _loaded_events
    debounced,  \* index the debouncer will pass on, 0 when its timer is idle
    ask,        \* where a request is
    about,      \* the event of a request
    former,     \* requests that talk to a provider replaced since
    answers,    \* posted to the UI thread: [request, told]; not told: an error
    failures, open,   \* the breaker of the current provider
    limiter,    \* the request that holds _rate_lock, 0 if none
    crossed     \* history: a selection or a list changed under a request

pageVars == <<selected, place, aiBusy, aiData, aiError>>
listVars == <<listed, reading, loaded>>
askVars  == <<ask, about, former>>
groqVars == <<failures, open>>
explainVars == <<pageVars, listVars, debounced, askVars, answers,
                 groqVars, limiter, crossed>>

Requests == 1 .. MaxRequests
Logs == {SubSeq(Log, i, Len(Log)) : i \in DOMAIN Log}

ExplainInit ==
    /\ selected = NoEvent /\ place = 0
    /\ aiBusy = FALSE /\ aiData = NoEvent /\ aiError = FALSE
    /\ listed = SubSeq(Log, 2, Len(Log)) /\ loaded = listed /\ reading = "no"
    /\ debounced = 0
    /\ ask = [r \in Requests |-> "free"]
    /\ about = [r \in Requests |-> NoEvent]
    /\ former = {}
    /\ answers = <<>>
    /\ failures = 0 /\ open = FALSE
    /\ limiter = 0
    /\ crossed = FALSE

(* A request is a slot, free again when its answer has been delivered. *)
Underway(r) == ask[r] # "free"

(* Something is still to come for what the page has asked. *)
Expected == debounced # 0 \/ \E r \in Requests : Underway(r)

------------------------------------------------------------------------------
(* The page. *)

(* A mutant: the explanation shown stays. *)
SelectRowKeeps(i) ==
    /\ i \in DOMAIN listed
    /\ selected' = listed[i] /\ place' = i
    /\ aiError' = FALSE /\ aiBusy' = FALSE
    /\ crossed' = (Expected \/ listed # loaded)
    /\ UNCHANGED <<aiData, listVars, debounced, askVars, answers, groqVars, limiter>>

SelectRow(i) ==
    /\ i \in DOMAIN listed
    /\ selected' = listed[i] /\ place' = i
    /\ aiData' = NoEvent /\ aiError' = FALSE /\ aiBusy' = FALSE
    /\ crossed' = (Expected \/ listed # loaded)
    /\ UNCHANGED <<listVars, debounced, askVars, answers, groqVars,
                   limiter>>

(* The button's timer starts, or starts again with the new index. *)
ClickExplain ==
    /\ selected # NoEvent /\ ~aiBusy
    /\ \E r \in Requests : ask[r] = "free"          \* bound
    /\ aiBusy' = TRUE /\ aiData' = NoEvent /\ aiError' = FALSE
    /\ debounced' = place
    /\ UNCHANGED <<selected, place, listVars, askVars, answers, groqVars,
                   limiter, crossed>>

ClickRefresh ==
    /\ reading = "no"
    /\ reading' = "reads"
    /\ selected' = NoEvent /\ place' = 0 /\ aiData' = NoEvent /\ aiError' = FALSE
    /\ crossed' = Expected
    /\ UNCHANGED <<aiBusy, listed, loaded, debounced, askVars, answers, groqVars, limiter>>

------------------------------------------------------------------------------
(* loadRecentEvents on its thread: the bridge's list first, the page's later. *)

ReadLog ==
    /\ reading = "reads" /\ reading' = "has"
    /\ loaded' \in {loaded} \cup {l \in Logs : Len(l) >= Len(loaded)}
    /\ crossed' = (crossed \/ (loaded' # loaded /\ (selected # NoEvent \/ Expected)))
    /\ UNCHANGED <<pageVars, listed, debounced, askVars, answers, groqVars,
                   limiter>>

(* onEventsLoaded; an empty list after a failure.  The selection stays. *)
ShowLog ==
    /\ reading = "has" /\ reading' = "no"
    /\ listed' \in {loaded, <<>>}
    /\ UNCHANGED <<pageVars, loaded, debounced, askVars, answers, groqVars,
                   limiter, crossed>>

------------------------------------------------------------------------------
(* The bridge. *)

Available == ~open       \* is_available, the key being set

(* _debounced_request_explanation: the knowledge base's text at once; then a *)
(* request in the background if the provider says it is available.           *)
Explain ==
    /\ debounced # 0 /\ debounced' = 0 /\ aiBusy' = FALSE
    /\ IF debounced \in DOMAIN loaded
       THEN /\ aiData' = loaded[debounced]
            /\ aiError' = FALSE
            /\ IF Available
               THEN \E r \in Requests :
                       /\ ask[r] = "free" /\ \A q \in 1 .. r - 1 : Underway(q)
                       /\ ask' = [ask EXCEPT ![r] = "queued"]
                       /\ about' = [about EXCEPT ![r] = loaded[debounced]]
               ELSE UNCHANGED <<ask, about>>
       ELSE /\ aiData' = NoEvent /\ aiError' = TRUE
            /\ UNCHANGED <<ask, about>>
    /\ UNCHANGED <<selected, place, listVars, former, answers, groqVars,
                   limiter, crossed>>

(* _on_v5_explanation_ready and _failed: shown whatever is selected now. *)
Deliver ==
    /\ answers # <<>> /\ answers' = Tail(answers)
    /\ aiBusy' = FALSE
    /\ LET r == Head(answers).request
       IN /\ IF Head(answers).told
             THEN aiData' = about[r] /\ aiError' = FALSE
             ELSE aiData' = NoEvent /\ aiError' = TRUE
          /\ ask' = [ask EXCEPT ![r] = "free"]
          /\ about' = [about EXCEPT ![r] = NoEvent]
          /\ former' = former \ {r}
    /\ UNCHANGED <<selected, place, listVars, debounced, groqVars,
                   limiter, crossed>>

(* saveGroqApiKey: the next call makes a new provider. *)
SaveKey ==
    /\ former' = former \cup {r \in Requests :
                             ask[r] \in {"limited", "sleeps", "sent"}}
    /\ failures' = 0 /\ open' = FALSE /\ limiter' = 0
    /\ UNCHANGED <<pageVars, listVars, debounced, ask, about, answers, crossed>>

------------------------------------------------------------------------------
(* ExplanationWorker.run on a pool thread. *)

OnlyWork == UNCHANGED <<pageVars, listVars, debounced, about, former, crossed>>

Reply(r, told) ==
    /\ ask' = [ask EXCEPT ![r] = "answered"]
    /\ answers' = Append(answers, [request |-> r, told |-> told])

Current(r) == r \notin former

(* A mutant: the breaker is not asked. *)
LookupAlways(r) ==
    /\ ask[r] = "queued" /\ ask' = [ask EXCEPT ![r] = "limited"]
    /\ OnlyWork /\ UNCHANGED <<answers, groqVars, limiter>>

(* A row saved before and not expired, the provider's memory, or the      *)
(* knowledge base's text if the provider is not available ends it here.   *)
Lookup(r) ==
    /\ ask[r] = "queued"
    /\ \/ Reply(r, TRUE)
       \/ Available /\ ask' = [ask EXCEPT ![r] = "limited"] /\ UNCHANGED answers
    /\ OnlyWork /\ UNCHANGED <<groqVars, limiter>>

(* _rate_limit holds the lock while it sleeps. *)
Limit(r) ==
    /\ ask[r] = "limited"
    /\ IF Current(r) THEN limiter = 0 /\ limiter' = r ELSE UNCHANGED limiter
    /\ ask' = [ask EXCEPT ![r] = "sleeps"]
    /\ OnlyWork /\ UNCHANGED <<answers, groqVars>>

Send(r) ==
    /\ ask[r] = "sleeps" /\ ask' = [ask EXCEPT ![r] = "sent"]
    /\ limiter' = IF limiter = r THEN 0 ELSE limiter
    /\ OnlyWork /\ UNCHANGED <<answers, groqVars>>

(* 200: the count of failures is reset, the breaker is not; the tokens are *)
(* counted under the limiter's lock.  A text of an odd shape is memorised  *)
(* but raises in the worker.                                               *)
Answered(r) ==
    /\ ask[r] = "sent" /\ (Current(r) => limiter = 0)
    /\ failures' = IF Current(r) THEN 0 ELSE failures
    /\ \E told \in BOOLEAN : Reply(r, told)
    /\ OnlyWork /\ UNCHANGED <<open, limiter>>

(* 429 counts as no failure.  Either way the knowledge base's text is the *)
(* valid response.                                                        *)
Refused(r) ==
    /\ ask[r] = "sent"
    /\ Reply(r, TRUE)
    /\ OnlyWork /\ UNCHANGED <<groqVars, limiter>>

(* A timeout, an error status, an exception: of an answer that cannot be *)
(* read, after its success was counted.                                  *)
Fails(r) ==
    /\ ask[r] = "sent" /\ Reply(r, TRUE)
    /\ IF Current(r)
       THEN /\ failures' \in {1, IF failures < FailureLimit THEN failures + 1 ELSE failures}
            /\ open' = (open \/ failures' >= FailureLimit)
       ELSE UNCHANGED <<failures, open>>
    /\ OnlyWork /\ UNCHANGED <<limiter>>

Work(r) ==
    \/ Lookup(r) \/ Limit(r) \/ Send(r)
    \/ Answered(r) \/ Refused(r) \/ Fails(r)

ExplainNext ==
    \/ \E i \in 1 .. Len(Log) : SelectRow(i)
    \/ ClickExplain \/ ClickRefresh \/ ReadLog \/ ShowLog
    \/ Explain \/ Deliver \/ SaveKey
    \/ \E r \in Requests : Work(r)

(* Timers fire, posted answers are delivered, threads run, a request times *)
(* out after 12 s, and a thread that waits for the limiter's lock gets it  *)
(* if it is free again and again.  Nothing is assumed of the user.         *)
ExplainFairness ==
    /\ WF_explainVars(Explain) /\ WF_explainVars(Deliver)
    /\ WF_explainVars(ReadLog \/ ShowLog)
    /\ \A r \in Requests : SF_explainVars(Work(r))

ExplainSpec == ExplainInit /\ [][ExplainNext]_explainVars /\ ExplainFairness

------------------------------------------------------------------------------
(* Properties. *)

ExplainTypeOK ==
    /\ selected \in Events \cup {NoEvent} /\ place \in 0 .. Len(Log)
    /\ aiBusy \in BOOLEAN /\ aiError \in BOOLEAN
    /\ aiData \in Events \cup {NoEvent}
    /\ listed \in Seq(Events) /\ loaded \in Seq(Events)
    /\ reading \in {"no", "reads", "has"} /\ debounced \in 0 .. Len(Log)
    /\ ask \in [Requests -> {"free", "queued", "limited", "sleeps",
                             "sent", "answered"}]
    /\ about \in [Requests -> Events \cup {NoEvent}] /\ former \in SUBSET Requests
    /\ answers \in Seq([request : Requests, told : BOOLEAN])
    /\ failures \in 0 .. FailureLimit /\ open \in BOOLEAN
    /\ limiter \in Requests \cup {0} /\ crossed \in BOOLEAN

(* Every request that is to be answered is about an event, each answer waits *)
(* once, and only a request that sleeps in the limiter holds its lock.       *)
RequestsAreWhole ==
    /\ \A r \in Requests : Underway(r) <=> about[r] # NoEvent
    /\ \A r \in Requests :
          ask[r] = "answered" <=> \E i \in DOMAIN answers : answers[i].request = r
    /\ \A i, j \in DOMAIN answers : answers[i].request = answers[j].request => i = j
    /\ limiter # 0 => ask[limiter] = "sleeps" /\ limiter \notin former

(* The explanation on the page is of the event selected, unless a selection *)
(* or a refresh came while an answer was awaited, or the bridge's list has  *)
(* moved on from the page's: the bridge takes an index, not an event, and   *)
(* the page shows any answer.                                               *)
ShownIsSelected == ~crossed /\ aiData # NoEvent => aiData = selected

(* The page never shows an explanation and an error at once. *)
ExplanationInv ==
    /\ ExplainTypeOK /\ RequestsAreWhole /\ ShownIsSelected
    /\ ~(aiError /\ aiData # NoEvent)

InFlight == {r \in Requests \ former : ask[r] \in {"limited", "sleeps", "sent"}}

(* An open breaker only drains: a request that waits on the pool, or that  *)
(* was started before the failures of another opened the breaker, does not *)
(* join those on their way to its provider.  (When it closes is not said:  *)
(* the code would close it after 60 s, but asks is_available first.)       *)
DrainsOnly == open => InFlight' \subseteq InFlight
BreakerDrains == [][DrainsOnly]_explainVars

(* Every request is answered. *)
RequestsEnd == \A r \in Requests : Underway(r) ~> ~Underway(r)
==============================================================================
