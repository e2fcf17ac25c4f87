--------------------------- MODULE ScanCenter_proofs ---------------------------
(***************************************************************************)
(* Proofs about ScanCenter, for any number of scans: the bridge's          *)
(* references name what runs, every scan answers once, a cancellation is   *)
(* honoured, and a scored scan has put its guest away.                     *)
(***************************************************************************)
EXTENDS ScanCenter, FiniteSetTheorems, SequenceTheorems, TLAPS

------------------------------------------------------------------------------
(* The inductive invariant. *)

\* A scan has a kind from its acceptance on, and only stages of that kind.
KindInv ==
    \A j \in Jobs :
        /\ kind[j] = "none" <=> stage[j] \in {"none", "refused"}
        /\ stage[j] \in StaticStages => kind[j] = "static"
        /\ stage[j] \in SandboxStages => kind[j] = "sandbox"

\* Unless X was pressed over one, what has not answered is what the page asked
\* for, waits for, and can reach.
AskedInv ==
    ~abandoned =>
        \A j \in Unanswered :
            /\ scanning /\ j = asked
            /\ kind[j] = "sandbox" => orchestrator = j

\* From its revert to its sample such a scan has the guest to itself.
HoldInv ==
    ~abandoned =>
        /\ vm.holds = {} \/ \E j \in Jobs : vm.holds = {j}
        /\ \A j \in Jobs :
              stage[j] \in {"start", "viewer", "tools", "payload"} => vm.holds = {}

\* A cancellation is either still to be seen at the next test of the event, or
\* came before the event was cleared, or after its last test.
CancelInv ==
    \A j \in Jobs :
        /\ stage[j] \in {"none", "refused"} \cup SandboxStages => cancelledAt[j] = "no"
        /\ stage[j] = "begin" => cancelledAt[j] \in {"no", "begin"}
        /\ stage[j] \in {"hashes", "engines", "iocs"} =>
              j \in cancel \/ cancelledAt[j] \in {"no", "begin"}
        /\ stage[j] = "score" => cancelledAt[j] \in {"no", "begin", "score"}
        /\ result[j] = "scored" => cancelledAt[j] \in {"no", "begin", "score", "explain"}

\* A viewer is left behind by an error only, and a guest in disorder by a scan
\* that is at it, an error, or a failed revert.
GuestStages == {"start", "viewer", "tools", "payload", "monitor", "wait",
                "collect", "teardown", "putBack"}
TidyInv ==
    /\ \A j \in viewers :
          \/ stage[j] \in {"tools", "payload", "monitor", "wait", "collect", "teardown"}
          \/ result[j] = "error"
    /\ \/ IsClean(vm) \/ putBackFailed # {}
       \/ \E j \in Jobs : stage[j] \in GuestStages \/ (kind[j] = "sandbox" /\ result[j] = "error")

CenterIInv ==
    /\ TypeOK /\ StaticScansAreAlone /\ AnsweredOnce
    /\ KindInv /\ AskedInv /\ HoldInv /\ CancelInv /\ TidyInv

USE NoJobAssumption, StoredAssumption

------------------------------------------------------------------------------
(* What one step of a pipeline does to its scan. *)

Results == {"scored", "cancelled", "error"}
GoesTo(j, s) == Goto(j, s) /\ UNCHANGED <<result, inbox>>
AnswersTo(j, s) == Goto(j, s) /\ \E r \in Results, report \in BOOLEAN : Answer(j, r, report)

Elsewhere(j) == UNCHANGED <<page, orchestrator, kind, finish, told, history>>

StaticMove(j) ==
    /\ stage[j] \in StaticStages \ {"explain"}
    /\ UNCHANGED <<controller, vm, viewers, putBackFailed>> /\ cancel' \subseteq Jobs
    /\ \/ \E s \in StaticStages \ {"explain"} : GoesTo(j, s)
       \/ AnswersTo(j, "explain")
ExplainMove(j) ==
    /\ stage[j] = "explain" /\ GoesTo(j, "ended") /\ controller' = NoJob
    /\ UNCHANGED <<vm, viewers, putBackFailed, cancel>>
SandboxMove(j) ==
    /\ stage[j] \in SandboxStages
    /\ UNCHANGED <<controller, cancel>>
    /\ \/ \E s \in SandboxStages : GoesTo(j, s)
       \/ AnswersTo(j, "ended")

USE DEF page, refs, history, Elsewhere, GoesTo, AnswersTo

LEMMA StaticMoves ==
  ASSUME TypeOK, NEW j \in Jobs, Begin(j) \/ Step(j) \/ Score(j)
  PROVE  StaticMove(j) /\ Elsewhere(j)
<1>1. CASE Begin(j)
  BY <1>1 DEF Begin, StaticMove, StaticStages, TypeOK
<1>2. CASE Step(j)
  <2>1. stage[j] \in {"hashes", "engines", "iocs"}
        /\ NextStage[stage[j]] \in {"engines", "iocs", "score"}
    BY <1>2 DEF Step, NextStage
  <2>. QED
    BY <1>2, <2>1 DEF Step, StaticMove, StaticStages, Results, TypeOK
<1>3. CASE Score(j)
  BY <1>3 DEF Score, StaticMove, StaticStages, Results, TypeOK
<1>. QED
  BY <1>1, <1>2, <1>3

LEMMA ExplainMoves ==
  ASSUME NEW j \in Jobs, Explain(j)
  PROVE  ExplainMove(j) /\ Elsewhere(j)
BY DEF Explain, ExplainMove

Guest(j) == Revert(j) \/ Boot(j) \/ Tools(j) \/ Payload(j) \/ Monitor(j)
Sandbox(j) ==
    \/ ClamAv(j) \/ Revert(j) \/ Boot(j) \/ Viewer(j) \/ Tools(j) \/ Payload(j)
    \/ Monitor(j) \/ GuestGone(j) \/ Wait(j) \/ Collect(j) \/ Teardown(j)
    \/ PutBack(j) \/ Summary(j) \/ Verdict(j)

LEMMA SandboxMoves ==
  ASSUME TypeOK, NEW j \in Jobs, Sandbox(j)
  PROVE  SandboxMove(j) /\ Elsewhere(j)
<1> USE DEF SandboxMove, SandboxStages, OnlyStage, Results
<1>1. CASE ClamAv(j)
  BY <1>1 DEF ClamAv
<1>2. CASE Revert(j) \/ Boot(j) \/ Tools(j) \/ Payload(j) \/ Monitor(j)
  BY <1>2 DEF Revert, Boot, Tools, Payload, Monitor, Command
<1>3. CASE Viewer(j) \/ GuestGone(j) \/ Wait(j) \/ Teardown(j) \/ Summary(j)
  BY <1>3 DEF Viewer, GuestGone, Wait, Teardown, Summary
<1>4. CASE Collect(j) \/ Verdict(j)
  BY <1>4 DEF Collect, Verdict
<1>5. CASE PutBack(j)
  BY <1>5 DEF PutBack
<1>. QED
  BY <1>1, <1>2, <1>3, <1>4, <1>5 DEF Sandbox

LEMMA Moves ==
  ASSUME TypeOK, NEW j \in Jobs, Pipeline(j)
  PROVE  (StaticMove(j) \/ ExplainMove(j) \/ SandboxMove(j)) /\ Elsewhere(j)
BY StaticMoves, ExplainMoves, SandboxMoves DEF Pipeline, Sandbox

\* The guest and what is kept of it stay of their types.
LEMMA GuestTyped ==
  ASSUME TypeOK, NEW j \in Jobs, Pipeline(j)
  PROVE  vm' \in Guests /\ viewers' \subseteq Jobs /\ putBackFailed' \subseteq Jobs
<1>1. /\ vm \in Guests /\ Reverted(vm) \in Guests /\ Started(vm) \in Guests
      /\ Stopped(vm) \in Guests /\ Loaded(vm, j) \in Guests
  BY DEF TypeOK, Guests, Reverted, Started, Stopped, Loaded, CleanGuest
<1>2. vm' \in {vm, Reverted(vm), Started(vm), Stopped(vm), Loaded(vm, j)}
  BY DEF Pipeline, Begin, Step, Score, Explain, ClamAv, Revert, Boot, Viewer, Tools,
     Payload, Monitor, GuestGone, Wait, Collect, Teardown, PutBack, Summary, Verdict,
     Command, After
<1>3. viewers' \subseteq Jobs /\ putBackFailed' \subseteq Jobs
  BY DEF TypeOK, Pipeline, Begin, Step, Score, Explain, ClamAv, Revert, Boot, Viewer, Tools,
     Payload, Monitor, GuestGone, Wait, Collect, Teardown, PutBack, Summary, Verdict,
     Command
<1>. QED
  BY <1>1, <1>2, <1>3

------------------------------------------------------------------------------
(* The queue of answers. *)

Answers == [job : Jobs, report : BOOLEAN]

LEMMA Appended ==
  ASSUME TypeOK, NEW j \in Jobs, NEW report \in BOOLEAN,
         inbox' = Append(inbox, [job |-> j, report |-> report])
  PROVE  /\ inbox' \in Seq(Answers)
         /\ DOMAIN inbox = 1 .. Len(inbox) /\ Len(inbox) \in Nat
         /\ DOMAIN inbox' = 1 .. Len(inbox) + 1
         /\ \A i \in DOMAIN inbox : inbox'[i] = inbox[i]
         /\ inbox'[Len(inbox) + 1].job = j
<1>1. inbox \in Seq(Answers) /\ [job |-> j, report |-> report] \in Answers
  BY DEF TypeOK, Answers
<1>. QED
  BY <1>1, AppendProperties

LEMMA Delivered ==
  ASSUME TypeOK, Deliver
  PROVE  /\ Head(inbox) = inbox[1] /\ inbox[1].job \in Jobs /\ 1 \in DOMAIN inbox
         /\ inbox' \in Seq(Answers)
         /\ \A i \in DOMAIN inbox' : /\ i \in Nat /\ i + 1 \in DOMAIN inbox /\ i + 1 # 1
                                     /\ inbox'[i] = inbox[i + 1]
         /\ \A i \in DOMAIN inbox : i # 1 =>
               i - 1 \in DOMAIN inbox' /\ inbox'[i - 1] = inbox[i]
<1>1. inbox \in Seq(Answers) /\ inbox # <<>> /\ inbox' = Tail(inbox)
  BY DEF TypeOK, Answers, Deliver
<1>2. inbox[1] \in Answers /\ Head(inbox) = inbox[1]
  BY <1>1
<1>. QED
  BY <1>1, <1>2, HeadTailProperties DEF Answers

\* Of one scan: whether its answer is queued.
Queued(j) == \E i \in DOMAIN inbox : inbox[i].job = j

LEMMA AnswersOnce ==
  ASSUME TypeOK, AnsweredOnce, NEW j \in Jobs, NEW s \in {"explain", "ended"},
         stage[j] \notin {"explain", "ended"}, AnswersTo(j, s), told' = told
  PROVE  AnsweredOnce' /\ inbox' \in Seq(Answers) /\ result' \in [Jobs -> Results \cup {"none"}]
<1>1. PICK r \in Results, report \in BOOLEAN : Answer(j, r, report)
  OBVIOUS
<1>2. /\ result' = [result EXCEPT ![j] = r]
      /\ inbox' = Append(inbox, [job |-> j, report |-> report])
      /\ stage' = [stage EXCEPT ![j] = s]
  BY <1>1 DEF Answer, Goto
<1>3. ~Queued(j) /\ j \notin told /\ result[j] = "none"
  BY DEF AnsweredOnce, Queued
<1>4. /\ inbox' \in Seq(Answers)
      /\ DOMAIN inbox = 1 .. Len(inbox) /\ Len(inbox) \in Nat
      /\ DOMAIN inbox' = 1 .. Len(inbox) + 1
      /\ \A i \in DOMAIN inbox : inbox'[i] = inbox[i]
      /\ inbox'[Len(inbox) + 1].job = j
  BY <1>2, Appended
<1>5. ASSUME NEW i \in DOMAIN inbox', NEW k \in DOMAIN inbox', inbox'[i].job = inbox'[k].job
      PROVE  i = k
  <2>1. CASE i \in DOMAIN inbox /\ k \in DOMAIN inbox
    BY <1>4, <1>5, <2>1 DEF AnsweredOnce
  <2>2. CASE i \notin DOMAIN inbox /\ k \notin DOMAIN inbox
    BY <1>4, <2>2
  <2>3. CASE (i \in DOMAIN inbox) # (k \in DOMAIN inbox)
    BY <1>3, <1>4, <1>5, <2>3 DEF Queued
  <2>. QED
    BY <2>1, <2>2, <2>3
<1>6. ASSUME NEW k \in Jobs PROVE Queued(k)' <=> Queued(k) \/ k = j
  <2>1. ASSUME NEW i \in DOMAIN inbox', inbox'[i].job = k PROVE Queued(k) \/ k = j
    BY <1>4, <2>1 DEF Queued
  <2>2. ASSUME NEW i \in DOMAIN inbox, inbox[i].job = k PROVE Queued(k)'
    BY <1>4, <2>2 DEF Queued
  <2>3. Queued(j)'
    BY <1>4 DEF Queued
  <2>. QED
    BY <2>1, <2>2, <2>3 DEF Queued
<1>7. ASSUME NEW k \in Jobs
      PROVE  /\ ~(Queued(k)' /\ k \in told')
             /\ (Queued(k)' \/ k \in told') <=> result'[k] # "none"
             /\ result'[k] # "none" <=> stage'[k] \in {"explain", "ended"}
  <2>1. /\ ~(Queued(k) /\ k \in told)
        /\ (Queued(k) \/ k \in told) <=> result[k] # "none"
        /\ result[k] # "none" <=> stage[k] \in {"explain", "ended"}
    BY DEF AnsweredOnce, Queued
  <2>2. CASE k = j
    BY <1>2, <1>3, <1>6, <2>2 DEF TypeOK, Results
  <2>3. CASE k # j
    BY <1>2, <1>6, <2>1, <2>3 DEF TypeOK
  <2>. QED
    BY <2>2, <2>3
<1>8. AnsweredOnce'
  BY <1>5, <1>7 DEF AnsweredOnce, Queued
<1>9. result' \in [Jobs -> Results \cup {"none"}]
  BY <1>2 DEF TypeOK, Results
<1>. QED
  BY <1>4, <1>8, <1>9

\* A step without an answer leaves the book of answers as it is.
LEMMA AnswersStay ==
  ASSUME TypeOK, AnsweredOnce, UNCHANGED <<result, inbox, told>>,
         \A j \in Jobs : stage'[j] \in {"explain", "ended"} <=> stage[j] \in {"explain", "ended"}
  PROVE  AnsweredOnce'
BY DEF AnsweredOnce

LEMMA PipelineBooks ==
  ASSUME CenterIInv, NEW j \in Jobs, Pipeline(j)
  PROVE  TypeOK' /\ StaticScansAreAlone' /\ AnsweredOnce' /\ KindInv'
<1>0. TypeOK /\ AnsweredOnce /\ StaticScansAreAlone /\ KindInv
  BY DEF CenterIInv
<1>1. (StaticMove(j) \/ ExplainMove(j) \/ SandboxMove(j)) /\ Elsewhere(j)
  BY <1>0, Moves
<1>2. PICK s \in AllStages :
         /\ Goto(j, s)
         /\ \/ stage[j] \in StaticStages \ {"explain"} /\ s \in StaticStages /\ controller' = controller
            \/ stage[j] = "explain" /\ s = "ended" /\ controller' = NoJob
            \/ stage[j] \in SandboxStages /\ s \in SandboxStages \cup {"ended"} /\ controller' = controller
         /\ \/ /\ GoesTo(j, s)
               /\ s \in {"explain", "ended"} <=> stage[j] \in {"explain", "ended"}
            \/ /\ AnswersTo(j, s) /\ s \in {"explain", "ended"}
               /\ stage[j] \notin {"explain", "ended"}
  BY <1>1 DEF StaticMove, ExplainMove, SandboxMove, AllStages, StaticStages, SandboxStages
<1>3. stage' = [stage EXCEPT ![j] = s] /\ stage \in [Jobs -> AllStages]
  BY <1>0, <1>2 DEF Goto, TypeOK
<1>4. AnsweredOnce' /\ inbox' \in Seq(Answers) /\ result' \in [Jobs -> Results \cup {"none"}]
  <2>1. CASE GoesTo(j, s) /\ (s \in {"explain", "ended"} <=> stage[j] \in {"explain", "ended"})
    BY <1>0, <1>1, <1>3, <2>1, AnswersStay DEF TypeOK, Answers, Results
  <2>2. CASE AnswersTo(j, s) /\ s \in {"explain", "ended"} /\ stage[j] \notin {"explain", "ended"}
    BY <1>0, <1>1, <2>2, AnswersOnce
  <2>. QED
    BY <1>2, <2>1, <2>2
<1>5. cancel' \subseteq Jobs /\ controller' \in Jobs \cup {NoJob}
  BY <1>0, <1>1 DEF StaticMove, ExplainMove, SandboxMove, TypeOK
<1>6. TypeOK'
  <2>1. vm' \in Guests /\ viewers' \subseteq Jobs /\ putBackFailed' \subseteq Jobs
    BY <1>0, GuestTyped
  <2>2. stage' \in [Jobs -> AllStages]
    BY <1>3
  <2>3. UNCHANGED <<scanning, asked, shown, theater, orchestrator, kind, finish, told,
                    cancelledAt, abandoned>>
    BY <1>1
  <2>. QED
    BY <1>0, <1>4, <1>5, <2>1, <2>2, <2>3 DEF TypeOK, Answers, Results
<1>7. StaticScansAreAlone'
  <2>1. ASSUME NEW k \in Jobs PROVE stage'[k] \in StaticStages <=> controller' = k
    <3>1. stage[k] \in StaticStages <=> controller = k
      BY <1>0 DEF StaticScansAreAlone
    <3>2. stage[j] \in StaticStages <=> controller = j
      BY <1>0 DEF StaticScansAreAlone
    <3>3. \A t \in SandboxStages \cup {"ended"} : t \notin StaticStages
      BY DEF SandboxStages, StaticStages
    <3>. QED
      BY <1>2, <1>3, <3>1, <3>2, <3>3 DEF StaticStages
  <2>. QED
    BY <2>1 DEF StaticScansAreAlone
<1>8. KindInv'
  <2>1. kind' = kind
    BY <1>1
  <2>. QED
    BY <1>0, <1>2, <1>3, <2>1 DEF KindInv, StaticStages, SandboxStages
<1>. QED
  BY <1>4, <1>6, <1>7, <1>8

------------------------------------------------------------------------------
(* The guest, the cancellations, and what a scan leaves behind. *)

LEMMA PipelineAsked ==
  ASSUME CenterIInv, NEW j \in Jobs, Pipeline(j)
  PROVE  AskedInv'
<1>1. Elsewhere(j)
  BY Moves DEF CenterIInv
<1>2. Unanswered' = Unanswered
  BY <1>1 DEF Unanswered, Accepted
<1>. QED
  BY <1>1, <1>2 DEF CenterIInv, AskedInv

\* Who works in the guest has not answered, and so is alone until X is pressed.
LEMMA GuestIsTheirs ==
  ASSUME CenterIInv, ~abandoned, NEW j \in Jobs, NEW i \in Jobs,
         stage[j] \in SandboxStages, stage[i] \in SandboxStages
  PROVE  i = j
<1>1. ASSUME NEW k \in Jobs, stage[k] \in SandboxStages PROVE k \in Unanswered
  BY <1>1 DEF CenterIInv, KindInv, AnsweredOnce, Unanswered, Accepted, SandboxStages
<1>. QED
  BY <1>1 DEF CenterIInv, AskedInv

LEMMA PipelineHolds ==
  ASSUME CenterIInv, NEW j \in Jobs, Pipeline(j)
  PROVE  HoldInv'
<1> SUFFICES ASSUME ~abandoned' PROVE HoldInv'
  BY DEF HoldInv
<1>1. (StaticMove(j) \/ ExplainMove(j) \/ SandboxMove(j)) /\ Elsewhere(j) /\ TypeOK
  BY Moves DEF CenterIInv
<1>2. ~abandoned /\ HoldInv /\ stage \in [Jobs -> AllStages] /\ vm \in Guests
  BY <1>1 DEF CenterIInv, TypeOK
<1> DEFINE Early == {"start", "viewer", "tools", "payload"}
<1>3. CASE StaticMove(j) \/ ExplainMove(j)
  BY <1>2, <1>3 DEF HoldInv, StaticMove, ExplainMove, Goto, StaticStages
<1>4. CASE SandboxMove(j)
  <2>1. \A i \in Jobs : stage[i] \in Early => i = j
    BY <1>2, <1>4, GuestIsTheirs DEF SandboxMove, SandboxStages
  <2>2. \A i \in Jobs : i # j => stage'[i] = stage[i]
    BY <1>2, <1>4 DEF SandboxMove, Goto
  <2>3. /\ vm'.holds = {} \/ \E k \in Jobs : vm'.holds = {k}
        /\ stage'[j] \in Early => vm'.holds = {}
    <3>1. \/ stage[j] \in Early /\ vm.holds = {}
          \/ stage[j] \notin Early /\ (vm.holds = {} \/ \E k \in Jobs : vm.holds = {k})
      BY <1>2 DEF HoldInv
    <3>2. /\ Reverted(vm).holds = {} /\ Started(vm).holds = vm.holds
          /\ Stopped(vm).holds = vm.holds /\ Loaded(vm, j).holds = vm.holds \cup {j}
      BY <1>2 DEF Guests, Reverted, Started, Stopped, Loaded, CleanGuest
    <3>3. CASE Payload(j)
      <4>1. vm.holds = {} /\ vm' \in {vm, Loaded(vm, j)} /\ stage'[j] \in {"monitor", "collect"}
        BY <1>2, <3>1, <3>3 DEF Payload, Command, After, Goto
      <4>. QED
        BY <3>2, <4>1
    <3>4. CASE Revert(j)
      BY <1>2, <3>1, <3>2, <3>4 DEF Revert, Command, After, Goto
    <3>5. CASE Boot(j) \/ Viewer(j) \/ Tools(j)
      BY <1>2, <3>1, <3>2, <3>5 DEF Boot, Viewer, Tools, Command, After, Goto, OnlyStage
    <3>6. CASE Monitor(j) \/ GuestGone(j) \/ Wait(j) \/ Collect(j) \/ Teardown(j) \/ PutBack(j)
      <4>1. stage'[j] \notin Early
        BY <1>2, <3>6 DEF Monitor, GuestGone, Wait, Collect, Teardown, PutBack, Command, Goto
      <4>2. vm'.holds = vm.holds \/ vm'.holds = {}
        BY <3>2, <3>6 DEF Monitor, GuestGone, Wait, Collect, Teardown, PutBack, Command, After
      <4>. QED
        BY <3>1, <4>1, <4>2
    <3>7. CASE ClamAv(j) \/ Summary(j) \/ Verdict(j)
      BY <1>2, <3>1, <3>7 DEF ClamAv, Summary, Verdict, Goto
    <3>8. ~Begin(j) /\ ~Step(j) /\ ~Score(j) /\ ~Explain(j)
      BY <1>4 DEF SandboxMove, SandboxStages, Begin, Step, Score, Explain, NextStage
    <3>. QED
      BY <3>3, <3>4, <3>5, <3>6, <3>7, <3>8 DEF Pipeline
  <2>. QED
    BY <2>1, <2>2, <2>3 DEF HoldInv
<1>. QED
  BY <1>1, <1>3, <1>4

\* The event is tested behind every step, so that a score is given only to a
\* scan that was not cancelled before its last test.
LEMMA PipelineCancels ==
  ASSUME CenterIInv, NEW j \in Jobs, Pipeline(j)
  PROVE  CancelInv'
<1>1. (StaticMove(j) \/ ExplainMove(j) \/ SandboxMove(j)) /\ Elsewhere(j) /\ TypeOK
      /\ CancelInv /\ AnsweredOnce
  BY Moves DEF CenterIInv
<1>2. PICK s \in AllStages : stage' = [stage EXCEPT ![j] = s]
  BY <1>1 DEF StaticMove, ExplainMove, SandboxMove, Goto, AllStages, StaticStages, SandboxStages
<1>3. ASSUME NEW i \in Jobs, i # j
      PROVE  stage'[i] = stage[i] /\ result'[i] = result[i] /\ (i \in cancel => i \in cancel')
  <2>1. stage'[i] = stage[i]
    BY <1>1, <1>2, <1>3 DEF TypeOK
  <2>2. result'[i] = result[i]
    BY <1>1, <1>3 DEF StaticMove, ExplainMove, SandboxMove, Answer, TypeOK
  <2>3. i \in cancel => i \in cancel'
    BY <1>1, <1>3 DEF Pipeline, Begin, Step, Score, StaticMove, ExplainMove, SandboxMove,
       StaticStages, SandboxStages, Explain, ClamAv, Revert, Boot, Viewer, Tools, Payload,
       Monitor, GuestGone, Wait, Collect, Teardown, PutBack, Summary, Verdict, Command, OnlyStage
  <2>. QED
    BY <2>1, <2>2, <2>3
<1> DEFINE Good(i) ==
        /\ stage[i] \in {"none", "refused"} \cup SandboxStages => cancelledAt[i] = "no"
        /\ stage[i] = "begin" => cancelledAt[i] \in {"no", "begin"}
        /\ stage[i] \in {"hashes", "engines", "iocs"} =>
              i \in cancel \/ cancelledAt[i] \in {"no", "begin"}
        /\ stage[i] = "score" => cancelledAt[i] \in {"no", "begin", "score"}
        /\ result[i] = "scored" => cancelledAt[i] \in {"no", "begin", "score", "explain"}
<1>4. cancelledAt' = cancelledAt /\ Good(j)
  BY <1>1 DEF CancelInv
<1>5. Good(j)'
  <2>1. CASE Begin(j)
    BY <1>1, <1>4, <2>1 DEF Begin, Goto, TypeOK, SandboxStages
  <2>2. CASE Step(j)
    <3>1. CASE /\ j \notin cancel
               /\ Goto(j, NextStage[stage[j]]) /\ UNCHANGED <<result, inbox>>
      <4>1. cancelledAt[j] \in {"no", "begin"} /\ result'[j] = result[j]
        BY <1>4, <2>2, <3>1 DEF Step, NextStage
      <4>2. stage'[j] \in {"engines", "iocs", "score"}
        BY <1>1, <2>2, <3>1 DEF Step, NextStage, Goto, TypeOK
      <4>. QED
        BY <1>4, <4>1, <4>2 DEF SandboxStages
    <3>2. CASE \E r \in {"cancelled", "error"}, report \in BOOLEAN :
                  Answer(j, r, report) /\ Goto(j, "explain")
      BY <1>1, <1>4, <3>2 DEF Answer, Goto, TypeOK, SandboxStages
    <3>. QED
      BY <2>2, <3>1, <3>2 DEF Step
  <2>3. CASE Score(j)
    BY <1>1, <1>4, <2>3 DEF Score, Answer, Goto, TypeOK, SandboxStages
  <2>4. CASE Explain(j)
    BY <1>1, <1>4, <2>4 DEF Explain, Goto, TypeOK, SandboxStages
  <2>5. CASE SandboxMove(j)
    <3>1. cancelledAt[j] = "no"
      BY <1>4, <2>5 DEF SandboxMove
    <3>2. stage'[j] \in SandboxStages \cup {"ended"}
      BY <1>1, <2>5 DEF SandboxMove, Goto, TypeOK
    <3>. QED
      BY <1>4, <3>1, <3>2
  <2>6. StaticMove(j) \/ ExplainMove(j) => Begin(j) \/ Step(j) \/ Score(j) \/ Explain(j)
    <3>1. Sandbox(j) => stage[j] \in SandboxStages
      BY <1>1, SandboxMoves DEF SandboxMove
    <3>. QED
      BY <3>1 DEF StaticMove, ExplainMove, StaticStages, SandboxStages, Pipeline, Sandbox
  <2>. QED
    BY <1>1, <2>1, <2>2, <2>3, <2>4, <2>5, <2>6
<1>6. ASSUME NEW i \in Jobs, i # j PROVE Good(i)'
  BY <1>1, <1>3, <1>4, <1>6 DEF CancelInv
<1>. QED
  BY <1>5, <1>6 DEF CancelInv

\* Whoever leaves the guest in disorder is still at it, failed, or could not
\* revert it; whoever leaves a viewer behind failed.
LEMMA PipelineTidies ==
  ASSUME CenterIInv, NEW j \in Jobs, Pipeline(j)
  PROVE  TidyInv'
<1>1. (StaticMove(j) \/ ExplainMove(j) \/ SandboxMove(j)) /\ Elsewhere(j) /\ TypeOK
      /\ TidyInv /\ AnsweredOnce /\ KindInv
  BY Moves DEF CenterIInv
<1> DEFINE Open == {"tools", "payload", "monitor", "wait", "collect", "teardown"}
<1> DEFINE Messy(i) == stage[i] \in GuestStages \/ (kind[i] = "sandbox" /\ result[i] = "error")
<1>2. ASSUME NEW i \in Jobs, i # j
      PROVE  stage'[i] = stage[i] /\ result'[i] = result[i] /\ kind'[i] = kind[i]
  BY <1>1, <1>2 DEF StaticMove, ExplainMove, SandboxMove, Answer, Goto, TypeOK
<1>3. CASE StaticMove(j) \/ ExplainMove(j)
  <2>1. stage[j] \notin Open /\ stage[j] \notin GuestStages /\ kind[j] # "sandbox"
        /\ kind' = kind /\ UNCHANGED <<vm, viewers, putBackFailed>>
    BY <1>1, <1>3 DEF StaticMove, ExplainMove, StaticStages, GuestStages, KindInv
  <2>2. result[j] = "error" => result'[j] = "error"
    BY <1>1, <1>3 DEF StaticMove, ExplainMove, AnsweredOnce, StaticStages
  <2>3. \A i \in viewers' : stage'[i] \in Open \/ result'[i] = "error"
    BY <1>1, <1>2, <2>1, <2>2 DEF TidyInv, TypeOK
  <2>4. (\E i \in Jobs : Messy(i)) => (\E i \in Jobs : Messy(i)')
    BY <1>2, <2>1
  <2>. QED
    BY <1>1, <2>1, <2>3, <2>4 DEF TidyInv
<1>4. CASE SandboxMove(j)
  <2>1. kind[j] = "sandbox" /\ kind' = kind /\ result[j] = "none"
        /\ stage[j] \in SandboxStages
        /\ stage'[j] \in SandboxStages \cup {"ended"}
    BY <1>1, <1>4 DEF SandboxMove, KindInv, AnsweredOnce, SandboxStages, Goto, TypeOK
  <2>2. Sandbox(j)
    BY <2>1 DEF Pipeline, Sandbox, Begin, Step, Score, Explain, NextStage, SandboxStages
  <2>3. viewers' \subseteq Jobs
    BY <1>1, GuestTyped
  <2>4. \A i \in viewers' : stage'[i] \in Open \/ result'[i] = "error"
    <3>1. j \in viewers' => stage'[j] \in Open \/ result'[j] = "error"
      <4>1. j \in viewers => stage[j] \in Open
        BY <1>1, <2>1 DEF TidyInv
      <4>2. CASE ClamAv(j) \/ PutBack(j) \/ Summary(j) \/ Verdict(j)
        BY <4>1, <4>2 DEF ClamAv, PutBack, Summary, Verdict
      <4>3. CASE Revert(j) \/ Boot(j) \/ Tools(j) \/ Payload(j) \/ Monitor(j)
        BY <1>1, <4>1, <4>3 DEF Revert, Boot, Tools, Payload, Monitor, Command, Goto, TypeOK
      <4>4. CASE Viewer(j) \/ GuestGone(j) \/ Wait(j) \/ Teardown(j)
        BY <1>1, <4>1, <4>4 DEF Viewer, GuestGone, Wait, Teardown, Goto, TypeOK
      <4>5. CASE Collect(j)
        BY <1>1, <4>1, <4>5 DEF Collect, Answer, Goto, TypeOK
      <4>. QED
        BY <2>2, <4>2, <4>3, <4>4, <4>5 DEF Sandbox
    <3>2. \A i \in Jobs : i # j /\ i \in viewers' => i \in viewers
      BY <2>2 DEF Sandbox, ClamAv, Revert, Boot, Viewer, Tools, Payload, Monitor, GuestGone,
         Wait, Collect, Teardown, PutBack, Summary, Verdict, Command
    <3>. QED
      BY <1>1, <1>2, <2>3, <3>1, <3>2 DEF TidyInv
  <2>5. ASSUME stage'[j] \notin GuestStages, result'[j] # "error", putBackFailed' = {}
        PROVE  IsClean(vm') \/ (stage[j] \notin GuestStages /\ vm' = vm /\ putBackFailed = {})
    <3>1. CASE ClamAv(j) \/ Summary(j) \/ Verdict(j)
      BY <1>1, <2>5, <3>1 DEF ClamAv, Summary, Verdict, GuestStages
    <3>2. CASE Revert(j) \/ Boot(j) \/ Tools(j) \/ Payload(j) \/ Monitor(j)
      BY <1>1, <2>5, <3>2 DEF Revert, Boot, Tools, Payload, Monitor, Command, Goto, TypeOK, GuestStages
    <3>3. CASE Viewer(j) \/ GuestGone(j) \/ Wait(j) \/ Teardown(j)
      BY <1>1, <2>5, <3>3 DEF Viewer, GuestGone, Wait, Teardown, Goto, TypeOK, GuestStages
    <3>4. CASE Collect(j)
      BY <1>1, <2>5, <3>4 DEF Collect, Answer, Goto, TypeOK, GuestStages
    <3>5. CASE PutBack(j)
      BY <1>1, <2>5, <3>5 DEF PutBack, IsClean, Reverted
    <3>. QED
      BY <2>2, <3>1, <3>2, <3>3, <3>4, <3>5 DEF Sandbox
  <2>6. IsClean(vm') \/ putBackFailed' # {} \/ \E i \in Jobs : Messy(i)'
    <3> SUFFICES ASSUME ~IsClean(vm'), putBackFailed' = {}, ~Messy(j)'
                 PROVE  \E i \in Jobs : Messy(i)'
      OBVIOUS
    <3>1. stage[j] \notin GuestStages /\ vm' = vm /\ putBackFailed = {}
      BY <2>1, <2>5
    <3>2. PICK i \in Jobs : Messy(i)
      BY <1>1, <3>1 DEF TidyInv
    <3>3. i # j
      BY <2>1, <3>1, <3>2
    <3>. QED
      BY <1>2, <3>2, <3>3
  <2>. QED
    BY <2>4, <2>6 DEF TidyInv
<1>. QED
  BY <1>1, <1>3, <1>4

LEMMA PipelineKeeps == ASSUME CenterIInv, NEW j \in Jobs, Pipeline(j) PROVE CenterIInv'
BY PipelineBooks, PipelineAsked, PipelineHolds, PipelineCancels, PipelineTidies DEF CenterIInv

------------------------------------------------------------------------------
(* The user and the UI thread. *)

LEMMA StartKeeps ==
  ASSUME CenterIInv, NEW j \in Jobs, NEW k \in {"static", "sandbox"}, Start(j, k)
  PROVE  CenterIInv'
<1>0. TypeOK /\ StaticScansAreAlone /\ AnsweredOnce /\ KindInv /\ AskedInv /\ HoldInv
      /\ CancelInv /\ TidyInv
  BY DEF CenterIInv
<1>1. /\ ~scanning /\ stage[j] = "none" /\ scanning' = TRUE /\ asked' = j
      /\ UNCHANGED <<vm, viewers, shown, theater, cancel, finish, result, inbox,
                     told, cancelledAt, abandoned, putBackFailed>>
  BY DEF Start
<1>2. \/ /\ controller # NoJob /\ stage' = [stage EXCEPT ![j] = "refused"]
         /\ UNCHANGED <<kind, controller, orchestrator>>
      \/ /\ k = "sandbox" /\ kind' = [kind EXCEPT ![j] = k]
         /\ stage' = [stage EXCEPT ![j] = "clamav"]
         /\ orchestrator' = j /\ UNCHANGED controller
      \/ /\ k = "static" /\ controller = NoJob /\ kind' = [kind EXCEPT ![j] = k]
         /\ stage' = [stage EXCEPT ![j] = "begin"]
         /\ controller' = j /\ UNCHANGED orchestrator
  BY DEF Start
<1>3. /\ kind[j] = "none" /\ j \notin told /\ result[j] = "none" /\ cancelledAt[j] = "no"
      /\ controller # j
  BY <1>0, <1>1 DEF KindInv, AnsweredOnce, CancelInv, StaticScansAreAlone, StaticStages
<1>4. PICK s \in {"refused", "clamav", "begin"} :
         stage' = [stage EXCEPT ![j] = s]
  BY <1>2
<1>5. TypeOK'
  BY <1>0, <1>1, <1>2 DEF TypeOK, AllStages, StaticStages, SandboxStages
<1>6. StaticScansAreAlone'
  BY <1>0, <1>1, <1>2, <1>3 DEF StaticScansAreAlone, StaticStages, TypeOK
<1>7. AnsweredOnce'
  BY <1>0, <1>1, <1>4, AnswersStay DEF TypeOK
<1>8. KindInv'
  BY <1>0, <1>1, <1>2, <1>3 DEF KindInv, StaticStages, SandboxStages, TypeOK
<1>9. AskedInv'
  <2> SUFFICES ASSUME ~abandoned', NEW i \in Jobs, i \in Unanswered'
               PROVE  scanning' /\ i = asked' /\ (kind'[i] = "sandbox" => orchestrator' = i)
    BY DEF AskedInv, Unanswered
  <2>1. \A h \in Jobs : h \notin Unanswered
    BY <1>0, <1>1 DEF AskedInv, Unanswered
  <2>2. i = j
    BY <1>0, <1>1, <1>2, <2>1 DEF Unanswered, Accepted, TypeOK
  <2>3. kind'[i] = "sandbox" => orchestrator' = i
    BY <1>0, <1>2, <1>3, <2>2 DEF TypeOK
  <2>. QED
    BY <1>1, <2>2, <2>3
<1>10. HoldInv'
  BY <1>0, <1>1, <1>4 DEF HoldInv, TypeOK
<1>11. CancelInv'
  BY <1>0, <1>1, <1>3, <1>4 DEF CancelInv, TypeOK, SandboxStages
<1>12. TidyInv'
  <2>1. \A i \in Jobs : i # j => stage'[i] = stage[i] /\ kind'[i] = kind[i]
    BY <1>0, <1>2 DEF TypeOK
  <2>2. j \notin viewers
    BY <1>0, <1>1, <1>3 DEF TidyInv
  <2>. QED
    BY <1>0, <1>1, <1>3, <2>1, <2>2 DEF TidyInv, TypeOK, GuestStages
<1>. QED
  BY <1>5, <1>6, <1>7, <1>8, <1>9, <1>10, <1>11, <1>12 DEF CenterIInv

LEMMA CancelKeeps == ASSUME CenterIInv, Cancel PROVE CenterIInv'
<1>0. TypeOK /\ StaticScansAreAlone /\ AnsweredOnce /\ KindInv /\ AskedInv /\ HoldInv
      /\ CancelInv /\ TidyInv
  BY DEF CenterIInv
<1>1. /\ scanning' = FALSE /\ abandoned' = (abandoned \/ Unanswered # {})
      /\ UNCHANGED <<vm, viewers, asked, shown, theater, controller, orchestrator, kind, stage,
                     finish, result, inbox, told, putBackFailed>>
      /\ cancel \subseteq cancel'
  BY DEF Cancel
<1>2. \/ UNCHANGED <<cancel, cancelledAt>>
      \/ /\ controller \in Jobs /\ cancel' = cancel \cup {controller}
         /\ cancelledAt' = [cancelledAt EXCEPT ![controller] = stage[controller]]
         /\ stage[controller] \in StaticStages
  BY <1>0 DEF Cancel, TypeOK, StaticScansAreAlone
<1>3. TypeOK'
  BY <1>0, <1>1, <1>2 DEF TypeOK, AllStages
<1>4. AskedInv'
  BY <1>1 DEF AskedInv, Unanswered, Accepted
<1>5. CancelInv'
  <2>1. CASE UNCHANGED <<cancel, cancelledAt>>
    BY <1>0, <1>1, <2>1 DEF CancelInv
  <2>2. ASSUME controller \in Jobs, cancel' = cancel \cup {controller},
               cancelledAt' = [cancelledAt EXCEPT ![controller] = stage[controller]],
               stage[controller] \in StaticStages
        PROVE  CancelInv'
    <3>1. /\ cancelledAt'[controller] = stage[controller] /\ controller \in cancel'
          /\ \A i \in Jobs : i # controller => cancelledAt'[i] = cancelledAt[i]
      BY <1>0, <2>2 DEF TypeOK
    <3>2. result[controller] = "scored" => stage[controller] = "explain"
      BY <1>0, <2>2 DEF AnsweredOnce, StaticStages
    <3>. QED
      BY <1>0, <1>1, <2>2, <3>1, <3>2 DEF CancelInv, StaticStages, SandboxStages
  <2>. QED
    BY <1>2, <2>1, <2>2
<1>6. StaticScansAreAlone' /\ AnsweredOnce' /\ KindInv' /\ TidyInv'
  BY <1>0, <1>1 DEF StaticScansAreAlone, AnsweredOnce, KindInv, TidyInv
<1>7. HoldInv'
  BY <1>0, <1>1 DEF HoldInv
<1>. QED
  BY <1>3, <1>4, <1>5, <1>6, <1>7 DEF CenterIInv

LEMMA StoredKeeps == ASSUME CenterIInv, OpenStored PROVE CenterIInv'
<1>1. /\ scanning' = FALSE /\ theater' = FALSE /\ shown' = Stored
      /\ abandoned' = (abandoned \/ Unanswered # {})
      /\ UNCHANGED <<vm, viewers, asked, controller, orchestrator, kind, stage, cancel, finish,
                     result, inbox, told, cancelledAt, putBackFailed>>
  BY DEF OpenStored
<1>2. TypeOK'
  BY <1>1 DEF CenterIInv, TypeOK
<1>3. AskedInv'
  BY <1>1 DEF AskedInv, Unanswered, Accepted
<1>4. StaticScansAreAlone' /\ AnsweredOnce' /\ KindInv' /\ TidyInv' /\ CancelInv'
  BY <1>1 DEF CenterIInv, StaticScansAreAlone, AnsweredOnce, KindInv, TidyInv, CancelInv
<1>5. HoldInv'
  BY <1>1 DEF CenterIInv, HoldInv
<1>. QED
  BY <1>2, <1>3, <1>4, <1>5 DEF CenterIInv

LEMMA ShowingKeeps == ASSUME CenterIInv, Finish \/ Progress \/ UNCHANGED vars PROVE CenterIInv'
<1>1. /\ UNCHANGED <<vm, viewers, scanning, asked, shown, controller, orchestrator, kind, stage,
                     cancel, result, inbox, told, cancelledAt, abandoned, putBackFailed>>
      /\ theater' \in {theater, TRUE}
      /\ finish' = finish \/ (orchestrator # NoJob /\ finish' = finish \cup {orchestrator})
  BY DEF Finish, Progress, vars
<1>2. TypeOK'
  BY <1>1 DEF CenterIInv, TypeOK
<1>3. AskedInv' /\ HoldInv'
  BY <1>1 DEF CenterIInv, AskedInv, HoldInv, Unanswered, Accepted
<1>4. StaticScansAreAlone' /\ AnsweredOnce' /\ KindInv' /\ TidyInv' /\ CancelInv'
  BY <1>1 DEF CenterIInv, StaticScansAreAlone, AnsweredOnce, KindInv, TidyInv, CancelInv
<1>. QED
  BY <1>2, <1>3, <1>4 DEF CenterIInv

\* What answers was accepted and had not answered.
LEMMA DeliversUnanswered ==
  ASSUME CenterIInv, Deliver
  PROVE  inbox[1].job \in Unanswered
<1>1. inbox[1].job \in Jobs /\ 1 \in DOMAIN inbox
  BY Delivered DEF CenterIInv
<1>. QED
  BY <1>1 DEF CenterIInv, AnsweredOnce, KindInv, Unanswered, Accepted

LEMMA DeliverKeeps == ASSUME CenterIInv, Deliver PROVE CenterIInv'
<1>0. TypeOK /\ AnsweredOnce /\ AskedInv
  BY DEF CenterIInv
<1> DEFINE j == inbox[1].job
<1>1. /\ UNCHANGED <<vm, viewers, asked, controller, kind, stage, cancel, finish,
                     result, cancelledAt, abandoned, putBackFailed>>
      /\ told' = told \cup {j} /\ scanning' = FALSE /\ theater' = FALSE
      /\ shown' \in {j, shown} /\ orchestrator' \in {NoJob, orchestrator}
  BY <1>0, Delivered DEF Deliver
<1>2. /\ j \in Jobs /\ 1 \in DOMAIN inbox /\ inbox' \in Seq(Answers)
      /\ \A i \in DOMAIN inbox' : /\ i \in Nat /\ i + 1 \in DOMAIN inbox /\ i + 1 # 1
                                  /\ inbox'[i] = inbox[i + 1]
      /\ \A i \in DOMAIN inbox : i # 1 =>
               i - 1 \in DOMAIN inbox' /\ inbox'[i - 1] = inbox[i]
  BY <1>0, Delivered
<1>3. TypeOK'
  <2>1. /\ vm' \in Guests /\ viewers' \subseteq Jobs /\ told' \subseteq Jobs
        /\ {scanning, theater, abandoned}' \subseteq BOOLEAN
    BY <1>0, <1>1, <1>2 DEF TypeOK
  <2>2. {asked, controller, orchestrator}' \subseteq Jobs \cup {NoJob}
    BY <1>0, <1>1 DEF TypeOK
  <2>3. shown' \in Jobs \cup {NoJob, Stored}
    BY <1>0, <1>1, <1>2 DEF TypeOK
  <2>4. /\ kind' \in [Jobs -> {"none", "static", "sandbox"}]
        /\ stage' \in [Jobs -> AllStages]
        /\ cancel' \subseteq Jobs /\ finish' \subseteq Jobs /\ putBackFailed' \subseteq Jobs
        /\ result' \in [Jobs -> {"none", "scored", "cancelled", "error"}]
        /\ cancelledAt' \in [Jobs -> AllStages \cup {"no"}]
    BY <1>0, <1>1 DEF TypeOK
  <2>5. inbox' \in Seq([job : Jobs, report : BOOLEAN])
    BY <1>2 DEF Answers
  <2>. QED
    BY <2>1, <2>2, <2>3, <2>4, <2>5 DEF TypeOK
<1>4. AnsweredOnce'
  <2>1. ASSUME NEW i \in DOMAIN inbox', NEW k \in DOMAIN inbox', inbox'[i].job = inbox'[k].job
        PROVE  i = k
    <3>1. i + 1 = k + 1 /\ i \in Nat /\ k \in Nat
      BY <1>0, <1>2, <2>1 DEF AnsweredOnce
    <3>. QED
      BY <3>1
  <2>2. ASSUME NEW k \in Jobs
        PROVE  Queued(k)' <=> (Queued(k) /\ k # j)
    <3>1. ASSUME NEW i \in DOMAIN inbox', inbox'[i].job = k PROVE Queued(k) /\ k # j
      BY <1>0, <1>2, <3>1 DEF Queued, AnsweredOnce
    <3>2. ASSUME NEW i \in DOMAIN inbox, inbox[i].job = k, k # j PROVE Queued(k)'
      BY <1>2, <3>2 DEF Queued
    <3>. QED
      BY <3>1, <3>2 DEF Queued
  <2>3. Queued(j)
    BY <1>2 DEF Queued
  <2>4. ASSUME NEW k \in Jobs
        PROVE  /\ ~(Queued(k)' /\ k \in told')
               /\ (Queued(k)' \/ k \in told') <=> result'[k] # "none"
               /\ result'[k] # "none" <=> stage'[k] \in {"explain", "ended"}
    <3>1. /\ ~(Queued(k) /\ k \in told)
          /\ (Queued(k) \/ k \in told) <=> result[k] # "none"
          /\ result[k] # "none" <=> stage[k] \in {"explain", "ended"}
      BY <1>0 DEF AnsweredOnce, Queued
    <3>. QED
      BY <1>1, <2>2, <2>3, <3>1
  <2>. QED
    BY <2>1, <2>4 DEF AnsweredOnce, Queued
<1>5. AskedInv'
  <2> SUFFICES ASSUME ~abandoned', NEW i \in Unanswered' PROVE FALSE
    BY DEF AskedInv
  <2>1. i \in Unanswered /\ i # j /\ j \in Unanswered
    BY <1>1, DeliversUnanswered DEF Unanswered, Accepted
  <2>. QED
    BY <1>0, <1>1, <2>1 DEF AskedInv
<1>6. StaticScansAreAlone' /\ KindInv' /\ HoldInv' /\ CancelInv' /\ TidyInv'
  BY <1>1 DEF CenterIInv, StaticScansAreAlone, KindInv, HoldInv, CancelInv, TidyInv
<1>. QED
  BY <1>3, <1>4, <1>5, <1>6 DEF CenterIInv

LEMMA CenterInit == Init => CenterIInv
<1> SUFFICES ASSUME Init PROVE CenterIInv
  OBVIOUS
<1>1. CleanGuest \in Guests /\ CleanGuest.holds = {}
  BY DEF CleanGuest, Guests
<1>2. inbox \in Seq(Answers) /\ \A i \in DOMAIN inbox : FALSE
  BY DEF Init
<1>3. \A j \in Jobs : stage[j] = "none" /\ kind[j] = "none" /\ result[j] = "none"
                      /\ cancelledAt[j] = "no"
  BY DEF Init
<1>4. TypeOK
  BY <1>1, <1>2 DEF Init, TypeOK, AllStages, Answers
<1>5. StaticScansAreAlone /\ AnsweredOnce /\ KindInv
  BY <1>2, <1>3 DEF Init, StaticScansAreAlone, AnsweredOnce, KindInv, StaticStages, SandboxStages
<1>6. AskedInv /\ HoldInv
  BY <1>1, <1>3 DEF Init, AskedInv, HoldInv, Unanswered, Accepted
<1>7. CancelInv /\ TidyInv
  BY <1>3 DEF Init, CancelInv, TidyInv, IsClean
<1>. QED
  BY <1>4, <1>5, <1>6, <1>7 DEF CenterIInv

LEMMA CenterStep == CenterIInv /\ [Next]_vars => CenterIInv'
BY PipelineKeeps, StartKeeps, CancelKeeps, StoredKeeps, ShowingKeeps, DeliverKeeps DEF Next

LEMMA CenterStrong == CenterIInv => CenterInv
<1> SUFFICES ASSUME CenterIInv PROVE CenterInv
  OBVIOUS
<1>1. TypeOK /\ StaticScansAreAlone /\ AnsweredOnce
  BY DEF CenterIInv
<1>2. OneAtATime
  <2> SUFFICES ASSUME ~abandoned PROVE /\ Cardinality(Unanswered) <= 1
                                       /\ \A j \in Unanswered : kind[j] = "sandbox" => orchestrator = j
                                       /\ Cardinality(vm.holds) <= 1
    BY DEF OneAtATime
  <2>1. Cardinality({}) <= 1 /\ \A x : Cardinality({x}) <= 1
    <3>1. Cardinality({}) = 0 /\ \A x : Cardinality({x}) = 1
      BY FS_EmptySet, FS_Singleton
    <3>. QED
      BY <3>1
  <2>2. \A j \in Unanswered : j = asked /\ (kind[j] = "sandbox" => orchestrator = j)
    BY DEF CenterIInv, AskedInv
  <2>3. Unanswered = {} \/ Unanswered = {asked}
    BY <2>2
  <2>4. vm.holds = {} \/ \E j \in Jobs : vm.holds = {j}
    BY DEF CenterIInv, HoldInv
  <2>. QED
    BY <2>1, <2>2, <2>3, <2>4
<1>3. CancelIsHonoured
  BY DEF CenterIInv, CancelInv, CancelIsHonoured
<1>4. ScoredIsPutBack
  <2>1. ASSUME NEW j \in Jobs, result[j] = "scored" PROVE j \notin viewers
    BY <2>1 DEF CenterIInv, TidyInv, AnsweredOnce
  <2>2. ASSUME putBackFailed = {},
               \A i \in Jobs : kind[i] = "sandbox" =>
                    result[i] # "error" /\ stage[i] \notin SandboxStages
        PROVE  IsClean(vm)
    BY <2>2 DEF CenterIInv, TidyInv, KindInv, GuestStages, SandboxStages
  <2>. QED
    BY <2>1, <2>2 DEF ScoredIsPutBack
<1>. QED
  BY <1>1, <1>2, <1>3, <1>4 DEF CenterInv

\* The controller's reference names the one static scan that runs, every scan
\* that ended answered once, one scan is under way until X is pressed over it,
\* a score is given to nothing cancelled in time, and scored scans put their
\* guest away (backend_bridge.py, startScanCenter and cancelScanCenter;
\* scancenter/controller.py; scanner_orchestrator.py).
THEOREM CenterInvariant == Spec => []CenterInv
<1>1. Spec => []CenterIInv
  BY CenterInit, CenterStep, PTL DEF Spec
<1>. QED
  BY <1>1, CenterStrong, PTL

\* The page shows the report of the scan it asked for last, or one out of the
\* history, until X is pressed or a report opened over a running scan
\* (ScanCenter.qml; backend_bridge.py, openScanCenterReport).
THEOREM ShownWasAsked == Spec => ShownIsAsked
<1>1. ASSUME CenterIInv, [Next]_vars, shown' # shown
      PROVE  shown' \in {asked, Stored} \/ abandoned
  <2>1. Deliver \/ OpenStored
    <3>1. ASSUME NEW j \in Jobs, Pipeline(j) PROVE FALSE
      BY <1>1, <3>1, Moves DEF CenterIInv
    <3>. QED
      BY <1>1, <3>1 DEF Next, Start, Cancel, Finish, Progress, vars
  <2>2. CASE OpenStored
    BY <2>2 DEF OpenStored
  <2>3. CASE Deliver
    <3>1. shown' = inbox[1].job
      BY <1>1, <2>3, Delivered DEF CenterIInv, Deliver
    <3>. QED
      BY <1>1, <2>3, <3>1, DeliversUnanswered DEF CenterIInv, AskedInv
  <2>. QED
    BY <2>1, <2>2, <2>3
<1>. QED
  BY <1>1, CenterInit, CenterStep, PTL DEF Spec, ShownIsAsked
================================================================================
