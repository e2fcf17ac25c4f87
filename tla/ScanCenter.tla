------------------------------ MODULE ScanCenter ------------------------------
(***************************************************************************)
(* Scan Center: the page (ScanCenter.qml and the Finish button of          *)
(* SandboxLabPage.qml), the bridge's two references to a running scan      *)
(* (src/backend/api/backend_bridge.py), and the two pipelines: the static  *)
(* one on a Python thread (scancenter/controller.py) and the interactive   *)
(* one on a QThread (scancenter/scanner_orchestrator.py), which uses the   *)
(* same guest as the Sandbox Lab.                                          *)
(*                                                                         *)
(* The page may start a scan whenever it does not show one as running.     *)
(* Its X button cancels a static scan only, and stops showing either; so   *)
(* does a report of the history, which comes by the signal of a new one.   *)
(*                                                                         *)
(* Left out: what the engines find and how it is scored (module Verdicts), *)
(* the agent timeline, phase cards, texts, and the embedding of the        *)
(* viewer's window.                                                        *)
(***************************************************************************)
EXTENDS SandboxVm, Sequences

CONSTANTS NoJob,        \* a reference that is None
          Stored        \* the report of a scan of another day, in the history

ASSUME NoJobAssumption == NoJob \notin Jobs
ASSUME StoredAssumption == Stored \notin Jobs \cup {NoJob}

VARIABLES
    vm,            \* the guest
    viewers,       \* scans whose vmware-kvm.exe runs
    scanning,      \* fileScanning of the page
    asked,         \* the scan the page asked for last
    shown,         \* the scan whose report the page shows
    theater,       \* scanRunning of the Sandbox Lab page: Finish is visible
    controller,    \* _scancenter_controller
    orchestrator,  \* _scancenter_orchestrator
    kind,          \* which pipeline a scan runs in
    stage,         \* where its thread is
    cancel,        \* scans whose _cancel_event is set
    finish,        \* scans whose interactive_event is set
    result,        \* how a scan ended
    inbox,         \* answers queued for the UI thread
    told,          \* history: scans whose answer the page was given
    cancelledAt,   \* history: the stage in which a scan was cancelled
    abandoned,     \* history: X was pressed, or a stored report opened, while
                   \* a scan had not answered
    putBackFailed  \* history: scans whose last revert failed

page    == <<scanning, asked, shown, theater>>
refs    == <<controller, orchestrator>>
history == <<cancelledAt, abandoned>>
vars == <<vm, viewers, page, refs, kind, stage, cancel, finish, result, inbox,
          told, history, putBackFailed>>

StaticStages  == {"begin", "hashes", "engines", "iocs", "score", "explain"}
SandboxStages == {"clamav", "revert", "start", "viewer", "tools", "payload",
                  "monitor", "wait", "collect", "teardown", "putBack", "summary", "verdict"}
AllStages == StaticStages \cup SandboxStages \cup {"none", "refused", "ended"}

Live(j) == stage[j] \in StaticStages \cup SandboxStages
Accepted(j) == kind[j] # "none"

Init ==
    /\ vm = CleanGuest /\ viewers = {}
    /\ scanning = FALSE /\ asked = NoJob /\ shown = NoJob /\ theater = FALSE
    /\ controller = NoJob /\ orchestrator = NoJob
    /\ kind = [j \in Jobs |-> "none"] /\ stage = [j \in Jobs |-> "none"]
    /\ cancel = {} /\ finish = {}
    /\ result = [j \in Jobs |-> "none"]
    /\ inbox = <<>> /\ told = {}
    /\ cancelledAt = [j \in Jobs |-> "no"] /\ abandoned = FALSE
    /\ putBackFailed = {}

------------------------------------------------------------------------------
(* The user, on the UI thread. *)

Unanswered == {j \in Jobs : Accepted(j) /\ j \notin told}

(* startScanCenter: refused, with a toast, while a controller is referenced; *)
(* an orchestrator is no reason to refuse, and its reference is replaced.    *)
Start(j, k) ==
    /\ ~scanning /\ stage[j] = "none"
    /\ scanning' = TRUE /\ asked' = j
    /\ IF controller # NoJob
       THEN /\ stage' = [stage EXCEPT ![j] = "refused"]
            /\ UNCHANGED <<kind, refs>>
       ELSE /\ kind' = [kind EXCEPT ![j] = k]
            /\ IF k = "sandbox"
               THEN /\ stage' = [stage EXCEPT ![j] = "clamav"]
                    /\ orchestrator' = j /\ UNCHANGED controller
               ELSE /\ stage' = [stage EXCEPT ![j] = "begin"]
                    /\ controller' = j /\ UNCHANGED orchestrator
    /\ UNCHANGED <<vm, viewers, shown, theater, cancel, finish, result, inbox,
                   told, history, putBackFailed>>

(* The X button: cancelScanCenter, and the page no longer shows a scan. *)
Cancel ==
    /\ scanning /\ scanning' = FALSE
    /\ IF controller # NoJob
       THEN /\ cancel' = cancel \cup {controller}
            /\ cancelledAt' = [cancelledAt EXCEPT ![controller] = stage[controller]]
       ELSE UNCHANGED <<cancel, cancelledAt>>
    /\ abandoned' = (abandoned \/ Unanswered # {})
    /\ UNCHANGED <<vm, viewers, asked, shown, theater, refs, kind, stage, finish,
                   result, inbox, told, putBackFailed>>

(* openScanCenterReport, from the history: the stored report is emitted as if *)
(* a scan had just finished, whatever is running.                            *)
OpenStored ==
    /\ scanning' = FALSE /\ theater' = FALSE /\ shown' = Stored
    /\ abandoned' = (abandoned \/ Unanswered # {})
    /\ UNCHANGED <<vm, viewers, asked, refs, kind, stage, cancel, finish, result,
                   inbox, told, cancelledAt, putBackFailed>>

(* finishInteractiveSession, for the orchestrator referenced at present. *)
Finish ==
    /\ theater /\ orchestrator # NoJob
    /\ finish' = finish \cup {orchestrator}
    /\ UNCHANGED <<vm, viewers, page, refs, kind, stage, cancel, result, inbox,
                   told, history, putBackFailed>>

------------------------------------------------------------------------------
(* Signals handled on the UI thread. *)

(* A mutant: the page takes a progress of 100 % for the end. *)
ProgressEnds ==
    /\ Unanswered # {}
    /\ theater' = FALSE /\ scanning' = FALSE
    /\ UNCHANGED <<vm, viewers, asked, shown, refs, kind, stage, cancel,
                   finish, result, inbox, told, history, putBackFailed>>

(* A progress signal, which any scan may emit until it answers. *)
Progress ==
    /\ ~theater /\ Unanswered # {}
    /\ theater' = TRUE
    /\ UNCHANGED <<vm, viewers, scanning, asked, shown, refs, kind, stage, cancel,
                   finish, result, inbox, told, history, putBackFailed>>

(* scanCenterFinished or scanCenterFailed; an orchestrator's answer goes    *)
(* through _on_orchestrator_complete, which drops the reference, whosever.  *)
Deliver ==
    /\ inbox # <<>> /\ inbox' = Tail(inbox)
    /\ LET j == Head(inbox).job IN
       /\ told' = told \cup {j}
       /\ scanning' = FALSE /\ theater' = FALSE
       /\ shown' = IF Head(inbox).report THEN j ELSE shown
       /\ orchestrator' = IF kind[j] = "sandbox" THEN NoJob ELSE orchestrator
    /\ UNCHANGED <<vm, viewers, asked, controller, kind, stage, cancel, finish,
                   result, history, putBackFailed>>

Answer(j, r, report) ==
    /\ result' = [result EXCEPT ![j] = r]
    /\ inbox' = Append(inbox, [job |-> j, report |-> report])

Goto(j, s) == stage' = [stage EXCEPT ![j] = s]

------------------------------------------------------------------------------
(* The static pipeline: ScanController.run on its thread. *)

(* The first statement of run clears the event: a cancellation that came *)
(* before it is lost.                                                    *)
Begin(j) ==
    /\ stage[j] = "begin"
    /\ cancel' = cancel \ {j}
    /\ Goto(j, "hashes")
    /\ UNCHANGED <<vm, viewers, page, refs, kind, finish, result, inbox, told,
                   history, putBackFailed>>

NextStage == [s \in {"hashes", "engines", "iocs"} |->
                 CASE s = "hashes" -> "engines" [] s = "engines" -> "iocs"
                   [] s = "iocs" -> "score"]

(* A mutant: the test of the event between two steps is forgotten. *)
StepOn(j) ==
    /\ stage[j] \in DOMAIN NextStage
    /\ Goto(j, NextStage[stage[j]]) /\ UNCHANGED <<result, inbox>>
    /\ UNCHANGED <<vm, viewers, page, refs, kind, cancel, finish, told, history,
                   putBackFailed>>

(* A step and the test of the event behind it.  An exception anywhere makes *)
(* an error report, and what _finalise raises is told as a failure.         *)
Step(j) ==
    /\ stage[j] \in DOMAIN NextStage
    /\ \/ /\ j \notin cancel
          /\ Goto(j, NextStage[stage[j]]) /\ UNCHANGED <<result, inbox>>
       \/ /\ j \in cancel
          /\ Answer(j, "cancelled", TRUE) /\ Goto(j, "explain")
       \/ \E report \in BOOLEAN : Answer(j, "error", report) /\ Goto(j, "explain")
    /\ UNCHANGED <<vm, viewers, page, refs, kind, cancel, finish, told, history,
                   putBackFailed>>

(* The verdict, and _finalise: files, history row, answer. *)
Score(j) ==
    /\ stage[j] = "score"
    /\ \/ Answer(j, "scored", TRUE)
       \/ \E report \in BOOLEAN : Answer(j, "error", report)
    /\ Goto(j, "explain")
    /\ UNCHANGED <<vm, viewers, page, refs, kind, cancel, finish, told, history,
                   putBackFailed>>

(* The explanation by a remote model and the cards; then the finally clause *)
(* gives up the reference.                                                  *)
Explain(j) ==
    /\ stage[j] = "explain"
    /\ Goto(j, "ended")
    /\ controller' = NoJob
    /\ UNCHANGED <<vm, viewers, page, orchestrator, kind, cancel, finish, result,
                   inbox, told, history, putBackFailed>>

------------------------------------------------------------------------------
(* The interactive pipeline: ScannerOrchestrator.run on its thread. *)

OnlyStage == UNCHANGED <<page, refs, kind, cancel, finish, told, history>>

(* Phase 1, and whether VMware is configured: without it there is no client. *)
ClamAv(j) ==
    /\ stage[j] = "clamav"
    /\ \/ Goto(j, "revert") /\ UNCHANGED <<result, inbox>>
       \/ Goto(j, "summary") /\ UNCHANGED <<result, inbox>>
       \/ Answer(j, "error", TRUE) /\ Goto(j, "ended")        \* no such file
    /\ OnlyStage /\ UNCHANGED <<vm, viewers, putBackFailed>>

(* A vmrun command of phase 2; one that fails leads to phase 4. *)
Command(j, from, to, effect) ==
    /\ stage[j] = from
    /\ \/ vm' = effect /\ Goto(j, to)
       \/ vm' \in After(vm, effect, FALSE) /\ Goto(j, "collect")
    /\ OnlyStage /\ UNCHANGED <<viewers, result, inbox, putBackFailed>>

Revert(j)  == Command(j, "revert", "start", Reverted(vm))
Boot(j)    == Command(j, "start", "viewer", Started(vm))
Tools(j)   == vm.on /\ Command(j, "tools", "payload", vm)
Payload(j) == vm.on /\ Command(j, "payload", "monitor", Loaded(vm, j))
Monitor(j) == vm.on /\ Command(j, "monitor", "wait", vm)

(* A guest that another scan has stopped answers no command. *)
GuestGone(j) ==
    /\ ~vm.on /\ stage[j] \in {"tools", "payload", "monitor"}
    /\ Goto(j, "collect")
    /\ OnlyStage /\ UNCHANGED <<vm, viewers, result, inbox, putBackFailed>>

(* The viewer is started, or cannot be, and its window looked for. *)
Viewer(j) ==
    /\ stage[j] = "viewer"
    /\ viewers' \in {viewers, viewers \cup {j}}
    /\ Goto(j, "tools")
    /\ OnlyStage /\ UNCHANGED <<vm, result, inbox, putBackFailed>>

(* Phase 3: interactive_event.wait(), without a timeout. *)
Wait(j) ==
    /\ stage[j] = "wait" /\ j \in finish
    /\ Goto(j, "collect")
    /\ OnlyStage /\ UNCHANGED <<vm, viewers, result, inbox, putBackFailed>>

(* A mutant: the behaviour files are waited for without a deadline. *)
CollectForever(j) ==
    /\ stage[j] = "collect" /\ j \in vm.holds
    /\ Goto(j, "teardown")
    /\ OnlyStage /\ UNCHANGED <<vm, viewers, result, inbox, putBackFailed>>

(* Phase 4: the behaviour files are pulled, or not in time.  A report whose *)
(* counts are no numbers raises past the whole teardown.                    *)
Collect(j) ==
    /\ stage[j] = "collect"
    /\ \/ Goto(j, "teardown") /\ UNCHANGED <<result, inbox>>
       \/ vm.on /\ Answer(j, "error", TRUE) /\ Goto(j, "ended")
    /\ OnlyStage /\ UNCHANGED <<vm, viewers, putBackFailed>>

(* The viewer is killed; the guest is stopped, softly or hard or not at all. *)
Teardown(j) ==
    /\ stage[j] = "teardown"
    /\ viewers' = viewers \ {j}
    /\ vm' \in {vm, Stopped(vm)}
    /\ Goto(j, "putBack")
    /\ OnlyStage /\ UNCHANGED <<result, inbox, putBackFailed>>

(* A mutant: the last revert is left to the next run. *)
PutBackLater(j) ==
    /\ stage[j] = "putBack"
    /\ Goto(j, "summary")
    /\ OnlyStage /\ UNCHANGED <<vm, viewers, result, inbox, putBackFailed>>

(* The last revert, whose failure is only logged. *)
PutBack(j) ==
    /\ stage[j] = "putBack"
    /\ \/ vm' = Reverted(vm) /\ UNCHANGED putBackFailed
       \/ vm' \in After(vm, Reverted(vm), FALSE) /\ putBackFailed' = putBackFailed \cup {j}
    /\ Goto(j, "summary")
    /\ OnlyStage /\ UNCHANGED <<viewers, result, inbox>>

(* Phase 5: a remote model's summary, or the deterministic one instead. *)
Summary(j) ==
    /\ stage[j] = "summary"
    /\ Goto(j, "verdict")
    /\ OnlyStage /\ UNCHANGED <<vm, viewers, result, inbox, putBackFailed>>

(* Phase 6: the score, and scan_complete. *)
Verdict(j) ==
    /\ stage[j] = "verdict"
    /\ Answer(j, "scored", TRUE)
    /\ Goto(j, "ended")
    /\ OnlyStage /\ UNCHANGED <<vm, viewers, putBackFailed>>

------------------------------------------------------------------------------
Pipeline(j) ==
    \/ Begin(j) \/ Step(j) \/ Score(j) \/ Explain(j)
    \/ ClamAv(j) \/ Revert(j) \/ Boot(j) \/ Viewer(j) \/ Tools(j) \/ Payload(j)
    \/ Monitor(j) \/ GuestGone(j) \/ Wait(j) \/ Collect(j) \/ Teardown(j)
    \/ PutBack(j) \/ Summary(j) \/ Verdict(j)

Next ==
    \/ \E j \in Jobs : Pipeline(j)
    \/ Deliver \/ Progress
    \/ \E j \in Jobs, k \in {"static", "sandbox"} : Start(j, k)
    \/ Cancel \/ OpenStored \/ Finish

(* Threads run and every command they give has a timeout; the event loop   *)
(* delivers answers.  The analyst owes nothing, not even a Finish.         *)
Spec == Init /\ [][Next]_vars /\ WF_vars(Deliver)
             /\ \A j \in Jobs : WF_vars(Pipeline(j))

------------------------------------------------------------------------------
(* Properties. *)

TypeOK ==
    /\ vm \in Guests /\ viewers \subseteq Jobs
    /\ {scanning, theater, abandoned} \subseteq BOOLEAN
    /\ {asked, controller, orchestrator} \subseteq Jobs \cup {NoJob}
    /\ shown \in Jobs \cup {NoJob, Stored}
    /\ kind \in [Jobs -> {"none", "static", "sandbox"}]
    /\ stage \in [Jobs -> AllStages]
    /\ cancel \subseteq Jobs /\ finish \subseteq Jobs
    /\ told \subseteq Jobs /\ putBackFailed \subseteq Jobs
    /\ result \in [Jobs -> {"none", "scored", "cancelled", "error"}]
    /\ inbox \in Seq([job : Jobs, report : BOOLEAN])
    /\ cancelledAt \in [Jobs -> AllStages \cup {"no"}]

(* The reference to the controller names the one static scan whose thread *)
(* has not ended: two never run, although nothing but the page and this   *)
(* reference keeps them apart.                                            *)
StaticScansAreAlone ==
    \A j \in Jobs : stage[j] \in StaticStages <=> controller = j

(* Every scan that ended has answered exactly once, by a report, a fatal *)
(* error or a failure: its answer was handled or is queued once.         *)
AnsweredOnce ==
    /\ \A i, k \in DOMAIN inbox : inbox[i].job = inbox[k].job => i = k
    /\ \A j \in Jobs :
          LET queued == \E i \in DOMAIN inbox : inbox[i].job = j IN
          /\ ~(queued /\ j \in told)
          /\ (queued \/ j \in told) <=> result[j] # "none"
          /\ result[j] # "none" <=> stage[j] \in {"explain", "ended"}

(* Until the user presses X, or opens a report of the history, over a running *)
(* scan: one scan at a time, the one the bridge refers to, so that Finish     *)
(* reaches whoever waits for it; and no guest ever holds two samples.         *)
OneAtATime ==
    ~abandoned =>
        /\ Cardinality(Unanswered) <= 1
        /\ \A j \in Unanswered : kind[j] = "sandbox" => orchestrator = j
        /\ Cardinality(vm.holds) <= 1

(* A static scan that was cancelled shows no verdict, unless X came before *)
(* the thread cleared the event or after the last test of it.              *)
CancelIsHonoured ==
    \A j \in Jobs : result[j] = "scored" =>
        cancelledAt[j] \in {"no", "begin", "score", "explain"}

(* A scan that reports a score leaves no viewer behind, and the guest is off *)
(* and clean, unless its revert failed or X let another scan in.  What ends  *)
(* in an error promises neither.                                             *)
ScoredIsPutBack ==
    \A j \in Jobs :
        /\ result[j] = "scored" => j \notin viewers
        /\ result[j] = "scored" /\ ~abandoned /\ putBackFailed = {}
             /\ (\A i \in Jobs : kind[i] = "sandbox" =>
                    result[i] # "error" /\ stage[i] \notin SandboxStages)
           => IsClean(vm)

CenterInv ==
    /\ TypeOK /\ StaticScansAreAlone /\ AnsweredOnce /\ OneAtATime
    /\ CancelIsHonoured /\ ScoredIsPutBack

(* A report is shown for the scan the page asked for last, or was taken out of *)
(* the history; unless X was pressed, or such a report opened, over a running  *)
(* scan: then it may be the former scan's.                                     *)
ShownIsAsked == [][shown' # shown => shown' \in {asked, Stored} \/ abandoned]_vars

(* Every scan answers, whatever fails: the one thing that can hold it up for *)
(* ever is a session nobody finishes.                                        *)
EveryScanAnswers ==
    \A j \in Jobs : Accepted(j) ~>
        (j \in told \/ (stage[j] = "wait" /\ j \notin finish))
==============================================================================
