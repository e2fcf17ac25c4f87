------------------------------ MODULE SandboxLab ------------------------------
(***************************************************************************)
(* Sandbox Lab (src/backend/engines/sandbox_vmware/sandbox_controller.py): *)
(* a controller that lives on the UI thread, one worker thread per task,   *)
(* and the queued signals between them.                                    *)
(*                                                                         *)
(* A task is a sequence of vmrun commands, any of which may fail.  The     *)
(* worker's signals wait in `inbox` until the UI thread handles them, and  *)
(* the user may act between any two of them.  The slots are called the way *)
(* SandboxLabPage.qml calls them: every button is disabled while `busy`,   *)
(* and the ones that prepare a run folder also during a session.           *)
(*                                                                         *)
(* Left out: progress and step texts, the replay list, captured frames     *)
(* (only whether capturing is on is kept), and the telemetry poll, which   *)
(* only copies a file for display.                                         *)
(***************************************************************************)
EXTENDS SandboxVm, Sequences

CONSTANT NoRun          \* _run_dir is None

ASSUME NoRunAssumption == NoRun \notin Jobs

VARIABLES
    vm,          \* the guest, which outlives the program
    used,        \* the run folders made so far, which outlive it too
    busy,        \* _busy
    session,     \* _interactive_session_active; the poll timer runs with it
    vmShown,     \* _vm_running
    captureForRun, abortCapture,
    capturing,   \* the capture timer and the preview stream
    cancel,      \* _cancel_event
    runDir,      \* _run_dir
    summary,     \* _result_summary: what the page shows of the last run
    thread,      \* _thread is not None
    joining,     \* _teardown_worker is in _thread.wait(2000)
    task,        \* the worker that is executing a task
    closing,     \* workers that emitted finished or failed, and not yet done
    inbox,       \* signals queued for the UI thread
    aborted,     \* a running QThread was destroyed: Qt ended the process
    overtaken    \* history: a task was started before the done signal of an
                 \* earlier one was handled

ui == <<busy, session, vmShown, captureForRun, capturing, runDir,
        summary, thread, joining, aborted, overtaken>>
vars == <<vm, used, ui, abortCapture, cancel, task, closing, inbox>>

ButtonOps == {"start", "stop", "reset", "diagnostics"}
RunOps    == {"run"}       \* runFileInSandbox and runUrlInSandbox
Ops       == ButtonOps \cup RunOps \cup {"interactive_start", "interactive_stop"}

Idle == [op |-> "none", pc |-> "none", err |-> "no", run |-> NoRun]
Errors == {"no", "error", "cancelled"}

FirstStep(op) == IF op \in RunOps \cup {"interactive_start"} THEN "revert"
                 ELSE IF op = "interactive_stop" THEN "flag" ELSE "command"

Running == task # Idle

(* Signals of VmwareTaskWorker that the controller acts on. *)
VmSignal(b)          == [sig |-> "vm", running |-> b]
Finished(op, err, r) == [sig |-> "finished", op |-> op, err |-> err, run |-> r]
Failed               == [sig |-> "failed"]
Done                 == [sig |-> "done"]

Signals == [sig : {"vm"}, running : BOOLEAN]
      \cup [sig : {"finished"}, op : Ops, err : Errors, run : Jobs \cup {NoRun}]
      \cup {Failed, Done}

NoSummary == [kind |-> "none", err |-> "no", run |-> NoRun]
Summaries == [kind : {"none", "running", "result", "failed"}, err : Errors,
              run : Jobs \cup {NoRun}]

------------------------------------------------------------------------------
(* The controller as __init__ leaves it. *)
ControllerInit ==
    /\ busy = FALSE /\ session = FALSE /\ vmShown = FALSE
    /\ captureForRun = FALSE /\ abortCapture = FALSE
    /\ capturing = FALSE /\ cancel = FALSE
    /\ runDir = NoRun /\ summary = NoSummary
    /\ thread = FALSE /\ joining = FALSE /\ aborted = FALSE /\ overtaken = FALSE
    /\ task = Idle /\ closing = 0 /\ inbox = <<>>

Init == vm = CleanGuest /\ used = {} /\ ControllerInit

UiReady == ~joining /\ ~aborted

(* _sync_capture_state, for the values a handler has just stored.  No page *)
(* calls setLiveViewEnabled, so the live view adds nothing to it.          *)
Sync(shown, forRun, abort) == capturing' = (shown /\ ~abort /\ forRun)

------------------------------------------------------------------------------
(* Slots, on the UI thread. *)

DoneIsDue == closing > 0 \/ \E i \in DOMAIN inbox : inbox[i] = Done

(* _start_task: a new QThread and worker replace the old references. *)
StartTask(op, run) ==
    /\ busy' = TRUE /\ thread' = TRUE
    /\ overtaken' = (overtaken \/ DoneIsDue)
    /\ task' = [op |-> op, pc |-> FirstStep(op), err |-> "no", run |-> run]

(* _prepare_run_context: a folder of its own, both flags cleared. *)
PrepareRun(j) ==
    /\ used' = used \cup {j}
    /\ runDir' = j
    /\ captureForRun' = TRUE
    /\ abortCapture' = FALSE /\ cancel' = FALSE
    /\ summary' = NoSummary

(* Bound of the model: after a task that overtook a done signal, no other is *)
(* started until the program is started again.                               *)
MayClick == UiReady /\ ~busy /\ ~overtaken

(* startVm, stopVm, resetToClean, runVmwareDiagnostics: nothing but `busy` *)
(* disables their buttons, an active session does not.                     *)
VmButton(op) ==
    /\ MayClick
    /\ StartTask(op, runDir)
    /\ UNCHANGED <<vm, used, session, vmShown, captureForRun, capturing,
                   abortCapture, cancel, runDir, summary, joining, closing, inbox,
                   aborted>>

(* runFileInSandbox, runUrlInSandbox, startInteractiveSession. *)
StartRun(op, j) ==
    /\ MayClick /\ ~session /\ j \notin used
    /\ PrepareRun(j)
    /\ StartTask(op, j)
    /\ UNCHANGED <<vm, session, vmShown, capturing, joining, closing,
                   inbox, aborted>>

StopInteractiveSession ==
    /\ MayClick /\ session
    /\ StartTask("interactive_stop", runDir)
    /\ UNCHANGED <<vm, used, session, vmShown, captureForRun, capturing,
                   abortCapture, cancel, runDir, summary, joining, closing, inbox,
                   aborted>>

(* cancelRun sets the event; only a new run folder clears it. *)
CancelRun ==
    /\ UiReady /\ busy
    /\ cancel' = TRUE
    /\ UNCHANGED <<vm, used, ui, abortCapture, task, closing, inbox>>

(* The program is closed (shutdown waits two seconds and then the worker *)
(* dies with the process) or has aborted, and is started again.          *)
Relaunch ==
    /\ ~joining
    /\ busy' = FALSE /\ session' = FALSE /\ vmShown' = FALSE
    /\ captureForRun' = FALSE /\ abortCapture' = FALSE
    /\ capturing' = FALSE /\ cancel' = FALSE
    /\ runDir' = NoRun /\ summary' = NoSummary
    /\ thread' = FALSE /\ joining' = FALSE /\ aborted' = FALSE /\ overtaken' = FALSE
    /\ task' = Idle /\ closing' = 0 /\ inbox' = <<>>
    /\ UNCHANGED <<vm, used>>

------------------------------------------------------------------------------
(* The worker thread. *)

Emit(s) == inbox' = inbox \o s

(* VmwareTaskWorker.run: the task returned, or raised. *)
Return(err, before) ==
    /\ task' = Idle /\ closing' = closing + 1
    /\ Emit(before \o <<Finished(task.op, err, task.run)>>)
Raise ==
    /\ task' = Idle /\ closing' = closing + 1
    /\ Emit(<<Failed>>)

Goto(pc)        == task' = [task EXCEPT !.pc = pc] /\ UNCHANGED closing
Break(pc, err)  == task' = [task EXCEPT !.pc = pc, !.err = err] /\ UNCHANGED closing

At(ops, pc) == ~aborted /\ task.op \in ops /\ task.pc = pc

(* Where the except branch of a pipeline, a session start, a session stop is. *)
Handler == IF task.op = "interactive_start" THEN "undo"
           ELSE IF task.op = "interactive_stop" THEN "putAway" ELSE "salvage"

(* What a button's commands do to the guest; reset stops it first. *)
ButtonEffect == CASE task.op = "start" -> Started(vm)
                  [] task.op = "stop"  -> Stopped(vm)
                  [] task.op = "reset" -> Reverted(vm)
                  [] task.op = "diagnostics" -> vm

(* _task_start_vm, _task_stop_vm, _task_reset, and the diagnostics, whose *)
(* errors become rows of its result.                                      *)
WCommand ==
    /\ At(ButtonOps, "command")
    /\ \/ /\ vm' = ButtonEffect
          /\ Return("no", IF task.op = "diagnostics" THEN <<>>
                          ELSE <<VmSignal(task.op = "start")>>)
       \/ /\ task.op # "diagnostics"
          /\ vm' \in {vm, ButtonEffect}
                    \cup (IF task.op = "reset" THEN {Stopped(vm)} ELSE {})
          /\ Raise
    /\ UNCHANGED <<used, ui, abortCapture, cancel>>

(* A mutant: a refused revert is passed over. *)
WRevertOn ==
    /\ At(RunOps \cup {"interactive_start"}, "revert") /\ runDir # NoRun
    /\ vm' \in {vm, Stopped(vm), Reverted(vm)} /\ Goto("boot")
    /\ UNCHANGED <<used, ui, abortCapture, cancel, inbox>>

(* Revert to the clean snapshot: stop, ignoring its error, then revert. *)
WRevert ==
    /\ At(RunOps \cup {"interactive_start"}, "revert")
    /\ IF runDir = NoRun THEN UNCHANGED vm /\ Raise      \* the assertion
       ELSE /\ UNCHANGED inbox
            /\ \/ vm' = Reverted(vm) /\ Goto("boot")
               \/ /\ vm' \in {vm, Stopped(vm), Reverted(vm)}
                  /\ Break(Handler, "error")
    /\ UNCHANGED <<used, ui, abortCapture, cancel>>

(* Start the VM, and tell the UI thread that it runs. *)
WBoot ==
    /\ At(RunOps \cup {"interactive_start"}, "boot")
    /\ \/ vm' = Started(vm) /\ Emit(<<VmSignal(TRUE)>>) /\ Goto("tools")
       \/ /\ vm' \in After(vm, Started(vm), FALSE)
          /\ UNCHANGED inbox /\ Break(Handler, "error")
    /\ UNCHANGED <<used, ui, abortCapture, cancel>>

(* wait_for_tools, given the cancel event: the tools answer, the deadline *)
(* passes, or the wait sees the event.                                    *)
WTools ==
    /\ At(RunOps \cup {"interactive_start"}, "tools")
    /\ \/ vm.on /\ Goto("stage")
       \/ Break(Handler, "error")
       \/ cancel /\ Break(Handler, "cancelled")
    /\ UNCHANGED <<vm, used, ui, abortCapture, cancel, inbox>>

(* Guest folders, the scripts, and for a file the sample and the copy back *)
(* that checks its size.                                                   *)
WStage ==
    /\ At(RunOps \cup {"interactive_start"}, "stage")
    /\ \/ vm.on /\ vm' = Loaded(vm, task.run) /\ Goto("launch")
       \/ vm' \in After(vm, Loaded(vm, task.run), FALSE) /\ Break(Handler, "error")
    /\ UNCHANGED <<used, ui, abortCapture, cancel, inbox>>

(* The guest script is run: a pipeline waits for its end, a session does *)
(* not, and is then handed to the user.                                  *)
WLaunch ==
    /\ At(RunOps \cup {"interactive_start"}, "launch")
    /\ \/ /\ vm.on /\ task.op \in RunOps
          /\ Goto("poll") /\ UNCHANGED inbox
       \/ /\ vm.on /\ task.op = "interactive_start"
          /\ Return("no", <<>>)
       \/ Break(Handler, "error") /\ UNCHANGED inbox
    /\ UNCHANGED <<vm, used, ui, abortCapture, cancel>>

(* The except branch of _task_start_interactive_session: the revert is in *)
(* the same try as the stop, so a stop that fails skips it.               *)
WUndo ==
    /\ At({"interactive_start"}, "undo")
    /\ vm' \in {vm, Stopped(vm), Reverted(vm)}
    /\ Return(task.err, <<VmSignal(FALSE)>>)
    /\ UNCHANGED <<used, ui, abortCapture, cancel>>

(* _poll_report_from_guest: the report arrives, an attempt raises, the *)
(* deadline passes, or the cancel event is seen.                       *)
WPoll ==
    /\ At(RunOps, "poll")
    /\ \/ vm.on /\ Goto("putAway")
       \/ Break("salvage", "error")
       \/ cancel /\ Break("salvage", "cancelled")
    /\ UNCHANGED <<vm, used, ui, abortCapture, cancel, inbox>>

(* The except branch of _task_run_pipeline: transcript and error file. *)
WSalvage ==
    /\ At(RunOps, "salvage")
    /\ Goto("putAway")
    /\ UNCHANGED <<vm, used, ui, abortCapture, cancel, inbox>>

(* _task_stop_interactive_session up to its finally. *)
WFlag ==
    /\ At({"interactive_stop"}, "flag")
    /\ IF runDir = NoRun THEN Raise
       ELSE /\ UNCHANGED inbox
            /\ \/ vm.on /\ Goto("await")
               \/ Break("putAway", "error")
    /\ UNCHANGED <<vm, used, ui, abortCapture, cancel>>

(* A mutant: the wait for the flag of the guest has no deadline. *)
WAwaitForever ==
    /\ At({"interactive_stop"}, "await")
    /\ \/ vm.on /\ vm.holds # {} /\ Goto("collect")
       \/ cancel /\ Break("putAway", "cancelled")
    /\ UNCHANGED <<vm, used, ui, abortCapture, cancel, inbox>>

WAwaitDone ==
    /\ At({"interactive_stop"}, "await")
    /\ \/ Goto("collect")                       \* the flag came, or 120 s passed
       \/ cancel /\ Break("putAway", "cancelled")
    /\ UNCHANGED <<vm, used, ui, abortCapture, cancel, inbox>>

WCollect ==
    /\ At({"interactive_stop"}, "collect")
    /\ \/ vm.on /\ Goto("putAway")
       \/ Break("putAway", "error")
    /\ UNCHANGED <<vm, used, ui, abortCapture, cancel, inbox>>

(* A mutant: the error of the last revert is only logged. *)
WPutAwayQuiet ==
    /\ At(RunOps \cup {"interactive_stop"}, "putAway")
    /\ vm' \in {vm, Stopped(vm), Reverted(vm)}
    /\ IF task.op \in RunOps
       THEN abortCapture' = TRUE /\ Emit(<<VmSignal(FALSE)>>) /\ Break("score", task.err)
       ELSE UNCHANGED abortCapture /\ Return(task.err, <<VmSignal(FALSE)>>)
    /\ UNCHANGED <<used, ui, cancel>>

(* The finally of both: stop, ignoring its error, revert, and note an error *)
(* when the revert fails.  The pipeline forbids captures first and goes on  *)
(* to its report; the stop returns.                                         *)
WPutAway ==
    /\ At(RunOps \cup {"interactive_stop"}, "putAway")
    /\ \E ok \in BOOLEAN :
          LET err == IF ok \/ task.err # "no" THEN task.err ELSE "error" IN
          /\ vm' \in (IF ok THEN {Reverted(vm)}
                      ELSE {vm, Stopped(vm), Reverted(vm)})
          /\ IF task.op \in RunOps
             THEN /\ abortCapture' = TRUE
                  /\ Emit(<<VmSignal(FALSE)>>)
                  /\ Break("score", err)
             ELSE /\ UNCHANGED abortCapture
                  /\ Return(err, <<VmSignal(FALSE)>>)
    /\ UNCHANGED <<used, ui, cancel>>

(* The rest of the pipeline: media, a report.json that always exists, its *)
(* score; a report that cannot be read is an error too.                   *)
WScore ==
    /\ At(RunOps, "score")
    /\ \/ Return(task.err, <<>>)
       \/ Return(IF task.err = "no" THEN "error" ELSE task.err, <<>>)
    /\ UNCHANGED <<vm, used, ui, abortCapture, cancel>>

(* The finally of VmwareTaskWorker.run. *)
WEmitDone ==
    /\ ~aborted /\ closing > 0
    /\ closing' = closing - 1
    /\ Emit(<<Done>>)
    /\ UNCHANGED <<vm, used, ui, abortCapture, cancel, task>>

Worker == WCommand \/ WRevert \/ WBoot \/ WTools \/ WStage \/ WLaunch \/ WUndo
       \/ WPoll \/ WSalvage \/ WFlag \/ WAwaitDone \/ WCollect \/ WPutAway
       \/ WScore \/ WEmitDone

------------------------------------------------------------------------------
(* Handlers of the queued signals, on the UI thread. *)

Next1(s) == inbox # <<>> /\ Head(inbox).sig = s /\ inbox' = Tail(inbox)

OnVmRunning ==
    /\ UiReady /\ Next1("vm")
    /\ vmShown' = Head(inbox).running
    /\ Sync(vmShown', captureForRun, abortCapture)
    /\ UNCHANGED <<vm, used, busy, session, captureForRun, abortCapture,
                   cancel, runDir, summary, thread, joining, task, closing, aborted, overtaken>>

(* The VM is taken to be off, and the capture of a run is over. *)
VmTakenOff ==
    /\ vmShown' = FALSE /\ captureForRun' = FALSE
    /\ Sync(FALSE, FALSE, abortCapture)

(* _on_worker_finished, its four ways. *)
OnFinished ==
    /\ UiReady /\ Next1("finished")
    /\ busy' = FALSE
    /\ LET m == Head(inbox) IN
       \/ /\ m.op \in ButtonOps
          /\ VmTakenOff
          /\ UNCHANGED <<session, runDir, summary>>
       \/ /\ m.op = "interactive_start" /\ m.err = "no"
          /\ session' = TRUE /\ vmShown' = TRUE /\ captureForRun' = TRUE
          /\ Sync(TRUE, TRUE, abortCapture)
          /\ summary' = [kind |-> "running", err |-> "no", run |-> m.run]
          /\ UNCHANGED runDir
       \/ /\ ~(m.op \in ButtonOps \/ (m.op = "interactive_start" /\ m.err = "no"))
          /\ VmTakenOff
          /\ session' = (session /\ m.op # "interactive_stop")
          /\ summary' = [kind |-> "result", err |-> m.err, run |-> m.run]
          /\ runDir' = NoRun
    /\ UNCHANGED <<vm, used, abortCapture, cancel, thread, joining, task,
                   closing, aborted, overtaken>>

OnFailed ==
    /\ UiReady /\ Next1("failed")
    /\ busy' = FALSE
    /\ VmTakenOff
    /\ session' = FALSE
    /\ summary' = [kind |-> "failed", err |-> "error", run |-> runDir]
    /\ runDir' = NoRun
    /\ UNCHANGED <<vm, used, abortCapture, cancel, thread, joining, task,
                   closing, aborted, overtaken>>

(* _teardown_worker, for whatever thread the reference names by then.  A   *)
(* thread whose worker is still in its task is waited for.                 *)
Release ==
    /\ thread' = FALSE /\ busy' = FALSE
    /\ Sync(vmShown, captureForRun, abortCapture)

OnDone ==
    /\ UiReady /\ Next1("done")
    /\ IF thread /\ Running
       THEN joining' = TRUE /\ UNCHANGED <<thread, busy, capturing>>
       ELSE Release /\ UNCHANGED joining
    /\ UNCHANGED <<vm, used, session, vmShown, captureForRun, abortCapture,
                   cancel, runDir, summary, task, closing, aborted, overtaken>>

JoinReturns ==
    /\ joining /\ ~Running
    /\ joining' = FALSE
    /\ Release
    /\ UNCHANGED <<vm, used, session, vmShown, captureForRun, abortCapture,
                   cancel, runDir, summary, task, closing, inbox, aborted, overtaken>>

(* wait(2000) gave up: deleteLater destroys a thread that still runs. *)
JoinTimesOut ==
    /\ joining /\ Running
    /\ joining' = FALSE /\ aborted' = TRUE
    /\ UNCHANGED <<vm, used, busy, session, vmShown, captureForRun,
                   abortCapture, capturing, cancel, runDir, summary, thread, task,
                   closing, inbox, overtaken>>

UiThread == OnVmRunning \/ OnFinished \/ OnFailed \/ OnDone
         \/ JoinReturns \/ JoinTimesOut

User == \/ \E op \in ButtonOps : VmButton(op)
        \/ \E op \in RunOps \cup {"interactive_start"}, j \in Jobs : StartRun(op, j)
        \/ StopInteractiveSession
        \/ CancelRun
        \/ Relaunch

Next == Worker \/ UiThread \/ User

(* Threads are scheduled, vmrun has a timeout everywhere, and the event *)
(* loop runs.  The user owes nothing.                                   *)
Spec == Init /\ [][Next]_vars /\ WF_vars(Worker) /\ WF_vars(UiThread)

------------------------------------------------------------------------------
(* Properties. *)

TypeOK ==
    /\ vm \in Guests /\ used \subseteq Jobs
    /\ {busy, session, vmShown, captureForRun, abortCapture, capturing,
        cancel, thread, joining, aborted, overtaken} \subseteq BOOLEAN
    /\ runDir \in Jobs \cup {NoRun}
    /\ summary \in Summaries
    /\ task \in [op : Ops \cup {"none"},
                pc : {"none", "command", "revert", "boot", "tools", "stage", "launch",
                      "undo", "poll", "salvage", "flag", "await", "collect",
                      "putAway", "score"},
                err : Errors, run : Jobs \cup {NoRun}]
    /\ closing \in Nat
    /\ inbox \in Seq(Signals)

(* No guest ever holds what two runs left in it, whatever failed, was      *)
(* cancelled, or was cut short by the end of the program in between: every *)
(* run reverts before it loads its sample, and does not load it when the   *)
(* revert was refused.                                                     *)
OneRunInTheGuest == Cardinality(vm.holds) <= 1

(* While a task executes, `busy` is on, so that no button starts another;  *)
(* the program is ended by Qt only when a task was started before the done *)
(* signal of an earlier one; and Stop Analysis finds its run folder.       *)
LabInv ==
    /\ TypeOK
    /\ OneRunInTheGuest
    /\ aborted => overtaken
    /\ ~overtaken => /\ Running => busy
                     /\ session => runDir # NoRun
                     /\ vmShown /\ ~busy => session
                     /\ capturing => vmShown /\ captureForRun

(* A run, or a stopped session, that is shown without an error has left the *)
(* guest off and on its clean snapshot.                                     *)
ErrorFreeMeansPutAway ==
    [][/\ summary'.kind = "result" /\ summary' # summary
       /\ summary'.err = "no" /\ ~overtaken
       => IsClean(vm)]_vars

(* Every task ends: the page is given back, unless Qt ended the program. *)
EveryTaskEnds == busy ~> (~busy \/ aborted)
==============================================================================
