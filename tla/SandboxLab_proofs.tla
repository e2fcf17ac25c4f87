--------------------------- MODULE SandboxLab_proofs ---------------------------
(***************************************************************************)
(* Proofs about SandboxLab, for any number of runs: no guest ever holds    *)
(* two of them, a task is not started over another, and an error-free      *)
(* result is shown of a guest that was put away.                           *)
(***************************************************************************)
EXTENDS SandboxLab, FiniteSetTheorems, SequenceTheorems, TLAPS

------------------------------------------------------------------------------
(* The inductive invariant. *)

Ends       == {"finished", "failed"}
FolderOps  == RunOps \cup {"interactive_start"}   \* prepare a run folder
PutAwayOps == RunOps \cup {"interactive_stop"}    \* end with a revert

\* Between its revert and its sample a task has the guest to itself, and a
\* pipeline that comes to its score without an error has put the guest away.
GuestInv ==
    /\ vm.holds = {} \/ \E j \in Jobs : vm.holds = {j}
    /\ task.op \in FolderOps => task.run \in Jobs
    /\ task.pc \in {"boot", "tools", "stage"} => vm.holds = {}
    /\ task.op \in RunOps /\ task.pc = "score" /\ task.err = "no" => IsClean(vm)

\* Only the done signal of an overtaken task finds another task executing.
FlagInv ==
    /\ aborted => overtaken
    /\ joining => overtaken
    /\ capturing => vmShown /\ captureForRun

\* What is queued is of one task: its VM signals, its end, its done signal.
QueueInv ==
    /\ \A i, k \in DOMAIN inbox :
          i < k => inbox[i].sig = "vm" \/ (inbox[i].sig \in Ends /\ inbox[k] = Done)
    /\ closing > 0 => closing = 1 /\ ~Running /\ \A i \in DOMAIN inbox : inbox[i] # Done
    /\ Running => busy /\ closing = 0 /\ \A i \in DOMAIN inbox : inbox[i].sig = "vm"
    /\ ~busy => \A i \in DOMAIN inbox : inbox[i] = Done
    /\ busy => Running \/ \E i \in DOMAIN inbox : inbox[i].sig \in Ends

\* A session has a folder, and so has what may become one.
PageInv ==
    /\ session => runDir # NoRun
    /\ vmShown /\ ~busy => session
    /\ Running /\ task.op \in FolderOps => ~session /\ runDir # NoRun
    /\ \A i \in DOMAIN inbox :
          inbox[i].sig = "finished" =>
             /\ inbox[i].op \in FolderOps => ~session /\ runDir # NoRun
             /\ inbox[i].op \in PutAwayOps /\ inbox[i].err = "no" => IsClean(vm)

LabIInv == TypeOK /\ GuestInv /\ FlagInv /\ (~overtaken => QueueInv /\ PageInv)

Tasks == [op : Ops \cup {"none"},
          pc : {"none", "command", "revert", "boot", "tools", "stage", "launch",
                "undo", "poll", "salvage", "flag", "await", "collect",
                "putAway", "score"},
          err : Errors, run : Jobs \cup {NoRun}]

\* A task goes on, or comes to its end: what its worker tells of it.
GoesOn ==
    /\ task' \in Tasks /\ Running' /\ task'.op = task.op /\ task'.run = task.run
    /\ closing' = closing
    /\ inbox' = inbox \/ \E b \in BOOLEAN : inbox' = inbox \o <<VmSignal(b)>>
EndSignal(m) ==
    \/ m = Failed
    \/ \E err \in Errors : /\ m = Finished(task.op, err, task.run)
                           /\ task.op \in PutAwayOps /\ err = "no" => IsClean(vm')
Comes ==
    /\ task' = Idle /\ closing' = closing + 1
    /\ \E m \in Signals :
          /\ EndSignal(m)
          /\ inbox' = inbox \o <<m>> \/ \E b \in BOOLEAN : inbox' = inbox \o <<VmSignal(b), m>>

Works == /\ Running /\ task.op \in Ops /\ ~aborted
         /\ UNCHANGED <<used, ui, cancel>> /\ abortCapture' \in BOOLEAN
         /\ GoesOn \/ Comes

USE NoRunAssumption

LEMMA TaskTyped == ASSUME TypeOK PROVE task \in Tasks
BY DEF TypeOK, Tasks

LEMMA GuestFacts ==
  ASSUME NEW g \in Guests
  PROVE  /\ Reverted(g) = CleanGuest /\ Reverted(g) \in Guests
         /\ Started(g) \in Guests /\ Started(g).holds = g.holds
         /\ Stopped(g) \in Guests /\ Stopped(g).holds = g.holds
         /\ CleanGuest.holds = {}
         /\ \A j \in Jobs : Loaded(g, j) \in Guests /\ Loaded(g, j).holds = g.holds \cup {j}
BY DEF Guests, Reverted, Started, Stopped, Loaded, CleanGuest

LEMMA OneAndOne == ASSUME NEW x, NEW y PROVE <<x>> \o <<y>> = <<x, y>>
<1> DEFINE S == {x, y}
<1>1. <<x>> \in Seq(S) /\ <<y>> \in Seq(S) /\ <<x, y>> \in Seq(S)
  OBVIOUS
<1>2. Len(<<x>>) = 1 /\ Len(<<y>>) = 1 /\ Len(<<x, y>>) = 2
  OBVIOUS
<1>3. <<x>> \o <<y>> \in Seq(S) /\ Len(<<x>> \o <<y>>) = 2
      /\ \A i \in 1 .. 2 : (<<x>> \o <<y>>)[i] = <<x, y>>[i]
  BY <1>1, <1>2, ConcatProperties
<1>. QED
  BY <1>1, <1>2, <1>3, SeqEqual

LEMMA ReturnComes ==
  ASSUME TypeOK, task.op \in Ops, NEW err \in Errors, NEW s,
         s = <<>> \/ \E b \in BOOLEAN : s = <<VmSignal(b)>>,
         Return(err, s), task.op \in PutAwayOps /\ err = "no" => IsClean(vm')
  PROVE  Comes
<1> DEFINE m == Finished(task.op, err, task.run)
<1>1. m \in Signals /\ EndSignal(m)
  BY TaskTyped DEF Tasks, Signals, Finished, EndSignal
<1>2. task' = Idle /\ closing' = closing + 1 /\ inbox' = inbox \o (s \o <<m>>)
  BY DEF Return, Emit
<1> HIDE DEF m
<1>3. <<>> \o <<m>> = <<m>>
  OBVIOUS
<1>4. \A b \in BOOLEAN : <<VmSignal(b)>> \o <<m>> = <<VmSignal(b), m>>
  BY OneAndOne
<1>. QED
  BY <1>1, <1>2, <1>3, <1>4 DEF Comes

LEMMA RaiseComes == Raise => Comes
BY DEF Raise, Emit, Comes, EndSignal, Signals

\* A task at its next step is still the same task.
LEMMA NextStep ==
  ASSUME TypeOK,
         NEW pc \in {"boot", "tools", "stage", "launch", "undo", "poll",
                     "salvage", "await", "collect", "putAway", "score"}
  PROVE  /\ [task EXCEPT !.pc = pc] \in Tasks /\ [task EXCEPT !.pc = pc] # Idle
         /\ [task EXCEPT !.pc = pc].op = task.op /\ [task EXCEPT !.pc = pc].pc = pc
         /\ [task EXCEPT !.pc = pc].err = task.err /\ [task EXCEPT !.pc = pc].run = task.run
BY TaskTyped DEF Tasks, Idle

LEMMA Gone == ASSUME TypeOK, NEW pc \in {"boot", "tools", "stage", "launch", "undo", "poll",
                     "salvage", "await", "collect", "putAway", "score"},
      Goto(pc), inbox' = inbox \/ \E b \in BOOLEAN : inbox' = inbox \o <<VmSignal(b)>>
  PROVE GoesOn /\ task'.pc = pc /\ task'.op = task.op /\ task'.err = task.err
BY NextStep DEF Goto, GoesOn, Running

LEMMA Broken == ASSUME TypeOK, NEW err \in Errors,
      NEW pc \in {"undo", "salvage", "putAway", "score"},
      Break(pc, err), inbox' = inbox \/ \E b \in BOOLEAN : inbox' = inbox \o <<VmSignal(b)>>
  PROVE GoesOn /\ task'.pc = pc /\ task'.op = task.op /\ task'.err = err
<1>1. task' = [task EXCEPT !.pc = pc, !.err = err]
  BY DEF Break
<1>2. task' \in Tasks /\ task'.op = task.op /\ task'.pc = pc /\ task'.err = err
      /\ task'.run = task.run
  BY <1>1, TaskTyped DEF Tasks
<1>3. task' # Idle
  BY <1>2 DEF Idle
<1>. QED
  BY <1>2, <1>3 DEF Break, GoesOn, Running

LEMMA Over == task' = Idle => task'.pc = "none" /\ task'.op = "none" /\ task'.op \notin FolderOps
BY DEF Idle, FolderOps, RunOps

\* Away from the steps GuestInv names, only what the guest holds matters.
LEMMA GuestKept ==
  ASSUME GuestInv, vm'.holds = vm.holds \/ vm'.holds = {},
         task'.op \in FolderOps => task'.op = task.op /\ task'.run = task.run,
         task'.pc \notin {"boot", "tools", "stage", "score"}
  PROVE  GuestInv'
BY DEF GuestInv

\* Wherever a worker stands, its step keeps the guest and tells what it may.
LEMMA CommandSteps ==
  ASSUME TypeOK, GuestInv, WCommand
  PROVE  vm' \in Guests /\ GuestInv' /\ Comes
<1>. vm \in Guests 
  BY DEF TypeOK
<1>1. task.op \in ButtonOps /\ task.op \in Ops /\ task.op \notin PutAwayOps
    BY DEF WCommand, At, Ops, ButtonOps, PutAwayOps, RunOps
<1>2. ButtonEffect \in {Started(vm), Stopped(vm), Reverted(vm), vm}
    BY <1>1 DEF ButtonEffect, ButtonOps
<1>3. vm' \in {Started(vm), Stopped(vm), Reverted(vm), vm}
    BY <1>2 DEF WCommand
<1>4. vm' \in Guests /\ (vm'.holds = vm.holds \/ vm'.holds = {})
    BY <1>3, GuestFacts
<1>5. CASE Raise
    BY <1>4, <1>5, RaiseComes, GuestKept, Over DEF Raise
<1>6. CASE Return("no", IF task.op = "diagnostics" THEN <<>>
                          ELSE <<VmSignal(task.op = "start")>>)
    BY <1>1, <1>4, <1>6, ReturnComes, GuestKept, Over DEF Return, Errors
<1>. QED
    BY <1>5, <1>6 DEF WCommand

LEMMA RevertSteps == ASSUME TypeOK, GuestInv, WRevert
  PROVE  vm' \in Guests /\ GuestInv' /\ (GoesOn \/ Comes)
<1>. vm \in Guests 
  BY DEF TypeOK
<1>1. CASE runDir = NoRun
    BY <1>1, RaiseComes, GuestKept, Over DEF WRevert, Raise
<1>2. CASE runDir # NoRun /\ vm' = Reverted(vm) /\ Goto("boot")
    BY <1>2, Gone, GuestFacts DEF WRevert, GuestInv, GoesOn
<1>3. CASE /\ runDir # NoRun /\ vm' \in {vm, Stopped(vm), Reverted(vm)}
             /\ Break(Handler, "error")
    BY <1>3, Broken, GuestKept, GuestFacts DEF WRevert, Handler, Errors, GoesOn
<1>. QED
    BY <1>1, <1>2, <1>3 DEF WRevert

LEMMA Powered ==
  ASSUME TypeOK
  PROVE  /\ vm \in Guests
         /\ \A g \in {vm, Started(vm), Stopped(vm), Reverted(vm)} :
               g \in Guests /\ (g.holds = vm.holds \/ g.holds = {})
BY GuestFacts DEF TypeOK

LEMMA BootSteps == ASSUME TypeOK, GuestInv, WBoot
  PROVE  vm' \in Guests /\ GuestInv' /\ GoesOn
<1>1. vm' \in {vm, Started(vm)}
  BY DEF WBoot, After
<1>2. vm' \in Guests /\ vm'.holds = {}
  BY <1>1, Powered, GuestFacts DEF WBoot, At, GuestInv
<1>3. CASE Goto("tools") /\ Emit(<<VmSignal(TRUE)>>)
  BY <1>2, <1>3, Gone DEF Emit, GuestInv, GoesOn
<1>4. CASE inbox' = inbox /\ Break(Handler, "error")
  BY <1>2, <1>4, Broken DEF Handler, Errors, GuestInv, GoesOn
<1>. QED
  BY <1>2, <1>3, <1>4 DEF WBoot


\* The steps that tell the UI thread nothing and stay at one task.
Quietly(pcs) ==
    /\ inbox' = inbox
    /\ \E pc \in pcs : Goto(pc) \/ \E err \in Errors : Break(pc, err)

LEMMA QuietSteps ==
  ASSUME TypeOK, GuestInv, vm' = vm \/ vm' = Stopped(vm) \/ vm' = Reverted(vm),
         Quietly({"launch", "undo", "poll", "salvage", "await", "collect", "putAway"})
  PROVE  vm' \in Guests /\ GuestInv' /\ GoesOn
<1> DEFINE S == {"launch", "undo", "poll", "salvage", "await", "collect", "putAway"}
<1>1. vm' \in Guests /\ (vm'.holds = vm.holds \/ vm'.holds = {})
  BY Powered
<1>2. PICK pc \in S : Goto(pc) \/ \E err \in Errors : Break(pc, err)
  BY DEF Quietly
<1>3. ASSUME Goto(pc) PROVE GoesOn /\ task'.pc = pc
  BY <1>3, Gone DEF Quietly
<1>4. ASSUME NEW err \in Errors, Break(pc, err) PROVE GoesOn /\ task'.pc = pc
  <2>1. [task EXCEPT !.pc = pc, !.err = err] \in Tasks
    BY TaskTyped DEF Tasks
  <2>. QED
    BY <1>4, <2>1 DEF Quietly, Break, GoesOn, Tasks, Running, Idle
<1>5. GoesOn /\ task'.pc = pc
  BY <1>2, <1>3, <1>4
<1>. QED
  BY <1>1, <1>5, GuestKept DEF GoesOn

LEMMA ToolsSteps == ASSUME TypeOK, GuestInv, WTools
  PROVE  vm' \in Guests /\ GuestInv' /\ GoesOn
<1>1. CASE Goto("stage")
  BY <1>1, Gone, Powered DEF WTools, At, GuestInv, GoesOn
<1>2. CASE Quietly({"launch", "undo", "poll", "salvage", "await", "collect", "putAway"})
  BY <1>2, QuietSteps DEF WTools
<1>. QED
  BY <1>1, <1>2 DEF WTools, Quietly, Handler, Errors

LEMMA StageSteps == ASSUME TypeOK, GuestInv, WStage
  PROVE  vm' \in Guests /\ GuestInv' /\ GoesOn
<1>1. task.run \in Jobs /\ vm.holds = {}
  BY DEF WStage, At, GuestInv, FolderOps
<1>2. vm' \in {vm, Loaded(vm, task.run)}
  BY DEF WStage, After
<1>3. vm' \in Guests /\ (vm'.holds = {} \/ vm'.holds = {task.run})
  BY <1>1, <1>2, GuestFacts, Powered
<1>4. GoesOn /\ task'.pc \notin {"boot", "tools", "stage", "score"}
  BY Gone, Broken DEF WStage, Handler, Errors
<1>. QED
  BY <1>1, <1>3, <1>4 DEF GuestInv, GoesOn

LEMMA LaunchSteps == ASSUME TypeOK, GuestInv, WLaunch
  PROVE  vm' \in Guests /\ GuestInv' /\ (GoesOn \/ Comes)
<1>1. CASE Return("no", <<>>) /\ task.op = "interactive_start"
  BY <1>1, ReturnComes, GuestKept, Over, Powered DEF WLaunch, Return, Ops, PutAwayOps, RunOps, Errors
<1>2. CASE Quietly({"launch", "undo", "poll", "salvage", "await", "collect", "putAway"})
  BY <1>2, QuietSteps DEF WLaunch
<1>. QED
  BY <1>1, <1>2 DEF WLaunch, Quietly, Handler, Errors

LEMMA UndoSteps == ASSUME TypeOK, GuestInv, WUndo
  PROVE  vm' \in Guests /\ GuestInv' /\ Comes
<1>1. vm' \in Guests /\ (vm'.holds = vm.holds \/ vm'.holds = {})
  BY Powered DEF WUndo
<1>2. task.op \in Ops /\ task.op \notin PutAwayOps /\ task.err \in Errors
  BY TaskTyped DEF WUndo, At, Ops, PutAwayOps, RunOps, Tasks
<1>3. Return(task.err, <<VmSignal(FALSE)>>)
  BY DEF WUndo
<1>. QED
  BY <1>1, <1>2, <1>3, ReturnComes, GuestKept, Over DEF Return

LEMMA PollSteps == ASSUME TypeOK, GuestInv, WPoll \/ WSalvage \/ WAwaitDone \/ WCollect
  PROVE  vm' \in Guests /\ GuestInv' /\ GoesOn
<1>1. Quietly({"launch", "undo", "poll", "salvage", "await", "collect", "putAway"})
  BY DEF WPoll, WSalvage, WAwaitDone, WCollect, Quietly, Errors
<1>. QED
  BY <1>1, QuietSteps DEF WPoll, WSalvage, WAwaitDone, WCollect

LEMMA FlagSteps == ASSUME TypeOK, GuestInv, WFlag
  PROVE  vm' \in Guests /\ GuestInv' /\ (GoesOn \/ Comes)
<1>1. CASE Raise
  BY <1>1, RaiseComes, GuestKept, Over, Powered DEF WFlag, Raise
<1>2. CASE Quietly({"launch", "undo", "poll", "salvage", "await", "collect", "putAway"})
  BY <1>2, QuietSteps DEF WFlag
<1>. QED
  BY <1>1, <1>2 DEF WFlag, Quietly, Errors

\* Put away without an error means reverted, for a pipeline and for a session.
LEMMA PutAwaySteps == ASSUME TypeOK, GuestInv, WPutAway
  PROVE  vm' \in Guests /\ GuestInv' /\ (GoesOn \/ Comes)
<1>1. PICK ok \in BOOLEAN :
        LET err == IF ok \/ task.err # "no" THEN task.err ELSE "error" IN
          /\ vm' \in (IF ok THEN {Reverted(vm)}
                      ELSE {vm, Stopped(vm), Reverted(vm)})
          /\ IF task.op \in RunOps
             THEN /\ abortCapture' = TRUE
                  /\ Emit(<<VmSignal(FALSE)>>)
                  /\ Break("score", err)
             ELSE /\ UNCHANGED abortCapture
                  /\ Return(err, <<VmSignal(FALSE)>>)
  BY DEF WPutAway
<1> DEFINE err == IF ok \/ task.err # "no" THEN task.err ELSE "error"
<1>2. vm' \in Guests /\ (vm'.holds = vm.holds \/ vm'.holds = {})
  BY <1>1, Powered
<1>3. task.err \in Errors /\ task.op \in Ops /\ err \in Errors
  BY TaskTyped DEF WPutAway, At, Ops, Tasks, Errors
<1>4. err = "no" => IsClean(vm')
  BY <1>1, GuestFacts, Powered DEF IsClean
<1>5. CASE task.op \in RunOps
  <2>1. inbox' = inbox \o <<VmSignal(FALSE)>> /\ Break("score", err)
    BY <1>1, <1>5 DEF Emit
  <2> HIDE DEF err
  <2>2. GoesOn /\ task'.pc = "score" /\ task'.op = task.op /\ task'.err = err
    BY <2>1, <1>3, Broken
  <2>. QED
    BY <1>2, <1>4, <2>2 DEF GuestInv, GoesOn
<1>6. CASE task.op \notin RunOps
  <2>1. Return(err, <<VmSignal(FALSE)>>)
    BY <1>1, <1>6
  <2> HIDE DEF err
  <2>2. Comes
    BY <1>3, <1>4, <2>1, ReturnComes
  <2>. QED
    BY <1>2, <2>1, <2>2, GuestKept, Over DEF Return
<1>. QED
  BY <1>5, <1>6

LEMMA ScoreSteps == ASSUME TypeOK, GuestInv, WScore
  PROVE  vm' \in Guests /\ GuestInv' /\ Comes
<1>1. PICK err \in Errors : Return(err, <<>>) /\ (err = "no" => task.err = "no")
  BY TaskTyped DEF WScore, Tasks, Errors
<1>2. task.op \in Ops /\ (err = "no" => IsClean(vm'))
  BY <1>1 DEF WScore, At, Ops, GuestInv
<1>. QED
  BY <1>1, <1>2, ReturnComes, GuestKept, Over, Powered DEF Return, WScore

\* Wherever a worker stands, its step keeps the guest and tells what it may.
LEMMA WorkerSteps ==
  ASSUME TypeOK, GuestInv, Worker, ~WEmitDone
  PROVE  vm' \in Guests /\ GuestInv' /\ Works
<1>1. vm' \in Guests /\ GuestInv' /\ (GoesOn \/ Comes)
  BY CommandSteps, RevertSteps, BootSteps, ToolsSteps, StageSteps, LaunchSteps, UndoSteps,
     PollSteps, FlagSteps, PutAwaySteps, ScoreSteps DEF Worker
<1>2. task.pc # "none" /\ task.op \in Ops /\ ~aborted
  BY DEF Worker, WCommand, WRevert, WBoot, WTools, WStage, WLaunch, WUndo, WPoll,
     WSalvage, WFlag, WAwaitDone, WCollect, WPutAway, WScore, At, Ops
<1>3. UNCHANGED <<used, ui, cancel>> /\ abortCapture' \in BOOLEAN
  BY DEF Worker, WCommand, WRevert, WBoot, WTools, WStage, WLaunch, WUndo, WPoll,
     WSalvage, WFlag, WAwaitDone, WCollect, WPutAway, WScore, TypeOK
<1>4. Running
  BY <1>2 DEF Running, Idle
<1>. QED
  BY <1>1, <1>2, <1>3, <1>4 DEF Works

\* What the queue of signals is after one is, or two are, put behind it.
LEMMA Queued ==
  ASSUME NEW q \in Seq(Signals), NEW m \in Signals
  PROVE  /\ q \o <<m>> \in Seq(Signals)
         /\ DOMAIN (q \o <<m>>) = 1 .. Len(q) + 1 /\ DOMAIN q = 1 .. Len(q)
         /\ \A i \in DOMAIN q : (q \o <<m>>)[i] = q[i]
         /\ (q \o <<m>>)[Len(q) + 1] = m
OBVIOUS
LEMMA Queued2 ==
  ASSUME NEW q \in Seq(Signals), NEW v \in Signals, NEW m \in Signals
  PROVE  /\ q \o <<v, m>> \in Seq(Signals)
         /\ DOMAIN (q \o <<v, m>>) = 1 .. Len(q) + 2 /\ DOMAIN q = 1 .. Len(q)
         /\ \A i \in DOMAIN q : (q \o <<v, m>>)[i] = q[i]
         /\ (q \o <<v, m>>)[Len(q) + 1] = v
         /\ (q \o <<v, m>>)[Len(q) + 2] = m
OBVIOUS

LEMMA SignalFacts ==
  /\ \A b \in BOOLEAN : VmSignal(b) \in Signals /\ VmSignal(b).sig = "vm" /\ VmSignal(b) # Done
  /\ Done \in Signals /\ Done.sig = "done" /\ Failed \in Signals /\ Failed.sig = "failed"
  /\ \A op \in Ops, err \in Errors, run \in Jobs \cup {NoRun} :
        LET m == Finished(op, err, run)
        IN m \in Signals /\ m.sig = "finished" /\ m.op = op /\ m.err = err /\ m.run = run
  /\ \A m \in Signals : /\ m.sig \in {"vm", "finished", "failed", "done"}
                        /\ m.sig = "done" <=> m = Done
                        /\ m.sig = "failed" => m = Failed
BY DEF Signals, VmSignal, Done, Failed, Finished

------------------------------------------------------------------------------
(* The workers keep what the page relies on. *)

LEMMA WorksType == ASSUME TypeOK, Works, vm' \in Guests PROVE TypeOK'
<1>1. task' \in Tasks /\ closing' \in Nat
  <2>1. Idle \in Tasks
    BY DEF Idle, Tasks, Errors
  <2>. QED
    BY <2>1 DEF Works, GoesOn, Comes, TypeOK
<1>2. inbox' \in Seq(Signals)
  <2>1. inbox \in Seq(Signals)
    BY DEF TypeOK
  <2>2. CASE GoesOn
    <3>1. ASSUME NEW b \in BOOLEAN PROVE inbox \o <<VmSignal(b)>> \in Seq(Signals)
      BY <2>1, Queued, SignalFacts
    <3>. QED
      BY <2>1, <2>2, <3>1 DEF GoesOn
  <2>3. CASE Comes
    <3>1. ASSUME NEW m \in Signals PROVE inbox \o <<m>> \in Seq(Signals)
      BY <2>1, Queued
    <3>2. ASSUME NEW m \in Signals, NEW b \in BOOLEAN
          PROVE  inbox \o <<VmSignal(b), m>> \in Seq(Signals)
      BY <2>1, Queued2, SignalFacts
    <3>. QED
      BY <2>3, <3>1, <3>2 DEF Comes
  <2>. QED
    BY <2>2, <2>3 DEF Works
<1>. QED
  BY <1>1, <1>2 DEF TypeOK, Works, ui, Tasks

LEMMA GoesOnKeeps ==
  ASSUME TypeOK, Works, GoesOn, QueueInv, PageInv
  PROVE  QueueInv' /\ PageInv'
<1>1. inbox \in Seq(Signals) /\ closing = 0 /\ busy /\ Running /\ Running'
  BY DEF TypeOK, QueueInv, Works, GoesOn
<1>2. \A i \in DOMAIN inbox' : inbox'[i].sig = "vm" /\ inbox'[i] # Done
  <2>1. CASE inbox' = inbox
    BY <1>1, <2>1, SignalFacts DEF QueueInv
  <2>2. ASSUME NEW b \in BOOLEAN, inbox' = inbox \o <<VmSignal(b)>>
        PROVE  \A i \in DOMAIN inbox' : inbox'[i].sig = "vm" /\ inbox'[i] # Done
    BY <1>1, <2>2, Queued, SignalFacts DEF QueueInv
  <2>. QED
    BY <2>1, <2>2 DEF GoesOn
<1>3. QueueInv'
  BY <1>1, <1>2 DEF QueueInv, Works, GoesOn, ui
<1>4. PageInv'
  BY <1>1, <1>2 DEF PageInv, Works, GoesOn, ui
<1>. QED
  BY <1>3, <1>4

LEMMA ComesKeeps ==
  ASSUME TypeOK, Works, Comes, QueueInv, PageInv
  PROVE  QueueInv' /\ PageInv'
<1>1. /\ inbox \in Seq(Signals) /\ closing = 0 /\ busy /\ busy' /\ Running
      /\ \A i \in DOMAIN inbox : inbox[i].sig = "vm"
      /\ task \in Tasks /\ ~Running' /\ closing' = 1
  BY TaskTyped DEF TypeOK, QueueInv, Works, Comes, Running, ui
<1>2. PICK m \in Signals :
          /\ EndSignal(m)
          /\ inbox' = inbox \o <<m>> \/ \E b \in BOOLEAN : inbox' = inbox \o <<VmSignal(b), m>>
  BY DEF Comes
<1>3. m.sig \in Ends /\ m # Done
  BY <1>2, SignalFacts DEF EndSignal, Finished, Ends
<1>4. m.sig = "finished" => /\ m.op = task.op
                            /\ m.op \in PutAwayOps /\ m.err = "no" => IsClean(vm')
  BY <1>2, SignalFacts, <1>1 DEF EndSignal, Finished, Failed, Tasks
<1>5. PICK n \in Nat : /\ DOMAIN inbox' = 1 .. n + 1 /\ inbox'[n + 1] = m
                       /\ \A i \in 1 .. n : inbox'[i] \in Signals /\ inbox'[i].sig = "vm"
  <2>1. CASE inbox' = inbox \o <<m>>
    <3>1. DOMAIN inbox = 1 .. Len(inbox) /\ Len(inbox) \in Nat
      BY <1>1
    <3>. QED
      BY <1>1, <2>1, <3>1, Queued
  <2>2. ASSUME NEW b \in BOOLEAN, inbox' = inbox \o <<VmSignal(b), m>>
        PROVE  \E n \in Nat : /\ DOMAIN inbox' = 1 .. n + 1 /\ inbox'[n + 1] = m
                       /\ \A i \in 1 .. n : inbox'[i] \in Signals /\ inbox'[i].sig = "vm"
    <3>1. DOMAIN inbox = 1 .. Len(inbox) /\ Len(inbox) \in Nat
      BY <1>1
    <3>2. /\ DOMAIN inbox' = 1 .. Len(inbox) + 2
          /\ inbox'[Len(inbox) + 1] = VmSignal(b) /\ inbox'[Len(inbox) + 2] = m
          /\ \A i \in 1 .. Len(inbox) : inbox'[i] = inbox[i]
      BY <1>1, <2>2, <3>1, Queued2, SignalFacts
    <3>3. ASSUME NEW i \in 1 .. Len(inbox) + 1
          PROVE  inbox'[i] \in Signals /\ inbox'[i].sig = "vm"
      <4>1. i \in DOMAIN inbox \/ i = Len(inbox) + 1
        BY <3>1
      <4>2. CASE i \in DOMAIN inbox
        BY <1>1, <3>1, <3>2, <4>2
      <4>. QED
        BY <3>2, <4>1, <4>2, SignalFacts
    <3>4. Len(inbox) + 1 \in Nat /\ Len(inbox) + 2 = (Len(inbox) + 1) + 1
      BY <3>1
    <3>. QED
      BY <3>2, <3>3, <3>4
  <2>. QED
    BY <1>2, <2>1, <2>2
<1>6. QueueInv'
  <2>1. n + 1 \in DOMAIN inbox' /\ inbox'[n + 1].sig \in Ends
    BY <1>3, <1>5
  <2>. QED
    BY <1>1, <1>3, <1>5, <2>1, SignalFacts DEF QueueInv
<1>7. PageInv'
  <2>1. ASSUME NEW i \in DOMAIN inbox', inbox'[i].sig = "finished"
        PROVE  /\ inbox'[i].op \in FolderOps => ~session' /\ runDir' # NoRun
               /\ inbox'[i].op \in PutAwayOps /\ inbox'[i].err = "no" => IsClean(vm')
    <3>1. i = n + 1
      BY <1>5, <2>1
    <3>. QED
      BY <1>1, <1>4, <1>5, <2>1, <3>1 DEF PageInv, Works, ui
  <2>. QED
    BY <1>1, <2>1 DEF PageInv, Works, ui
<1>. QED
  BY <1>6, <1>7

LEMMA WorkerKeeps ==
  ASSUME LabIInv, Worker, ~WEmitDone
  PROVE  LabIInv'
<1>1. vm' \in Guests /\ GuestInv' /\ Works
  BY WorkerSteps DEF LabIInv
<1>2. TypeOK'
  BY <1>1, WorksType DEF LabIInv
<1>3. FlagInv'
  BY <1>1 DEF LabIInv, FlagInv, Works, ui
<1>4. ~overtaken' => QueueInv' /\ PageInv'
  BY <1>1, GoesOnKeeps, ComesKeeps DEF LabIInv, Works, ui
<1>. QED
  BY <1>1, <1>2, <1>3, <1>4 DEF LabIInv

LEMMA DoneKeeps == ASSUME LabIInv, WEmitDone PROVE LabIInv'
<1>1. /\ inbox \in Seq(Signals) /\ inbox' = inbox \o <<Done>> /\ task' = task
      /\ UNCHANGED <<vm, used, ui, abortCapture, cancel>>
      /\ closing \in Nat /\ closing > 0 /\ closing' = closing - 1
  BY DEF LabIInv, TypeOK, WEmitDone, Emit
<1>2. /\ inbox' \in Seq(Signals) /\ DOMAIN inbox' = 1 .. Len(inbox) + 1
      /\ DOMAIN inbox = 1 .. Len(inbox) /\ Len(inbox) \in Nat
      /\ \A i \in DOMAIN inbox : inbox'[i] = inbox[i] /\ inbox[i] \in Signals
      /\ inbox'[Len(inbox) + 1] = Done
  BY <1>1, Queued, SignalFacts
<1>3. TypeOK' /\ GuestInv' /\ FlagInv'
  BY <1>1, <1>2 DEF LabIInv, TypeOK, GuestInv, FlagInv, ui
<1>4. ASSUME ~overtaken' PROVE QueueInv' /\ PageInv'
  <2>1. QueueInv /\ PageInv /\ ~Running /\ ~Running' /\ closing' = 0
    BY <1>1, <1>4 DEF LabIInv, QueueInv, Running, ui
  <2>2. \A i \in DOMAIN inbox : inbox[i].sig = "vm" \/ inbox[i].sig \in Ends
    BY <1>1, <1>2, <2>1, SignalFacts DEF QueueInv, Ends
  <2>3. QueueInv'
    <3>1. busy' => \E i \in DOMAIN inbox' : inbox'[i].sig \in Ends
      <4>1. ASSUME NEW i \in DOMAIN inbox, inbox[i].sig \in Ends
            PROVE  i \in DOMAIN inbox' /\ inbox'[i].sig \in Ends
        BY <1>2, <4>1
      <4>. QED
        BY <1>1, <2>1, <4>1 DEF QueueInv, ui
    <3>. QED
      BY <1>1, <1>2, <2>1, <2>2, <3>1, SignalFacts DEF QueueInv, ui
  <2>4. PageInv'
    BY <1>1, <1>2, <2>1, SignalFacts DEF PageInv, ui
  <2>. QED
    BY <2>3, <2>4
<1>. QED
  BY <1>3, <1>4 DEF LabIInv

------------------------------------------------------------------------------
(* The UI thread, and the user. *)

LEMMA Taken ==
  ASSUME TypeOK, NEW s, Next1(s)
  PROVE  /\ Head(inbox) = inbox[1] /\ inbox[1].sig = s /\ inbox[1] \in Signals
         /\ 1 \in DOMAIN inbox /\ inbox' \in Seq(Signals)
         /\ \A i \in DOMAIN inbox' : /\ i \in Nat /\ i + 1 \in DOMAIN inbox /\ 1 < i + 1
                                     /\ inbox'[i] = inbox[i + 1] /\ inbox[i + 1] \in Signals
<1>1. inbox \in Seq(Signals) /\ inbox # <<>>
  BY DEF TypeOK, Next1
<1>. QED
  BY <1>1, HeadTailProperties DEF Next1

LEMMA VmKeeps == ASSUME LabIInv, OnVmRunning PROVE LabIInv'
<1>1. /\ UNCHANGED <<vm, used, busy, session, captureForRun, abortCapture,
                   cancel, runDir, summary, thread, joining, task, closing, aborted, overtaken>>
      /\ capturing' = (vmShown' /\ ~abortCapture /\ captureForRun)
      /\ vmShown' = inbox[1].running /\ TypeOK /\ Next1("vm")
  BY Taken DEF LabIInv, OnVmRunning, Sync
<1>2. inbox[1].running \in BOOLEAN
  BY <1>1, Taken DEF Signals, Failed, Done
<1>3. TypeOK'
  BY <1>1, <1>2, Taken DEF TypeOK
<1>4. GuestInv' /\ FlagInv'
  BY <1>1, <1>2 DEF LabIInv, GuestInv, FlagInv, TypeOK
<1>5. ASSUME ~overtaken' PROVE QueueInv' /\ PageInv'
  <2>1. QueueInv /\ PageInv /\ busy
    BY <1>1, <1>5, Taken, SignalFacts DEF LabIInv, QueueInv
  <2>2. QueueInv'
    <3>1. ASSUME NEW i \in DOMAIN inbox, inbox[i].sig \in Ends
          PROVE  \E k \in DOMAIN inbox' : inbox'[k].sig \in Ends
      <4>1. i # 1 /\ inbox \in Seq(Signals) /\ inbox # <<>> /\ inbox' = Tail(inbox)
        BY <1>1, <3>1, Taken DEF Ends, TypeOK, Next1
      <4>2. i - 1 \in DOMAIN inbox' /\ inbox'[i - 1] = inbox[i]
        BY <4>1, HeadTailProperties
      <4>. QED
        BY <3>1, <4>2
    <3>. QED
      BY <1>1, <2>1, <3>1, Taken DEF QueueInv, Running
  <2>3. PageInv'
    BY <1>1, <2>1, Taken DEF PageInv, Running
  <2>. QED
    BY <2>2, <2>3
<1>. QED
  BY <1>3, <1>4, <1>5 DEF LabIInv

\* What is left behind the end of a task, in the queue of one task alone.
LEMMA Ended ==
  ASSUME TypeOK, QueueInv, NEW s \in Ends, Next1(s), task' = task, closing' = closing,
         busy' = FALSE
  PROVE  ~Running /\ QueueInv' /\ \A i \in DOMAIN inbox' : inbox'[i] = Done
<1>1. ~Running
  BY Taken DEF QueueInv, Ends
<1>2. \A i \in DOMAIN inbox' : inbox'[i] = Done
  BY Taken DEF QueueInv, Ends
<1>3. ~Running'
  BY <1>1 DEF Running
<1>. QED
  BY <1>1, <1>2, <1>3, Taken DEF QueueInv

LEMMA FinishedKeeps == ASSUME LabIInv, OnFinished PROVE LabIInv'
<1>1. /\ UNCHANGED <<vm, used, abortCapture, cancel, thread, joining, task,
                   closing, aborted, overtaken>>
      /\ busy' = FALSE /\ TypeOK /\ Next1("finished")
  BY DEF LabIInv, OnFinished
<1>2. /\ inbox[1].op \in Ops /\ inbox[1].err \in Errors
      /\ inbox[1].run \in Jobs \cup {NoRun} /\ inbox[1] \in Signals /\ inbox[1].sig = "finished"
  BY <1>1, Taken DEF Signals, Failed, Done
<1> DEFINE m == inbox[1]
<1>3. \/ /\ m.op \in ButtonOps
         /\ VmTakenOff
         /\ UNCHANGED <<session, runDir, summary>>
      \/ /\ m.op = "interactive_start" /\ m.err = "no"
         /\ session' = TRUE /\ vmShown' = TRUE /\ captureForRun' = TRUE
         /\ Sync(TRUE, TRUE, abortCapture)
         /\ summary' = [kind |-> "running", err |-> "no", run |-> m.run]
         /\ UNCHANGED runDir
      \/ /\ ~(m.op \in ButtonOps \/ (m.op = "interactive_start" /\ m.err = "no"))
         /\ VmTakenOff
         /\ session' = (session /\ m.op # "interactive_stop")
         /\ summary' = [kind |-> "result", err |-> m.err, run |-> m.run]
         /\ runDir' = NoRun
  BY <1>1, Taken DEF OnFinished
<1>4. TypeOK'
  <2>1. summary' \in Summaries
    <3> DEFINE r == m.run
    <3> DEFINE e == m.err
    <3>1. r \in Jobs \cup {NoRun} /\ e \in Errors /\ "no" \in Errors /\ summary \in Summaries
      BY <1>1, <1>2 DEF TypeOK, Errors
    <3>2. \/ summary' = summary
          \/ summary' = [kind |-> "running", err |-> "no", run |-> r]
          \/ summary' = [kind |-> "result", err |-> e, run |-> r]
      BY <1>3
    <3> HIDE DEF r, e
    <3>. QED
      BY <3>1, <3>2 DEF Summaries
  <2>2. {session', vmShown', captureForRun', capturing'} \subseteq BOOLEAN
        /\ runDir' \in Jobs \cup {NoRun}
    BY <1>1, <1>3 DEF VmTakenOff, Sync, TypeOK
  <2>. QED
    BY <1>1, <2>1, <2>2, Taken DEF TypeOK
<1>5. GuestInv' /\ FlagInv'
  BY <1>1, <1>3 DEF LabIInv, GuestInv, FlagInv, VmTakenOff, Sync
<1>6. ASSUME ~overtaken' PROVE QueueInv' /\ PageInv'
  <2>1. QueueInv /\ PageInv
    BY <1>1, <1>6 DEF LabIInv
  <2>2. ~Running /\ QueueInv' /\ \A i \in DOMAIN inbox' : inbox'[i] = Done
    BY <1>1, <2>1, Ended DEF Ends
  <2>3. m.op \in FolderOps => ~session /\ runDir # NoRun
    BY <1>1, <1>2, <2>1, Taken DEF PageInv
  <2>4. session' => runDir' # NoRun
    BY <1>2, <1>3, <2>1, <2>3 DEF PageInv, FolderOps, RunOps, Ops, ButtonOps
  <2>5. vmShown' => session'
    BY <1>3 DEF VmTakenOff
  <2>. QED
    BY <1>1, <2>2, <2>4, <2>5, SignalFacts DEF PageInv, Running
<1>. QED
  BY <1>4, <1>5, <1>6 DEF LabIInv

LEMMA FailedKeeps == ASSUME LabIInv, OnFailed PROVE LabIInv'
<1>1. /\ UNCHANGED <<vm, used, abortCapture, cancel, thread, joining, task,
                   closing, aborted, overtaken>>
      /\ busy' = FALSE /\ TypeOK /\ Next1("failed") /\ VmTakenOff /\ session' = FALSE
      /\ summary' = [kind |-> "failed", err |-> "error", run |-> runDir]
      /\ runDir' = NoRun
  BY DEF LabIInv, OnFailed
<1>2. TypeOK'
  BY <1>1, Taken DEF TypeOK, Summaries, Errors, VmTakenOff, Sync
<1>3. GuestInv' /\ FlagInv'
  BY <1>1 DEF LabIInv, GuestInv, FlagInv, VmTakenOff, Sync
<1>4. ASSUME ~overtaken' PROVE QueueInv' /\ PageInv'
  <2>1. ~Running /\ QueueInv' /\ \A i \in DOMAIN inbox' : inbox'[i] = Done
    BY <1>1, <1>4, Ended DEF LabIInv, Ends
  <2>. QED
    BY <1>1, <2>1, SignalFacts DEF PageInv, Running, VmTakenOff
<1>. QED
  BY <1>2, <1>3, <1>4 DEF LabIInv

LEMMA OnDoneKeeps == ASSUME LabIInv, OnDone PROVE LabIInv'
<1>1. /\ UNCHANGED <<vm, used, session, vmShown, captureForRun, abortCapture,
                   cancel, runDir, summary, task, closing, aborted, overtaken>>
      /\ TypeOK /\ Next1("done")
      /\ thread' \in BOOLEAN /\ busy' \in BOOLEAN /\ joining' \in BOOLEAN
      /\ capturing' \in BOOLEAN
      /\ capturing' => capturing \/ (vmShown /\ captureForRun)
      /\ joining' => joining \/ Running
      /\ busy' => busy
  BY DEF LabIInv, TypeOK, OnDone, Release, Sync
<1>2. inbox[1] = Done /\ 1 \in DOMAIN inbox
  BY <1>1, Taken, SignalFacts
<1>3. TypeOK'
  BY <1>1, Taken DEF TypeOK
<1>4. ~overtaken => ~Running
  BY <1>2, SignalFacts DEF LabIInv, QueueInv
<1>5. GuestInv' /\ FlagInv'
  BY <1>1, <1>4 DEF LabIInv, GuestInv, FlagInv
<1>6. ASSUME ~overtaken' PROVE QueueInv' /\ PageInv'
  <2>1. QueueInv /\ PageInv /\ ~Running
    BY <1>1, <1>4, <1>6 DEF LabIInv
  <2>2. \A i \in DOMAIN inbox' : FALSE
    BY <1>1, <1>2, <2>1, Taken, SignalFacts DEF QueueInv, Ends
  <2>3. closing' = 0
    BY <1>1, <1>2, <2>1 DEF QueueInv, TypeOK
  <2>4. busy' = FALSE
    BY <1>1, <2>1 DEF OnDone, Release
  <2>5. ~busy
    <3>1. ASSUME NEW i \in DOMAIN inbox PROVE inbox[i].sig \notin Ends
      <4>1. i \in Nat /\ (i = 1 \/ 1 < i)
        BY <1>1 DEF TypeOK
      <4>. QED
        BY <1>2, <2>1, <4>1, SignalFacts DEF QueueInv, Ends
    <3>. QED
      BY <2>1, <3>1 DEF QueueInv
  <2>. QED
    BY <1>1, <2>1, <2>2, <2>3, <2>4, <2>5 DEF QueueInv, PageInv, Running
<1>. QED
  BY <1>3, <1>5, <1>6 DEF LabIInv

LEMMA JoinKeeps == ASSUME LabIInv, JoinReturns \/ JoinTimesOut PROVE LabIInv'
<1>1. joining /\ overtaken /\ overtaken'
  BY DEF LabIInv, FlagInv, JoinReturns, JoinTimesOut
<1>2. TypeOK'
  BY DEF LabIInv, TypeOK, JoinReturns, JoinTimesOut, Release, Sync
<1>3. capturing' => vmShown' /\ captureForRun'
  BY DEF LabIInv, FlagInv, JoinReturns, JoinTimesOut, Release, Sync
<1>4. UNCHANGED <<vm, task>>
  BY DEF JoinReturns, JoinTimesOut
<1>5. GuestInv' /\ FlagInv'
  BY <1>1, <1>3, <1>4 DEF LabIInv, GuestInv, FlagInv
<1>. QED
  BY <1>1, <1>2, <1>5 DEF LabIInv

\* What a click finds, if it does not overtake a done signal: nothing queued.
LEMMA Clicked ==
  ASSUME LabIInv, MayClick, NEW op \in Ops, NEW r \in Jobs \cup {NoRun}, StartTask(op, r)
  PROVE  /\ task' \in Tasks /\ Running' /\ busy' /\ task'.op = op /\ task'.run = r
         /\ task'.pc \notin {"boot", "tools", "stage", "score"}
         /\ overtaken' \in BOOLEAN /\ thread' \in BOOLEAN /\ busy' \in BOOLEAN
         /\ ~overtaken' => /\ ~overtaken /\ closing = 0
                           /\ \A i \in DOMAIN inbox : FALSE
<1>1. task' = [op |-> op, pc |-> FirstStep(op), err |-> "no", run |-> r]
  BY DEF StartTask
<1>2. FirstStep(op) \in {"revert", "flag", "command"}
  BY DEF FirstStep
<1>3. task' \in Tasks /\ task'.op = op /\ task'.run = r
      /\ task'.pc \notin {"boot", "tools", "stage", "score", "none"}
  BY <1>1, <1>2 DEF Tasks, Errors
<1>4. Running'
  BY <1>3 DEF Running, Idle
<1>5. ~overtaken' => /\ ~overtaken /\ closing = 0 /\ \A i \in DOMAIN inbox : FALSE
  <2>1. ~overtaken' => ~overtaken /\ ~DoneIsDue
    BY DEF StartTask
  <2>2. ~overtaken => \A i \in DOMAIN inbox : inbox[i] = Done
    BY DEF LabIInv, QueueInv, MayClick
  <2>. QED
    BY <2>1, <2>2 DEF DoneIsDue, LabIInv, TypeOK
<1>. QED
  BY <1>3, <1>4, <1>5 DEF StartTask, LabIInv, TypeOK, DoneIsDue

LEMMA ButtonKeeps ==
  ASSUME LabIInv, (\E op \in ButtonOps : VmButton(op)) \/ StopInteractiveSession
  PROVE  LabIInv'
<1>1. PICK op \in ButtonOps \cup {"interactive_stop"} :
        /\ MayClick /\ StartTask(op, runDir)
        /\ UNCHANGED <<vm, used, session, vmShown, captureForRun, capturing,
                       abortCapture, cancel, runDir, summary, joining, closing, inbox,
                       aborted>>
  BY DEF VmButton, StopInteractiveSession
<1>2. op \in Ops /\ op \notin FolderOps /\ runDir \in Jobs \cup {NoRun}
  BY DEF Ops, FolderOps, ButtonOps, RunOps, LabIInv, TypeOK
<1>3. /\ task' \in Tasks /\ Running' /\ busy' /\ task'.op = op
      /\ task'.pc \notin {"boot", "tools", "stage", "score"}
      /\ overtaken' \in BOOLEAN /\ thread' \in BOOLEAN /\ busy' \in BOOLEAN
      /\ ~overtaken' => ~overtaken /\ closing = 0 /\ \A i \in DOMAIN inbox : FALSE
  BY <1>1, <1>2, Clicked
<1>4. TypeOK'
  BY <1>1, <1>3 DEF LabIInv, TypeOK, Tasks
<1>5. GuestInv' /\ FlagInv'
  BY <1>1, <1>2, <1>3 DEF LabIInv, GuestInv, FlagInv, MayClick, UiReady
<1>6. ASSUME ~overtaken' PROVE QueueInv' /\ PageInv'
  BY <1>1, <1>2, <1>3, <1>6 DEF LabIInv, QueueInv, PageInv
<1>. QED
  BY <1>4, <1>5, <1>6 DEF LabIInv

LEMMA RunKeeps ==
  ASSUME LabIInv, NEW op \in FolderOps, NEW j \in Jobs, StartRun(op, j)
  PROVE  LabIInv'
<1>1. /\ MayClick /\ ~session /\ StartTask(op, j) /\ PrepareRun(j)
      /\ UNCHANGED <<vm, session, vmShown, capturing, joining, closing, inbox, aborted>>
  BY DEF StartRun
<1>2. op \in Ops /\ j # NoRun
  BY DEF Ops, FolderOps
<1>3. /\ task' \in Tasks /\ Running' /\ busy' /\ task'.op = op /\ task'.run = j
      /\ task'.pc \notin {"boot", "tools", "stage", "score"}
      /\ overtaken' \in BOOLEAN /\ thread' \in BOOLEAN /\ busy' \in BOOLEAN
      /\ ~overtaken' => ~overtaken /\ closing = 0 /\ \A i \in DOMAIN inbox : FALSE
  BY <1>1, <1>2, Clicked
<1>4. TypeOK'
  BY <1>1, <1>3 DEF LabIInv, TypeOK, Tasks, PrepareRun, NoSummary, Summaries, Errors
<1>5. GuestInv' /\ FlagInv'
  BY <1>1, <1>2, <1>3 DEF LabIInv, GuestInv, FlagInv, MayClick, UiReady, PrepareRun
<1>6. ASSUME ~overtaken' PROVE QueueInv' /\ PageInv'
  BY <1>1, <1>2, <1>3, <1>6 DEF LabIInv, QueueInv, PageInv, PrepareRun
<1>. QED
  BY <1>4, <1>5, <1>6 DEF LabIInv

LEMMA IdleFacts == Idle \in Tasks /\ Idle.op = "none" /\ Idle.pc = "none" /\ "none" \notin FolderOps
BY DEF Idle, Tasks, Errors, FolderOps, RunOps

Fresh == FlagInv /\ QueueInv /\ PageInv /\ (vm \in Guests /\ used \subseteq Jobs => TypeOK)

LEMMA ControllerStarts == ControllerInit => Fresh
<1> SUFFICES ASSUME ControllerInit PROVE Fresh
  OBVIOUS
<1>1. inbox \in Seq(Signals) /\ (\A i \in DOMAIN inbox : FALSE) /\ ~Running
  BY DEF ControllerInit, Running
<1>2. NoSummary \in Summaries
  BY DEF NoSummary, Summaries, Errors
<1>3. vm \in Guests /\ used \subseteq Jobs => TypeOK
  BY <1>1, <1>2, IdleFacts DEF ControllerInit, TypeOK, Tasks
<1>4. FlagInv /\ QueueInv /\ PageInv
  BY <1>1 DEF ControllerInit, FlagInv, QueueInv, PageInv
<1>. QED
  BY <1>3, <1>4 DEF Fresh

LEMMA RelaunchKeeps == ASSUME LabIInv, Relaunch PROVE LabIInv'
<1>1. ControllerInit' /\ UNCHANGED <<vm, used>>
  BY DEF Relaunch, ControllerInit
<1>2. ControllerInit' => Fresh'
  BY ControllerStarts, PTL
<1>3. GuestInv'
  BY <1>1, IdleFacts DEF LabIInv, GuestInv, ControllerInit, RunOps
<1>. QED
  BY <1>1, <1>2, <1>3 DEF LabIInv, TypeOK, Fresh

LEMMA LabInit == Init => LabIInv
<1>1. CleanGuest \in Guests /\ CleanGuest.holds = {}
  BY DEF CleanGuest, Guests
<1>. QED
  BY <1>1, ControllerStarts, IdleFacts DEF Init, LabIInv, GuestInv, ControllerInit, RunOps, Fresh

LEMMA LabStep == LabIInv /\ [Next]_vars => LabIInv'
<1> SUFFICES ASSUME LabIInv, [Next]_vars PROVE LabIInv'
  OBVIOUS
<1>1. CASE Worker
  BY <1>1, WorkerKeeps, DoneKeeps
<1>2. CASE UiThread
  BY <1>2, VmKeeps, FinishedKeeps, FailedKeeps, OnDoneKeeps, JoinKeeps DEF UiThread
<1>3. CASE User /\ ~CancelRun
  BY <1>3, ButtonKeeps, RunKeeps, RelaunchKeeps DEF User, FolderOps
<1>4. CASE CancelRun \/ UNCHANGED vars
  <2>1. UNCHANGED <<vm, used, ui, abortCapture, task, closing, inbox>>
        /\ (cancel' = cancel \/ cancel' = TRUE)
    BY <1>4 DEF CancelRun, vars
  <2>2. TypeOK'
    BY <2>1 DEF LabIInv, TypeOK, ui
  <2>3. GuestInv' /\ FlagInv' /\ (~overtaken' => QueueInv' /\ PageInv')
    BY <2>1 DEF ui, LabIInv, GuestInv, FlagInv, QueueInv, PageInv, Running
  <2>. QED
    BY <2>2, <2>3 DEF LabIInv
<1>. QED
  BY <1>1, <1>2, <1>3, <1>4 DEF Next, User

LEMMA LabStrong == LabIInv => LabInv
<1> SUFFICES ASSUME LabIInv PROVE LabInv
  OBVIOUS
<1>1. OneRunInTheGuest
  <2>1. CASE vm.holds = {}
    BY <2>1, FS_EmptySet DEF OneRunInTheGuest
  <2>2. ASSUME NEW j \in Jobs, vm.holds = {j} PROVE Cardinality(vm.holds) <= 1
    <3>1. Cardinality({j}) = 1
      BY FS_Singleton
    <3>. QED
      BY <2>2, <3>1
  <2>. QED
    BY <2>1, <2>2 DEF LabIInv, GuestInv, OneRunInTheGuest
<1>. QED
  BY <1>1 DEF LabInv, LabIInv, FlagInv, QueueInv, PageInv

\* No guest ever holds what two runs left in it, a task that executes keeps the
\* page busy, and Qt ends the program only when a click overtook a done signal
\* (sandbox_controller.py, _start_task and _teardown_worker).
THEOREM LabInvariant == Spec => []LabInv
<1>1. Spec => []LabIInv
  BY LabInit, LabStep, PTL DEF Spec
<1>. QED
  BY <1>1, LabStrong, PTL

\* What is shown without an error was put away: the guest is off and clean when
\* the page takes the result over (_task_run_pipeline's finally, and that of
\* _task_stop_interactive_session).
THEOREM ShownWithoutErrorIsPutAway == Spec => ErrorFreeMeansPutAway
<1>1. ASSUME LabIInv, [Next]_vars, summary'.kind = "result", summary' # summary,
             summary'.err = "no", ~overtaken
      PROVE  IsClean(vm)
  <2>1. OnFinished
    <3>1. CASE Worker
      <4>1. UNCHANGED ui
        BY <1>1, <3>1, WorkerSteps DEF WEmitDone, LabIInv, Works
      <4>. QED
        BY <1>1, <4>1 DEF ui
    <3>2. CASE UiThread
      BY <1>1, <3>2 DEF UiThread, OnVmRunning, OnFailed, OnDone, JoinReturns, JoinTimesOut
    <3>3. CASE User
      BY <1>1, <3>3 DEF User, VmButton, StartRun, StopInteractiveSession, CancelRun, Relaunch,
         PrepareRun, NoSummary, ui
    <3>. QED
      BY <1>1, <3>1, <3>2, <3>3 DEF Next, vars, ui
  <2>2. TypeOK /\ Next1("finished") /\ QueueInv /\ PageInv
    BY <1>1, <2>1 DEF LabIInv, OnFinished
  <2>3. /\ inbox[1].op \in PutAwayOps /\ inbox[1].err = "no"
        /\ 1 \in DOMAIN inbox /\ inbox[1].sig = "finished"
    <3>1. inbox[1].op \in Ops /\ inbox[1] = Head(inbox) /\ 1 \in DOMAIN inbox
          /\ inbox[1].sig = "finished"
      BY <2>2, Taken DEF Signals, Failed, Done
    <3>2. ~(inbox[1].op \in ButtonOps \/ (inbox[1].op = "interactive_start" /\ inbox[1].err = "no"))
          /\ summary' = [kind |-> "result", err |-> inbox[1].err, run |-> inbox[1].run]
      <4> DEFINE m == Head(inbox)
      <4>1. CASE m.op \in ButtonOps /\ summary' = summary
        BY <1>1, <4>1
      <4>2. CASE summary' = [kind |-> "running", err |-> "no", run |-> m.run]
        BY <1>1, <4>2
      <4>3. CASE /\ ~(m.op \in ButtonOps \/ (m.op = "interactive_start" /\ m.err = "no"))
                 /\ summary' = [kind |-> "result", err |-> m.err, run |-> m.run]
        BY <3>1, <4>3
      <4>. QED
        BY <2>1, <4>1, <4>2, <4>3 DEF OnFinished
    <3>. QED
      BY <1>1, <3>1, <3>2 DEF PutAwayOps, Ops, ButtonOps, RunOps
  <2>. QED
    BY <2>2, <2>3 DEF PageInv
<1>. QED
  BY <1>1, LabInit, LabStep, PTL DEF Spec, ErrorFreeMeansPutAway
================================================================================
