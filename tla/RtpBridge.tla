------------------------------- MODULE RtpBridge -------------------------------
(***************************************************************************)
(* Switching real-time protection on and off: RealTimeProtectionBridge in  *)
(* backend/core/realtime_protection.py, its worker threads, and the user   *)
(* preference that outlives the application.                               *)
(*                                                                         *)
(* The bridge lives in the GUI thread.  Each time protection is switched   *)
(* on it starts a new worker thread; to switch it off it clears the        *)
(* worker's flag, waits up to five seconds and hands the thread object to  *)
(* Qt for deletion.  What a worker says of itself is posted to the GUI     *)
(* thread's queue, as is the deletion, and read when the event loop comes  *)
(* to it.                                                                  *)
(***************************************************************************)
EXTENDS Naturals, Sequences

CONSTANTS
  Workers,   \* worker threads (each RealTimeProtectionWorker object)
  StopAt,    \* stages of the worker at which the user switches off or quits
  Slow,      \* may a thread take longer to end than the five seconds
  Eager,     \* may a click be handled before what is posted already
  Faults,    \* {"init", "fatal"} or less
  MaxPosted, \* bound on the posted events at which a worker is started
  NoWorker

Stages == {"new", "starting", "monitoring", "ending", "finished"}

ASSUME BridgeAssumption ==
  /\ StopAt \subseteq Stages
  /\ Slow \in BOOLEAN /\ Eager \in BOOLEAN
  /\ Faults \subseteq {"init", "fatal"}
  /\ MaxPosted \in Nat
  /\ NoWorker \notin Workers

VARIABLES
  ui,          \* the GUI thread: "loop", waiting in "stopping" or "quitting",
               \* or without a process: "exited", "aborted"
  enabled,     \* _enabled
  worker,      \* _worker
  capability,  \* _capability["state"]
  saved,       \* rtpEnabled in the settings
  asked,       \* history: what the user last switched to
  thread,      \* the stage of each worker
  running,     \* its _running flag
  posted,      \* events in the GUI thread's queue
  blamed,      \* history: an error of a former worker switched off another
  deaf,        \* history: the workers that overwrote a stop when they began
  late         \* history: those that did not end within the five seconds

bridge == <<enabled, worker, capability>>
causes == <<deaf, late>>
vars == <<ui, bridge, saved, asked, thread, running, posted, blamed, causes>>

Posted == [what : {"started", "error", "delete"}, of : Workers]
Alive == {w \in Workers : thread[w] \in {"starting", "monitoring"}}
Process == ui \in {"loop", "stopping", "quitting"}
Waiting == ui \in {"stopping", "quitting"}

(* The application has never run, or ran before with some preference. *)
Init ==
  /\ ui = "exited"
  /\ saved \in BOOLEAN /\ asked = saved
  /\ enabled = FALSE /\ worker = NoWorker /\ capability = "available"
  /\ thread = [w \in Workers |-> "new"]
  /\ running = [w \in Workers |-> FALSE]
  /\ posted = <<>>
  /\ blamed = FALSE
  /\ deaf = {} /\ late = {}

(* The end of the process, of which nothing is left but the settings.       *)
Dies(how) ==
  /\ ui' = how
  /\ enabled' = FALSE /\ worker' = NoWorker /\ capability' = "available"
  /\ thread' = [w \in Workers |-> "new"]
  /\ running' = [w \in Workers |-> FALSE]
  /\ posted' = <<>>
  /\ blamed' = FALSE
  /\ deaf' = {} /\ late' = {}

Post(what, w) == posted' = Append(posted, [what |-> what, of |-> w])

(* A thread object that was never started, whose place nothing posted by    *)
(* another remembers.                                                       *)
Fresh(w) == thread[w] = "new" /\ \A i \in DOMAIN posted : posted[i].of # w

MayClick == ui = "loop" /\ (Eager \/ posted = <<>>)

\* A slip, for a mutation run only: the wait is not waited for.
TimesOutSlip(w) == thread[w] # "finished"

(* The wait ends after five seconds if the thread was late, or has not      *)
(* heard that it is to end.                                                 *)
TimesOut(w) ==
  /\ thread[w] # "finished"
  /\ w \in late \/ (thread[w] = "monitoring" /\ running[w])

-----------------------------------------------------------------------------
(* Slips: wrong versions of definitions below, for the mutation runs only.  *)

\* A failed worker leaves the switch on.
ErrorSlip(w) ==
  /\ blamed' = (blamed \/ (enabled /\ w # worker))
  /\ capability' = "degraded"
  /\ posted' = Tail(posted)
  /\ UNCHANGED <<ui, enabled, worker, saved, thread, running, causes>>

\* A failure is saved as if the user had switched off.
ErrorSavesSlip(w) ==
  /\ blamed' = (blamed \/ (enabled /\ w # worker))
  /\ enabled' = FALSE
  /\ capability' = "degraded"
  /\ saved' = FALSE
  /\ posted' = Tail(posted)
  /\ UNCHANGED <<ui, worker, thread, running, causes>>

\* The bridge goes on holding the thread object it has given to Qt.
StopEndSlip ==
  /\ Waiting
  /\ thread[worker] = "finished" \/ TimesOut(worker)
  /\ saved' = (ui = "quitting" /\ saved)
  /\ \/ /\ ui = "stopping" /\ ui' = "loop"
        /\ Post("delete", worker)
        /\ UNCHANGED <<bridge, thread, running, blamed, causes>>
     \/ ui = "quitting" /\ Dies("exited")
  /\ UNCHANGED asked

\* The switch is thrown without a look at what it was.
TurnOnSlip(w) ==
  /\ capability = "available"
  /\ Fresh(w) /\ Len(posted) <= MaxPosted
  /\ enabled' = TRUE
  /\ worker' = w
  /\ thread' = [thread EXCEPT ![w] = "starting"]
  /\ running' = [running EXCEPT ![w] = FALSE]
  /\ saved' = TRUE
  /\ UNCHANGED capability

-----------------------------------------------------------------------------
(* enable, refused unless the capability is there.  Note that a failure     *)
(* takes it away.                                                           *)
TurnOn(w) ==
  /\ capability = "available" /\ ~enabled
  /\ Fresh(w) /\ Len(posted) <= MaxPosted
  /\ enabled' = TRUE
  /\ worker' = w
  /\ thread' = [thread EXCEPT ![w] = "starting"]
  /\ running' = [running EXCEPT ![w] = FALSE]
  /\ saved' = TRUE
  /\ UNCHANGED capability

ClickOn(w) ==
  /\ MayClick
  /\ TurnOn(w)
  /\ asked' = TRUE
  /\ UNCHANGED <<ui, posted, blamed, causes>>

(* disable or shutdownRuntime, up to the wait. *)
StopBegin(next) ==
  /\ MayClick /\ enabled
  /\ thread[worker] \in StopAt
  /\ ui' = next
  /\ enabled' = FALSE
  /\ running' = [running EXCEPT ![worker] = FALSE]
  /\ asked' = (next = "quitting" /\ asked)
  /\ UNCHANGED <<worker, capability, saved, thread, posted, blamed, causes>>

StopEnd ==
  /\ Waiting
  /\ thread[worker] = "finished" \/ TimesOut(worker)
  /\ saved' = (ui = "quitting" /\ saved)
  /\ \/ /\ ui = "stopping" /\ ui' = "loop"
        /\ Post("delete", worker)
        /\ worker' = NoWorker
        /\ UNCHANGED <<enabled, capability, thread, running, blamed, causes>>
     \/ ui = "quitting" /\ Dies("exited")
  /\ UNCHANGED asked

(* Quitting with protection off: _stop_runtime returns at once. *)
Quit ==
  /\ MayClick /\ ~enabled
  /\ Dies("exited")
  /\ UNCHANGED <<saved, asked>>

(* A new process, which switches protection on if the preference says so.   *)
Launch ==
  /\ ~Process
  /\ ui' = "loop"
  /\ \/ saved /\ \E w \in Workers : TurnOn(w)
     \/ ~saved /\ UNCHANGED <<bridge, saved, thread, running>>
  /\ UNCHANGED <<asked, posted, blamed, causes>>

-----------------------------------------------------------------------------
(* The worker's thread. *)
Goes(w, from, to) ==
  /\ Process
  /\ thread[w] = from
  /\ thread' = [thread EXCEPT ![w] = to]
  /\ UNCHANGED <<ui, bridge, saved, asked, blamed, late>>

(* run raises the flag itself, whatever it was by then. *)
Ready(w) ==
  /\ Goes(w, "starting", "monitoring")
  /\ deaf' = IF Waiting /\ w = worker THEN deaf \cup {w} ELSE deaf
  /\ running' = [running EXCEPT ![w] = TRUE]
  /\ Post("started", w)

InitFails(w) ==
  /\ "init" \in Faults
  /\ Goes(w, "starting", "ending")
  /\ Post("error", w)
  /\ UNCHANGED <<running, deaf>>

LoopEnds(w) ==
  /\ Goes(w, "monitoring", "ending")
  /\ ~running[w]
  /\ UNCHANGED <<running, posted, deaf>>

(* An exception that leaves the loop is told of only while running. *)
Fatal(w) ==
  /\ "fatal" \in Faults
  /\ Goes(w, "monitoring", "ending")
  /\ running[w]
  /\ running' = [running EXCEPT ![w] = FALSE]
  /\ Post("error", w)
  /\ UNCHANGED deaf

ThreadEnds(w) ==
  /\ Goes(w, "ending", "finished")
  /\ UNCHANGED <<running, posted, deaf>>

(* Five seconds of waiting have passed, and the thread, blocked in WMI or   *)
(* in a scan, has not ended.                                                *)
Overdue(w) ==
  /\ Slow
  /\ Waiting /\ w = worker
  /\ thread[w] # "finished"
  /\ late' = late \cup {w}
  /\ UNCHANGED <<ui, bridge, saved, asked, thread, running, posted, blamed, deaf>>

-----------------------------------------------------------------------------
(* The event loop takes the next posted event: _on_status, from whichever   *)
(* worker, or the deletion of a thread object, which is fatal to the        *)
(* process while the thread still runs.                                     *)
Started ==
  /\ capability' = "available"
  /\ posted' = Tail(posted)
  /\ UNCHANGED <<ui, enabled, worker, saved, thread, running, blamed, causes>>

Error(w) ==
  /\ blamed' = (blamed \/ (enabled /\ w # worker))
  /\ enabled' = FALSE
  /\ capability' = "degraded"
  /\ posted' = Tail(posted)
  /\ UNCHANGED <<ui, worker, saved, thread, running, causes>>

Delete(w) ==
  /\ \/ /\ thread[w] = "finished"
        /\ thread' = [thread EXCEPT ![w] = "new"]
        /\ posted' = Tail(posted)
        /\ deaf' = deaf \ {w} /\ late' = late \ {w}
        /\ UNCHANGED <<ui, bridge, running, blamed>>
     \/ thread[w] # "finished" /\ Dies("aborted")
  /\ UNCHANGED saved

Deliver ==
  /\ ui = "loop" /\ posted # <<>>
  /\ LET e == Head(posted) IN
       \/ e.what = "started" /\ Started
       \/ e.what = "error" /\ Error(e.of)
       \/ e.what = "delete" /\ Delete(e.of)
  /\ UNCHANGED asked

-----------------------------------------------------------------------------
Next ==
  \/ \E w \in Workers : ClickOn(w)
  \/ StopBegin("stopping") \/ StopBegin("quitting") \/ StopEnd
  \/ Quit \/ Launch \/ Deliver
  \/ \E w \in Workers :
       \/ Ready(w) \/ InitFails(w) \/ LoopEnds(w) \/ Fatal(w) \/ ThreadEnds(w)
       \/ Overdue(w)

Spec == Init /\ [][Next]_vars

(* Threads are scheduled, and the event loop runs. *)
Fairness ==
  /\ WF_vars(StopEnd) /\ WF_vars(Deliver)
  /\ \A w \in Workers :
       /\ WF_vars(Ready(w) \/ InitFails(w))
       /\ WF_vars(LoopEnds(w) \/ Fatal(w))
       /\ WF_vars(ThreadEnds(w))

FairSpec == Spec /\ Fairness

-----------------------------------------------------------------------------
TypeOK ==
  /\ ui \in {"loop", "stopping", "quitting", "exited", "aborted"}
  /\ enabled \in BOOLEAN
  /\ worker \in Workers \cup {NoWorker}
  /\ capability \in {"available", "degraded"}
  /\ saved \in BOOLEAN /\ asked \in BOOLEAN
  /\ thread \in [Workers -> Stages]
  /\ running \in [Workers -> BOOLEAN]
  /\ posted \in Seq(Posted)
  /\ blamed \in BOOLEAN
  /\ deaf \subseteq Workers /\ late \subseteq Workers

(* Workers that may outlive the wait for them. *)
Stray == deaf \cup late

(* The inductive invariant behind the safety properties: what the bridge    *)
(* waits for will come, unless it did not hear; a deletion is posted once,  *)
(* for a thread that has finished or may outlive its wait; only an error    *)
(* can leave the switch off over a living thread it has not given up.       *)
WaitIsHeard ==
  /\ enabled => worker \in Workers /\ thread[worker] # "new"
  /\ Waiting =>
       /\ ~enabled /\ worker \in Workers /\ thread[worker] # "new"
       /\ thread[worker] = "monitoring" /\ running[worker] => worker \in deaf

QueueIsInOrder ==
  /\ \A i \in DOMAIN posted : posted[i].what = "delete" =>
       /\ posted[i].of # worker
       /\ thread[posted[i].of] # "new"
       /\ thread[posted[i].of] = "finished" \/ posted[i].of \in Stray
       /\ \A j \in DOMAIN posted : j # i /\ posted[j].of = posted[i].of
                                  => posted[j].what # "delete"
  /\ \A i \in DOMAIN posted : posted[i].what = "error" =>
       thread[posted[i].of] \notin {"starting", "monitoring"}

OffIsOff ==
  /\ ~Process => Alive = {}
  /\ Process /\ ~blamed =>
       /\ Alive \subseteq Stray \cup {worker}
       /\ ui = "loop" /\ ~enabled => Alive \subseteq Stray

BridgeInv == TypeOK /\ WaitIsHeard /\ QueueIsInOrder /\ OffIsOff

(* The process dies of its own switch for two reasons only: the thread      *)
(* whose object is deleted while it runs has overwritten the stop it was    *)
(* given when it began, or did not end within the five seconds the bridge   *)
(* waits for it (_stop_runtime: stop, wait, deleteLater).                   *)
AbortHasCause ==
  [][ui' = "aborted" /\ ui # "aborted" => Head(posted).of \in Stray]_vars

(* The switch tells the truth: a thread monitors, or is about to, only      *)
(* under a switch that is on, and only the bridge's present worker does     *)
(* (getMonitoringState, getRuntimeDetail: "Return a truthful RTP runtime    *)
(* summary").  What can make it lie is an error posted by a worker that is  *)
(* no longer the present one; and a thread that outlived its wait.          *)
SwitchIsTruthful ==
  ui = "loop" /\ ~blamed =>
    Alive \subseteq Stray \cup (IF enabled THEN {worker} ELSE {})

(* Neither a shutdown, a failed worker nor a new launch changes what the    *)
(* user switched to last (shutdownRuntime: "without changing user           *)
(* preference").                                                            *)
PreferenceIsKept == ui = "loop" => saved = asked

(* A worker that failed does not stay on for ever.                          *)
FailureIsTold ==
  \A w \in Workers :
    (Process /\ enabled /\ worker = w /\ thread[w] = "finished")
      ~> ~(Process /\ enabled /\ worker = w)

(* Switching on ends in monitoring, or with the switch off again, or with   *)
(* the process.                                                             *)
OnMeansMonitoring ==
  (Process /\ enabled) ~> (~Process \/ ~enabled \/ thread[worker] = "monitoring")

(* Both: what is switched on monitors, or shows that it does not.           *)
SwitchSettles == FailureIsTold /\ OnMeansMonitoring
=============================================================================
