------------------------------ MODULE GpuService ------------------------------
(***************************************************************************)
(* The GPU telemetry service, backend/api/gpu_service.py: a worker         *)
(* subprocess (QProcess), a heartbeat watchdog (repeating QTimer), delayed *)
(* restarts (QTimer.singleShot) and a circuit breaker, all on the UI       *)
(* thread.  Every action is one slot or handler; Qt's timers fire when     *)
(* due.  Time passes in ticks of a fixed length.                           *)
(***************************************************************************)
EXTENDS Naturals, FiniteSets

CONSTANTS
  HbTimeout,     \* _hb_timer's interval, in ticks
  Window,        \* how long a failure counts
  Cooldown,      \* _min_restart_cooldown, also the delay of a restart
  MaxFailures,   \* failures within the window that open the breaker
  Installed      \* may the worker executable be found (TRUE), missing (FALSE)

ASSUME TimingAssumption ==
  /\ HbTimeout \in Nat \ {0}
  /\ Window \in Nat \ {0}
  /\ Cooldown \in Nat \ {0}
  /\ MaxFailures \in Nat \ {0}
  /\ Installed \subseteq BOOLEAN

VARIABLES
  proc,          \* the worker process as the operating system has it
  status,        \* _status, shown in the UI
  hbOn, hbAge,   \* is _hb_timer running, and for how long
  failures,      \* ages of the failures that still count
  breaker,       \* _breaker_open
  sinceRestart,  \* time since _last_restart_time, up to Cooldown
  restarts,      \* delays left of the pending singleShot restarts
  silent         \* history: time since the live worker showed life

vars == <<proc, status, hbOn, hbAge, failures, breaker, sinceRestart,
          restarts, silent>>

\* "dying": killed, but waitForFinished(500) gave up before it was reaped.
Proc == {"down", "starting", "up", "hung", "dying"}
Alive == {"starting", "up", "hung"}
Statuses == {"stopped", "starting", "running", "degraded", "restarting",
             "breaker-open"}

Init ==
  /\ proc = "down"
  /\ status = "stopped"
  /\ hbOn = FALSE
  /\ hbAge = 0
  /\ failures = {}
  /\ breaker = FALSE
  /\ sinceRestart = Cooldown
  /\ restarts = {}
  /\ silent = 0

watchdog == <<hbOn, hbAge>>
faultState == <<failures, breaker, sinceRestart>>

StartTimer == hbOn' = TRUE /\ hbAge' = 0
StopTimer == hbOn' = FALSE /\ hbAge' = 0

-----------------------------------------------------------------------------
(* Slips: wrong versions of definitions below, for the mutation runs only.  *)

\* The watchdog is restarted before the early returns of start().
StartWorkerRearms ==
  /\ StartTimer
  /\ IF breaker \/ proc # "down" THEN UNCHANGED <<proc, status, silent>>
     ELSE proc' = "starting" /\ status' = "starting" /\ silent' = 0

\* start() does not look at the breaker.
StartWorkerUnguarded ==
  \/ proc # "down" /\ UNCHANGED <<proc, status, watchdog, silent>>
  \/ /\ proc = "down"
     /\ proc' = "starting" /\ status' = "starting" /\ silent' = 0
     /\ StartTimer

\* A missing executable is not reported.
StartWorkerMute ==
  \/ /\ breaker \/ proc # "down" \/ FALSE \in Installed
     /\ UNCHANGED <<proc, status, watchdog, silent>>
  \/ /\ ~breaker /\ proc = "down" /\ TRUE \in Installed
     /\ proc' = "starting" /\ status' = "starting" /\ silent' = 0
     /\ StartTimer

-----------------------------------------------------------------------------
(* start(): refused by an open breaker or a process that is not down, and   *)
(* given up when the worker executable is missing.                          *)
StartWorker ==
  \/ /\ breaker \/ proc # "down"
     /\ UNCHANGED <<proc, status, watchdog, silent>>
  \/ /\ ~breaker /\ proc = "down"
     /\ TRUE \in Installed
     /\ proc' = "starting"
     /\ status' = "starting"
     /\ StartTimer
     /\ silent' = 0
  \/ /\ ~breaker /\ proc = "down"
     /\ FALSE \in Installed
     /\ status' = "stopped"
     /\ UNCHANGED <<proc, watchdog, silent>>

(* stop(): the timer is stopped first.  waitForFinished delivers what the   *)
(* worker still had in its pipe, so a last heartbeat may start it again.    *)
KillWorker ==
  /\ proc' \in IF proc \in Alive THEN {"down", "dying"} ELSE {proc}
  /\ StopTimer \/ (proc = "up" /\ StartTimer)
  /\ UNCHANGED silent

-----------------------------------------------------------------------------
(* The pages call start() whenever they become visible. *)
PageStarts ==
  /\ StartWorker
  /\ UNCHANGED <<faultState, restarts>>

Stop ==
  /\ KillWorker
  /\ status' = "stopped"
  /\ UNCHANGED <<faultState, restarts>>

(* setUpdateInterval() with a new interval, which restarts a running worker.*)
SetInterval ==
  /\ status = "running"
  /\ \/ /\ TRUE \in Installed
        /\ proc' = "starting" /\ status' = "starting" /\ silent' = 0
        /\ StartTimer
     \/ /\ \/ proc' = "dying"
           \/ FALSE \in Installed /\ proc' = "down"
        /\ status' = "stopped"
        /\ StopTimer \/ (proc = "up" /\ StartTimer)
        /\ UNCHANGED silent
  /\ UNCHANGED <<faultState, restarts>>

RestartFires ==
  /\ 0 \in restarts
  /\ restarts' = restarts \ {0}
  /\ StartWorker
  /\ UNCHANGED faultState

-----------------------------------------------------------------------------
(* What the worker does, and the signals QProcess sends for it. *)
Started ==
  /\ proc = "starting"
  /\ proc' = "up"
  /\ UNCHANGED <<status, watchdog, faultState, restarts, silent>>

FailsToStart ==
  /\ proc = "starting"
  /\ proc' = "down"
  /\ status' = "degraded"
  /\ UNCHANGED <<watchdog, faultState, restarts, silent>>

Heartbeat ==
  /\ proc = "up"
  /\ status' = "running"
  /\ StartTimer
  /\ silent' = 0
  /\ UNCHANGED <<proc, faultState, restarts>>

(* A vendor library blocks the worker, perhaps only for a while. *)
Hang ==
  /\ proc = "up"
  /\ proc' = "hung"
  /\ UNCHANGED <<status, watchdog, faultState, restarts, silent>>

Recover ==
  /\ proc = "hung"
  /\ proc' = "up"
  /\ UNCHANGED <<status, watchdog, faultState, restarts, silent>>

(* errorOccurred (if it crashed) and then finished: the status ends as      *)
(* stopped.  The watchdog is left running.                                  *)
Exit ==
  /\ proc \in {"up", "hung", "dying"}
  /\ proc' = "down"
  /\ status' = "stopped"
  /\ UNCHANGED <<watchdog, faultState, restarts, silent>>

-----------------------------------------------------------------------------
(* _on_missed_heartbeat: record the failure, kill the worker, then open the *)
(* breaker or schedule a restart.                                           *)
TooOften ==
  \/ Cardinality(failures \cup {0}) >= MaxFailures
  \/ sinceRestart < Cooldown

HeartbeatDue == hbOn /\ hbAge = HbTimeout

OpenBreaker ==
  /\ HeartbeatDue
  /\ TooOften
  /\ failures' = failures \cup {0}
  /\ KillWorker
  /\ breaker' = TRUE
  /\ status' = "breaker-open"
  /\ UNCHANGED <<sinceRestart, restarts>>

ScheduleRestart ==
  /\ HeartbeatDue
  /\ ~TooOften
  /\ failures' = failures \cup {0}
  /\ KillWorker
  /\ status' = "restarting"
  /\ sinceRestart' = 0
  /\ restarts' = restarts \cup {Cooldown}
  /\ UNCHANGED breaker

(* Time passes only when no timer is due: the event loop is not blocked. *)
Tick ==
  /\ ~HeartbeatDue
  /\ 0 \notin restarts
  /\ hbAge' = IF hbOn THEN hbAge + 1 ELSE 0
  /\ failures' = {t + 1 : t \in {f \in failures : f + 1 < Window}}
  /\ sinceRestart' = IF sinceRestart < Cooldown THEN sinceRestart + 1
                     ELSE Cooldown
  /\ restarts' = {d - 1 : d \in restarts}
  /\ silent' = IF proc \in Alive THEN silent + 1 ELSE 0
  /\ UNCHANGED <<proc, status, hbOn, breaker>>

Watch == OpenBreaker \/ ScheduleRestart \/ RestartFires

Next ==
  \/ PageStarts \/ Stop \/ SetInterval
  \/ Started \/ FailsToStart \/ Heartbeat \/ Hang \/ Recover \/ Exit
  \/ Watch \/ Tick

Spec == Init /\ [][Next]_vars

(* The event loop keeps running its timers, and a killed process is reaped. *)
Reap == proc = "dying" /\ Exit
FairSpec == Spec /\ WF_vars(Watch) /\ WF_vars(Tick) /\ WF_vars(Reap)

-----------------------------------------------------------------------------
TypeOK ==
  /\ proc \in Proc
  /\ status \in Statuses
  /\ hbOn \in BOOLEAN
  /\ hbAge \in 0..HbTimeout
  /\ failures \subseteq 0..(Window - 1)
  /\ breaker \in BOOLEAN
  /\ sinceRestart \in 0..Cooldown
  /\ restarts \subseteq 0..Cooldown
  /\ silent \in Nat

(* A worker that shows no life is not tolerated longer than the watchdog's  *)
(* interval, however often the pages call start() meanwhile.                *)
SilenceIsBounded == proc \in Alive => silent <= HbTimeout

(* What the UI is told: "running" only while there is a live worker.        *)
RunningIsTrue == status = "running" => proc \in Alive

GpuInv == TypeOK /\ SilenceIsBounded /\ RunningIsTrue

(* An open breaker is final: it stays open and no worker starts again.      *)
BreakerIsFinal ==
  [][breaker => breaker' /\ (proc' \in Alive => proc \in Alive)]_vars

(* With the timing of the code (a 60 s watchdog, a 60 s window, a 5 s       *)
(* cooldown and 3 failures) the breaker never opens: the earliest of three  *)
(* misses has left the window by the third, and a restart is never within   *)
(* the cooldown of a miss.                                                  *)
SlowWatchdog ==
  2 * HbTimeout >= Window /\ HbTimeout >= Cooldown /\ MaxFailures >= 3

BreakerStaysClosed == SlowWatchdog => ~breaker

(* A restart that was announced is carried out or reported: the UI does not *)
(* show "restarting" for ever.                                              *)
RestartingEnds == (status = "restarting") ~> (status # "restarting")

===============================================================================
