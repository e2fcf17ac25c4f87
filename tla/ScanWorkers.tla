----------------------------- MODULE ScanWorkers -----------------------------
(***************************************************************************)
(* The bridge's background scans: CancellableWorker and WorkerWatchdog     *)
(* (backend/core/workers.py) as backend/api/backend_bridge.py uses them    *)
(* for the two scans the pages start: URL scans (_run_url_scan, cancelled  *)
(* by cancelUrlScan) and nmap scans (runNmapScan).  Tasks run on a thread  *)
(* pool; their signals are queued to the UI thread, which is the only one  *)
(* to touch the registry and the watchdog.                                 *)
(***************************************************************************)
EXTENDS Naturals, Sequences, FiniteSets

CONSTANTS
  Jobs,                           \* worker objects, numbered as created
  Urls,                           \* worker ids of URL scans
  Nmaps,                          \* worker ids of nmap scans, used once each
  UrlThreshold, NmapThreshold,    \* the watchdog's, in ticks
  UrlTimeout, NmapTimeout,        \* the workers', in ticks
  MaxThreads,                     \* of the pool
  Faults,                         \* of {"raise", "save"}
  NoJob, NoId

Ids == Urls \cup Nmaps

ASSUME JobsAssumption ==
  /\ Jobs \subseteq Nat \ {0}
  /\ Urls \cap Nmaps = {}
  /\ NoJob \notin Jobs /\ NoId \notin Ids
  /\ {UrlThreshold, NmapThreshold, UrlTimeout, NmapTimeout, MaxThreads}
       \subseteq Nat

VARIABLES
  stage,      \* where each worker is: "new", "queued", "running", "over"
  wid,        \* its worker_id
  cancelled,  \* the workers whose _cancelled is set
  ran,        \* how long each task has run, up to one past its timeout
  active,     \* the workers of _active_workers; the dict keeps their order
  watched,    \* the keys of the watchdog's _workers
  age,        \* time since each one's last heartbeat, as the watchdog has it
  busy,       \* _url_scan_in_progress
  posted,     \* signals queued to the UI thread
  told,       \* history: what each scan's page was told, or did itself
  quiet,      \* history: time since a URL scan showed life, capped likewise
  frozen      \* NoJob, or the worker over which the UI thread blocked

vars == <<stage, wid, cancelled, ran, active, watched, age, busy, posted,
          told, quiet, frozen>>

Stages == {"new", "queued", "running", "over"}
Endings == {"finished", "error"}

Init ==
  /\ stage = [j \in Jobs |-> "new"]
  /\ wid = [j \in Jobs |-> NoId]
  /\ cancelled = {}
  /\ ran = [j \in Jobs |-> 0]
  /\ active = {}
  /\ watched = {}
  /\ age = [i \in Ids |-> 0]
  /\ busy = FALSE
  /\ posted = <<>>
  /\ told = [j \in Jobs |-> "no"]
  /\ quiet = [j \in Jobs |-> 0]
  /\ frozen = NoJob

registry == <<active, watched, age>>

HeldIds == {wid[j] : j \in active}
Pending == {posted[k] : k \in DOMAIN posted}
Url(j) == wid[j] \in Urls
Threshold(i) == IF i \in Urls THEN UrlThreshold ELSE NmapThreshold
Timeout(j) == IF Url(j) THEN UrlTimeout ELSE NmapTimeout

-----------------------------------------------------------------------------
(* Slips: wrong versions of definitions below, for the mutation runs only.  *)

\* The worker is not unregistered from the watchdog.
ReleaseWatched(i) ==
  /\ active' = {k \in active : wid[k] # i}
  /\ UNCHANGED <<watched, age>>

\* The heartbeat of a URL scan is not connected.
HeartbeatMute(j) ==
  /\ stage[j] = "running"
  /\ Url(j)
  /\ quiet' = [quiet EXCEPT ![j] = IF @ > UrlThreshold THEN @ ELSE 0]
  /\ UNCHANGED <<stage, wid, cancelled, ran, registry, busy, posted, told,
                 frozen>>

\* A cancelled scan leaves the page locked.
CancelUrlBusy ==
  /\ \E j \in active :
       /\ Url(j) /\ \A k \in active : Url(k) => j <= k
       /\ cancelled' = cancelled \cup {j}
       /\ told' = [told EXCEPT ![j] = "cancelled"]
  /\ UNCHANGED <<stage, wid, ran, registry, busy, posted, quiet, frozen>>

\* A second scan of the same URL takes the place of a worker still held.
StartUrlTwice(j, u) ==
  /\ ~busy
  /\ stage[j] = "new"
  /\ \A k \in Jobs : k < j => stage[k] # "new"
  /\ stage' = [stage EXCEPT ![j] = "queued"]
  /\ wid' = [wid EXCEPT ![j] = u]
  /\ active' = {k \in active : wid[k] # u} \cup {j}
  /\ watched' = watched \cup {u}
  /\ age' = [age EXCEPT ![u] = 0]
  /\ busy' = TRUE
  /\ UNCHANGED <<cancelled, ran, posted, told, quiet, frozen>>

-----------------------------------------------------------------------------
(* Starting a scan: a new worker is registered, then given to the pool.     *)
(* The watchdog's clock starts here, not when a thread takes the task.      *)
Start(j, i) ==
  /\ stage[j] = "new"
  /\ \A k \in Jobs : k < j => stage[k] # "new"
  /\ stage' = [stage EXCEPT ![j] = "queued"]
  /\ wid' = [wid EXCEPT ![j] = i]
  /\ active' = active \cup {j}
  /\ watched' = watched \cup {i}
  /\ age' = [age EXCEPT ![i] = 0]
  /\ UNCHANGED <<cancelled, ran, posted, told, quiet, frozen>>

(* Refused while a URL scan is in progress or this URL's worker is held.    *)
StartUrl(j, u) ==
  /\ ~busy
  /\ u \notin HeldIds
  /\ Start(j, u)
  /\ busy' = TRUE

StartNmap(j, n) ==
  /\ n \notin {wid[k] : k \in Jobs}
  /\ Start(j, n)
  /\ UNCHANGED busy

(* cancelUrlScan: the first held worker whose id begins with "url-scan-".   *)
FirstUrl(j) == Url(j) /\ \A k \in active : Url(k) => j <= k

CancelUrl ==
  /\ \E j \in active :
       /\ FirstUrl(j)
       /\ cancelled' = cancelled \cup {j}
       /\ told' = [told EXCEPT ![j] = "cancelled"]
  /\ busy' = FALSE
  /\ UNCHANGED <<stage, wid, ran, registry, posted, quiet, frozen>>

-----------------------------------------------------------------------------
(* CancellableWorker.run, on a thread of the pool.                          *)
ThreadFree == Cardinality({j \in Jobs : stage[j] = "running"}) < MaxThreads

PoolRuns(j) ==
  /\ stage[j] = "queued"
  /\ ThreadFree
  /\ stage' = [stage EXCEPT ![j] = "running"]
  /\ UNCHANGED <<wid, cancelled, ran, registry, busy, posted, told, quiet,
                 frozen>>

(* The heartbeat of a URL scan is connected to the watchdog; that of an     *)
(* nmap scan is emitted to nobody.  At most one of a job is in the queue.   *)
(* History: a silence longer than the threshold is not forgotten.           *)
Heartbeat(j) ==
  /\ stage[j] = "running"
  /\ Url(j)
  /\ <<"heartbeat", j>> \notin Pending
  /\ posted' = Append(posted, <<"heartbeat", j>>)
  /\ quiet' = [quiet EXCEPT ![j] = IF @ > UrlThreshold THEN @ ELSE 0]
  /\ UNCHANGED <<stage, wid, cancelled, ran, registry, busy, told, frozen>>

(* The task returns or raises.  The timeout is looked at only then, and     *)
(* before the cancellation; nobody is connected to the cancelled signal.    *)
Ending(j) ==
  IF ran[j] > Timeout(j) THEN {<<"error", j>>}
  ELSE (IF "raise" \in Faults THEN {<<"error", j>>} ELSE {})
       \cup (IF j \in cancelled THEN {} ELSE {<<"finished", j>>})

TaskEnds(j) ==
  /\ stage[j] = "running"
  /\ stage' = [stage EXCEPT ![j] = "over"]
  /\ ran' = [ran EXCEPT ![j] = 0]
  /\ \/ \E e \in Ending(j) : posted' = Append(posted, e)
     \/ /\ j \in cancelled /\ ran[j] <= Timeout(j)
        /\ UNCHANGED posted
  /\ UNCHANGED <<wid, cancelled, registry, busy, told, quiet, frozen>>

-----------------------------------------------------------------------------
(* The UI thread's slots. *)
DeliverHeartbeat ==
  /\ posted # <<>> /\ Head(posted)[1] = "heartbeat"
  /\ posted' = Tail(posted)
  /\ LET i == wid[Head(posted)[2]] IN
     age' = IF i \in watched THEN [age EXCEPT ![i] = 0] ELSE age
  /\ UNCHANGED <<stage, wid, cancelled, ran, active, watched, busy, told,
                 quiet, frozen>>

Release(i) ==
  /\ active' = {k \in active : wid[k] # i}
  /\ watched' = watched \ {i}
  /\ age' = [age EXCEPT ![i] = 0]

(* What the page is told: nothing when saving to the history raises. *)
Tell(e) ==
  IF e[1] = "error" THEN {"error"}
  ELSE {"result"} \cup
       (IF "save" \in Faults /\ Url(e[2]) THEN {"lost"} ELSE {})

(* on_success and on_error: the page is told and the id released.  Those of *)
(* a URL scan are ignored when nobody holds the id.                         *)
DeliverEnding ==
  /\ posted # <<>> /\ Head(posted)[1] \in Endings
  /\ posted' = Tail(posted)
  /\ LET j == Head(posted)[2] IN
     /\ quiet' = [quiet EXCEPT ![j] = 0]  \* no longer of interest
     /\ IF Url(j) /\ wid[j] \notin HeldIds
        THEN UNCHANGED <<told, busy, registry>>
        ELSE /\ \E t \in Tell(Head(posted)) : told' = [told EXCEPT ![j] = t]
             /\ busy' = (busy /\ ~Url(j))
             /\ Release(wid[j])
  /\ UNCHANGED <<stage, wid, cancelled, ran, frozen>>

(* _check_workers emits workerStalled while it holds the watchdog's mutex.  *)
(* The slot takes the worker out of the registry, cancels it and calls      *)
(* unregister_worker, which locks the mutex again: it is not recursive, and *)
(* the UI thread waits for itself.  An id that nobody holds is just dropped.*)
Overdue == {i \in watched : age[i] > Threshold(i)}

Stall ==
  /\ \E i \in Overdue :
       /\ active' = {j \in active : wid[j] # i}
       /\ cancelled' = cancelled \cup {j \in active : wid[j] = i}
       /\ IF i \in HeldIds
          THEN /\ frozen' \in {j \in active : wid[j] = i}
               /\ UNCHANGED watched
          ELSE /\ watched' = watched \ {i}
               /\ UNCHANGED frozen
  /\ UNCHANGED <<stage, wid, ran, age, busy, posted, told, quiet>>

(* A tick is much longer than the delivery of a signal, or than it takes a  *)
(* free thread to fetch a task.                                             *)
Tick ==
  /\ posted = <<>>
  /\ Overdue = {}
  /\ ThreadFree => \A j \in Jobs : stage[j] # "queued"
  /\ age' = [i \in Ids |-> IF i \in watched THEN age[i] + 1 ELSE age[i]]
  /\ ran' = [j \in Jobs |-> IF stage[j] = "running" /\ ran[j] <= Timeout(j)
                            THEN ran[j] + 1 ELSE ran[j]]
  /\ quiet' = [j \in Jobs |-> IF /\ Url(j) /\ quiet[j] <= UrlThreshold
                                 /\ stage[j] \in {"queued", "running"}
                              THEN quiet[j] + 1 ELSE quiet[j]]
  /\ UNCHANGED <<stage, wid, cancelled, active, watched, busy, posted, told,
                 frozen>>

(* Nothing is followed after a freeze: the user can only kill the process.  *)
Step ==
  \/ \E j \in Jobs : \/ \E u \in Urls : StartUrl(j, u)
                     \/ \E n \in Nmaps : StartNmap(j, n)
                     \/ PoolRuns(j) \/ Heartbeat(j) \/ TaskEnds(j)
  \/ CancelUrl \/ DeliverHeartbeat \/ DeliverEnding \/ Stall \/ Tick

Next == frozen = NoJob /\ Step

Spec == Init /\ [][Next]_vars

(* The event loop runs while it is not blocked, the pool takes tasks, and   *)
(* the task of a URL scan ends: its engines set timeouts on what they call. *)
(* Nothing of the kind is assumed of nmap.                                  *)
FairSpec ==
  /\ Spec
  /\ WF_vars(frozen = NoJob /\ (DeliverHeartbeat \/ DeliverEnding))
  /\ WF_vars(frozen = NoJob /\ (Stall \/ Tick))
  /\ \A j \in Jobs : /\ WF_vars(frozen = NoJob /\ PoolRuns(j))
                     /\ WF_vars(frozen = NoJob /\ Url(j) /\ TaskEnds(j))

-----------------------------------------------------------------------------
TypeOK ==
  /\ stage \in [Jobs -> Stages]
  /\ wid \in [Jobs -> Ids \cup {NoId}]
  /\ cancelled \subseteq Jobs
  /\ ran \in [Jobs -> Nat]
  /\ active \subseteq Jobs
  /\ watched \subseteq Ids
  /\ age \in [Ids -> Nat]
  /\ busy \in BOOLEAN
  /\ posted \in Seq(({"heartbeat"} \cup Endings) \X Jobs)
  /\ told \in [Jobs -> {"no", "cancelled", "result", "error", "lost"}]
  /\ quiet \in [Jobs -> Nat]
  /\ frozen \in Jobs \cup {NoJob}

(* The bridge's registry and the watchdog know the same ids, one worker     *)
(* each, and hold every worker that is not over.                            *)
RegistryAgrees ==
  /\ \A j, k \in active : wid[j] = wid[k] => j = k
  /\ frozen = NoJob => /\ watched = HeldIds
                       /\ \A j \in Jobs : stage[j] \in {"queued", "running"}
                                            => j \in active

ScanInv == TypeOK /\ RegistryAgrees

(* What it takes to freeze the application: an nmap scan, a URL scan the    *)
(* user cancelled, or one that showed no life for longer than its           *)
(* threshold.                                                               *)
FreezeHasCause ==
  frozen # NoJob =>
    \/ wid[frozen] \in Nmaps
    \/ told[frozen] = "cancelled"
    \/ quiet[frozen] > UrlThreshold

(* A page is told of a scan once, and only by the worker that is registered *)
(* for it: never the late answer of another worker with the same id.        *)
AnswersTheirOwn ==
  [][\A j \in Jobs : told'[j] # told[j] =>
       told[j] \in {"no", "cancelled"} /\ j \in active]_vars

(* The page is locked only for a scan that is under way and wanted.         *)
BusyIsTruthful ==
  busy /\ frozen = NoJob => \E j \in active : Url(j) /\ j \notin cancelled

(* Every scan ends: its page is told or cancelled it, or the application is *)
(* frozen.                                                                  *)
EveryScanEnds ==
  \A j \in Jobs : (stage[j] = "queued") ~> (told[j] # "no" \/ frozen # NoJob)

(* The first lines of workers.py: "Prevents UI freezes and deadlocks".      *)
NeverFreezes == frozen = NoJob
===============================================================================
