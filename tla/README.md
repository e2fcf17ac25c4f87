# Sentinel: TLA+ models and proofs

Sentinel is a desktop endpoint-security program: a Python backend (PySide6)
under QML pages. It watches processes and kills or quarantines what it judges
malicious, scans files and URLs, runs samples in virtual machines, and shows
telemetry. This directory holds TLA+ modules for the parts of the program whose
correctness depends on the order in which threads, timers, queued signals,
processes and file-system steps happen, and for the functions that decide what
is malicious; the TLC configurations that check them on small instances; and
TLAPS proofs of the results that hold for every size.

Paths below are relative to the repository. Pages (`*.qml`) are in
`frontend/qml/pages/`, `main.qml` one directory above; a file named alone stands beside
the one named before it.

## Inventory

### How the program is put together

One process. The UI thread runs Qt's event loop and owns almost all objects:
`BackendBridge` (`backend/api/backend_bridge.py`, the pages' entry point),
`GPUServiceBridge`, `RealTimeProtectionBridge`, `SandboxLabController`,
`FileFunctionBridge`, the snapshot service, the chat's bridge, the settings, the
watchdog of the background workers. Beside it run

- the real-time protection thread (`RealTimeProtectionWorker`, one QThread);
- the pool (`QThreadPool.globalInstance()`, four threads), which runs
  `CancellableWorker` tasks, and the event explainer's own pool workers;
- one QThread each for a VMware task, an interactive scan, a shredding, a
  recovery scan, a recovery copy and a chat request; plain `threading.Thread`s
  for the static scan and the readings of the machine;
- subprocesses: the GPU telemetry worker, `nmap`, `vmrun`, ClamAV.

Threads talk to the UI thread by queued signals. They share, without a queue,
the quarantine vault (a process-wide object over a directory), the guest machine,
the result cache, the whitelist, the provider's limiter and the SQLite stores.

### Components

For each: the state it keeps, its operations, its partners, what is hard, and
what makes it correct.

**Quarantine vault** (`backend/engines/scanning/quarantine_manager.py`).
State: one `<id>.quarantine` and one `<id>.key` file per id, and
`vault_ledger.json`. Operations: `quarantine_file`, `restore_file`,
`delete_permanently`, each a sequence of file-system steps that ends with
load-change-rewrite of the ledger. Called by the protection thread, the
assistant's threads and the UI. Hard: no lock; each step may fail; the process
may die between any two. Correct if bytes removed from disk are never lost, and
what is held is listed and what is listed can be restored.

**Real-time protection: monitor** (`RealTimeProtectionWorker` in
`backend/core/realtime_protection.py`). State: the scan cache, seen pids (Linux),
the decision in hand, the user whitelist (replaced by the UI thread). Operations:
take a WMI event or poll the process list, look at a process, scan its
executable or use the cached decision, kill, quarantine. Hard: pids are used
again, files are replaced, processes end and trust changes while one process
is being handled. Correct if what is killed is what was judged, the cache
speaks of the file that is there, and no process is missed.

**Real-time protection: bridge** (`RealTimeProtectionBridge`, same file; started
and shut down by `backend/application.py`). State: `_enabled`, `_worker`, the
capability, the saved preference. Operations: enable, disable, toggle,
shutdownRuntime, and the slots of the worker's posted statuses. Hard: a worker
being started while it is switched off, statuses of former workers, deletion of
thread objects. Correct if the switch tells the truth, the process is not aborted without a
named cause, and the user's preference is kept.

**GPU service** (`backend/api/gpu_service.py`). State: a QProcess, a status, a
repeating watchdog timer, failure times, delayed restarts, a circuit breaker.
Operations: start, stop, setUpdateInterval, the QProcess slots, the watchdog.
Hard: several timers of different lengths race a process that starts, hangs,
dies and is reaped in its own time. Correct if silence is bounded, restarts end,
and the breaker opens when it should and then stays open.

**Background workers and watchdog** (`backend/core/workers.py`) with **the
bridge's URL and nmap scans** (`backend/api/backend_bridge.py`). State:
`_active_workers`, the watchdog's table and mutex, `_url_scan_in_progress`, the
workers' flags. Operations: start a scan, cancel it, heartbeat, end, stall. Hard:
signals of several workers with the same id, timeouts, cancellation, a mutex that
a slot locks again. Correct if registry and watchdog agree, pages get their own
answer once, and the watchdog does not hurt the application.

**Sandbox Lab** (`backend/engines/sandbox_vmware/sandbox_controller.py`). State:
the guest, `_busy`, the task's QThread and worker, the run's folder and flags, a
cancel event, capture and polling timers, the interactive session. Operations:
the VM buttons, a file or URL run, an interactive session, Stop Analysis, the
slots of the worker's signals. Hard: `_busy` is cleared before the old thread is
torn down (674, 1986); each `vmrun` command may fail or time out with its
effect done; the program may be closed with the guest running. Correct if no
guest holds two runs, an error-free result means a clean guest, and every task
gives the page back.

**Scan Center** (`startScanCenter` and on in `backend/api/backend_bridge.py`,
`backend/engines/scancenter/`). State: the bridge's references to a controller
(static pipeline) and an orchestrator (interactive pipeline), their events, the
page's "scanning", the same guest as the Lab's. Operations: start, X, Finish, the
stages of either pipeline, their answers. Hard: X, and a report opened from the
history, stop showing a scan that goes on; a second start replaces the orchestrator's reference; cancellation is tested
between stages only. Correct if every scan answers once and for its own request,
a cancelled one shows no verdict, and the guest is put back.

**Event explanations** (`requestEventExplanation` and on in the bridge,
`backend/engines/ai/event_explainer_v5.py`, `backend/engines/ai/providers/groq.py`,
`EventViewer.qml`). State: the page's selection and list, a debouncer, the
bridge's own list, the requests on the pool, the provider's limiter and breaker.
Hard: the bridge takes an index into its list, not an event; answers come late,
to another selection; a limiter's lock is held across a sleep; a saved key
replaces the provider under its requests. Correct if what is shown is of the
selected event, every request is answered, and an open breaker is respected.

**Secure deletion** (`backend/engines/filefunction/`,
`backend/utils/secure_delete.py` and the Linux one, `FileFunction.qml`). State: the
page's form, one thread, the file's name and contents. Hard: a file is renamed,
overwritten several times and removed, each step failing or cancelled; the form
may change meanwhile. Correct if nothing is removed before it is overwritten,
success is true, and what is destroyed is what was confirmed.

**File recovery** (`backend/engines/filefunction/recovery_controller.py`, `FileFunction.qml`).
State: a scanning and a copying thread, the candidates, the page's rows. Hard:
headers across chunk borders, unreadable chunks, a new scan while rows of the
former are shown or copied. Correct if headers found are headers, none is
missed, and a row is the candidate it shows.

**Assistant's chat** (`backend/engines/ai/security_chatbot_v4.py`, `SecurityAssistant.qml`). State:
the page's "thinking", the object made on first use, its guard, thread and
memory. Hard: two pages send; the guard outlives the answer; clearing while an
answer is awaited. Correct if the memory is a conversation, and the page is
given back.

**Security tab** (`SystemSnapshot.qml`, `backend/api/security_controller.py`,
`backend/api/system_snapshot_service.py`, `backend/utils/security_info.py`). State: the machine's
setting, what the tab shows, an override, a cache with an expiry, reading threads.
Hard: a reading begun before a toggle ends after it. Correct if tab and cache end
up with the machine's state.

**URL scanner** (`backend/engines/scanning/url_scanner.py`, `url_checker.py`,
`url_multi_engine.py`, `url_external_apis.py`, `url_scoring.py`,
`payload/url_detonator/webview2_detonator.py`,
`backend/engines/ai/url_explainer.py`). State: a cache of results for an hour, and no
other. Operations: the rules for an address, the fetch, the page's contents, the
detonator, the remote lists, the points, the advice. Hard: a refusal has to reach the
one who scores; a report's names have to be those it is asked for; one result object
is cached, shared and written to. Correct if an address that was refused is never
called safe, what is reported was seen, and the advice is that of the verdict.

**Static file scanner** (`backend/engines/scanning/static_scanner.py`,
`clamav_adapter.py`, `backend/infra/integrations.py`, and the static pipeline in
`backend/engines/scancenter/controller.py`). No state of its own. Operations: hash, read,
parse, ask for the signature, ClamAV and the AI, score, report. Hard: each of these may
be missing, fail or run out of time, and is caught on its own. Correct if a failure can
be told from a clean file, and the report agrees with the scan's decision.

**Final decision and scores** (`backend/engines/scanning/decision.py` and the
scores of the static scanner, both Scan Center pipelines, the integrated scan and
the URL scan; a report from the guest). No state. Correct if a detection is never overruled where it should
not be, labels and actions agree, and more evidence never helps.

**Enforcement of a decision** (the plan in `backend/core/realtime_protection.py`, the
vault's gate, `backend/engines/history/unified_history.py`). No state. Hard: three
places look at signature, path and override anew, each in its own way, and the
history infers from the recorded fields what happened. Correct if nothing is
killed or taken without ground, the vault takes what was planned, and the history
says what became of it.

**History** (`HistoryPage.qml`, `HomePage.qml`, the routes of `main.qml`, the tables'
writers in the static pipeline, the monitor and the bridge). State: the page's lists and
tab, what a dialog asks about, the home page's count. Hard: lists are read whole on a
first showing and on signals, which several threads send behind their rows, and of
which some writers send none. Correct if a list that is old will be read again, and
nothing is done to an entry because a list was old.

**Bridge: offline scans, reports and lists** (`backend/api/backend_bridge.py`,
`backend/engines/scanning/report_schema.py`). State: the registered workers, one
flag per kind of scan, the session of a former sandbox, files of reports. Operations: the
slots `runNetworkScan`, `scanFile`, `scanUrl`, `scanFileLocal`, `checkUrlLocal`,
`runIntegratedScan`, the lists and reports, diagnostics, the guest analysis, and what their
workers' ends do. Hard: a stall forgets the worker only; threads without an event loop
answer by timers; a report that cannot be written is replaced. Correct if a page is given
back, is answered, and reads of a file what was found.

**Stored rows** (`backend/infra/sqlite_repo.py`, `backend/engines/history/`,
`backend/engines/scancenter/history_repo.py`, `backend/core/result_cache.py`). State: tables and a cache
file. Hard: rows of two tables, with the times of two clocks, are merged; a row that cannot
be read may hide others. Correct if the newest are listed and what was stored is shown.

**GPU readings** (`backend/engines/gpu/telemetry_worker.py`, the Linux one). What a round of the
telemetry worker reads and sends. Hard: a vendor's library fails for one device and not
for another. Correct if a card keeps its chart and a failing card only its own.

**Security posture** (`backend/utils/security_info.py`,
`backend/utils/security_snapshot.py`, the Linux readers). No state. Hard: every query may fail, and an
answer that is missing must be counted as something. Correct if "Protected" and
"off" are said only of what was answered, and the tab and the assistant agree.

The rest (the scanners' lists and patterns, threat-intelligence cache, integrated sandbox,
other assistants, startup, notifications, settings, snapshots, readers, wiring, layouts) keeps little state of its
own, or none that outlives one call; see "Not modelled".

## Modules

| module | models | proofs |
| --- | --- | --- |
| `QuarantineVault`, `MCQuarantineVault` | the vault's file-system steps (MC: symmetry) | `QuarantineVault_proofs` |
| `QuarantineContract` | what the vault promises about bytes; the abstract specification | |
| `RtpMonitor` | the protection thread among processes and files | `RtpMonitor_proofs` |
| `RtpBridge` | the protection switch, its threads, the event queue | `RtpBridge_proofs` |
| `GpuService` | the telemetry subprocess, watchdog and breaker | `Verdicts_proofs` (last section) |
| `ScanWorkers` | URL and nmap scans, pool, registry, watchdog | `ScanWorkers_proofs` |
| `SandboxVm` | the guest and what each `vmrun` command does to it; used by the next two | |
| `SandboxLab` | the Lab's controller, worker thread and signals over one guest | `SandboxLab_proofs` |
| `ScanCenter` | the page, the bridge's references, both pipelines over one guest | `ScanCenter_proofs` |
| `EventExplanations` | event page, debouncer, requests, limiter and breaker | `DesktopPages_proofs` |
| `Shredder` | the shredder tab, its thread, the files | `DesktopPages_proofs` |
| `FileRecovery` | the recovery tab, carving and copying | `DesktopPages_proofs` |
| `Chatbot` | the chat page, its guard, worker and memory | `DesktopPages_proofs` |
| `SecurityTab` | the security switches, readings and their cache | `DesktopPages_proofs` |
| `HistoryPage` | the history, who writes its tables and who tells it | `DesktopPages_proofs` |
| `DesktopPages` | one instance of the six pages above | `DesktopPages_proofs` |
| `Verdicts` | final decision and scores, as functions | `Verdicts_proofs` |
| `Enforcement` | from a decision to its plan, the vault's gate and the history; extends `Verdicts` | `Verdicts_proofs` |
| `UrlScan` | an address: rules, fetch, detonator, points, advice; extends `Verdicts` | `Verdicts_proofs` |
| `FileScan` | a static scan of a file with ClamAV, and the static pipeline's report; extends `Verdicts` | `Verdicts_proofs` |
| `EventTexts` | what is said of an event: rules, preview, texts and their stand-ins, the kept row | `Verdicts_proofs` |
| `Posture` | readings of the machine, the tab's cards, the assistant's assessment | `Verdicts_proofs` |
| `LinuxPosture` | the same readings on Linux | `Verdicts_proofs` |
| `GpuReadings` | a round of the telemetry workers: cards, processes, charts | `Verdicts_proofs` |
| `HistoryRows` | stored rows: tables, merged lists, the quarantine's records, the result cache | `Verdicts_proofs` |
| `BridgeScans` | the bridge's other slots: offline scans, their results, rows and reports; extends `Verdicts` | `Verdicts_proofs` |

Some modules also hold wrong versions of a definition: a lost guard, order or
reset. They are named `...Slip`, or stand under a comment that begins "A mutant".
No action uses one. Substituted for the real definition it must make a property
fail; that is how each property is shown to depend on the code.

### QuarantineVault

Actors are threads. `pc[a]` is the step a thread is at, `cur[a]` its id, `goal[a]`
the status it will record, `snap[a]` the ledger it loaded. `payload`, `key` and
`ledger` are what is on disk: a file is absent, torn or whole, and `ledger` is
what a *read* of `vault_ledger.json` yields, so that truncating it (the first half
of `write_text`) makes it empty. `fate` is history: what became of an id's bytes.

`quarantine_file` is BeginQuarantine, WritePayload, WriteKey, WriteFails,
DeleteOriginal or KeepOriginal, then the ledger's steps; `restore_file`
BeginRestore, ReadPayload, ReadFails, WriteBack, WriteBackFails, CleanVault;
`delete_permanently` BeginDelete, Purge, PurgeFails; `_append_entry` and
`_update_entry` LoadLedger, TruncateLedger, SaveLedger, SaveFails. `Crash` forgets
every call and keeps every file. Refused calls (metadata gates, missing
files) change nothing and are stutters. The two unlinks of a purge are one step:
a death between them leaves what PurgeFails leaves. Encryption is taken to
be correct (that what is decrypted is what was encrypted follows from a
listed id having no torn file). Other programs create files where none is; they
do not overwrite a file in the middle of its quarantine (hazard at line 472).

Properties: `VaultedBytesSurvive`, `ListedIsWhole` (any overlap, fault or crash);
`HeldIsListed`, `LedgerIsTrue` (success is recorded, nothing is restored twice) and
the refinement `KeepsContract` (one call at a time). `KeepsContract` maps an id to
"held" from the step that removes the original until the write-back or the first
unlink of a purge, and shows that every step is a step of `QuarantineContract` or
a stutter.

### RtpMonitor

`pc` is where the thread is: `idle`, `look` (Linux, in a listing), `check` (cache),
`scan`, `stamp` (between the scan and the fingerprint stored with it), `act`
(kill), `vault`. A version is an executable's content; a fingerprint (mtime and
size) is taken to tell versions apart. `World` moves at any time: processes exit
and start, pids are used again, the user trusts a path, files are replaced (only
where `SwapAt` allows, so that each window can be opened or closed). The decision of a
scan is a function of the version (`Bad`, `Strong`); `Protected` stands for the
guardrails of the enforcement plan. Paths share one name, so the name check of the
kill tells nobody apart; `Opaque` paths cannot be read from a live process, which
is the case in which the code falls back to the name.

Windows: NextEvent takes creation events. Linux: PollStart, LookOld, LookNew,
PollEnd, PollBreaks are the listing with `seen_pids` and `current_pids`. Then
CacheHit, CacheMiss, Scan, ScanRaises, Stamp, LogOnly, Kill, KillFails, Quarantine,
QuarantineFails. Left out: the cache's eviction at 5000 entries, the fixed name
lists, events and statistics for the pages, a scan that never returns.

Two histories name what a step alone does not show: `verdict.raced`, that the file was
replaced after the scan had read it, which an entry of the cache keeps, and `betrayed`, the
trusted paths for which a process was killed since. `KillsAreJustified`,
`VaultTakesTheJudged` (a verdict from the cache counts too: what is taken is what was judged,
unless it was replaced behind the verdict), `CacheIsTruthful`, `PollsAreComplete`, and
`OneKillOutlivesTrust`: the whitelist is asked when an event is taken and not again, so a kill
may come after the user has trusted its path, but no second one while it stays trusted.

### RtpBridge

`ui` is the GUI thread: in its loop, waiting in `_stop_runtime`, or gone.
`thread[w]` is the stage of each worker object, `running[w]` its `_running` flag,
`posted` the event queue (statuses and deferred deletions). Clicking, quitting and
launching are ClickOn, StopBegin/StopEnd, Quit, Launch; a worker goes through
Ready or InitFails, LoopEnds or Fatal, ThreadEnds; Deliver reads the next posted
event. `Eager` lets a click be handled before what is posted already (statuses
take two hops). Process exit resets the threads (`Dies`). Left out: the `stopped` status and
the texts, and a crash during the five-second wait.

A stop can come to nothing in two ways, and a history names each: a thread that is only
starting sets `_running` again after it was told to stop (`deaf`), and a thread that is blocked
outlasts the wait of five seconds (`Overdue`, `late`). Either way `deleteLater` was posted, and
Qt ends the process when the object of a running thread goes. `AbortHasCause` says that there
is no third way; `SwitchIsTruthful` that only such a thread monitors beside the present one
or under a switch that is off.

### GpuService

Every action is one slot or timer handler of the UI thread: PageStarts (start),
Stop, SetInterval, Started, FailsToStart, Heartbeat, Exit, OpenBreaker or
ScheduleRestart (a missed heartbeat), RestartFires. Hang and Recover are the
subprocess. Time passes in ticks, and only when no timer is due (`Tick`). `GpuInv`
says that silence is bounded and that RUNNING is shown of a live worker,
`BreakerIsFinal` that an open breaker starts nothing, `RestartingEnds` that an
announced restart comes to an end.

### ScanWorkers

`Jobs` are worker objects, numbered as created; `wid[j]` is a worker's id, which a
later worker may have again. `stage` is its life on the pool; `active` and
`watched` are the bridge's registry and the watchdog's table; `posted` the queued
signals; `age` what the watchdog has measured. A tick stands for 30 s: signals are
delivered and free threads fetch tasks within one. `frozen` is the worker whose
stall blocked the UI thread; nothing is followed after that. History: `told`, what
a page was told or did, and `quiet`, how long a URL scan really showed no life.

The two scans are the ones the pages start; the bridge's other entry points
register workers the same way. Results and texts are data.

### SandboxVm and SandboxLab

`vm` is the guest: powered on or not, and which runs have left something in it
since the clean snapshot. `_run` raises for a non-zero return code and for a
timeout alike, so a command that fails may have had its effect (`After`). The guest
and the run folders outlive the program; `Relaunch` resets everything else at any
moment.

The controller is `busy`, `session`, `vmShown`, `runDir`, `summary`, the capture
flags and the reference `thread`; `task` is what the worker executes and the
command it is at (revert, boot, tools, stage, launch, poll, salvage, putAway, ...);
`closing` counts workers that have emitted their result and not yet `done`; `inbox`
is the queue of their signals. The user acts between any two signals: `VmButton`,
`StartRun`, `StopInteractiveSession`, `CancelRun`. `joining` is `_thread.wait(2000)`
in the UI thread; when it gives up while the thread runs, Qt ends the process
(`aborted`). `overtaken` remembers that a task was started before the done signal
of an earlier one, which is possible because `_busy` is cleared first.

Properties: `LabInv` (no guest holds two runs whatever failed, was cancelled or cut
short; `busy` covers a running task; the process is aborted only after an
overtaking start), `ErrorFreeMeansPutAway`, `EveryTaskEnds`.

### ScanCenter

The page (`scanning`, `asked`, `shown`, `theater`), the bridge's two references, and
per scan its pipeline, stage, events and result. Static stages are begin, hashes,
engines, iocs, score, explain; interactive ones clamav, revert, start, viewer,
tools, payload, monitor, wait, collect, teardown, putBack, summary, verdict. Each
stage is one action with its failures and its test of the cancel event. The page's
X (`Cancel`) cancels a static scan only but stops showing either, and so does a report of
the history (`OpenStored`), emitted by the signal of a new one; `abandoned` remembers that
either happened over a scan that had not answered.

`CenterInv` is the conjunction of `StaticScansAreAlone`, `AnsweredOnce`,
`OneAtATime` (one unanswered scan, the one the references name, one sample in the
guest), `CancelIsHonoured` and `ScoredIsPutBack`; each names the exceptions it has.
`ShownIsAsked` is about the report shown, `EveryScanAnswers` is liveness.

### EventExplanations

An explanation is told apart by its event, not by who wrote it: when the remote
model fails, the text of the knowledge base takes its place in every later step.
The page keeps an index into `listed`, the bridge reads that index in `loaded`,
which a thread replaces before the page hears of it (`reading`). `ask[r]` is where a
request is: queued on the pool, waiting for the limiter, sleeping in it with the
lock, sent, answered. `SaveKey` makes a new provider; requests of the former one
go on (`former`) and no longer touch its breaker.

`RequestsAreWhole` (one answer per request, only a sleeper holds the lock),
`ShownIsSelected` and the exclusion of error and explanation make
`ExplanationInv`; `DrainsOnly` says of an open breaker that no request joins those on
their way (when it closes is not said; see "Violations"); `RequestsEnd` is liveness.

### Shredder, FileRecovery, Chatbot, SecurityTab, HistoryPage

Shredder: the form, the thread's stage inside `shred_file` (`check`, `ready`,
`writing`, `remove`, `over`), and the disk: a file's name (own, random, gone) and the
passes it still lacks. `DestroyedIsOverwritten`, `SuccessIsDestroyed`,
`WaitsAreFounded` and `OnlyPicksSlipBy` (what is destroyed was on the page when DELETE
was typed, or picked afterwards while the word stood there).

FileRecovery: a device is a sequence of cells, a header is two of them, a footer
one; the carving loop runs over chunks with the overlap kept as `leftover`. `RecoveryBounds`
supposes an overlap shorter than a chunk (1024 bytes against 1 or 8 MiB in the code).
`Selected` is the list comprehension of `recoverSelected`.
`HeadersAreReal`, `NoneIsMissed`, `RowsAreHeld`, `RecoveryWaitsAreFounded`;
`LostToItsName` is about copies on the disk: one is lost only while a candidate of its id is
written, itself again or one of a later scan; a write that fails may have emptied the file. The
Windows reader is the other value of the constant `Windows`. `MaxChunks` is the Linux reader's
depth; left out are the four bytes by which an MP4's header is moved back, and the choice among
volumes.

Chatbot: `guard` is `_worker_running`, `chatPosts` the thread's two signals, `memory`
what goes along with the next request. `GuardIsTruthful`, `ConversationIsWhole`,
`ThinkingIsFounded`, `OnlyEventsOverlap`.

SecurityTab: one switch stands for Remote Desktop's and UAC's, whose readings follow
what they write (the firewall's does not: `FirewallOffSplits` in `Verdicts_proofs`). The
first reading is due when the tab opens, so in `DesktopPages` on that page only. Reading threads pass through `begins`,
`asks`, `stores`, `tells`, holding what they saw; a toggle clears the cache and reads
again. `TabIsCurrent`, `CacheIsCurrent`, `OverrideIsFounded`.

HistoryPage: `behind` names the lists whose table has changed since they were read; of
the vault's list (`entries`) and of the vault (`ledger`) the statuses are kept, because they
decide what may be clicked. The writers are the static pipeline's thread (`SaveScan`,
`TellScan`), the monitor (`Act`, `TellThreat`), the UI thread itself (`Recorded`,
`SaveAddress`) and the assistant (`Assist`), which tells nobody: `untold` is history and
names what it has put behind. A tab chosen by the user ends the binding to the
window's route (`follows`): from then on no link, not even the home page's "Review",
chooses the tab. `ListsWillBeRead` (a list is behind only while its signal is on the
way, addresses and the assistant's doings excepted), `RecordedComesFirst` (an incident
is saved before the page is made to look for it), `AskedIsVaulted`, `HomeCounts` (the
home page's "vaulted files" are all files ever taken, restored and deleted ones too).

`DesktopPages` runs the event page and these five in one instance. They share no
state, so a behaviour moves one of them while the others stand still, and the
state space is the sum of theirs; `PagesSteps` and `PagesEnd` are the conjunctions of
their action properties and of their liveness.

### The functions: Verdicts, Enforcement, UrlScan, FileScan, EventTexts, Posture,
LinuxPosture, GpuReadings, HistoryRows and BridgeScans

The final decision, its rebuilding from a dictionary, and the scores with their
labels are operators over counts and flags; texts, confidences and reasons are
left out. The statements about them quantify over all inputs and are proved
rather than enumerated. Floats are handled where they round: a score that the code
truncates is any natural at most a point away.

Enforcement takes a decision of `Verdicts`, what is known of the file's signature and
place, and whether the evidence is strong (ClamAV or an override). `Plan` gives the
process and file actions, `ProcessResults` and `FileResults` how they can end,
`VaultTakes` is the vault's gate for the `Request` protection makes, and `Outcome`,
`ShownVerdict` and `GuardrailDowngraded` are the history's three inferences.

UrlScan takes an address as a record of what the rules ask of it, and the outcomes of
the fetch, the detonator and the remote lists. `CheckerScore` is the offline checker,
`Validated`, `Structure`, `Fetched` and `Content` the findings of the scanner by severity,
`FromDetonator` what the detonator's report has under the names the scanner looks up.
`Engines` is what the scan of all engines hands to `MultiVerdict`, in which the highest
score of an engine stands in for a scorer that fails; `Toast`,
`ReportAdvice` and `WhatToDo` are the three places that word an advice.

FileScan takes a machine (what is installed, how ClamAV ends, whether the AI can be
asked) and a file (whether it can be opened and read, and what a parser finds in it).
`Scans` is the result of `scan_file`, `CenterReports` that of the pipeline; both are sets,
because the blend of two scores may round either way. The two lists of addresses that
count as indicators are `ScannerKeeps` and `ControllerKeeps`.

EventTexts takes an event as the two readers of the logs make it and the severity of the
rule it finds. `EventLookup` is the knowledge base with its special case first; `Preview` and
`Instant` are made of it at once, `FromRules` and `StandIn` when the model is not there or
fails, `FromReply` of its reply; `Row` and `FromRow` are what the table keeps of them.
`Enhance` and `Simplify` are the page's two further buttons.

Posture takes the answers of the machine, "unknown" where there is none. `Antivirus`
and `Firewall` are the layered readings, `Internet`, `Updates`, `Device` and `Remote` the
cards, `Overall` the headline; `Assessment` is what the assistant is told. `LinuxPosture` has
the readings of Linux in the same way.

GpuReadings has one round of a telemetry worker: which cards a vendor's library gives, what
of a card can be read, what is sent, and where the page draws it.

HistoryRows has tables as sets or sequences of rows. `ScanHistory` merges the bridge's and
the Scan Center's, each by its own text of a time; `ReadUntilBad` is a list cut at the first
row that cannot be converted. `VaultEntry` is what a quarantine records, `QuarantineRow` what
the page shows of it. `CacheGet`, `CacheSet`, `SavedCache` and `LoadedCache` are the result
cache and its file.

BridgeScans gives each slot as a function of what the bridge keeps of that kind of scan
(`active`, `busy`), and each end of a worker likewise (`...Ends`, through `Ending`: what is no
longer registered is dropped). `IntegratedResult` to `IntegratedRow` follow an integrated scan
from its score to its row; `SandboxBegins`, `SandboxSees` and `SandboxEnds` are its sandbox, which
`CancelSandbox` may meet at any moment. `Deferred` is an answer given by a timer: a
plain thread has no event loop to run it.

## Runs

| run | bounds | shows |
| --- | --- | --- |
| `vault_serial` | 1 thread, 2 files, 2 contents, 2 ids; failing writes and unlinks | the contract, and that held files are listed, success is recorded and nothing is restored twice, one call at a time |
| `vault_concurrent` | 2 threads, 2 files, 2 ids; every fault and crashes; symmetry | bytes survive and listed entries are whole, whatever overlaps |
| `vault_lost_update` (violation) | 2 threads, no faults | two overlapping calls lose a ledger entry |
| `rtp_linux` | 2 pids, 2 paths, 2 versions; failing scans and polls; files replaced at any time but between scan and fingerprint | the cache is truthful and listings miss nobody |
| `rtp_windows` | as above, 2 undelivered events, one path that may be trusted, one protected and opaque path, pids used again at once; files replaced at any time | kills are justified, at most one is late for a trusted path, the vault gets the judged file or one replaced behind the verdict, everyone is looked at |
| `rtp_switch` | 3 workers, failing starts and loops, stops at every stage of a worker, threads that outlast the wait, at most 1 posted event when a worker is started | the two causes of an abort, the switch, the preference |
| `gpu_watchdog` | watchdog 2, window 20, cooldown 2 ticks, 3 failures | watchdog, restarts and breaker, in every order |
| `scan_workers` | 2 workers, 2 URLs, 1 nmap id, 1 thread; raising tasks, failing saves | registry, answers, busy flag, causes of a freeze |
| `scan_workers_freeze` (violation) | the same | the first stalled worker freezes the application |
| `sandbox_lab` | 2 runs or sessions and any VM button, any command failing before or after its effect, a relaunch at any moment | one run per guest, clean answers from clean guests, every task gives the page back |
| `scan_center` | 2 scans of either pipeline, any step failing, X and Finish at any moment | answers, cancellations and the guest, with what X breaks named |
| `desktop_pages` | 2 events, 2 requests, failure limit 2; 2 files, 2 passes; 3 devices of 2, 3 and 4 chunks, a depth of 3 chunks, one unreadable chunk or none, 2 scans; 3 chat messages; 2 readings; 1 file in the vault, 1 signal of a kind | the six pages, one at a time |

The passing runs take between 3 s and 4 minutes; `rtp_linux` is the largest
(1.2 million distinct states), `rtp_windows` has 890 thousand, `rtp_switch` 330 and
`desktop_pages` 265 thousand, the others between 16 and 690 thousand.

Why the bounds are enough.

- Vault: the ledger's race needs two calls, the contract's hazards two ids of one
  path; ids are spent, so two ids of two threads give every pair of overlapping
  operations.
- Monitor: one process is handled at a time, so what can go wrong needs it, one
  that takes its pid and one more path.
- Bridge: a worker, the one that replaces it and the former one whose events are
  still queued: three.
- GPU: three misses fit well within the window of `gpu_watchdog`, so the breaker
  opens there; with the code's timing it cannot (theorem `BreakerNeverOpens`), which
  is why the run uses the 6 s watchdog of the class comment.
- Workers: two are enough for one to wait behind the other, to have the same id
  later, and to answer after the other; thresholds and timeouts keep the code's
  ratios (90 s and 120 s against 120 s of a URL scan; nmap's timeout of an hour is
  out of reach of any run that freezes first). An instance with three workers
  (1.27 million states) was completed once with the same outcome.
- Lab and Scan Center: a run that leaves something in the guest and one that finds
  it; an orchestrator and the one that takes its place. After a start that
  overtook a done signal no further one is made until a relaunch (`MayClick`): by
  then the exception is named and only repeats itself.
- Pages: a request and one that waits for its lock; a file and one that replaces it
  on the form; a header on a chunk border and one inside the overlap; a message,
  one refused and one after it; a reading and one that overtakes it; a vaulted file and whoever takes it out first.

Named bounds in guards: `MaxEvents` (undelivered creation events), `MaxPosted`
(posted events at which a worker is started), `Ids` (calls of quarantine_file),
`Jobs` (scans and runs), `MaxRequests` (requests not answered yet), `MaxScans` and
`MaxPosts` (recovery scans; copy signals not delivered at a click), `MaxMessages`,
`MaxReaders` (readings underway at a start), `MaxEntries` (files taken into the vault) and
`MaxSignals` (scan ends, and threats, on their way to the history). Deadlock is not checked where the
system really stops: the vault when its ids are spent and its files are gone,
the scans when the application is frozen or has no scan left, a page with nothing
to do.

### Violations, exceptions, and what they say

The two violations are described under "findings" with the line that is
contradicted. Most other disagreements are the *exceptions* that an invariant
names, as part of its formula; some appear by changing one constant. Where such an
exception is a hazard itself (a kill after trust, a deaf or late thread, a lost cancel, a crossed
answer, a picked file, an old reading), the property does not catch that hazard: it says that
this is the only way for the promise to be broken.

Vault and protection

- `LedgerIsTrue` fails in `vault_serial` with `"ledger"` in `Faults`: a failed save is
  swallowed, and the caller is told success.
- `CacheIsTruthful` fails in `rtp_linux` with `"stamp"` in `SwapAt`: the file is
  replaced between scan and fingerprint. `PollsAreComplete` fails there with
  `QuickReuse = TRUE`: a pid that is used again before a listing without it is never
  looked at again. `OneKillOutlivesTrust` fails with `Platform = "linux"` and a `Trustable`
  path: the Linux loop does not ask the whitelist. On Windows one process may still be killed
  for a path trusted meanwhile: nothing asks again between the event and the kill. Between the
  verdict and the quarantine nothing looks at the file again either (`raced`).
- `KillsAreJustified`: a fresh verdict kills a process that hides its path on the name
  alone.
- `SwitchIsTruthful`: an error of a former worker is blamed on the present one (`blamed`).
  `AbortHasCause`: the process does die, of a stop that a starting worker overwrites (`deaf`)
  or of a thread that takes more than five seconds to end (`late`).
- `cancelUrlScan` cancels the first worker with a URL id, which after an earlier
  cancellation is a cancelled one, though its docstring says "Cancel the current
  URL scan.": only the busy flag is covered.

Sandboxes

- A task started between a task's result and its done signal has its thread joined
  for it: if it runs longer than 2 s, Qt ends the process (`overtaken`).
- X over an interactive scan leaves it running; the next start replaces its
  reference, and Finish no longer reaches it (`abandoned`). X before the static
  thread has cleared the event is lost (`CancelIsHonoured`).
- An interactive scan that ends in an error may leave its guest on.

Event explanations

- The bridge takes an index into its own list and the page shows any answer, so a
  selection or refresh meanwhile shows one event's explanation on another
  (`crossed`); `_cancel_current_ai_request`'s promise does not extend to the answers
  of the present explainer.
- An open breaker never closes by time: `is_available` is asked before the check that
  would reset it after 60 s, as the comment there promises (`groq.py`, 491-495). Only a saved
  key closes it. No property says so: `DrainsOnly` is about an open breaker, and `RequestsEnd`
  holds because a request that is refused is answered from the knowledge base.
- The limiter holds a `threading.Lock` across a sleep of up to 60 s; other requests
  wait inside their pool threads.

Shredder and recovery

- The first step is a rename, so that a cancelled or failed shredding leaves the file
  under a random name, never its own again (theorem `NamesAreNotRestored`).
- A click while the old thread is ending is not heard, and the page waits for good
  (`unheard`). The word DELETE stays typed when another file is picked (`repicked`), and
  a result is shown for the file on the form, not the one shredded (`swapped`).
- Ids of candidates begin at 0 with each scan and name the copies: a later scan's
  copy replaces an earlier one (`LostToItsName`), and where the write fails the earlier one is
  lost for nothing, because the file is emptied first. The depth of the Linux reader, said to be
  "configurable via SENTINEL_RECOVERY_MAX_MB", is a constant: nothing reads that variable. What is left over of a chunk is
  joined with the next one even when a chunk between them was skipped (`glued`). On
  Windows an unreadable chunk ends the scan as the end of the volume would.

Chat and security tab

- A message sent between an answer and the end of its thread is refused in silence
  and locks the page (`late`). Without a key at the first message, a key saved later
  is not used until the next launch. Clearing while an answer is awaited leaves an
  answer without its question (`forgotten`).
- A reading begun before a toggle stores its result after the cache was cleared and is
  shown last (`outdated`); any reading ends the override, the stale one too.

Bridge, rows and readings (theorems, no run)

- A stalled local or integrated scan, a Cancel too early and an unsaved report: see "Proofs".
- `_normalize_filepath` promises `file:///C:/... → C:/...`, but cuts seven of the eight
  characters: the third slash stays, and on Windows the path is another
  (`NormalizeFilepath`). It also decodes escapes in plain paths.
- The autopilot's maker is handed `pid`, which it calls `target_pid`: it raises, the page is told
  that the autopilot is enabled, and it never starts (`SetAutopilotEnabled`).
- Answers of `loadScanHistory`, `listScanHistory`, `loadSentinelReport` and `exportScanReport` are
  given by a timer of a plain Python thread, which has no event loop to fire it (`Deferred`).
- East of UTC a scan of the Scan Center is left out of the merged list for older scans of the
  bridge (`OlderHidesNewer`). A row of a former release that cannot be converted hides all
  older ones (`UnreadableHidesOlder`).
- "ati" is part of "compatible", a word of every "VGA compatible controller" in `lspci`, so every
  such card counts as AMD's (`EveryVgaIsAmd`); charts are kept by the place in the list, so a vendor
  that fails for one round moves them (`FailedVendorMovesCharts`).

Verdicts (theorems, no run)

- The interactive pipeline counts a ClamAV that is not installed as one that found
  nothing (`NotInstalledIsClean`).
- A file the static scanner fails on (locked, say, between its hash and the scan) is
  reported as Clean with nothing to do, while the scan's own decision is that nothing
  is known (`UnscannedReadsClean`). A ClamAV that errs, is late or cannot start leaves the
  report of one that found nothing (`ClamFailureReadsClean`).
- The discount for a signed file is never given: the signature reaches the report
  after it was scored. So a file ClamAV detects is at least Likely Malicious there
  (`DetectedIsLikelyMalicious`).
- Without the PE parser nothing is found in a program, and an undetected one is blocked
  only if the AI scores it 100 (`UnparsedProgram`). Scanner and pipeline disagree about
  the addresses that count (`IndicatorsDisagree`).
- An address the scanner refuses is never called safe, unless the allow list has it
  (`RefusedIsNeverSafe`). The detonator's report has none of the names the scanner
  looks up, so that a run in it adds nothing but a redirect (`SandboxTellsNothing`), and
  that redirect is the server's, though it is reported as a script's
  (`ServerRedirectIsBlamed`).
- The explanation advises for the next worse verdict at the scores 20, 50 and 80, and
  nowhere else (`AdviceIsAPointEarly`); the suspicions it could open with it never names
  (`NoImpression`).
- `ThreatScorer` looks up fields the scanner does not provide, so that findings alone
  call no file malicious (`FindingsAloneAreNotMalicious`).
- The URL scorer's branch for a URL "blocked during validation" is never taken: the
  scan by all engines tells it neither the address nor the refusal (`AsScored`).
- A run in the guest with one alert and nothing else is "Benign"
  (`AlertsAreNotEnough`).
- An override to any action but block switches enforcement off
  (`OnlyBlockIsEnforced`). An unsigned file in the Windows directory is out of reach
  without one (`UnsignedSystemFileStays`). Between the plan and the vault the signature
  is probed again, so that a process may be killed whose file the vault then refuses
  (`VaultTakesWhatIsPlanned`).
- The history never shows "Allowed — logged" (`LoggedIsShownProtected`), shows
  "Allowed — guardrail" for kills that failed or came late only (`OutcomesTell`), and
  "Malicious" for a kill on strong evidence that failed, though the docstring of
  `list_incident_history` promises it "only when a destructive action actually
  occurred" (`FailedKillIsShownByEvidence`).
- The tab counts a search for updates that fails as none found and has no age limit
  (`SilenceReadsProtected`, `NeverOutOfDate`); it reads the firewall on as long as its
  service runs, while the assistant looks at the profiles (`FirewallOffSplits`); and a
  machine that answers nothing is "At risk" to an administrator only
  (`SilentMachine`).

### Fairness

- RtpMonitor `FairSpec`: the protection thread keeps running; nothing is assumed of
  processes or files.
- RtpBridge `FairSpec`: the event loop delivers, and each thread takes its next
  step; nothing is assumed of the user.
- GpuService `FairSpec`: the event loop runs due timers, time passes, and a killed
  process is reaped.
- ScanWorkers `FairSpec`: the event loop runs while it is not blocked, the pool
  takes tasks, and the task of a URL scan ends (its engines set timeouts on what
  they call). Nothing is assumed of nmap.
- SandboxLab: the worker thread takes its next step (every `vmrun` command has a
  timeout) and the UI thread handles its queue.
- ScanCenter: each pipeline takes its next step and answers are delivered. The analyst
  owes nothing, not even a Finish: `EveryScanAnswers` says so.
- ExplainFairness: timers fire, answers are delivered, the loading thread runs, and
  strong fairness for the work of each request, because a thread that waits for the
  limiter's lock finds it free again and again only. A request times out after
  12 s.
- ShredderFairness, RecoveryFairness, ChatFairness, SecurityFairness: threads run, what
  is posted is delivered, timers fire. File operations return, chat requests time
  out after 12 s, the queries of the machine have timeouts.

No run assumes that the user does anything.

## Proofs

The invariants and action properties are proved as `Spec => []P` or
`Spec => [][A]_vars` for every value of the constants that satisfies the modules'
assumptions (sentinels are distinct, thresholds are naturals).

**Vault.** `TypeCorrect` and `VaultInvariant` from one induction. Neither safety
property is inductive: a thread at `unlink` must be known to have written both
files, and that knowledge is lost if another call may purge the id meanwhile.
`VaultInv` adds that an id being copied is known to nobody else (`OneCopier`,
`OnlySettledAreKnown`: no ledger, no loaded ledger, no other call names it) and
that calls past the gate hold a settled id (`CallsAreSound`). `BytesSurvive` and
`ListedCanBeRestored` follow.

The other properties of the vault are lost when two calls overlap (`vault_lost_update`), so their
theorems suppose `[]OneCall`: at no moment are two actors inside a call. No lock of the code sees
to that; the theorems say what one would buy, for any number of threads. `SerialInv` adds that a
quarantine still finds at its path the bytes it read (`CallHasItsFile`), that what a call records
fits what became of its id (`GoalFits`), and that an id let go of is not offered again, in the
file or in a loaded copy, unless its files are gone or the call that let go of it has yet to
record that (`LetGoIsKnown`). It needs that neither a crash nor a failed ledger write comes
between a release and its record; a ledger that cannot be read does no harm to it. From it
`VaultKeepsContract`, the refinement: the removal of the original is the contract's `Take` of the
very bytes read, the write-back its `GiveBack` of an id still held, the purge its `Destroy`, and
every other step stutters (`HoldStep`, `ReleaseStep`, `DestroyStep`, `NothingMoves`); and that
nothing is offered a second time (`RestoredOnlyOnce`). `LedgerInv`, for a ledger that can also be
read, says that whoever rewrites it holds all of it in memory: `EverythingHeldIsListed`,
`LedgerTellsTheTruth`.

**Monitor.** `MonitorInv` says what the thread holds at each point of its work,
that blocks come from bad versions, and that verdict and cache speak of the present
file unless it was replaced behind them. From it `KillsJustified`, `VaultTakesJudged`, wherever
files are replaced, and `CacheTruthful`, where they are not replaced between scan and
fingerprint: that is the only window of the cache. `OneKillAtMost`, on Windows: whoever is being
handled when a path is trusted is the last to be handled for it (`TrustIsHeard`).
`ListingsMissNobody`: if no
pid is used again before the next listing is done (`~QuickReuse`), whoever has not been looked at
is alive and not among `seen_pids`, and those who are due are still to come in the listing under
way (`UnseenAreListed`). So the pid used again too soon is the only way past the Linux loop.

**Bridge.** `BridgeInv`: what is waited for will come unless it is deaf, deletions are
posted once and after all else of their worker, of threads that have finished or are deaf or
late, and nobody else is alive beside the present worker. With it, and nothing supposed of
threads or clicks, `AbortsHaveACause`, `SwitchTruthful` and `OnlyUserChangesPreference`.

**GPU.** `GpuInvariant` adds to `GpuInv` that a live worker is watched and has been
silent no longer than its timer has run (`Watched`); `BreakerFinal` follows from
`GpuInv` step by step. `BreakerNeverOpens`: where the watchdog is at least half the
failure window and not shorter than the cooldown, and at least three failures are
needed, the breaker stays closed. Its invariant (`Spacing`) is that the ages of
counted failures lie a watchdog's interval apart.

**Workers.** `RegistryInvariant`, `FreezesHaveCauses`, `BusyTruthful`,
`AnswersAreTheirOwn` from one invariant: a new worker is unknown everywhere
(`NewIsUnknown`), a posted ending belongs to a worker that is over and still held,
and is posted once (`AnswersAreDue`), a held worker has not answered, and its
answer is on its way if its task is over (`HeldIsOpen`), and the watchdog's clock is
not ahead of the real silence (`ClockIsRight`). One consequence: while
the watchdog freezes the application, the "not held" test of `on_success` never
fires.

**Event explanations** (in `DesktopPages_proofs`, as are the five pages that follow).
`ExplanationInvariant` adds to `ExplanationInv` that, as long
as nothing was crossed, a debounced index and every request on its way name the
selected event (`IndexHolds`). `BreakerOnlyDrains` is an action property of the same
module and needs only types.

**Shredder.** `ShredderInvariant` adds what the thread knows at each stage
(`ThreadKnows`: the file has its passes left, is not gone, was confirmed) and what the
page knows of it (`PageKnows`). `NamesAreNotRestored` is an action property.

**Security tab.** `SecurityInvariant` needs two more facts: the last reading posted is
of the present state (`LastIsCurrent`), and so is what a thread holds
(`HoldsReading`), unless something was changed past the page or outdated.

**Chat.** `ChatInvariant`: the guard, the thread and its two signals are one request
(`OneRequest`), and the memory is whole with respect to the message awaited
(`Whole`), which each of sending, answering, adding a context and clearing keeps.

**History.** `HistoryInv` is inductive as it stands (`HistoryInvariant`): every click that
reads lists, and every handler, leaves the lists it read as the tables are (`PageInv`), and a
writer puts a list behind only with its signal still to come (`WriterInv`, `VaultInv`).

**Verdicts, Enforcement, UrlScan, FileScan, EventTexts, Posture.** No induction: every theorem is linear arithmetic or
a case analysis over operators, for all inputs. The chain from a scan to the history
goes through `DetectedIsBlocked`, `DetectedIsStopped`, `VaultTakesWhatIsPlanned` and
`OutcomesTell`; `HeadlineTells` gives the headline as one condition on the answers, from
three lemmas about the cards, and the others about the headline follow from it. The
theorems on a file's report rest on `ScoredReport` and `FailedScores`: what a report is
when the scan worked, and when it failed. Of the event page's texts: no event of Windows
is shown as a high risk, because rules are looked up by the log's name and levels are never
"Critical" (`WindowsNeverHigh`); the special case of an unreadable log comes before the
rules, for every special logon and for process 1314 (`SpecialCaseComesFirst`); preview and
instant text agree, a reply that cannot be read is harmless, and the two further buttons
only fail (`PreviewAgreesWithInstant`, `UnreadReadsHarmless`, `FurtherButtonsFail`).

**Sandbox Lab.** `LabInv` is not inductive: nothing in it says what is queued. `LabIInv` adds
`GuestInv` (a guest holds at most one run, none between a revert and a launch, and a
pipeline that comes to its score without an error has put the guest away), `FlagInv`, and,
as long as no task overtook a done signal, `QueueInv` (the queue is of one task: its VM
signals, its end, its done signal; `busy` holds exactly as long as an end is to come) and
`PageInv` (what may become a session has its folder; a queued error-free end is of a clean
guest). A step of the worker either goes on (`GoesOn`) or comes to its end (`Comes`), so the
thirteen commands are looked at once each for these two forms and for the guest, and the
queue is argued about for the two forms only. `LabInvariant`, `ShownWithoutErrorIsPutAway`.

**Scan Center.** `CenterIInv` adds that stages are of the scan's kind (`KindInv`), that what has
not answered is what the page asked for and can reach (`AskedInv`, unless `abandoned`), that
such a scan has the guest to itself from its revert to its sample (`HoldInv`), at which stage
a cancellation came and whether it can still be seen (`CancelInv`), and that a viewer left
behind or a guest in disorder has a culprit (`TidyInv`). `CenterInvariant`, `ShownWasAsked`.

**File recovery.** `RecoveryIInv` adds, for the reader, that the leftover are the cells before the
position unless a chunk was skipped (`LeftoverHolds`) and no header before the position is
missed (`NoneBefore`); for the list, that ids count the finds (`FoundInOrder`) and that a
candidate is once in the batch, the posts and the controller's list, and the last post has
all (`StreamHolds`); for the copies, that one of the present scan is a candidate of the
controller's and none is of a later scan (`CopiesHold`). `RecoveryInvariant` for every device,
chunk, overlap shorter than it and set of unreadable chunks; `RecoveredFilesStay`.

What the carving loop and the filter of the chosen compute is an induction over data. The
library's induction theorems cannot be used (they take an operator), so it is done by the
least counterexample: `Smallest` and `Greatest` give the first and last element of a finite set
of naturals from the well-foundedness of inclusion (`FS_StrictSubsetOrderingWellFounded`,
`WFMin`), `WalkExists` that a function defined from its end exists, `WalkFinds` what it collects;
`SearchFinds` and `SelectedAreListed` are the two uses.

**The pages together.** `PagesStep` says that a step of `DesktopPages` is one of a page or leaves it
alone; with the six inductive invariants, `PagesStepsHold` proves the composed action property.

**BridgeScans, HistoryRows, GpuReadings, LinuxPosture.** Case analyses again. A scan that was
called stalled keeps the page locked (`StalledScanBlocks`); two network scans of a target share
an id, so the later end is dropped (`SecondScanIsDropped`); toast and row of a score disagree
from 21 to 24 and 51 to 59 (`RowAndToastDisagree`); an unsaved report reads clean
(`UnsavedReadsClean`); a Cancel during the next scan's analysis is confirmed and forgotten
(`EarlyCancelIsLost`).

Model-checked only: all liveness (`RestartingEnds`, `EveryoneIsLookedAt`, `SwitchSettles`,
`EveryScanEnds`, `EveryTaskEnds`, `EveryScanAnswers`, `PagesEnd`) and the ENABLED that fairness
stands on, which the prover does not reach. Every other property of a passing run is a theorem.

## Plan

Built: all modules of the table above, their runs, and the theorems listed in
`PROJECT.json`. What would come next, in this order:

1. The monitor composed with `Enforcement` in place of `Bad`, `Strong` and `Protected`.
2. The Lab's preview and window embedder, the analysis in the guest (`vmware_runner.py`), as far
   as their order matters.

`RtpMonitor` and `QuarantineVault` meet in one call (the monitor's Quarantine step
is the vault's `quarantine_file`), and no other state is shared.

## Not modelled, and why

Most of the source's lines are content: rules and patterns of the scanners, weights
and word lists, prompts and texts, readers of the machine, dialogs, layouts,
exports and schemas. A model of them would repeat them. What the modules map is
the control around them, and the arithmetic that turns findings into verdicts.

- Slots of `BackendBridge` no page calls (`runIntegratedScan`, `scanFileLocal`,
  `checkUrlLocal`, `startSandboxFileAnalysis`, ...) are functions in `BridgeScans`, not actions of a
  run. `filefunction/service.py` is a former version nothing starts, and is left out.
- Startup orchestrator: only `schedule_deferred` is used, one QTimer per call.
- The stores of threat intelligence, settings, notifications: each operation is one
  transaction or one replacement, nothing spans two. Colours and labels of the
  history's rows, and its export.
- Static and URL scanner: their lists, patterns, extracted indicators and texts. The
  URL cache is left out as state: what may be cached is `Cacheable`, a hit `RefusesNow`.
  `static_scan.py` and `scanner_engine.py` are reached by tests or by nothing.
- Other assistants, snapshots: sequences of readings without effects inside one
  background task, which `ScanWorkers` or `SecurityTab` has.
- Integrated sandbox, nmap and event-log readers: processes and
  device I/O of the operating system.
- External programs (vmrun, nmap, ClamAV) and remote services appear as what their
  callers can see of them: an effect, a failure, a delay.

"components" in `PROJECT.json` has each part with its reason, and "hazards" the lines
that no property covers, with theirs.
