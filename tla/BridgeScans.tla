------------------------------ MODULE BridgeScans ------------------------------
(***************************************************************************)
(* The scans, reports and lists that the bridge offers as slots beside the *)
(* Scan Center (api/backend_bridge.py): what a call is answered, what its  *)
(* worker's end tells the page, and what is stored.  The page calls a few  *)
(* of them (URL and nmap scans, the list of scans, reports, diagnostics);  *)
(* the others have no caller in src/.                                      *)
(*                                                                         *)
(* Functions without state; ScanWorkers has the interleavings of the pool, *)
(* the watchdog and the event loop.  s is what the bridge keeps of one     *)
(* kind of scan: the ids with a registered worker, an id being a hash of   *)
(* what is scanned, and the flag that one is in progress.                  *)
(***************************************************************************)
EXTENDS Verdicts

Say(s, told) == [s |-> s, told |-> told]
NoScans == [active |-> {}, busy |-> FALSE]
Begin(s, id) == [s EXCEPT !.active = @ \cup {id}]
Claim(s, id) == [active |-> s.active \cup {id}, busy |-> TRUE]
Release(s, id) == [s EXCEPT !.active = @ \ {id}]
Settle(s, id) == [active |-> s.active \ {id}, busy |-> FALSE]

(* _on_worker_stalled: the worker is forgotten, the flag is not looked at. *)
Stalled(s, id) == Release(s, id)

------------------------------------------------------------------------------
(* The slots.  given is "empty", "long", "missing" or "good". *)
RunNetworkScan(s, id, ready, given, cached) ==
    IF ~ready \/ given = "empty" THEN Say(s, "refused")
    ELSE IF cached THEN Say(s, "result") ELSE Say(Begin(s, id), "nothing")

ScanFile(s, id, ready, given) ==
    IF ~ready \/ given \in {"empty", "long"} \/ id \in s.active THEN Say(s, "refused")
    ELSE Say(Begin(s, id), "nothing")

ScanUrl(s, id, ready, given) == ScanFile(s, id, ready, given)

ScanFileLocal(s, id, given) ==
    IF given = "empty" \/ s.busy THEN Say(s, "refused")
    ELSE IF id \in s.active THEN Say(s, "nothing")
    ELSE Say(Claim(s, id), "started")

CheckUrlLocal(s, id, given) ==
    IF given = "empty" \/ id \in s.active THEN Say(s, "refused")
    ELSE Say(Begin(s, id), "nothing")

RunIntegratedScan(s, id, given) ==
    IF given \in {"empty", "missing"} \/ s.busy THEN Say(s, "refused")
    ELSE IF id \in s.active THEN Say(s, "nothing")
    ELSE Say(Claim(s, id), "started")

(* Their ends: the task "raises", or its result is "good" or "faulty" (it has *)
(* an error), or "unsaved": the record cannot be stored, and the slot raises  *)
(* before it has told the page.  One that is no longer registered is dropped. *)
Ending(s, id, after, told) == IF id \notin s.active THEN Say(s, "nothing") ELSE Say(after, told)
Told(end) == IF end = "raises" THEN "error" ELSE IF end = "unsaved" THEN "nothing" ELSE "result"

NetworkEnds(s, id, end) == Ending(s, id, Release(s, id), Told(end))
FileEnds(s, id, end) == Ending(s, id, Release(s, id), IF end = "faulty" THEN "error" ELSE Told(end))
UrlEnds(s, id, end) == Ending(s, id, Release(s, id), IF end = "faulty" THEN "error" ELSE Told(end))
LocalFileEnds(s, id, end) == Ending(s, id, Settle(s, id), Told(end))
LocalUrlEnds(s, id, end) == Ending(s, id, Release(s, id), Told(end))
IntegratedEnds(s, id, end) == Ending(s, id, Settle(s, id), Told(end))

------------------------------------------------------------------------------
(* What a caller's path means: itself, another file, or nothing.  A URI keeps *)
(* its third slash, and escapes are decoded in plain paths too.               *)
Raws == [form : {"empty", "absolute", "relative", "uri"}, escape : BOOLEAN]
NormalizeFilepath(raw, windows) ==
    IF raw.form = "empty" THEN "nothing"
    ELSE IF \/ raw.form = "uri" /\ windows
            \/ raw.form # "uri" /\ raw.escape
            \/ raw.form = "relative" /\ ~windows
    THEN "another" ELSE "itself"

(* A local scan: its sandbox, its result, and the colour of its toast. *)
LocalSandbox(asked, ready, end) ==
    IF ~asked THEN "none" ELSE IF ready THEN end ELSE "not_configured"

LocalResult(raised, verdict, box, writable) ==
    IF raised THEN [verdict |-> "unknown", boxed |-> FALSE, report |-> FALSE, decided |-> FALSE]
    ELSE [verdict |-> verdict, boxed |-> box # "none", report |-> writable, decided |-> TRUE]

FileToast(verdict) ==
    IF verdict = "malicious" THEN "malicious"
    ELSE IF verdict = "suspicious" THEN "suspicious" ELSE "appears clean"
UrlToast(verdict) == FileToast(verdict)

(* The sandbox of an integrated scan.  w: a session is referred to, whether or *)
(* not it still runs; its cancellation was asked; a window is captured.  seen: *)
(* a process of the sample was reported, and its capture starts or fails.      *)
NoSession == [session |-> FALSE, cancelled |-> FALSE, captured |-> FALSE]
StartLivePreview(w, starts) == [w EXCEPT !.captured = starts]
StopLivePreview(w) == [w EXCEPT !.captured = FALSE]

CancelSandbox(w) ==
    IF w.session THEN [w |-> StopLivePreview([w EXCEPT !.cancelled = TRUE]), told |-> "cancelling"]
    ELSE [w |-> w, told |-> "nothing"]

(* end is "unready", "early" or "late" (something raises before or after the *)
(* sample runs), or what the sandbox says of its run: "good", "failed".      *)
SandboxBegins(w) == [w EXCEPT !.session = TRUE, !.cancelled = FALSE]
SandboxSees(w, seen, starts) == IF seen THEN StartLivePreview(w, starts) ELSE w
SandboxEnds(w, end) ==
    [w |-> [(IF end \in {"unready", "early"} THEN w ELSE StopLivePreview(w))
                EXCEPT !.session = end \notin {"early", "late"}],
     result |-> IF end = "good" THEN "good" ELSE "failed"]

(* The autopilot does not take its argument by the name it is given, so it *)
(* never starts; the page is told that it will.                            *)
SetAutopilotEnabled(w, on) == [w |-> w, told |-> IF on THEN "enabled" ELSE "disabled"]

(* An integrated scan, of which scored says whether the scorer answered. *)
IntegratedResult(scored, score) ==
    [score |-> If(scored, score),
     verdict |-> IF scored THEN ScoringBand(score) ELSE "unknown",
     decision |-> FinalDecision(If(scored, score), ~scored, "none", "unnamed",
                                "scoring", BlockThreshold)]

IntegratedToast(r) ==
    IF r.verdict = "malicious" \/ r.score > 80 THEN "malicious"
    ELSE IF r.verdict = "likely_malicious" \/ r.score > 50 THEN "likely_malicious"
    ELSE IF r.verdict = "suspicious" \/ r.score > 20 THEN "suspicious" ELSE "safe"

(* What the page gets of a result without a decision, and of a URL's. *)
NormalizedDecision(r) ==
    IF r.decided THEN r.decision
    ELSE FinalDecision(r.score, r.verdict = "unknown" /\ r.faulty, "none", "unnamed",
                       IF r.explained THEN "scoring" ELSE "static", BlockThreshold)

NormalizedUrl(r) ==
    [success |-> IF r.success = "unset" THEN ~r.faulty ELSE r.success = "yes",
     redirects |-> IF r.counted THEN r.count ELSE r.listed]

------------------------------------------------------------------------------
(* The report of an integrated scan (scanning/report_schema.py) and its row. *)
ScoreToRisk(s) ==
    IF s >= 80 THEN "Critical" ELSE IF s >= 60 THEN "High"
    ELSE IF s >= 25 THEN "Medium" ELSE "Low"
ScoreToLabel(s) ==
    IF s >= 60 THEN "malicious" ELSE IF s >= 25 THEN "suspicious" ELSE "clean"

EmptyVerdict == [risk |-> "Low", label |-> "clean", score |-> 0, confidence |-> 0]
VerdictFields == DOMAIN EmptyVerdict
NormalizeReport(verdict) ==
    [f \in VerdictFields |-> IF f \in DOMAIN verdict THEN verdict[f] ELSE EmptyVerdict[f]]
IsComplete(verdict) == VerdictFields \subseteq DOMAIN verdict

BuiltVerdict(score) ==
    [risk |-> ScoreToRisk(score), label |-> ScoreToLabel(score), score |-> score,
     confidence |-> AtMost(95, score + 10)]

(* A report that could not be saved is not passed on. *)
PassedVerdict(score, saved) ==
    IF saved THEN NormalizeReport(BuiltVerdict(score)) ELSE NormalizeReport(<<>>)

IntegratedRow(second, score, saved) ==
    [job |-> <<"static", second>>, risk |-> PassedVerdict(score, saved).risk,
     confidence |-> PassedVerdict(score, saved).confidence]
FailedRow(kind, second) == [job |-> <<kind, second>>, risk |-> "Failed", confidence |-> 0]

SaveReportToFile(writable) == IF writable THEN "saved" ELSE "error"

------------------------------------------------------------------------------
(* A plain Python thread has no event loop: a timer that it starts to reach   *)
(* the user interface never fires.  The deferred answer is given by the       *)
(* thread it is deferred on.                                                  *)
Deferred(thread, told) == IF thread = "plain" THEN "nothing" ELSE told

LoadScanHistory(thread, end) ==
    IF end = "interrupted" THEN "nothing"
    ELSE Deferred(thread, IF end = "good" THEN "list" ELSE "error")

(* One request at a time; the flag falls with the query, whatever its end. *)
ListScanHistory(pending, thread) ==
    IF pending THEN "nothing" ELSE Deferred(thread, "list")

LoadSentinelReport(thread, end) == Deferred(thread, IF end = "good" THEN "report" ELSE "error")

(* The export is named by what is kept of the file's name and of its hash. *)
ExportName(r) == <<r.name, r.hash>>
ExportScanReport(folder, r, thread, end) ==
    [folder |-> IF end = "good"
                THEN [n \in DOMAIN folder \cup {ExportName(r)} |->
                          IF n = ExportName(r) THEN r ELSE folder[n]]
                ELSE folder,
     told |-> Deferred(thread, IF end = "good" THEN "exported" ELSE "error")]

(* These tell the page from their thread, without a timer. *)
ExplainReport(end) == IF end = "good" THEN "explanation" ELSE "unavailable"
RunVmwareDiagnostics(end, passed, total) ==
    LET p == IF end = "raises" THEN 0 ELSE passed
        t == IF end = "raises" THEN 1 ELSE total
    IN [passed |-> p, total |-> t, level |-> IF p = t THEN "info" ELSE "warning"]

------------------------------------------------------------------------------
(* A guest analysis that ends "in time", "in grace" (within five seconds of   *)
(* the watchdog's cancellation), "later" or "never".  The pipeline does not   *)
(* look whether the watchdog has given up on it.                              *)
SandboxJob(when, end, thread) ==
    [told |-> (IF when # "never" THEN {end} ELSE {})
              \cup (IF when \in {"later", "never"} THEN {Deferred(thread, "failed")} ELSE {}),
     rows |-> (IF when # "never" THEN {end} ELSE {})
              \cup (IF when \in {"later", "never"} THEN {"watchdog"} ELSE {})]

(* Its event of cancellation is kept under the file's path; what is forgotten *)
(* at the end is the one under the job's id.                                  *)
RegisterJob(keys, file) == keys \cup {file}
ForgetJob(keys, job) == keys \ {job}
CancelSandboxJob(keys, asked) == IF asked \in keys THEN {asked} ELSE keys

------------------------------------------------------------------------------
(* An nmap scan: the task's result, and what of it reaches the page.  end is  *)
(* "exits", with a code, or "late", "cancelled", "raises"; the time and the   *)
(* cancellation are looked at after each line of output only.                 *)
NmapTask(needsHost, target, end, code) ==
    LET result(success, exit, report) == [success |-> success, exit |-> exit, report |-> report]
    IN IF needsHost /\ target # "good" THEN result(FALSE, 1, FALSE)
       ELSE IF end = "exits" THEN result(code = 0, code, TRUE)
       ELSE IF end = "late" THEN result(FALSE, -1, FALSE)
       ELSE IF end = "cancelled" THEN result(FALSE, -2, FALSE)
       ELSE result(FALSE, 1, FALSE)

(* CancellableWorker tells nobody the result of a cancelled task. *)
NmapEnds(cancelled, result) ==
    IF cancelled THEN "nothing" ELSE IF result.success THEN "success" ELSE "error"

(* previewEvent: of an event that is loaded. *)
PreviewEvent(loaded, index) ==
    IF index \in 0 .. loaded - 1 THEN [steps |-> 3, told |-> "preview"]
    ELSE [steps |-> 1, told |-> "nothing"]
===============================================================================
