------------------------------ MODULE Enforcement ------------------------------
(***************************************************************************)
(* What protection does about a decision (core/realtime_protection.py):    *)
(* the plan for the process and its file, what becomes of it, the vault's  *)
(* own gate before a file is taken (scanning/quarantine_manager.py), and   *)
(* what the history shows of the incident (history/unified_history.py).    *)
(*                                                                         *)
(* Functions without state; QuarantineVault and RtpMonitor have the steps. *)
(* A decision is a FinalDecision of Verdicts.  Its override_type, which    *)
(* nothing sets but tests, is left out: the source tells an override.      *)
(***************************************************************************)
EXTENDS Verdicts

(* "unknown" is also the signature of a file that has none, unless it was *)
(* checked and failed.                                                    *)
Signatures == {"valid", "invalid", "unknown"}

(* Where a file is and what its name says: under the Windows directory,    *)
(* under an install root, a browser's by its path or by its publisher, one *)
(* of the program's own helpers started by it.                             *)
Places == [windows : BOOLEAN, system : BOOLEAN, install : BOOLEAN,
           browserPath : BOOLEAN, browserName : BOOLEAN, helper : BOOLEAN]

InSystem(place) == place.windows /\ place.system

------------------------------------------------------------------------------
(* The context of a scan: the scanner's word on the signature, or a probe's *)
(* if it has none and the file is to be blocked.                            *)
KnownSignature(place, d, scanned, probed) ==
    IF place.windows /\ d.action = "block" /\ scanned = "unknown" THEN probed ELSE scanned

Overridden(d) == d.source = "explicit_override"
StrongEvidence(d, infected) == infected \/ Overridden(d)

(* _decision_supports_destructive_enforcement. *)
Supports(d) ==
    \/ Overridden(d)
    \/ d.action = "block" /\ d.score > 0
       /\ d.verdict \notin {"", "unknown", "safe", "suspicious"}

ProtectedBrowser(place, signature) ==
    place.browserPath \/ (place.browserName /\ signature = "valid")

ProtectedInstall(place, signature) ==
    \/ ProtectedBrowser(place, signature)
    \/ InSystem(place) /\ signature # "invalid"
    \/ place.install /\ signature = "valid"

Downgrades(place, d, signature, strong) ==
    \/ place.helper
    \/ ~Supports(d)
    \/ ~Overridden(d) /\ ProtectedInstall(place, signature)
    \/ ~Overridden(d) /\ signature = "valid" /\ ~strong

(* _build_enforcement_plan. *)
Plan(place, d, signature, strong) ==
    LET with(process, file) == [action |-> d.action, process |-> process, file |-> file]
    IN IF d.action # "block" THEN with("allow", "allow")
       ELSE IF Downgrades(place, d, signature, strong) THEN with("log_only", "allow")
       ELSE with("kill_process", IF strong THEN "quarantine_file" ELSE "allow")

------------------------------------------------------------------------------
(* How the actions end.  A decision out of the cache, whose process was not *)
(* looked at, needs the path verified.                                      *)
KillResults(cached) ==
    {"terminated", "already_exited", "access_denied", "failed_to_terminate",
     "identity_mismatch", "path_mismatch"}
    \cup (IF cached THEN {"identity_unverified"} ELSE {})

ProcessResults(plan, cached) ==
    CASE plan.process = "log_only" -> {"logged_only"}
      [] plan.process = "allow" -> {"allowed"}
      [] plan.process = "kill_process" -> KillResults(cached)

FileResults(plan, result) ==
    IF plan.file = "allow"
    THEN {IF plan.action = "block" THEN "guardrail_allow" ELSE "allowed"}
    ELSE IF result # "terminated" THEN {"skipped_process_not_terminated"}
    ELSE {"quarantined", "quarantine_failed"}

------------------------------------------------------------------------------
(* The vault's gate: complete decisions only, but for requests by hand; and *)
(* no protected file without an override.                                   *)
Automatic == {"rtp", "scan_center", "unknown"}
ByHand == {"manual", "scan_center", "unknown"}

VaultSignature(place, signature, probed) ==
    IF place.windows /\ signature = "unknown" THEN probed ELSE signature

Complete(request) ==
    \/ request.from \notin Automatic
    \/ request.override
    \/ /\ request.action = "block" /\ request.score > 0
       /\ request.verdict \notin {"", "unknown", "safe", "suspicious"}
       /\ request.file = "quarantine_file"

WeakOnSystemFile(place, signature, request) ==
    /\ InSystem(place) /\ signature # "invalid"
    /\ ~request.allowed /\ ~request.strong /\ request.from \in ByHand

ProtectedBinary(place, signature) ==
    /\ place.windows
    /\ IF place.system THEN signature # "invalid"
       ELSE place.install /\ signature = "valid"

VaultTakes(place, signature, request) ==
    /\ Complete(request)
    /\ ~WeakOnSystemFile(place, signature, request)
    /\ ProtectedBinary(place, signature) => request.allowed \/ request.override

(* What protection asks of it. *)
Request(plan, d, strong) ==
    [from |-> "rtp", action |-> plan.action, score |-> d.score, verdict |-> d.verdict,
     file |-> plan.file, strong |-> strong,
     override |-> Overridden(d), allowed |-> Overridden(d)]

------------------------------------------------------------------------------
(* The history.  It looks for words in the plan's reason, which always       *)
(* begins with a summary that names the fields trusted_install and           *)
(* system_path, whatever they are.                                           *)
SummaryWords == {"trusted_install", "system"}
ProtectedWords ==
    {"protected", "signed", "system", "mainstream", "trusted install", "trusted_install"}

(* _effective_outcome. *)
Outcome(plan, result, file, words) ==
    IF result = "terminated" THEN IF file = "quarantined" THEN "Quarantined" ELSE "Blocked"
    ELSE IF result \in {"access_denied", "identity_unverified"} /\ plan.process = "kill_process"
         THEN "Block failed"
    ELSE IF result \in {"identity_mismatch", "path_mismatch"} THEN "Skipped"
    ELSE IF plan.process = "log_only" \/ result = "logged_only"
         THEN IF words \cap ProtectedWords # {} THEN "Allowed: protected app"
              ELSE "Allowed: logged"
    ELSE IF file = "guardrail_allow" THEN "Allowed: guardrail"
    ELSE IF plan.action = "allow" \/ result = "allowed" THEN "Allowed" ELSE "Recorded"

Destroyed(result, file) == result = "terminated" \/ file = "quarantined"

(* _effective_verdict_label. *)
ShownVerdict(d, plan, result, file) ==
    IF /\ ~Destroyed(result, file)
       /\ d.verdict \in {"malicious", "likely_malicious"}
       /\ \/ plan.process = "log_only" \/ result \in {"logged_only", "allowed"}
          \/ file = "guardrail_allow"
    THEN "suspicious" ELSE d.verdict

(* _is_guardrail_downgraded. *)
GuardrailDowngraded(plan, result, file) ==
    /\ plan.action = "block" /\ ~Destroyed(result, file)
    /\ \/ plan.process \in {"log_only", "allow"} \/ result \in {"logged_only", "allowed"}
       \/ file = "guardrail_allow"
==============================================================================
