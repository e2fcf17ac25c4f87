------------------------------- MODULE Verdicts -------------------------------
(***************************************************************************)
(* How findings become a score, a verdict and an action: the final         *)
(* decision that protection enforces (scanning/decision.py), the scores of *)
(* the two Scan Center pipelines (scancenter/scanner_orchestrator.py and   *)
(* scancenter/controller.py), of an integrated scan (scanning/scoring.py), *)
(* of a URL (scanning/url_scoring.py, scanning/url_multi_engine.py), and   *)
(* of a run in the virtual machine (sandbox_vmware/report_parser.py).      *)
(*                                                                         *)
(* Functions of their inputs, without state.  What was found comes as      *)
(* counts and flags; labels are told apart, wording is not.                *)
(***************************************************************************)
EXTENDS Integers

AtMost(cap, n) == IF n > cap THEN cap ELSE n
Clip(n) == IF n < 0 THEN 0 ELSE AtMost(100, n)
If(flag, n) == IF flag THEN n ELSE 0

(* int() of a sum of floats: where the exact sum is whole, the sum of the *)
(* floats may be just below it, and the result one less.                  *)
Truncated(exact, unit) ==
    {n \div unit : n \in {exact, IF exact > 0 THEN exact - 1 ELSE exact}}

------------------------------------------------------------------------------
(* decision.py. *)

BlockThreshold == 60

StaticBand(s) ==
    IF s <= 19 THEN "safe" ELSE IF s <= 59 THEN "suspicious" ELSE "malicious"

ScoringBand(s) ==
    IF s <= 20 THEN "safe" ELSE IF s <= 50 THEN "suspicious"
    ELSE IF s <= 80 THEN "likely_malicious" ELSE "malicious"

(* An unknown policy counts as "static". *)
ScoreBand(policy, s) == IF policy = "scoring" THEN ScoringBand(s) ELSE StaticBand(s)

(* The verdict in words that comes with the score decides nothing.  An     *)
(* explicit action of "none" or "allow" gives way to the score; the source *)
(* is "unnamed" when the caller names none.                                *)
FinalDecision(score, failed, explicit, source, policy, threshold) ==
    LET s == Clip(score)
        overridden == explicit \notin {"none", "allow"}
    IN [score   |-> s,
        verdict |-> IF failed THEN "unknown" ELSE ScoreBand(policy, s),
        action  |-> IF failed THEN "allow" ELSE IF overridden THEN explicit
                    ELSE IF s >= threshold THEN "block" ELSE "allow",
        source  |-> IF source # "unnamed" THEN source
                    ELSE IF failed THEN "scan_error"
                    ELSE IF overridden THEN "explicit_override"
                    ELSE "score_threshold",
        policy  |-> policy, threshold |-> threshold]

(* decision_from_scan_result, of a result that carries a decision. *)
Rebuild(d, failed) ==
    FinalDecision(d.score, failed,
                  IF d.source = "explicit_override" THEN d.action ELSE "none",
                  d.source, d.policy, d.threshold)

------------------------------------------------------------------------------
(* The static scanner, whose score protection enforces: _calculate_score and *)
(* _determine_verdict.  The points of its findings are blended with the AI's *)
(* score, if there is one, and ClamAV has the last word.                     *)

ScanScores(points, answered, ai, infected) ==
    LET exact == 6 * ai + 4 * points
        blends == IF answered THEN Truncated(exact, 10) ELSE {points}
    IN {AtMost(100, IF infected /\ b < 80 THEN 80 ELSE b) : b \in blends}

ScanLabel(s) == IF s < 20 THEN "safe" ELSE IF s < 60 THEN "suspicious" ELSE "malicious"

------------------------------------------------------------------------------
(* The interactive pipeline: _phase1_clamav and _compute_weighted_score. *)

ClamStates == {"clean", "malicious", "error", "not_installed"}
ClamCounts(clam) == clam # "error"

(* How the run in the guest went; "out" when nothing was executed.  The    *)
(* exit code is 0, "ended", unless the guest's report has one: also when   *)
(* the sample was never started.                                           *)
GuestRuns == {"out", "errors", "crashed", "ended"}

ClamScore(clam) == If(clam = "malicious", 100)
GuestScore(guest) ==
    If(guest = "errors", 70) + If(guest = "crashed", 60) + If(guest = "ended", 20)

(* Equal weights; a file that is signed or known by its name has 60 at most. *)
(* The pipeline itself leaves the signature unset: only names vouch.         *)
InteractiveScore(clam, guest, vouched) ==
    LET mean == IF guest = "out" THEN ClamScore(clam)
                ELSE IF ClamCounts(clam)
                     THEN (ClamScore(clam) + GuestScore(guest)) \div 2
                     ELSE GuestScore(guest)
    IN IF vouched THEN AtMost(60, mean) ELSE mean

CenterLabel(s) ==
    IF s <= 19 THEN "Clean" ELSE IF s <= 39 THEN "Suspicious"
    ELSE IF s <= 69 THEN "Likely Malicious" ELSE "Malicious"

InteractiveLabel(clam, guest, vouched) ==
    IF ~ClamCounts(clam) /\ guest = "out" THEN "Inconclusive"
    ELSE CenterLabel(InteractiveScore(clam, guest, vouched))

------------------------------------------------------------------------------
(* The static pipeline: _compute_source_scores and _score_and_verdict.  A  *)
(* source is [active, score]; the weights of the inactive ones are shared  *)
(* out, in per cent.                                                       *)

Weighted(clam, ai, box) ==
    CASE clam.active /\ ai.active /\ box.active ->
           40 * clam.score + 30 * ai.score + 30 * box.score
      [] clam.active /\ ai.active /\ ~box.active -> 55 * clam.score + 45 * ai.score
      [] clam.active /\ ~ai.active /\ box.active -> 55 * clam.score + 45 * box.score
      [] ~clam.active /\ ai.active /\ box.active -> 50 * ai.score + 50 * box.score
      [] clam.active /\ ~ai.active /\ ~box.active -> 100 * clam.score
      [] ~clam.active /\ ~ai.active /\ box.active -> 100 * box.score
      [] OTHER -> 100 * ai.score

StaticClamScore(detected) == If(detected, 80)

BoxScore(b) ==
    AtMost(100, If(b.persists, 25) + If(b.tampers, 30) + If(b.injects, 25)
                + If(b.drops, 15) + AtMost(20, 5 * b.connections)
                + If(b.changed > 20, 10))

PeBonus(pe) ==
    If(pe.packed, 3) + If(pe.entropy, 2) + If(pe.rwx, 3)
    + AtMost(10, 4 * pe.critical + 2 * pe.high)

IocBonus(ips, urls) == AtMost(8, 2 * ips + 2 * urls)

SignatureDiscount(signed, publisher) ==
    If(signed, IF publisher THEN 35 ELSE 30)

StaticScores(clam, ai, box, bonus, discount) ==
    LET exact == Weighted(clam, ai, box) + 100 * (bonus - discount)
    IN {Clip(t) : t \in Truncated(exact, 100)}

------------------------------------------------------------------------------
(* An integrated scan: ThreatScorer.  ClamAV has no part in it. *)

(* f counts what is found under the names that are looked up. *)
PePoints(f) ==
    If(f.entropy, 10) + AtMost(25, 5 * f.imports) + AtMost(20, 8 * f.sections)

IocPoints(f) ==
    LET w(pe, other) == IF f.isPe THEN pe ELSE other
    IN AtMost(w(10, 30),
              AtMost(15, w(2, 8) * f.ips) + AtMost(20, w(2, 10) * f.urls)
              + AtMost(15, w(1, 8) * f.domains) + AtMost(15, w(4, 12) * f.registry)
              + AtMost(10, w(1, 5) * f.emails))

FilePoints(f) == f.ai \div 2 + PePoints(f) + IocPoints(f)

(* What the static scanner puts there (PEAnalysis): its fields for entropy, *)
(* imports and sections have other names, and only a PE is shown to the AI. *)
FromScanner(f) ==
    /\ f.ai \in 0 .. 100 /\ (f.ai # 0 => f.isPe)
    /\ ~f.entropy /\ f.imports = 0 /\ f.sections = 0
    /\ {f.ips, f.urls, f.domains, f.registry, f.emails} \subseteq Nat

(* r counts what was seen of the run, if it succeeded. *)
RunPoints(r) ==
    If(r.crashed /\ ~r.timedOut, 20) + If(r.timedOut, 10)
    + If(r.highCpu, 5) + If(r.highMemory, 5)
    + AtMost(25, 3 * r.created + 4 * r.modified + 5 * r.deleted)
    + AtMost(20, 8 * r.registry) + If(r.connections > 0, 15)
    + AtMost(15, 5 * r.children)

(* What the integrated sandbox reports: neither deletions nor the registry, *)
(* connections or resources.                                                *)
FromSandbox(r) ==
    /\ r.created \in Nat /\ r.modified \in Nat /\ r.children \in Nat
    /\ r.deleted = 0 /\ r.registry = 0 /\ r.connections = 0
    /\ ~r.highCpu /\ ~r.highMemory

IntegratedScore(f, r) == Clip(FilePoints(f) + If(r.success, RunPoints(r)))

------------------------------------------------------------------------------
(* A URL: UrlScorer.  points sums what the evidence weighs; on a trusted *)
(* domain password fields are left out of it.                            *)

UrlPoints(u) ==
    u.points + If(u.domains > 10, AtMost(20, 2 * (u.domains - 10)))
    + If(~u.https /\ ~u.allowlisted, 10)

UrlScore(u) ==
    LET p == UrlPoints(u)
    IN IF u.blocked \/ u.flagged THEN 100
       ELSE IF u.allowlisted THEN Clip(AtMost(10, p))
       ELSE IF u.foundClean THEN Clip(p - (4 * p) \div 10)
       ELSE Clip(p)

UrlVerdict(u) ==
    IF u.blocked THEN "blocked" ELSE IF u.flagged THEN "malicious"
    ELSE ScoringBand(UrlScore(u))

(* MultiEngineUrlScanner: the scan that scores URLs so.  e.listed: on the    *)
(* checker's block list; e.read: the scanner read the page, or refused or    *)
(* failed.  The scorer hears neither of the address, so that its own trusted *)
(* domains do not count, nor of a refusal; and a remote list that finds      *)
(* nothing leaves no evidence.                                               *)
AsScored(e) ==
    [points |-> e.points, domains |-> IF e.read THEN e.domains ELSE 0,
     https |-> e.read => e.https, allowlisted |-> e.allowed, flagged |-> e.flagged,
     blocked |-> FALSE, foundClean |-> FALSE]

(* scoring.raises: the scorer failed, and the highest score of an engine    *)
(* stands in for its own.                                                    *)
MultiVerdict(e, scoring) ==
    IF e.listed THEN "blocked"
    ELSE IF scoring.raises THEN ScoringBand(scoring.highest)
    ELSE UrlVerdict(AsScored(e))

------------------------------------------------------------------------------
(* score_report: what the agent in the guest lists of a run.  A report that *)
(* brings a score and a verdict keeps the score.                            *)
ReportScore(r) ==
    IF r.judged THEN Clip(r.score)
    ELSE AtMost(25, 8 * r.alerts) + AtMost(20, 4 * r.processes) + AtMost(20, 3 * r.files)
         + AtMost(15, 5 * r.registry) + AtMost(15, 4 * r.network) + AtMost(10, 4 * r.errors)

ReportVerdict(r) ==
    LET s == ReportScore(r)
    IN IF r.alerts + r.processes = 0 THEN "Inconclusive"
       ELSE IF s >= 70 THEN "Malicious"
       ELSE IF s >= 35 THEN "Suspicious"
       ELSE IF s <= 15 THEN "Benign" ELSE "Inconclusive"
===============================================================================
