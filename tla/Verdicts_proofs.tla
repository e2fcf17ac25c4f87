---------------------------- MODULE Verdicts_proofs ----------------------------
(***************************************************************************)
(* What the scores and decisions guarantee for every input, by linear      *)
(* arithmetic over the definitions of Verdicts, what protection then does, *)
(* by the cases of Enforcement, what the cards of Posture may hide, what   *)
(* UrlScan is told of an address and EventTexts says of an event. Last, by *)
(* induction over its steps, why the circuit breaker of GpuService cannot  *)
(* open, that a silent worker is always noticed, and that an open breaker  *)
(* is final.                                                               *)
(***************************************************************************)
EXTENDS Enforcement, Posture, LinuxPosture, GpuReadings, UrlScan, FileScan, EventTexts, HistoryRows,
        BridgeScans, GpuService, FiniteSetTheorems, TLAPS

LEMMA ClipRange == \A n \in Int : Clip(n) \in 0 .. 100 /\ (n \in 0 .. 100 => Clip(n) = n)
BY DEF Clip, AtMost

\* A scan that failed never blocks, whatever score, override or threshold
\* came with it (decision.py:150-165), and is still "allow" when rebuilt.
THEOREM FailedNeverBlocks ==
  ASSUME NEW score \in Int, NEW explicit, NEW source, NEW policy, NEW threshold \in Int
  PROVE  LET d == FinalDecision(score, TRUE, explicit, source, policy, threshold)
         IN d.action = "allow" /\ Rebuild(d, TRUE).action = "allow"
BY DEF FinalDecision, Rebuild

\* Verdict and action agree: at the default threshold, under the static
\* policy, what is blocked is exactly what is called malicious; under the
\* scoring policy nothing called malicious is allowed and nothing called
\* safe or suspicious is blocked.
THEOREM ActionMatchesVerdict ==
  ASSUME NEW score \in Int, NEW source, NEW explicit \in {"none", "allow"}
  PROVE  /\ LET d == FinalDecision(score, FALSE, explicit, source, "static", BlockThreshold)
            IN d.action = "block" <=> d.verdict = "malicious"
         /\ LET d == FinalDecision(score, FALSE, explicit, source, "scoring", BlockThreshold)
            IN /\ d.verdict = "malicious" => d.action = "block"
               /\ d.verdict \in {"safe", "suspicious"} => d.action = "allow"
BY ClipRange DEF FinalDecision, ScoreBand, StaticBand, ScoringBand, BlockThreshold

\* Protection rebuilds the decision from the dictionary of the scanner's own.
\* Nothing is lost on the way, unless an explicit action came with a source
\* of another name: the rebuilt decision then follows the score.
THEOREM RebuildKeeps ==
  ASSUME NEW score \in Int, NEW failed \in BOOLEAN, NEW explicit, NEW source,
         NEW policy, NEW threshold \in Int,
         \/ failed
         \/ explicit \in {"none", "allow"}
         \/ source \in {"unnamed", "explicit_override"}
  PROVE  LET d == FinalDecision(score, failed, explicit, source, policy, threshold)
         IN Rebuild(d, failed) = d
<1> DEFINE s == Clip(score)
<1> DEFINE d == FinalDecision(score, failed, explicit, source, policy, threshold)
<1>1. s \in 0 .. 100 /\ Clip(s) = s
  BY DEF Clip, AtMost
<1>2. d.score = s /\ d.policy = policy /\ d.threshold = threshold
  BY DEF FinalDecision
<1>3. CASE failed
  BY <1>1, <1>3 DEF FinalDecision, Rebuild
<1>4. CASE ~failed /\ explicit \in {"none", "allow"}
  BY <1>1, <1>4 DEF FinalDecision, Rebuild
<1>5. CASE ~failed /\ explicit \notin {"none", "allow"} /\ source \in {"unnamed", "explicit_override"}
  <2>1. d.action = explicit /\ d.source = "explicit_override" /\ d.verdict = ScoreBand(policy, s)
    BY <1>5 DEF FinalDecision
  <2>2. Rebuild(d, failed)
          = FinalDecision(s, failed, explicit, "explicit_override", policy, threshold)
    BY <2>1, <1>2 DEF Rebuild
  <2>. QED
    BY <2>2, <1>1, <1>5 DEF FinalDecision
<1>. QED
  BY <1>3, <1>4, <1>5

------------------------------------------------------------------------------
\* What ClamAV detects protection blocks: the scanner scores it 80 at least,
\* however little the AI thinks of it, and that decision says malicious too.
THEOREM DetectedIsBlocked ==
  ASSUME NEW points \in Nat, NEW answered \in BOOLEAN, NEW ai \in 0 .. 100,
         NEW s \in ScanScores(points, answered, ai, TRUE), NEW source
  PROVE  LET d == FinalDecision(s, FALSE, "none", source, "static", BlockThreshold)
         IN d.action = "block" /\ d.verdict = "malicious"
<1>1. \A b \in Int : LET t == AtMost(100, IF b < 80 THEN 80 ELSE b)
                     IN t \in Int /\ 80 <= t /\ t <= 100
  BY DEF AtMost
<1>2. points \in Int /\ Truncated(6 * ai + 4 * points, 10) \subseteq Int
  BY DEF Truncated
<1>3. s \in Int /\ 80 <= s /\ s <= 100
  BY <1>1, <1>2 DEF ScanScores
<1>4. Clip(s) = s
  BY <1>3 DEF Clip, AtMost
<1>. QED
  BY <1>3, <1>4 DEF FinalDecision, ScoreBand, StaticBand, BlockThreshold

\* The scanner's own label is the verdict of the decision made from it, and
\* its score needs no clipping.
THEOREM LabelsAgree ==
  ASSUME NEW points \in Nat, NEW answered \in BOOLEAN, NEW ai \in 0 .. 100,
         NEW infected \in BOOLEAN, NEW s \in ScanScores(points, answered, ai, infected)
  PROVE  s \in 0 .. 100 /\ ScanLabel(s) = ScoreBand("static", s)
<1>1. \A b \in Nat : AtMost(100, IF infected /\ b < 80 THEN 80 ELSE b) \in 0 .. 100
  BY DEF AtMost
<1>2. points \in Nat /\ Truncated(6 * ai + 4 * points, 10) \subseteq Nat
  BY DEF Truncated
<1>3. s \in 0 .. 100
  BY <1>1, <1>2 DEF ScanScores
<1>. QED
  BY <1>3 DEF ScanLabel, ScoreBand, StaticBand

\* Without ClamAV, an AI that calls a PE harmless (a score of at most 10)
\* keeps it from being blocked until its findings sum up to 135 points.
THEOREM HarmlessToTheAiIsAllowed ==
  ASSUME NEW points \in Nat, NEW ai \in 0 .. 10, points < 135,
         NEW s \in ScanScores(points, TRUE, ai, FALSE), NEW source
  PROVE  FinalDecision(s, FALSE, "none", source, "static", BlockThreshold).action = "allow"
<1>1. \A b \in Truncated(6 * ai + 4 * points, 10) : b \in Int /\ b < 60
  BY DEF Truncated
<1>2. s \in Int /\ s < 60
  BY <1>1 DEF ScanScores, AtMost
<1>3. Clip(s) \in Int /\ Clip(s) < 60
  BY <1>2 DEF Clip, AtMost
<1>. QED
  BY <1>3 DEF FinalDecision, BlockThreshold

------------------------------------------------------------------------------
\* Interactive pipeline: a file that ClamAV detects is called malicious or
\* likely malicious whatever the guest showed, and only likely so when its
\* name vouches for it or the run in the guest ended well.
THEOREM InteractiveDetection ==
  ASSUME NEW guest \in GuestRuns, NEW vouched \in BOOLEAN
  PROVE  LET label == InteractiveLabel("malicious", guest, vouched)
         IN /\ label \in {"Likely Malicious", "Malicious"}
            /\ vouched \/ guest = "ended" => label = "Likely Malicious"
<1>1. \/ guest = "out" \/ guest = "errors" \/ guest = "crashed" \/ guest = "ended"
  BY DEF GuestRuns
<1>. QED
  BY <1>1 DEF InteractiveLabel, InteractiveScore, CenterLabel, ClamScore,
              GuestScore, ClamCounts, If, AtMost

\* A ClamAV that is not installed counts as one that found nothing, although
\* "Unavailable sources are dropped" (scanner_orchestrator.py:981): with no
\* run in the guest the file is "Clean" instead of "Inconclusive", and the
\* score of a run is halved.  One that fails is dropped as promised.
THEOREM NotInstalledIsClean ==
  /\ InteractiveLabel("not_installed", "out", FALSE) = "Clean"
  /\ InteractiveLabel("error", "out", FALSE) = "Inconclusive"
  /\ \A guest \in GuestRuns :
        2 * InteractiveScore("not_installed", guest, FALSE)
           = InteractiveScore("error", guest, FALSE)
<1>1. \A guest \in GuestRuns :
        \/ guest = "out" \/ guest = "errors" \/ guest = "crashed" \/ guest = "ended"
  BY DEF GuestRuns
<1>. QED
  BY <1>1 DEF InteractiveLabel, InteractiveScore, CenterLabel, ClamScore,
              GuestScore, ClamCounts, If, AtMost

------------------------------------------------------------------------------
(* A static scan of a file, and the Scan Center's static pipeline. *)

LEMMA NothingOff == \A n \in Nat : n - 0 = n
OBVIOUS

LEMMA NoDiscount == SignatureDiscount(ScoredSignature, FALSE) = 0
BY DEF SignatureDiscount, ScoredSignature, If

LEMMA BonusNat ==
  ASSUME NEW m \in Hosts, NEW f \in Files
  PROVE  /\ Bonus(m, f) \in Nat
         /\ ~Works(f) => Bonus(m, f) <= 8
<1>1. \A n \in Nat, c \in Nat : AtMost(c, n) \in Nat /\ AtMost(c, n) <= c
  BY DEF AtMost
<1>2. 2 * f.ips + 2 * f.urls \in Nat
  BY DEF Files
<1>3. IocBonus(f.ips, f.urls) \in Nat /\ IocBonus(f.ips, f.urls) <= 8
  BY <1>1, <1>2 DEF IocBonus
<1> DEFINE parsed == Works(f) /\ Parsed(m, f)
           critical == If(parsed, f.pe.imports.critical)
           high == If(parsed, f.pe.imports.high)
           shown == [packed |-> parsed /\ f.pe.packed, entropy |-> parsed /\ f.pe.entropy > 0,
                     rwx |-> parsed /\ f.pe.rwx > 0, critical |-> critical, high |-> high]
<1>4. f.pe.imports.critical \in Nat /\ f.pe.imports.high \in Nat
  BY DEF Files, Parts, Severities
<1>5. critical \in Nat /\ high \in Nat /\ (~parsed => critical = 0 /\ high = 0)
  BY <1>4 DEF If
<1>6. 4 * critical + 2 * high \in Nat
  BY <1>5
<1> HIDE DEF critical, high, parsed
<1>7. AtMost(10, 4 * critical + 2 * high) \in Nat
  BY <1>1, <1>6
<1>8. ~parsed => AtMost(10, 4 * critical + 2 * high) = 0
  BY <1>5 DEF AtMost
<1>9. PeBonus(shown) \in Nat /\ (~parsed => PeBonus(shown) = 0)
  <2>1. /\ shown.critical = critical /\ shown.high = high
        /\ ~parsed => ~shown.packed /\ ~shown.entropy /\ ~shown.rwx
    OBVIOUS
  <2> HIDE DEF shown
  <2>. QED
    BY <1>7, <1>8, <2>1 DEF PeBonus, If
<1>10. Bonus(m, f) = PeBonus(shown) + IocBonus(f.ips, f.urls)
  BY DEF Bonus, parsed, critical, high
<1>11. ~Works(f) => ~parsed
  BY DEF parsed
<1> HIDE DEF shown
<1>. QED
  BY <1>3, <1>9, <1>10, <1>11

\* A run that gets to the scoring.
LEMMA ScoredReport ==
  ASSUME NEW m, NEW f, NEW asked, NEW r \in CenterReports(m, f, asked, TRUE, TRUE, FALSE)
  PROVE  \E s \in CenterScores(m, f, asked) :
           /\ r.score = s /\ r.label = CenterLabel(s) /\ r.risk = CenterRisk(CenterLabel(s))
           /\ r.advice = Recommendation(CenterRisk(CenterLabel(s)))
<1>1. r \in {Scored(m, f, asked, s) : s \in CenterScores(m, f, asked)}
  BY DEF CenterReports
<1>2. PICK s \in CenterScores(m, f, asked) : r = Scored(m, f, asked, s)
  BY <1>1
<1>. QED
  BY <1>2 DEF Scored

LEMMA FailedScores ==
  ASSUME NEW m \in Hosts, NEW f \in Files, ~Works(f), NEW asked \in BOOLEAN,
         NEW s \in CenterScores(m, f, asked)
  PROVE  s \in 0 .. 8
<1> DEFINE src == FileSources(m, f, asked)
<1>1. /\ src.clam = [active |-> FALSE, score |-> 0]
      /\ src.ai = [active |-> FALSE, score |-> 0] /\ src.box = [active |-> FALSE, score |-> 0]
  BY DEF FileSources, ClamEntry, StaticClamScore, If
<1>2. Weighted(src.clam, src.ai, src.box) = 0
  BY <1>1 DEF Weighted
<1>3. Bonus(m, f) \in Nat /\ Bonus(m, f) <= 8
  BY BonusNat
<1> HIDE DEF src
<1>4. Bonus(m, f) - 0 = Bonus(m, f)
  BY <1>3, NothingOff
<1>5. \E t \in Truncated(100 * Bonus(m, f), 100) : s = Clip(t)
  <2>1. Weighted(src.clam, src.ai, src.box)
          + 100 * (Bonus(m, f) - SignatureDiscount(ScoredSignature, FALSE))
        = 100 * Bonus(m, f)
    <3>1. Bonus(m, f) - SignatureDiscount(ScoredSignature, FALSE) = Bonus(m, f)
      BY <1>4, NoDiscount
    <3>2. 0 + 100 * Bonus(m, f) = 100 * Bonus(m, f)
      BY <1>3
    <3>. QED
      BY <1>2, <3>1, <3>2
  <2>. QED
    BY <2>1 DEF CenterScores, StaticScores, src
<1>6. \A t \in Truncated(100 * Bonus(m, f), 100) : t \in 0 .. 8
  BY <1>3 DEF Truncated
<1>7. \A n \in 0 .. 8 : Clip(n) = n
  BY DEF Clip, AtMost
<1>. QED
  BY <1>5, <1>6, <1>7

\* Static pipeline: a file that was hashed and then cannot be scanned (it was
\* locked or removed in between, or the scan raised) is reported as Clean, of low
\* risk, with nothing to do, while the scan's own decision is that nothing is known
\* (controller.py:323-325, 397-399; static_scanner.py:386-391).
THEOREM UnscannedReadsClean ==
  ASSUME NEW m \in Hosts, NEW f \in Files, ~Works(f), NEW asked \in BOOLEAN
  PROVE  /\ \A r \in CenterReports(m, f, asked, TRUE, TRUE, FALSE) :
              r.label = "Clean" /\ r.risk = "Low" /\ r.advice = "nothing to do"
         /\ \A r \in Scans(m, f, asked) :
              r.label = "unknown" /\ r.decision.verdict = "unknown"
<1>1. ASSUME NEW s \in CenterScores(m, f, asked)
      PROVE  CenterLabel(s) = "Clean"
  <2>1. s \in 0 .. 8
    BY FailedScores
  <2>. QED
    BY <2>1 DEF CenterLabel
<1>2. CenterRisk("Clean") = "Low" /\ Recommendation("Low") = "nothing to do"
  BY DEF CenterRisk, Recommendation
<1>3. \A r \in CenterReports(m, f, asked, TRUE, TRUE, FALSE) :
        r.label = "Clean" /\ r.risk = "Low" /\ r.advice = "nothing to do"
  <2>1. TAKE r \in CenterReports(m, f, asked, TRUE, TRUE, FALSE)
  <2>2. PICK s \in CenterScores(m, f, asked) :
          /\ r.label = CenterLabel(s) /\ r.risk = CenterRisk(CenterLabel(s))
          /\ r.advice = Recommendation(CenterRisk(CenterLabel(s)))
    BY ScoredReport
  <2>3. CenterLabel(s) = "Clean"
    BY <1>1
  <2>. QED
    BY <1>2, <2>2, <2>3
<1>4. Unscanned.verdict = "unknown"
  BY DEF Unscanned, FinalDecision
<1>5. \A r \in Scans(m, f, asked) : r.label = "unknown" /\ r.decision.verdict = "unknown"
  BY <1>4 DEF Scans
<1>. QED
  BY <1>3, <1>5

Alike(r, q) == r.label = q.label /\ r.score = q.score /\ r.decision = q.decision

\* A ClamAV that ends in an error, runs out of time or cannot be started is
\* reported, and weighs, as one that found nothing: the pipeline's report is the
\* same, and so are the scan's label, score and decision
\* (clamav_adapter.py:109-157; controller.py:761-763).
THEOREM ClamFailureReadsClean ==
  ASSUME NEW m \in Hosts, NEW f \in Files, NEW asked \in BOOLEAN,
         m.clam \in {"error", "late", "broken"},
         NEW there, NEW hashed, NEW cancelled
  PROVE  LET fine == [m EXCEPT !.clam = "clean"]
         IN /\ CenterReports(m, f, asked, there, hashed, cancelled)
                 = CenterReports(fine, f, asked, there, hashed, cancelled)
            /\ \A r \in Scans(m, f, asked) : \E q \in Scans(fine, f, asked) : Alike(r, q)
            /\ \A q \in Scans(fine, f, asked) : \E r \in Scans(m, f, asked) : Alike(r, q)
<1> DEFINE fine == [m EXCEPT !.clam = "clean"]
<1>1. /\ fine.pefile = m.pefile /\ fine.ai = m.ai /\ fine.signtool = m.signtool
      /\ fine.clam = "clean"
  BY DEF Hosts
<1> HIDE DEF fine
<1>2. /\ IsPe(fine, f) = IsPe(m, f) /\ Parsed(fine, f) = Parsed(m, f)
      /\ AiAnswers(fine, f) = AiAnswers(m, f)
  BY <1>1 DEF IsPe, Parsed, AiAnswers
<1>3. ASSUME NEW a \in BOOLEAN
      PROVE  /\ ClamEntry(a, fine.clam).available = ClamEntry(a, m.clam).available
             /\ ClamEntry(a, fine.clam).infected = ClamEntry(a, m.clam).infected
             /\ ClamEntry(a, m.clam).infected = FALSE
  BY <1>1 DEF ClamEntry
<1>4. FileSources(fine, f, asked) = FileSources(m, f, asked)
  <2>1. CASE Works(f)
    BY <1>1, <1>2, <1>3, <2>1 DEF FileSources
  <2>2. CASE ~Works(f)
    <3>1. (asked /\ Works(f)) = FALSE
      BY <2>2
    <3>. QED
      BY <1>1, <1>2, <1>3, <2>2, <3>1 DEF FileSources
  <2>. QED
    BY <2>1, <2>2
<1>5. Bonus(fine, f) = Bonus(m, f)
  BY <1>2 DEF Bonus
<1>6. CenterScores(fine, f, asked) = CenterScores(m, f, asked)
  BY <1>4, <1>5 DEF CenterScores
<1>7. CenterReports(m, f, asked, there, hashed, cancelled)
        = CenterReports(fine, f, asked, there, hashed, cancelled)
  <2>1. \A s : Scored(m, f, asked, s) = Scored(fine, f, asked, s)
    BY <1>4 DEF Scored
  <2>. QED
    BY <1>6, <2>1 DEF CenterReports
<1>8. Points(fine, f, ClamEntry(asked, fine.clam)) = Points(m, f, ClamEntry(asked, m.clam))
  BY <1>2, <1>3 DEF Points
<1> DEFINE scores == ScanScores(Points(m, f, ClamEntry(asked, m.clam)), AiAnswers(m, f),
                                Clip(m.ai.score), FALSE)
<1>9. CASE Works(f)
  <2>1. /\ Scans(m, f, asked) = {Scanned(m, f, ClamEntry(asked, m.clam), s) : s \in scores}
        /\ Scans(fine, f, asked)
             = {Scanned(fine, f, ClamEntry(asked, fine.clam), s) : s \in scores}
    BY <1>1, <1>2, <1>3, <1>8, <1>9 DEF Scans
  <2> HIDE DEF scores
  <2>2. \A s : Alike(Scanned(m, f, ClamEntry(asked, m.clam), s),
                    Scanned(fine, f, ClamEntry(asked, fine.clam), s))
    BY DEF Scanned, Alike
  <2>3. \A r \in Scans(m, f, asked) : \E q \in Scans(fine, f, asked) : Alike(r, q)
    BY <2>1, <2>2
  <2>4. \A q \in Scans(fine, f, asked) : \E r \in Scans(m, f, asked) : Alike(r, q)
    BY <2>1, <2>2
  <2>. QED
    BY <1>7, <2>3, <2>4 DEF fine
<1>10. CASE ~Works(f)
  <2>1. ASSUME NEW n
        PROVE  /\ \A r \in Scans(n, f, asked) :
                    r.label = "unknown" /\ r.score = 0 /\ r.decision = Unscanned
               /\ \E r \in Scans(n, f, asked) : TRUE
    <3> DEFINE none == [label |-> "unknown", score |-> 0, clam |-> ClamEntry(FALSE, n.clam),
                        signature |-> "unknown", decision |-> Unscanned]
    <3>1. Scans(n, f, asked) = {none}
      BY <1>10 DEF Scans
    <3>2. none.label = "unknown" /\ none.score = 0 /\ none.decision = Unscanned
      OBVIOUS
    <3> HIDE DEF none
    <3>. QED
      BY <3>1, <3>2
  <2>2. \A r \in Scans(m, f, asked), q \in Scans(fine, f, asked) : Alike(r, q)
    BY <2>1 DEF Alike
  <2>3. /\ \E r \in Scans(m, f, asked) : TRUE
        /\ \E q \in Scans(fine, f, asked) : TRUE
    BY <2>1
  <2>. QED
    BY <1>7, <2>2, <2>3 DEF fine
<1>. QED
  BY <1>9, <1>10

\* Static pipeline: a file ClamAV detects is called at least likely malicious
\* whatever the AI says, whoever signed it and however the floats round: the
\* discount for a signature is never given (controller.py:355-364, 649-652, 943-945).
THEOREM DetectedIsLikelyMalicious ==
  ASSUME NEW m \in Hosts, NEW f \in Files, Works(f), m.clam = "infected",
         NEW r \in CenterReports(m, f, TRUE, TRUE, TRUE, FALSE)
  PROVE  r.score >= 43 /\ r.label \in {"Likely Malicious", "Malicious"} /\ r.advice = "remove"
<1> DEFINE src == FileSources(m, f, TRUE)
           exact == Weighted(src.clam, src.ai, src.box) + 100 * Bonus(m, f)
<1>1. \A n \in Int : Clip(n) \in 0 .. 100 /\ (n >= 43 => Clip(n) >= 43)
  BY DEF Clip, AtMost
<1>2. src.clam = [active |-> TRUE, score |-> 80] /\ src.box.active = FALSE
  BY DEF FileSources, ClamEntry, StaticClamScore, If
<1>3. src.ai.active \in BOOLEAN /\ src.ai.score \in 0 .. 100
  <2>1. Clip(m.ai.score) \in 0 .. 100
    BY <1>1 DEF Hosts
  <2>2. AiAnswers(m, f) \in BOOLEAN
    BY DEF AiAnswers, IsPe, Hosts, Files
  <2>. QED
    BY <2>1, <2>2 DEF FileSources, If
<1>4. Bonus(m, f) \in Nat
  BY BonusNat
<1> HIDE DEF src
<1>5. Weighted(src.clam, src.ai, src.box) \in Int /\ Weighted(src.clam, src.ai, src.box) >= 4400
  <2>1. CASE src.ai.active
    BY <1>2, <1>3, <2>1 DEF Weighted
  <2>2. CASE ~src.ai.active
    BY <1>2, <1>3, <2>2 DEF Weighted
  <2>. QED
    BY <1>3, <2>1, <2>2
<1>6. exact \in Int /\ exact >= 4400
  BY <1>4, <1>5
<1>7. Bonus(m, f) - 0 = Bonus(m, f)
  BY <1>4, NothingOff
<1>8. \A s \in CenterScores(m, f, TRUE) : \E t \in Truncated(exact, 100) : s = Clip(t)
  BY <1>7, NoDiscount DEF CenterScores, StaticScores, src
<1> HIDE DEF exact
<1>9. \A t \in Truncated(exact, 100) : t \in Int /\ t >= 43
  BY <1>6 DEF Truncated
<1>10. \A s \in CenterScores(m, f, TRUE) : s \in 43 .. 100
  <2>1. ASSUME NEW s \in CenterScores(m, f, TRUE)
        PROVE  s \in 43 .. 100
    <3>1. PICK t \in Truncated(exact, 100) : s = Clip(t)
      BY <1>8
    <3>2. t \in Int /\ t >= 43
      BY <1>9
    <3>3. Clip(t) \in 0 .. 100 /\ Clip(t) >= 43
      BY <1>1, <3>2
    <3>. QED
      BY <3>1, <3>3
  <2>. QED
    BY <2>1
<1>11. \A s \in 43 .. 100 : CenterLabel(s) \in {"Likely Malicious", "Malicious"}
  BY DEF CenterLabel
<1>12. \A l \in {"Likely Malicious", "Malicious"} : Recommendation(CenterRisk(l)) = "remove"
  BY DEF CenterRisk, Recommendation
<1>13. PICK s \in CenterScores(m, f, TRUE) :
         /\ r.score = s /\ r.label = CenterLabel(s)
         /\ r.advice = Recommendation(CenterRisk(CenterLabel(s)))
  BY ScoredReport
<1>14. s \in 43 .. 100
  BY <1>10
<1>15. CenterLabel(s) \in {"Likely Malicious", "Malicious"}
  BY <1>11, <1>14
<1>16. Recommendation(CenterRisk(CenterLabel(s))) = "remove"
  BY <1>12, <1>15
<1>17. r.score >= 43
  BY <1>13, <1>14
<1>18. r.label \in {"Likely Malicious", "Malicious"}
  BY <1>13, <1>15
<1>19. r.advice = "remove"
  BY <1>13, <1>16
<1>. QED
  BY <1>17, <1>18, <1>19

\* Without the PE parser nothing in a program counts but what the AI makes of its
\* extension or first bytes: an undetected one that is no script is blocked only
\* if the AI gives it the full 100 points (static_scanner.py:536-541, 1007-1012).
THEOREM UnparsedProgram ==
  ASSUME NEW m \in Hosts, NEW f \in Files, NEW asked \in BOOLEAN, ~m.pefile,
         ScriptFinds(f) = 0, m.clam # "infected", NEW r \in Scans(m, f, asked)
  PROVE  /\ r.score <= 60
         /\ r.decision.action = "block" => AiAnswers(m, f) /\ m.ai.score >= 100
<1>1. CASE Works(f)
  <2> DEFINE clam == ClamEntry(asked, m.clam)
             ai == Clip(m.ai.score)
  <2>1. clam.infected = FALSE
    BY DEF ClamEntry
  <2>2. Points(m, f, clam) = 0
    BY <2>1 DEF Points, Parsed, If
  <2>3. ai \in 0 .. 100 /\ (ai = 100 => m.ai.score >= 100)
    <3>1. m.ai.score \in Int
      BY DEF Hosts
    <3>2. \A n \in Int : Clip(n) \in 0 .. 100 /\ (Clip(n) = 100 => n >= 100)
      BY DEF Clip, AtMost
    <3>. QED
      BY <3>1, <3>2
  <2> HIDE DEF ai, clam
  <2>4. PICK s \in ScanScores(0, AiAnswers(m, f), ai, FALSE) :
          /\ r.score = s
          /\ r.decision = FinalDecision(s, FALSE, "none", "unnamed", "static", BlockThreshold)
    <3>1. r \in {Scanned(m, f, clam, s) : s \in ScanScores(0, AiAnswers(m, f), ai, FALSE)}
      BY <1>1, <2>1, <2>2 DEF Scans, clam, ai
    <3>2. PICK s \in ScanScores(0, AiAnswers(m, f), ai, FALSE) : r = Scanned(m, f, clam, s)
      BY <3>1
    <3>. QED
      BY <3>2 DEF Scanned
  <2>5. AiAnswers(m, f) \in BOOLEAN
    BY DEF AiAnswers, IsPe, Hosts, Files
  <2>6. s \in 0 .. 60 /\ (s = 60 => AiAnswers(m, f) /\ ai = 100)
    <3>1. CASE AiAnswers(m, f)
      <4>1. PICK b \in Truncated(6 * ai + 4 * 0, 10) : s = AtMost(100, b)
        BY <2>4, <3>1 DEF ScanScores
      <4>2. b \in 0 .. 60 /\ (b = 60 => ai = 100)
        BY <2>3, <4>1 DEF Truncated
      <4>. QED
        BY <3>1, <4>1, <4>2 DEF AtMost
    <3>2. CASE ~AiAnswers(m, f)
      BY <2>4, <3>2 DEF ScanScores, AtMost
    <3>. QED
      BY <3>1, <3>2
  <2>7. r.decision.action = "block" => s >= 60
    BY <2>4, <2>6 DEF FinalDecision, Clip, AtMost, BlockThreshold
  <2>8. s <= 60
    BY <2>6
  <2>9. r.decision.action = "block" => AiAnswers(m, f) /\ m.ai.score >= 100
    <3>1. r.decision.action = "block" => s = 60
      BY <2>6, <2>7
    <3>. QED
      BY <2>3, <2>6, <3>1
  <2>. QED
    BY <2>4, <2>8, <2>9
<1>2. CASE ~Works(f)
  <2>1. r.score = 0 /\ r.decision = Unscanned
    BY <1>2 DEF Scans
  <2>. QED
    BY <2>1 DEF Unscanned, FinalDecision
<1>. QED
  BY <1>1, <1>2

\* What the pipeline counts as an indicator the scanner may have thrown out: it
\* keeps every loopback and multicast address but three, and drops all of 169.x
\* where the scanner drops the link-local ones (controller.py:112-124, 155-161;
\* static_scanner.py:798-824).
THEOREM IndicatorsDisagree ==
  ASSUME NEW p \in Ips
  PROVE  /\ ScannerKeeps(p) => ControllerKeeps(p) \/ p.a = 169
         /\ p.a \in {127} \cup 224 .. 255 /\ (\A n \in Skipped : ~Same(p, n))
              => ControllerKeeps(p) /\ ~ScannerKeeps(p)
<1>1. p.a \in 0 .. 255 /\ p.b \in 0 .. 255
  BY DEF Ips, Octet
<1>2. \A n \in Skipped : n[1] \in {0, 127, 255}
  BY DEF Skipped
<1>3. ASSUME ScannerKeeps(p), p.a # 169
      PROVE  ControllerKeeps(p)
  <2>1. p.a \notin {0, 10, 127} /\ p.a < 224
    BY <1>3 DEF ScannerKeeps
  <2>2. \A n \in Skipped : ~Same(p, n)
    BY <1>2, <2>1 DEF Same
  <2>. QED
    BY <1>3, <2>1, <2>2 DEF ControllerKeeps, ScannerKeeps
<1>4. ASSUME p.a \in {127} \cup 224 .. 255, \A n \in Skipped : ~Same(p, n)
      PROVE  ControllerKeeps(p) /\ ~ScannerKeeps(p)
  BY <1>1, <1>4 DEF ControllerKeeps, ScannerKeeps
<1>. QED
  BY <1>3, <1>4

------------------------------------------------------------------------------
\* Integrated scan: from what the static scanner provides, findings alone
\* make no file "malicious", and a PE needs the AI's opinion for that even
\* with the sandbox's.
THEOREM FindingsAloneAreNotMalicious ==
  ASSUME NEW f, NEW r, FromScanner(f), f.isPe \in BOOLEAN, FromSandbox(r),
         r.success \in BOOLEAN,
         ~r.success \/ (f.isPe /\ f.ai = 0)
  PROVE  IntegratedScore(f, r) <= 70 /\ ScoringBand(IntegratedScore(f, r)) # "malicious"
<1>1. \A n \in Int, c \in Nat : AtMost(c, n) \in Int /\ AtMost(c, n) <= c
  BY DEF AtMost
<1>2. PePoints(f) = 0
  BY DEF PePoints, FromScanner, If, AtMost
<1>3. IocPoints(f) \in Int /\ IocPoints(f) <= IF f.isPe THEN 10 ELSE 30
  BY DEF IocPoints, FromScanner, AtMost
<1>4. f.ai \div 2 \in Int /\ f.ai \div 2 <= 50 /\ (f.ai = 0 => f.ai \div 2 = 0)
  BY DEF FromScanner
<1>5. FilePoints(f) \in Int /\ FilePoints(f) <= 60 /\ (f.isPe /\ f.ai = 0 => FilePoints(f) <= 10)
  BY <1>2, <1>3, <1>4 DEF FilePoints, FromScanner
<1>6. RunPoints(r) \in Int /\ RunPoints(r) <= 60
  BY DEF RunPoints, FromSandbox, If, AtMost
<1>7. FilePoints(f) + If(r.success, RunPoints(r)) \in Int
      /\ FilePoints(f) + If(r.success, RunPoints(r)) <= 70
  BY <1>5, <1>6 DEF If
<1>8. \A n \in Int : n <= 70 => Clip(n) \in Int /\ Clip(n) <= 70
  BY DEF Clip, AtMost
<1>9. IntegratedScore(f, r) \in Int /\ IntegratedScore(f, r) <= 70
  BY <1>7, <1>8 DEF IntegratedScore
<1>. QED
  BY <1>9 DEF ScoringBand

------------------------------------------------------------------------------
Urls == [points : Nat, domains : Nat, https : BOOLEAN, allowlisted : BOOLEAN,
         blocked : BOOLEAN, flagged : BOOLEAN, foundClean : BOOLEAN]

LEMMA UrlPointsNat == \A u \in Urls : UrlPoints(u) \in Nat
BY DEF UrlPoints, Urls, If, AtMost

\* Safe Browsing outranks the list of trusted domains, and that list outranks
\* every other finding: "Allowlisted domains cap heuristic score at 10
\* (unless GSB flags them)" (url_scoring.py:14).
THEOREM UrlPrecedence ==
  ASSUME NEW u \in Urls, ~u.blocked
  PROVE  /\ u.flagged => UrlVerdict(u) = "malicious" /\ UrlScore(u) = 100
         /\ ~u.flagged /\ u.allowlisted => UrlVerdict(u) = "safe" /\ UrlScore(u) <= 10
<1>1. UrlPoints(u) \in Nat
  BY UrlPointsNat
<1>. QED
  BY <1>1 DEF UrlVerdict, UrlScore, ScoringBand, Clip, AtMost

\* More evidence never lowers a score, with or without the discount for a
\* URL the remote list found clean; and such a URL is called malicious only
\* from 134 points on.
THEOREM UrlEvidenceIsMonotone ==
  ASSUME NEW u \in Urls, NEW more \in Nat
  PROVE  /\ UrlScore(u) <= UrlScore([u EXCEPT !.points = @ + more])
         /\ ~u.flagged /\ ~u.blocked /\ u.foundClean /\ UrlVerdict(u) = "malicious"
              => UrlPoints(u) >= 134
<1> DEFINE v == [u EXCEPT !.points = @ + more]
<1>1. v \in Urls
  BY DEF Urls
<1>2. UrlPoints(u) \in Nat /\ UrlPoints(v) \in Nat
  BY <1>1, UrlPointsNat
<1>3. /\ v.blocked = u.blocked /\ v.flagged = u.flagged
      /\ v.allowlisted = u.allowlisted /\ v.foundClean = u.foundClean
      /\ v.domains = u.domains /\ v.https = u.https
      /\ v.points = u.points + more
  BY DEF Urls
<1>4. UrlPoints(v) = UrlPoints(u) + more
  BY <1>3 DEF UrlPoints, Urls, If, AtMost
<1>5. \A p \in Nat, q \in Nat : p <= q => p - (4 * p) \div 10 <= q - (4 * q) \div 10
  OBVIOUS
<1>6. \A p \in Nat : p - (4 * p) \div 10 \in Int
  OBVIOUS
<1>7. \A p \in Int, q \in Int : p <= q => Clip(p) <= Clip(q) /\ Clip(AtMost(10, p)) <= Clip(AtMost(10, q))
  BY DEF Clip, AtMost
<1>8. UrlScore(u) <= UrlScore(v)
  <2>1. CASE u.blocked \/ u.flagged
    BY <2>1, <1>3 DEF UrlScore
  <2>2. CASE ~u.blocked /\ ~u.flagged /\ u.allowlisted
    BY <2>2, <1>2, <1>3, <1>4, <1>7 DEF UrlScore
  <2>3. CASE ~u.blocked /\ ~u.flagged /\ ~u.allowlisted /\ u.foundClean
    <3>1. UrlScore(u) = Clip(UrlPoints(u) - (4 * UrlPoints(u)) \div 10)
          /\ UrlScore(v) = Clip(UrlPoints(v) - (4 * UrlPoints(v)) \div 10)
      BY <2>3, <1>3 DEF UrlScore
    <3>2. UrlPoints(u) - (4 * UrlPoints(u)) \div 10 <= UrlPoints(v) - (4 * UrlPoints(v)) \div 10
      BY <1>2, <1>4, <1>5
    <3>. QED
      BY <3>1, <3>2, <1>2, <1>6, <1>7
  <2>4. CASE ~u.blocked /\ ~u.flagged /\ ~u.allowlisted /\ ~u.foundClean
    BY <2>4, <1>2, <1>3, <1>4, <1>7 DEF UrlScore
  <2>. QED
    BY <2>1, <2>2, <2>3, <2>4
<1>9. ASSUME ~u.flagged, ~u.blocked, u.foundClean, UrlVerdict(u) = "malicious"
      PROVE  UrlPoints(u) >= 134
  <2>1. UrlScore(u) \in Int /\ UrlScore(u) > 80
    <3>1. UrlScore(u) \in Int
      BY <1>2, <1>6 DEF UrlScore, Clip, AtMost
    <3>. QED
      BY <3>1, <1>9 DEF UrlVerdict, ScoringBand
  <2>2. ~u.allowlisted
    BY <1>2, <1>9, <2>1 DEF UrlScore, Clip, AtMost
  <2>3. Clip(UrlPoints(u) - (4 * UrlPoints(u)) \div 10) > 80
    BY <1>9, <2>1, <2>2 DEF UrlScore
  <2>4. UrlPoints(u) - (4 * UrlPoints(u)) \div 10 > 80
    BY <2>3, <1>2, <1>6 DEF Clip, AtMost
  <2>. QED
    BY <2>4, <1>2
<1>. QED
  BY <1>8, <1>9

Reports == [judged : BOOLEAN, score : Int, alerts : Nat, processes : Nat, files : Nat,
            registry : Nat, network : Nat, errors : Nat]

\* Alerts weigh less than traces: a run in the guest with nothing but alerts is
\* called benign for one of them and inconclusive for any number more, and no
\* number of alerts and processes makes a run malicious that left no files,
\* registry entries or connections.
THEOREM AlertsAreNotEnough ==
  ASSUME NEW r \in Reports, ~r.judged, r.files = 0, r.registry = 0, r.network = 0
  PROVE  /\ ReportVerdict(r) # "Malicious"
         /\ r.alerts > 0 /\ r.processes = 0 /\ r.errors = 0 =>
              ReportVerdict(r) = IF r.alerts = 1 THEN "Benign" ELSE "Inconclusive"
<1>1. /\ r.alerts \in Nat /\ r.processes \in Nat /\ r.errors \in Nat
  BY DEF Reports
<1>2. ReportScore(r) = AtMost(25, 8 * r.alerts) + AtMost(20, 4 * r.processes)
                       + AtMost(10, 4 * r.errors)
  BY <1>1 DEF ReportScore, AtMost
<1>3. ReportScore(r) \in Nat /\ ReportScore(r) <= 55
  BY <1>1, <1>2 DEF AtMost
<1>4. ReportVerdict(r) # "Malicious"
  BY <1>3 DEF ReportVerdict
<1>5. ASSUME r.alerts > 0, r.processes = 0, r.errors = 0
      PROVE  ReportVerdict(r) = IF r.alerts = 1 THEN "Benign" ELSE "Inconclusive"
  <2>1. ReportScore(r) = AtMost(25, 8 * r.alerts)
    BY <1>1, <1>2, <1>5 DEF AtMost
  <2>2. ReportScore(r) \in 8 .. 25 /\ (ReportScore(r) <= 15 <=> r.alerts = 1)
    BY <1>1, <1>5, <2>1 DEF AtMost
  <2>3. r.alerts + r.processes # 0
    BY <1>1, <1>5
  <2>4. ReportVerdict(r) = IF ReportScore(r) <= 15 THEN "Benign" ELSE "Inconclusive"
    BY <2>2, <2>3 DEF ReportVerdict
  <2>. QED
    BY <2>2, <2>4
<1>. QED
  BY <1>4, <1>5

\* A run the report lists no alert and no process of is inconclusive, whatever
\* else it did and whatever score the report brings with it.
THEOREM UnseenRunIsInconclusive ==
  ASSUME NEW r \in Reports, r.alerts = 0, r.processes = 0
  PROVE  ReportVerdict(r) = "Inconclusive"
BY DEF ReportVerdict

------------------------------------------------------------------------------
\* What protection enforces (Enforcement).

\* A process is killed only for a decision that blocks, of a scan that did
\* not fail, and never a helper's.  Without an override the score has reached
\* the threshold, the file is not protected, and ClamAV has detected it if its
\* signature is valid.  A file is quarantined on strong evidence only.
THEOREM KillsAreFounded ==
  ASSUME NEW place \in Places, NEW signature \in Signatures, NEW strong \in BOOLEAN,
         NEW score \in Int, NEW failed \in BOOLEAN, NEW explicit, NEW source
  PROVE  LET d == FinalDecision(score, failed, explicit, source, "static", BlockThreshold)
             plan == Plan(place, d, signature, strong)
         IN /\ plan.file = "quarantine_file" => plan.process = "kill_process" /\ strong
            /\ plan.process = "kill_process" =>
                  /\ ~failed /\ ~place.helper /\ d.action = "block"
                  /\ \/ Overridden(d)
                     \/ /\ d.score >= BlockThreshold /\ d.verdict = "malicious"
                        /\ ~ProtectedInstall(place, signature)
                        /\ signature = "valid" => strong
<1> DEFINE d == FinalDecision(score, failed, explicit, source, "static", BlockThreshold)
<1> DEFINE plan == Plan(place, d, signature, strong)
<1>1. plan.file = "quarantine_file" => plan.process = "kill_process" /\ strong
  BY DEF Plan
<1>2. ASSUME plan.process = "kill_process"
      PROVE  d.action = "block" /\ ~Downgrades(place, d, signature, strong)
  BY <1>2 DEF Plan
<1>3. d.action = "block" => ~failed
  BY DEF FinalDecision
<1>4. d.score \in 0 .. 100 /\ (~failed => d.verdict = StaticBand(d.score))
  BY ClipRange DEF FinalDecision, ScoreBand
<1>5. ASSUME ~failed, d.verdict \notin {"safe", "suspicious"}
      PROVE  d.score >= BlockThreshold /\ d.verdict = "malicious"
  BY <1>4, <1>5 DEF StaticBand, BlockThreshold
<1>. QED
  BY <1>1, <1>2, <1>3, <1>5 DEF Downgrades, Supports

\* Only "block" is enforced: an override that forces another action, such as
\* quarantine, allows the process and leaves the file, whatever the score.
THEOREM OnlyBlockIsEnforced ==
  ASSUME NEW place, NEW signature, NEW strong, NEW score \in Int,
         NEW explicit, explicit \notin {"none", "allow", "block"}
  PROVE  LET d == FinalDecision(score, FALSE, explicit, "unnamed", "static", BlockThreshold)
             plan == Plan(place, d, signature, strong)
         IN Overridden(d) /\ plan.process = "allow" /\ plan.file = "allow"
BY DEF FinalDecision, Plan, Overridden

\* A file that ClamAV detects is killed and quarantined, whatever its findings
\* and the AI say, unless it is a helper or protected: then it is only logged.
THEOREM DetectedIsStopped ==
  ASSUME NEW place \in Places, NEW signature \in Signatures,
         NEW points \in Nat, NEW answered \in BOOLEAN, NEW ai \in 0 .. 100,
         NEW s \in ScanScores(points, answered, ai, TRUE),
         NEW source, source # "explicit_override"
  PROVE  LET d == FinalDecision(s, FALSE, "none", source, "static", BlockThreshold)
             plan == Plan(place, d, signature, StrongEvidence(d, TRUE))
         IN IF place.helper \/ ProtectedInstall(place, signature)
            THEN plan.process = "log_only" /\ plan.file = "allow"
            ELSE plan.process = "kill_process" /\ plan.file = "quarantine_file"
<1> DEFINE d == FinalDecision(s, FALSE, "none", source, "static", BlockThreshold)
<1>1. d.action = "block" /\ d.verdict = "malicious"
  BY DetectedIsBlocked
<1>2. s \in 0 .. 100
  BY LabelsAgree
<1>3. d.score = s /\ d.source # "explicit_override"
  BY <1>2, ClipRange DEF FinalDecision
<1>4. s > 0
  <2>1. d.verdict = StaticBand(d.score)
    BY DEF FinalDecision, ScoreBand
  <2>2. StaticBand(s) = "malicious"
    BY <2>1, <1>1, <1>3
  <2>. QED
    BY <2>2, <1>2 DEF StaticBand
<1>5. Supports(d) /\ ~Overridden(d) /\ StrongEvidence(d, TRUE)
  BY <1>1, <1>3, <1>4 DEF Supports, Overridden, StrongEvidence
<1>6. Downgrades(place, d, signature, TRUE)
         <=> place.helper \/ ProtectedInstall(place, signature)
  BY <1>5 DEF Downgrades
<1>. QED
  BY <1>1, <1>5, <1>6 DEF Plan

\* An unsigned file in the Windows directory is out of reach without an
\* override: that nothing is known of its signature protects it as a valid
\* one would, from the process scanner also when ClamAV detects it, and from
\* every request to the vault.
THEOREM UnsignedSystemFileStays ==
  ASSUME NEW place \in Places, InSystem(place), NEW d, ~Overridden(d), NEW strong
  PROVE  LET signature == KnownSignature(place, d, "unknown", "unknown")
         IN /\ Plan(place, d, signature, strong).process \in {"allow", "log_only"}
            /\ Plan(place, d, signature, strong).file = "allow"
            /\ \A request : ~request.allowed /\ ~request.override =>
                  ~VaultTakes(place, VaultSignature(place, signature, "unknown"), request)
<1> DEFINE signature == KnownSignature(place, d, "unknown", "unknown")
<1>1. signature = "unknown" /\ VaultSignature(place, signature, "unknown") = "unknown"
  BY DEF KnownSignature, VaultSignature
<1>2. ProtectedInstall(place, signature) /\ ProtectedBinary(place, "unknown")
  BY <1>1 DEF ProtectedInstall, ProtectedBinary, InSystem
<1>3. Downgrades(place, d, signature, strong)
  BY <1>2 DEF Downgrades
<1>. QED
  BY <1>1, <1>2, <1>3 DEF Plan, VaultTakes

\* What the plan quarantines the vault takes, with one exception: a file under
\* an install root whose signature the plan did not know and the vault, which
\* probes again, finds valid.  Its process is dead by then.
THEOREM VaultTakesWhatIsPlanned ==
  ASSUME NEW place \in Places, NEW signature \in Signatures, NEW probed \in Signatures,
         NEW strong \in BOOLEAN, NEW d, d.action = "block",
         Plan(place, d, signature, strong).file = "quarantine_file"
  PROVE  VaultTakes(place, VaultSignature(place, signature, probed),
                    Request(Plan(place, d, signature, strong), d, strong))
         <=> \/ Overridden(d)
             \/ ~( /\ place.windows /\ ~place.system /\ place.install
                   /\ signature = "unknown" /\ probed = "valid")
<1> DEFINE plan == Plan(place, d, signature, strong)
<1> DEFINE request == Request(plan, d, strong)
<1> DEFINE seen == VaultSignature(place, signature, probed)
<1>1. plan.action = "block" /\ ~Downgrades(place, d, signature, strong)
  BY DEF Plan
<1>2. /\ request.from = "rtp" /\ request.action = "block" /\ request.score = d.score
      /\ request.verdict = d.verdict /\ request.file = "quarantine_file"
      /\ request.override = Overridden(d) /\ request.allowed = Overridden(d)
  BY <1>1 DEF Request
<1>3. Complete(request)
  BY <1>1, <1>2 DEF Complete, Downgrades, Supports
<1>4. ~WeakOnSystemFile(place, seen, request)
  BY <1>2 DEF WeakOnSystemFile, ByHand
<1>5. VaultTakes(place, seen, request) <=> (ProtectedBinary(place, seen) => Overridden(d))
  BY <1>2, <1>3, <1>4 DEF VaultTakes
<1>6. CASE Overridden(d)
  BY <1>5, <1>6
<1>7. CASE ~Overridden(d)
  <2>1. ~ProtectedInstall(place, signature)
    BY <1>1, <1>7 DEF Downgrades
  <2>2. /\ InSystem(place) => signature = "invalid"
        /\ place.install => signature # "valid"
    BY <2>1 DEF ProtectedInstall
  <2>3. ProtectedBinary(place, seen)
           <=> /\ place.windows /\ ~place.system /\ place.install
               /\ signature = "unknown" /\ probed = "valid"
    BY <2>2 DEF ProtectedBinary, VaultSignature, InSystem, Signatures, Places
  <2>. QED
    BY <2>3, <1>5, <1>7
<1>. QED
  BY <1>6, <1>7

------------------------------------------------------------------------------
\* What the history shows of it.

\* Whatever was logged only is shown as a protected app, also what was neither
\* protected nor signed but decided incompletely: the reason always names the
\* fields whose names are looked for, so that "logged" is never shown.
THEOREM LoggedIsShownProtected ==
  ASSUME NEW place, NEW d, NEW signature, NEW strong, NEW cached, NEW file, NEW words,
         SummaryWords \subseteq words,
         NEW result \in ProcessResults(Plan(place, d, signature, strong), cached)
  PROVE  LET plan == Plan(place, d, signature, strong)
             outcome == Outcome(plan, result, file, words)
         IN /\ plan.process = "log_only" => outcome = "Allowed: protected app"
            /\ outcome # "Allowed: logged"
<1> DEFINE plan == Plan(place, d, signature, strong)
<1>1. plan.process \in {"allow", "log_only", "kill_process"}
  BY DEF Plan
<1>2. words \cap ProtectedWords # {}
  BY DEF SummaryWords, ProtectedWords
<1>3. ASSUME plan.process = "log_only" PROVE result = "logged_only"
  BY <1>3 DEF ProcessResults
<1>. QED
  BY <1>2, <1>3 DEF Outcome

\* A kill that was tried and failed.  On strong evidence the incident is still
\* shown as malicious, though the history promises that word only for what was
\* destroyed (unified_history.py:554); on the score alone it counts as downgraded
\* by a guardrail that never acted.
THEOREM FailedKillIsShownByEvidence ==
  ASSUME NEW place, NEW d, d.verdict \in {"malicious", "likely_malicious"},
         NEW signature, NEW strong \in BOOLEAN, NEW cached,
         Plan(place, d, signature, strong).process = "kill_process",
         NEW result \in ProcessResults(Plan(place, d, signature, strong), cached),
         result # "terminated",
         NEW file \in FileResults(Plan(place, d, signature, strong), result)
  PROVE  LET plan == Plan(place, d, signature, strong)
         IN IF strong
            THEN /\ ShownVerdict(d, plan, result, file) = d.verdict
                 /\ ~GuardrailDowngraded(plan, result, file)
            ELSE /\ ShownVerdict(d, plan, result, file) = "suspicious"
                 /\ GuardrailDowngraded(plan, result, file)
<1> DEFINE plan == Plan(place, d, signature, strong)
<1>1. plan.action = "block" /\ plan.file = IF strong THEN "quarantine_file" ELSE "allow"
  BY DEF Plan
<1>2. file = IF strong THEN "skipped_process_not_terminated" ELSE "guardrail_allow"
  BY <1>1 DEF FileResults
<1>3. result \notin {"logged_only", "allowed"}
  BY DEF ProcessResults, KillResults
<1>. QED
  BY <1>1, <1>2, <1>3 DEF ShownVerdict, GuardrailDowngraded, Destroyed

\* The outcomes that claim a success are true; the one that names a guardrail
\* is shown for no guardrail, but for kills that failed or came too late.
THEOREM OutcomesTell ==
  ASSUME NEW place, NEW d, NEW signature, NEW strong \in BOOLEAN, NEW cached, NEW words,
         NEW result \in ProcessResults(Plan(place, d, signature, strong), cached),
         NEW file \in FileResults(Plan(place, d, signature, strong), result)
  PROVE  LET outcome == Outcome(Plan(place, d, signature, strong), result, file, words)
         IN /\ outcome = "Quarantined" <=> file = "quarantined"
            /\ outcome \in {"Quarantined", "Blocked"} <=> result = "terminated"
            /\ outcome = "Allowed: guardrail"
                  <=> /\ result \in {"already_exited", "failed_to_terminate"}
                      /\ ~strong
<1> DEFINE plan == Plan(place, d, signature, strong)
<1>1. CASE plan.process = "kill_process"
  <2>1. plan.action = "block" /\ plan.file = IF strong THEN "quarantine_file" ELSE "allow"
    BY <1>1 DEF Plan
  <2>2. result \in KillResults(cached)
    BY <1>1 DEF ProcessResults
  <2>3. file \in IF ~strong THEN {"guardrail_allow"}
                 ELSE IF result # "terminated" THEN {"skipped_process_not_terminated"}
                 ELSE {"quarantined", "quarantine_failed"}
    BY <2>1 DEF FileResults
  <2>. QED
    BY <1>1, <2>1, <2>2, <2>3 DEF Outcome, KillResults
<1>2. CASE plan.process = "log_only"
  <2>1. plan.file = "allow" /\ plan.action = "block"
    BY <1>2 DEF Plan
  <2>2. result = "logged_only" /\ file = "guardrail_allow"
    BY <1>2, <2>1 DEF ProcessResults, FileResults
  <2>. QED
    BY <1>2, <2>2 DEF Outcome
<1>3. CASE plan.process = "allow"
  <2>1. plan.file = "allow" /\ plan.action # "block"
    BY <1>3 DEF Plan
  <2>2. result = "allowed" /\ file = "allowed"
    BY <1>3, <2>1 DEF ProcessResults, FileResults
  <2>. QED
    BY <1>3, <2>2 DEF Outcome
<1>. QED
  BY <1>1, <1>2, <1>3 DEF Plan
------------------------------------------------------------------------------
\* What the security tab says of the machine.

LEMMA UpdatesCard ==
  ASSUME NEW m \in Machines
  PROVE  /\ Updates(m) = "Up to date" <=> ~m.restart /\ m.pending = 0 /\ m.installed
         /\ Updates(m) # "Out of date"
<1>1. m.pending \in Nat
  BY DEF Machines
<1>2. CASE m.restart
  BY <1>2 DEF Updates, UpdateStatus
<1>3. CASE ~m.restart /\ m.pending > 0
  BY <1>3 DEF Updates, UpdateStatus
<1>4. CASE ~m.restart /\ ~(m.pending > 0)
  <2>1. m.pending = 0
    BY <1>1, <1>4
  <2>. QED
    BY <1>4, <2>1 DEF Updates, UpdateStatus
<1>. QED
  BY <1>2, <1>3, <1>4

LEMMA DeviceCard ==
  ASSUME NEW m \in Machines
  PROVE  Device(m) \in {"Strong", "Unavailable"} <=> "off" \notin {m.tpm, m.boot, m.disk}
BY DEF Device, Hardening

LEMMA RemoteCard ==
  ASSUME NEW m \in Machines
  PROVE  Remote(m) \in {"Safe", "Unavailable"}
         <=> /\ m.rdp # "on" /\ ~(m.counted /\ m.admins > 2)
             /\ m.uac \notin {"Disabled", "Low"} /\ m.smartScreen # "off"
<1>1. Risk(m) = 0 <=> /\ m.rdp # "on" /\ ~(m.counted /\ m.admins > 2)
                      /\ m.uac \notin {"Disabled", "Low"} /\ m.smartScreen # "off"
  BY DEF Risk
<1>. QED
  BY <1>1 DEF Remote

\* The headline is red exactly when one of the two controls reads off, and
\* "Protected" exactly when both read on, an install of updates is known and
\* nothing else reads bad: "Critical: firewall OR antivirus off = At risk"
\* (security_info.py:1254).
THEOREM HeadlineTells ==
  ASSUME NEW m \in Machines
  PROVE  /\ Overall(m) = "At risk" <=> m.firewall = "off" \/ m.antivirus = "off"
         /\ Overall(m) = "Protected"
              <=> /\ m.firewall = "on" /\ m.antivirus = "on"
                  /\ ~m.restart /\ m.pending = 0 /\ m.installed
                  /\ "off" \notin {m.tpm, m.boot, m.disk}
                  /\ m.rdp # "on" /\ ~(m.counted /\ m.admins > 2)
                  /\ m.uac \notin {"Disabled", "Low"} /\ m.smartScreen # "off"
<1>1. Internet(m) = "On" <=> m.firewall = "on" /\ m.antivirus = "on"
  <2>1. {m.firewall, m.antivirus} = {"on"} <=> m.firewall = "on" /\ m.antivirus = "on"
    OBVIOUS
  <2>. QED
    BY <2>1 DEF Internet
<1>. QED
  BY <1>1, UpdatesCard, DeviceCard, RemoteCard DEF Overall

\* Whatever else fails to answer, the search for updates and the question
\* whether a restart is due included, the headline of a machine whose two
\* controls read on is "Protected" once an install is known, however long ago
\* it was.
THEOREM SilenceReadsProtected ==
  ASSUME NEW m \in Machines, m.firewall = "on", m.antivirus = "on", m.installed
  PROVE  Overall([m EXCEPT !.restart = FALSE, !.pending = 0,
                           !.tpm = "unknown", !.boot = "unknown", !.disk = "unknown",
                           !.rdp = "unknown", !.counted = FALSE, !.uac = "Unknown",
                           !.smartScreen = "unknown"]) = "Protected"
<1> DEFINE n == [m EXCEPT !.restart = FALSE, !.pending = 0,
                           !.tpm = "unknown", !.boot = "unknown", !.disk = "unknown",
                           !.rdp = "unknown", !.counted = FALSE, !.uac = "Unknown",
                           !.smartScreen = "unknown"]
<1>1. n \in Machines
  BY ZenonT(60) DEF Machines, Answers, UacLevels
<1>2. /\ n.firewall = "on" /\ n.antivirus = "on" /\ ~n.restart /\ n.pending = 0
      /\ n.installed /\ n.tpm = "unknown" /\ n.boot = "unknown" /\ n.disk = "unknown"
      /\ n.rdp = "unknown" /\ ~n.counted /\ n.uac = "Unknown" /\ n.smartScreen = "unknown"
  BY DEF Machines
<1>. HIDE DEF n
<1>3. Overall(n) = "Protected"
  BY <1>1, <1>2, HeadlineTells
<1>. QED
  BY <1>3 DEF n

\* The rule that calls a machine out of date after 30 days never applies: it
\* needs the date of an install, and with one the status is another.
THEOREM NeverOutOfDate ==
  ASSUME NEW m \in Machines
  PROVE  Updates(m) # "Out of date"
BY UpdatesCard

\* The remote card is red for Remote Desktop, for UAC switched off, and for the
\* three lesser risks together; two of those are for review.
THEOREM RiskyTells ==
  ASSUME NEW m \in Machines
  PROVE  Remote(m) = "Risky"
         <=> \/ m.rdp = "on" \/ m.uac = "Disabled"
             \/ m.counted /\ m.admins > 2 /\ m.uac = "Low" /\ m.smartScreen = "off"
<1> DEFINE crowd == m.counted /\ m.admins > 2
<1>1. CASE m.rdp = "on" \/ m.uac = "Disabled"
  <2>1. Risk(m) # 0
    BY <1>1 DEF Risk
  <2>. QED
    BY <1>1, <2>1 DEF Remote
<1>2. CASE m.rdp # "on" /\ m.uac # "Disabled"
  <2>1. Risk(m) = IF crowd THEN IF m.uac = "Low" THEN IF m.smartScreen = "off" THEN 3 ELSE 2
                                ELSE IF m.smartScreen = "off" THEN 2 ELSE 1
                  ELSE IF m.uac = "Low" THEN IF m.smartScreen = "off" THEN 2 ELSE 1
                       ELSE IF m.smartScreen = "off" THEN 1 ELSE 0
    BY <1>2 DEF Risk
  <2>2. Risk(m) = 3 <=> crowd /\ m.uac = "Low" /\ m.smartScreen = "off"
    BY <2>1
  <2>3. Risk(m) \in 0 .. 3 /\ (Risk(m) <= 2 <=> Risk(m) # 3)
    BY <2>1
  <2>4. CASE m.uac = "Low" /\ crowd
    <3>1. Remote(m) = IF Risk(m) # 3 THEN "Review" ELSE "Risky"
      BY <1>2, <2>1, <2>3, <2>4 DEF Remote
    <3>. QED
      BY <1>2, <2>2, <3>1
  <2>5. CASE ~(m.uac = "Low" /\ crowd)
    BY <1>2, <2>2, <2>3, <2>5 DEF Remote
  <2>. QED
    BY <2>4, <2>5
<1>. QED
  BY <1>1, <1>2

\* With all profiles switched off, the firewall reads on in the tab as long as
\* its service runs, which switching the profiles does not stop; of the same
\* machine the assistant is told that it is critical.
THEOREM FirewallOffSplits ==
  ASSUME NEW listed, NEW admin, NEW d
  PROVE  /\ Firewall(listed, TRUE, {}, admin) = "on"
         /\ Assessment(d, TRUE, {}) = "Critical"
BY DEF Firewall, Assessment

\* When no query is answered, the tab says "At risk" with an administrator's
\* rights and "Needs attention" without, and the assistant hears a warning.
THEOREM SilentMachine ==
  ASSUME NEW m \in Machines, NEW admin \in BOOLEAN,
         m.firewall = Firewall(Listed({}), FALSE, {}, admin),
         m.antivirus = Antivirus(Listed({}), "silent", admin),
         NEW d, ~d.answered, NEW profiles
  PROVE  /\ Overall(m) = IF admin THEN "At risk" ELSE "Needs attention"
         /\ Assessment(d, FALSE, profiles) = "Warning"
<1>1. Listed({}) = "unknown"
  BY DEF Listed
<1>2. /\ m.firewall = IF admin THEN "off" ELSE "needs admin"
      /\ m.antivirus = m.firewall
  BY <1>1 DEF Firewall, Antivirus, Remaining
<1>3. Overall(m) \in {"At risk", "Protected", "Needs attention"}
  BY DEF Overall
<1>. QED
  BY <1>2, <1>3, HeadlineTells DEF Assessment, DefenderIsOff, DefenderIssue

\* The hardening cards hold to what was said: a drive is called unencrypted only
\* if the volume was asked with an administrator's rights and said so, and a TPM
\* missing only if the tool said so (security_info.py:523: "we cannot truthfully
\* call the drive unencrypted").  The two controls of the headline do not: see
\* SilentMachine.
THEOREM OffIsSaid ==
  ASSUME NEW device, NEW admin, NEW volume \in Answers,
         NEW tool \in Answers \cup {"fails"}, NEW service
  PROVE  /\ DiskEncryption(device, admin, volume) = "off"
              <=> device # "on" /\ admin /\ volume = "off"
         /\ Tpm(tool, service) = "off" <=> tool = "off"
         /\ DiskEncryption(device, admin, volume) \in Answers
         /\ Tpm(tool, service) \in Answers
BY DEF DiskEncryption, Tpm, Answers

\* Definitions Defender itself calls out of date change nothing for a week, nor
\* when their age is not known.
THEOREM StaleForAWeek ==
  ASSUME NEW d, NEW e, NEW answered, NEW profiles,
         d.age \in Int, d.age <= 7, e.age = d.age, ~d.current, e.current,
         d.answered = e.answered, d.realtime = e.realtime, d.antivirus = e.antivirus,
         d.tamper = e.tamper, d.scanRequired = e.scanRequired
  PROVE  Assessment(d, answered, profiles) = Assessment(e, answered, profiles)
<1>1. ~(d.age > 7)
  OBVIOUS
<1>2. DefenderIssue(d) <=> DefenderIssue(e)
  BY <1>1 DEF DefenderIssue
<1>3. DefenderIsOff(d) <=> DefenderIsOff(e)
  BY DEF DefenderIsOff
<1>. QED
  BY <1>2, <1>3 DEF Assessment

------------------------------------------------------------------------------
(* Addresses. *)

LEMMA IfNat == \A n \in Nat : \A b : If(b, n) \in Nat /\ (b => If(b, n) = n)
BY DEF If

LEMMA CheckerPointsNat == \A a : CheckerPoints(a) \in Nat
BY DEF CheckerPoints, If

\* An address the scanner refuses (url_scanner.py:362, verdict "blocked") is never
\* called safe by the scan of all engines, which drops that verdict: what the
\* refusal left as evidence weighs 30 points by itself.  The allow list is
\* stronger than a refusal.  (If the scorer raises, the scores of the engines
\* stand in for it, and of a refusal the scanner's is 0.)
THEOREM RefusedIsNeverSafe ==
  ASSUME NEW a \in Addresses, NEW option \in BOOLEAN, NEW f, NEW p, NEW domains, NEW https,
         Refuses(a, option), NEW scoring, ~scoring.raises
  PROVE  LET v == MultiVerdict(Engines(a, option, f, p, domains, https), scoring)
         IN /\ ~a.listed /\ ~a.allowed => v \in {"suspicious", "likely_malicious", "malicious"}
            /\ ~a.listed /\ a.allowed => v = "safe"
<1> DEFINE e == Engines(a, option, f, p, domains, https)
<1> DEFINE u == AsScored(e)
<1>1. /\ ValidationPoints(a, option) \in Nat
      /\ ValidationPoints(a, option) >= 30
  <2>1. CASE a.form \in Unusable
    BY <2>1 DEF ValidationPoints
  <2>2. CASE a.form \notin Unusable
    <3>1. Barred(a, option)
      BY <2>2 DEF Refuses
    <3>. QED
      BY <2>2, <3>1 DEF ValidationPoints, If
  <2>. QED
    BY <2>1, <2>2
<1>2. ScannerPoints(a, option, f, p) = ValidationPoints(a, option)
  BY <1>1 DEF ScannerPoints, If
<1>3. /\ e.points = CheckerPoints(a) + ValidationPoints(a, option)
      /\ e.domains = 0 /\ e.read = FALSE
      /\ e.listed = a.listed /\ e.allowed = a.allowed /\ e.flagged = FALSE
  BY <1>2 DEF Engines, If
<1>4. /\ u.points = e.points /\ u.domains = 0 /\ u.https = TRUE
      /\ u.allowlisted = a.allowed /\ ~u.flagged /\ ~u.blocked /\ ~u.foundClean
  BY <1>3 DEF AsScored
<1>5. e.points \in Nat /\ e.points >= 30
  BY <1>1, <1>3, CheckerPointsNat
<1>6. UrlPoints(u) = e.points
  BY <1>4, <1>5 DEF UrlPoints, If
<1>7. ~a.listed => MultiVerdict(e, scoring) = ScoringBand(UrlScore(u))
  BY <1>3, <1>4 DEF MultiVerdict, UrlVerdict
<1>8. /\ a.allowed => UrlScore(u) = 10
      /\ ~a.allowed => UrlScore(u) \in 30 .. 100
  BY <1>4, <1>5, <1>6 DEF UrlScore, Clip, AtMost
<1>. QED
  BY <1>7, <1>8 DEF ScoringBand

\* The report of the detonator has nothing under the names that are looked up:
\* a run of the sandbox finds only a redirect, 15 points, and its bonus is never
\* given.
THEOREM SandboxTellsNothing ==
  ASSUME NEW report, NEW box, FromDetonator(box), NEW moved, NEW same, NEW finds
  PROVE  /\ Observed(report, box) = Nothing
         /\ SandboxPoints(report, box, moved, same)
              = IF ScriptRedirects(report, moved, same) THEN 15 ELSE 0
         /\ ScannerScore(finds, box)
              = AtMost(100, 25 * finds.critical + 15 * finds.high + 8 * finds.medium
                            + 3 * finds.low + 0 + 0)
BY DEF FromDetonator, Observed, Nothing, Found, SandboxPoints, ScannerScore, If, AtMost

\* And the redirect is a server's: as long as no web view moved, what is reported
\* as a redirect by script (url_scanner.py:453) is that the fetch was redirected,
\* whether a browser was opened at all (webview2_detonator.py:401 "Can't easily
\* get final URL in headless mode").
THEOREM ServerRedirectIsBlamed ==
  ASSUME NEW runtime \in BOOLEAN, NEW edge, NEW view, NEW moved \in BOOLEAN, NEW same,
         view # "moves" \/ edge = "ends well"
  PROVE  ScriptRedirects(Report("none", Detonate(runtime, edge, view)), moved, same) <=> moved
<1>1. Report("none", Detonate(runtime, edge, view)).final = "asked"
  BY DEF Report, Obstacles, Detonate, Edge
<1>. QED
  BY <1>1 DEF ScriptRedirects

\* The explanation warns a point before the verdict: its advice is another than
\* the verdict's at the scores 20, 50 and 80 and at no other (url_explainer.py:322,
\* url_scoring.py:329), and the report's is the verdict's up to 80.
THEOREM AdviceIsAPointEarly ==
  ASSUME NEW s \in 0 .. 100
  PROVE  LET v == ScoringBand(s)
             due == IF v = "malicious" THEN "never" ELSE IF v = "likely_malicious" THEN "avoid"
                    ELSE IF v = "suspicious" THEN "careful" ELSE "visit"
         IN /\ WhatToDo(s, v) # due <=> s \in {20, 50, 80}
            /\ Toast(s, v) = v
            /\ s <= 80 => ReportAdvice(s) = due
<1>1. \/ s < 20 \/ s = 20 \/ s \in 21 .. 49 \/ s = 50 \/ s \in 51 .. 79 \/ s = 80 \/ s \in 81 .. 100
  OBVIOUS
<1>. QED
  BY <1>1 DEF WhatToDo, ScoringBand, Toast, ReportAdvice

\* No impression is ever given of an address: the signals it is asked of do not
\* exist, so that an address that is refused, or scored as malicious, "is a web
\* page" (url_explainer.py:178-192).
THEOREM NoImpression ==
  ASSUME NEW type, NEW hops
  PROVE  WhatItIs(Signals, type, hops) # "a suspicion"
<1>1. Signals \cap Impressions = {}
  BY DEF Signals, Impressions
<1>. QED
  BY <1>1 DEF WhatItIs

\* Whatever happens on a Windows machine, no event of its log is shown as a
\* high risk: every rule of severity Critical belongs to a provider, the
\* events carry the name of their log (events_windows.py:446), and a level
\* read there is never "Critical".
THEOREM WindowsNeverHigh ==
  ASSUME NEW log \in WindowsLogs, NEW id \in Nat, NEW level \in WindowsLevels,
         NEW privilege \in BOOLEAN, NEW engine \in BOOLEAN
  PROVE  LET e == WindowsEvent(log, id, level, privilege)
         IN /\ Preview(engine, e).risk # "High"
            /\ Instant(engine, e).risk # "high"
            /\ FromRules(EventLookup(e)).risk # "high"
<1>1. WindowsRule(log, id) # "Critical"
  BY DEF WindowsRule
<1>2. TemplateSeverity(level) # "Critical"
  BY DEF TemplateSeverity, WindowsLevels
<1>3. EventLookup(WindowsEvent(log, id, level, privilege)).severity # "Critical"
  BY <1>1, <1>2 DEF EventLookup, WindowsEvent, PrivilegeAnswer
<1>4. EventLookup(WindowsEvent(log, id, level, privilege)).severity \in EventSeverities
  BY DEF EventLookup, WindowsEvent, PrivilegeAnswer, EventSeverities, WindowsRule,
         TemplateSeverity
<1>5. LevelRisk(level) # "high" /\ LevelPreview(level).risk # "High"
  BY DEF LevelRisk, LevelPreview, WindowsLevels
<1>6. WindowsEvent(log, id, level, privilege).level = level
  BY DEF WindowsEvent
<1> QED
  BY <1>3, <1>4, <1>5, <1>6
  DEF Preview, Instant, FromRules, Explanation, SeverityRisk, EventSeverities

\* A logon with special privileges is always explained as a log that could
\* not be read: the special case stands before the rule for 4672
\* (event_rules_engine.py:221), and so is any process of the journal whose
\* number happens to be 1314, however urgent what it logs.
THEOREM SpecialCaseComesFirst ==
  ASSUME NEW log \in WindowsLogs, NEW level, NEW privilege \in BOOLEAN,
         NEW priority \in 0 .. 7, NEW rule \in EventSeverities \cup {"none"}
  PROVE  /\ EventLookup(WindowsEvent(log, PrivilegedLogon, level, privilege)) = PrivilegeAnswer
         /\ EventLookup(JournalEvent(NoPrivilege, priority, privilege, rule)) = PrivilegeAnswer
         /\ Preview(TRUE, JournalEvent(NoPrivilege, priority, privilege, rule)).risk = "Low"
BY DEF EventLookup, WindowsEvent, JournalEvent, PrivilegeAnswer, Preview

\* The preview of a row and the instant explanation never disagree on how
\* serious an event is, and neither says "routine" of what the other does not.
THEOREM PreviewAgreesWithInstant ==
  ASSUME NEW e, EventLookup(e).severity \in EventSeverities
  PROVE  LET p == Preview(TRUE, e)
             x == Instant(TRUE, e)
         IN /\ p.risk = "High" <=> x.risk = "high"
            /\ p.risk = "Medium" <=> x.risk = "medium"
            /\ p.reason = "routine and safe" <=> x.normal
            /\ p.matched <=> x.source = "local_kb"
<1> DEFINE s == EventLookup(e).severity
<1>1. s \in EventSeverities
  OBVIOUS
<1>2. EventLookup(e).matched \in BOOLEAN
  BY DEF EventLookup, PrivilegeAnswer
<1>3. CASE s \in RoutineSeverities
  BY <1>2, <1>3 DEF Preview, Instant, Explanation, SeverityRisk, RiskReason, RoutineSeverities
<1>4. CASE s \in {"Warning", "Critical"}
  BY <1>2, <1>4 DEF Preview, Instant, Explanation, SeverityRisk, RiskReason, RoutineSeverities
<1> QED
  BY <1>1, <1>3, <1>4 DEF EventSeverities, RoutineSeverities

\* When the model fails, its stand-in is kept for a day as the model's own
\* words (event_explainer_v5.py:221-248, groq.py:1176): the severity of the
\* rule survives, but for "Safe", which becomes "Minor", and the doubt that a
\* template was used is gone once it is read back.
THEOREM StandInKeepsSeverity ==
  ASSUME NEW severity \in EventSeverities, NEW matched \in BOOLEAN
  PROVE  LET x == StandIn([severity |-> severity, matched |-> matched])
         IN /\ RiskSeverity(x.risk) = IF severity = "Safe" THEN "Minor" ELSE severity
            /\ x.source = "groq" /\ x.normal
            /\ FromRow(Row(x)).risk = x.risk /\ FromRow(Row(x)).confidence = 100
            /\ x.confidence < 100
BY DEF StandIn, Explanation, RiskSeverity, EventSeverities, FromRow, Row

\* A reply that could not be read is told from one that says "low, normal"
\* by its confidence alone (groq.py:1136), and by nothing once it was kept.
THEOREM UnreadReadsHarmless ==
  ASSUME NEW odd, NEW plain, odd.odd = TRUE, plain.odd = FALSE,
         plain.risk = "low", plain.normal # "no", plain.unsure = TRUE
  PROVE  LET x == FromReply(odd)
             y == FromReply(plain)
         IN /\ RiskSeverity(x.risk) = "Minor" /\ RiskSeverity(y.risk) = "Minor"
            /\ x.normal = y.normal /\ x.confidence < y.confidence
            /\ FromRow(Row(x)).confidence = FromRow(Row(y)).confidence
            /\ FromRow(Row(x)).normal = FromRow(Row(y)).normal
<1>1. FromReply(odd) = Explanation("low", TRUE, 90, "groq")
  BY DEF FromReply
<1>2. (plain.normal # "no") = TRUE
  OBVIOUS
<1>3. ReplyRisk(plain.risk) = "Low"
  BY DEF ReplyRisk
<1>4. FromReply(plain) = Explanation("Low", TRUE, 100, "groq")
  BY <1>2, <1>3, Zenon DEF FromReply
<1> QED
  BY <1>1, <1>4 DEF Explanation, RiskSeverity, FromRow, Row

\* Both further buttons of the page only ever clear what is shown: the
\* explainer has none of the methods they reach for (backend_bridge.py:4230,
\* 4393, 4545).
THEOREM FurtherButtonsFail ==
  ASSUME NEW made \in BOOLEAN, NEW listed \in BOOLEAN
  PROVE  Enhance(made, listed) = "failed" /\ Simplify(made, listed) = "failed"
BY DEF Enhance, Fallback, Simplify, Has, ExplainerMethods

------------------------------------------------------------------------------
(* What a Linux machine's cards may hide. *)

Weak(h) ==
    {c \in {"antivirus", "updates", "boot", "disk", "remote", "access"} : h[c].level = "warning"}

\* The headline of a Linux machine is "Protected" exactly if there is a
\* firewall and an antivirus and no two of the six controls are weak: a host
\* whose clamd is stopped, or that is open to ssh, still is
\* (linux/security_posture.py:547-583).
THEOREM LinuxProtected ==
  ASSUME NEW h \in LinuxHosts
  PROVE  LinuxOverall(h) = "Protected" <=>
           /\ h.firewall.enabled /\ h.antivirus.enabled
           /\ \A c, d \in Weak(h) : c = d
<1> DEFINE n(c) == IF h[c].level = "warning" THEN 12 ELSE 0
<1> DEFINE fw == IF h.firewall.enabled THEN 0 ELSE 25
<1> DEFINE av == IF ~h.antivirus.enabled THEN 25 ELSE n("antivirus")
<1> DEFINE up == IF h.updates.level = "warning" THEN 12
                 ELSE IF h.updates.level = "unknown" /\ h.updates.enabled THEN 5 ELSE 0
<1>1. /\ Cost(h.firewall.level) = fw /\ Cost(h.antivirus.level) = av
      /\ Cost(h.remote.level) = n("remote") /\ Cost(h.access.level) = n("access")
  BY DEF LinuxHosts, Finding, Cost
<1>2. (IF h.updates.enabled THEN Cost(h.updates.level) ELSE 0) = up
  BY DEF LinuxHosts, UpToDate, Finding, Cost
<1>3. CostIfAsked(h.boot) = n("boot") /\ CostIfAsked(h.disk) = n("disk")
  BY DEF LinuxHosts, Known, Finding, Cost, CostIfAsked
<1> DEFINE cost == fw + av + up + n("boot") + n("disk") + n("remote") + n("access")
<1>4. LinuxScore(h) = IF cost > 100 THEN 0 ELSE 100 - cost
  BY <1>1, <1>2, <1>3 DEF LinuxScore
<1>5. cost \in Nat
  OBVIOUS
<1>6. LinuxOverall(h) = "Protected" <=> cost <= 20
  BY <1>4, <1>5 DEF LinuxOverall
<1>7. cost <= 20 <=> /\ h.firewall.enabled /\ h.antivirus.enabled
                     /\ \A c, d \in Weak(h) : c = d
  <2> DEFINE w(c) == h[c].level = "warning"
  <2>1. ~h.antivirus.enabled => ~w("antivirus")
    BY DEF LinuxHosts, Finding
  <2>2. (\A c, d \in Weak(h) : c = d) <=>
          \A c, d \in {"antivirus", "updates", "boot", "disk", "remote", "access"} :
             w(c) /\ w(d) => c = d
    BY DEF Weak
  <2> HIDE DEF w
  <2> QED
    BY <2>1, <2>2 DEF w
<1> QED
  BY <1>6, <1>7

\* What cannot be read counts as if it were on: a machine whose boot or disk
\* does not answer has the score, the headline and the device card of one
\* that answered well (security_posture.py:535-557, 609-645).
THEOREM SilenceIsGood ==
  ASSUME NEW h \in LinuxHosts
  PROVE  LET quiet == [h EXCEPT !.boot = Known("unknown"), !.disk = Known("unknown")]
             good == [h EXCEPT !.boot = Known("on"), !.disk = Known("on")]
         IN /\ LinuxOverall(quiet) = LinuxOverall(good)
            /\ LinuxDevice(good) = "Strong" => LinuxDevice(quiet) = "Strong"
<1> DEFINE quiet == [h EXCEPT !.boot = Known("unknown"), !.disk = Known("unknown")]
<1> DEFINE good == [h EXCEPT !.boot = Known("on"), !.disk = Known("on")]
<1>1. /\ quiet.boot = Known("unknown") /\ quiet.disk = Known("unknown")
      /\ good.boot = Known("on") /\ good.disk = Known("on")
      /\ quiet.firewall = good.firewall /\ quiet.antivirus = good.antivirus
      /\ quiet.updates = good.updates /\ quiet.remote = good.remote
      /\ quiet.access = good.access
  BY DEF LinuxHosts
<1> HIDE DEF quiet, good
<1>2. CostIfAsked(Known("unknown")) = 0 /\ CostIfAsked(Known("on")) = 0
  BY DEF CostIfAsked, Known, Finding, Cost
<1>3. LinuxScore(quiet) = LinuxScore(good)
  BY <1>1, <1>2, Zenon DEF LinuxScore
<1>4. LinuxOverall(quiet) = LinuxOverall(good)
  BY <1>3 DEF LinuxOverall
<1>5. ASSUME LinuxDevice(good) = "Strong" PROVE LinuxDevice(quiet) = "Strong"
  BY <1>1, <1>5 DEF LinuxDevice, Passing, Known, Finding
<1> QED
  BY <1>4, <1>5 DEF quiet, good

\* A firewall that may not be asked is none: if UFW refuses to answer and no
\* other stack speaks, the machine is called without a firewall, never
\* unknown, its headline is not "Protected", and the assistant is told that
\* the query succeeded (security_posture.py:100-169, backend_bridge.py:955).
THEOREM RefusedReadsAsNone ==
  ASSUME NEW p \in FirewallProbes, NEW h \in LinuxHosts,
         p.ufw = "failed", p.firewalld # "active", p.nftables # "active",
         p.iptables \in {"missing", "failed", "silent"}, h.firewall = LinuxFirewall(p)
  PROVE  /\ Colour(h.firewall) = "bad" /\ LinuxOverall(h) # "Protected"
         /\ FirewallForAi(FALSE, p) = [enabled |-> FALSE, success |-> TRUE]
<1>1. LinuxFirewall(p) = Finding(FALSE, "error")
  BY DEF LinuxFirewall
<1>2. ~h.firewall.enabled
  BY <1>1 DEF Finding
<1>3. LinuxOverall(h) # "Protected"
  BY <1>2, LinuxProtected
<1>4. Colour(h.firewall) = "bad"
  BY <1>1 DEF Colour, Finding
<1> QED
  BY <1>1, <1>3, <1>4 DEF FirewallForAi, Finding

\* One encrypted mount answers for both: a plain system disk below an
\* encrypted home reads as encrypted (security_posture.py:392-417).
THEOREM HomeAnswersForRoot ==
  ASSUME NEW mounts, NEW layers, "home" \in mounts,
         \E device \in layers["home"] : Encrypted(device)
  PROVE  LinuxDisk(TRUE, mounts, layers) = Known("on")
BY DEF LinuxDisk

------------------------------------------------------------------------------
(* What the GPU page may show that is not so. *)

\* One card whose driver raises NVMLError takes every NVIDIA card's row with
\* it on Windows, where the comment means to skip that card alone
\* (telemetry_worker.py:375); on Linux the others stay.
THEOREM OneCardHidesAll ==
  ASSUME NEW cards, NEW i \in DOMAIN cards, NEW j \in DOMAIN cards,
         cards[i] = "nvml error", cards[j] = "answered"
  PROVE  NvidiaOnWindows(cards) = {} /\ j \in NvidiaOnLinux(cards)
BY DEF NvidiaOnWindows, NvidiaOnLinux, CardsRead

\* Two AMD cards of the same name show the same temperature, clock and fan:
\* each takes those of the first adapter of that name
\* (telemetry_worker.py:705-730).
THEOREM TwinsShareReadings ==
  ASSUME NEW wmi, NEW adl, NEW alike, NEW i \in DOMAIN wmi, NEW j \in DOMAIN wmi,
         \A k \in {i, j} : wmi[k] = [name |-> wmi[i].name, use |-> wmi[k].use,
                                     used |-> wmi[k].used, total |-> wmi[k].total,
                                     free |-> wmi[k].free, temp |-> 0, clock |-> 0, fan |-> 0]
  PROVE  LET rows == AmdOnWindows(wmi, adl, alike)
         IN /\ rows[i].temp = rows[j].temp /\ rows[i].clock = rows[j].clock
            /\ rows[i].fan = rows[j].fan
<1> DEFINE rows == AmdOnWindows(wmi, adl, alike)
<1>1. rows[i] = Merged(wmi[i], adl, alike) /\ rows[j] = Merged(wmi[j], adl, alike)
  BY DEF AmdOnWindows
<1>2. Matching(wmi[i], adl, alike) = Matching(wmi[j], adl, alike)
  <2>1. wmi[i].name = wmi[j].name
    OBVIOUS
  <2> QED
    BY <2>1 DEF Matching
<1> DEFINE hits == Matching(wmi[i], adl, alike)
<1> DEFINE from == adl[FirstOf(hits)]
<1>3. /\ Merged(wmi[i], adl, alike) = IF hits = {} THEN wmi[i] ELSE Taking(wmi[i], from)
      /\ Merged(wmi[j], adl, alike) = IF hits = {} THEN wmi[j] ELSE Taking(wmi[j], from)
  BY <1>2 DEF Merged
<1> HIDE DEF hits, from
<1>4. /\ wmi[i].temp = wmi[j].temp /\ wmi[i].clock = wmi[j].clock /\ wmi[i].fan = wmi[j].fan
  OBVIOUS
<1>5. \A k \in {i, j} :
        LET row == Taking(wmi[k], from)
        IN /\ row.temp = Instead(from.temp, 0)
           /\ row.clock = Instead(from.clock, 0)
           /\ row.fan = Instead(from.fan, 0)
  BY DEF Taking
<1> HIDE DEF rows
<1> QED
  BY <1>1, <1>3, <1>4, <1>5 DEF rows

\* On Linux every machine whose only display device is a VGA controller of
\* another maker than NVIDIA is shown an AMD card, beside the one the driver
\* told of: "compatible" is read as "ati" (platform/linux/telemetry_worker.py:579).
THEOREM EveryVgaIsAmd ==
  ASSUME NEW maker \in {"Intel", "other"}, NEW drm, drm = << [vendor |-> "Intel"] >>
  PROVE  Supplement({}, drm, << [class |-> "vga compatible", maker |-> maker] >>)
           = {NamedRow("Intel"), NamedRow("AMD")}
<1> DEFINE lines == << [class |-> "vga compatible", maker |-> maker] >>
<1> DEFINE line == [class |-> "vga compatible", maker |-> maker]
<1>0. DOMAIN lines = {1} /\ DOMAIN drm = {1} /\ lines[1] = line
  OBVIOUS
<1>5. line.class = "vga compatible" /\ line.maker # "NVIDIA"
  OBVIOUS
<1> HIDE DEF line
<1>6. LspciVendor(line) = "AMD"
  BY <1>5 DEF LspciVendor
<1>1. LspciVendor(lines[1]) = "AMD" /\ DOMAIN lines = {1} /\ DOMAIN drm = {1}
  BY <1>0, <1>6
<1>3. drm[1].vendor = "Intel"
  OBVIOUS
<1>7. FromDrm({}, drm) = {1}
  <2>1. 1 .. (1 - 1) = {}
    OBVIOUS
  <2>2. \A j \in 1 .. (1 - 1) : drm[j].vendor # drm[1].vendor
    BY <2>1
  <2> HIDE DEF lines
  <2> QED
    BY <1>1, <2>2, Zenon DEF FromDrm
<1>8. AfterDrm({}, drm) = {"Intel"}
  BY <1>1, <1>3 DEF AfterDrm
<1>2. FromDrm({}, drm) = {1} /\ AfterDrm({}, drm) = {"Intel"}
  BY <1>7, <1>8
<1> HIDE DEF lines
<1>4. FromLspci({"Intel"}, lines) = {1}
  BY <1>1 DEF FromLspci
<1>9. Supplement({}, drm, lines) = {NamedRow("Intel"), NamedRow("AMD")}
  <2>1. {NamedRow(drm[i].vendor) : i \in {1}} = {NamedRow("Intel")}
    BY <1>3
  <2>2. {NamedRow(LspciVendor(lines[i])) : i \in {1}} = {NamedRow("AMD")}
    BY <1>1
  <2> QED
    BY <1>2, <1>4, <2>1, <2>2 DEF Supplement
<1> QED
  BY <1>9 DEF lines

\* A round in which the NVIDIA collector fails gives its place, and with it
\* its chart, to the card that follows (telemetry_worker.py:1091,
\* gpu_service.py:140-149).
THEOREM FailedVendorMovesCharts ==
  ASSUME NEW R, NEW nvidia \in Seq(R), NEW amd \in Seq(R), NEW intel \in Seq(R),
         NEW fallback, nvidia # << >>, amd # << >>
  PROVE  \E i \in Nat : /\ Place(i) > 0 /\ Round(nvidia, amd, intel, fallback)[i] = amd[1]
                        /\ Round(<< >>, amd, intel, fallback)[1] = amd[1]
<1> DEFINE i == Len(nvidia) + 1
<1>1. i \in Nat /\ Place(i) > 0
  BY DEF Place
<1>2. nvidia \o amd \o intel # << >> /\ (nvidia \o amd \o intel)[i] = amd[1]
  OBVIOUS
<1>3. << >> \o amd \o intel # << >> /\ (<< >> \o amd \o intel)[1] = amd[1]
  OBVIOUS
<1> QED
  BY <1>1, <1>2, <1>3 DEF Round

\* A sensor that stops answering draws a zero on Windows and the last value
\* on Linux: the service's guard against "a fake zero" needs a status the
\* Windows worker does not send (gpu_service.py:151-154).
THEOREM FakeZero ==
  ASSUME NEW chart \in Seq(Nat), NEW limit \in Nat, chart # << >>, Len(chart) < limit
  PROVE  /\ Charted(chart, Sample("absent", OrZero(Unknown)), limit) = Append(chart, 0)
         /\ Charted(chart, Sample(Status(Unknown, "unset", "sysfs"), Unknown), limit)
              = Append(chart, chart[Len(chart)])
BY DEF Charted, Sample, OrZero, Unknown, Status, DefaultStatus

\* A chart never grows past its limit, and a sample that is known is its end.
THEOREM ChartIsBounded ==
  ASSUME NEW chart \in Seq(Int), NEW sample \in Int, NEW limit \in Nat \ {0},
         Len(chart) <= limit
  PROVE  LET new == Charted(chart, sample, limit)
         IN Len(new) <= limit /\ (sample # Unknown => new[Len(new)] = sample)
<1> DEFINE next == IF sample # Unknown THEN Append(chart, sample)
                   ELSE IF chart # << >> THEN Append(chart, chart[Len(chart)]) ELSE chart
<1>1. next \in Seq(Int) /\ Len(next) <= limit + 1
  BY DEF Unknown
<1>2. sample # Unknown => next # << >> /\ next[Len(next)] = sample
  BY DEF Unknown
<1> HIDE DEF next
<1>3. Charted(chart, sample, limit) = IF Len(next) > limit THEN Tail(next) ELSE next
  BY DEF Charted, next
<1>4. CASE Len(next) > limit
  BY <1>1, <1>2, <1>3, <1>4
<1>5. CASE ~(Len(next) > limit)
  BY <1>1, <1>2, <1>3, <1>5
<1> QED
  BY <1>4, <1>5

\* On Linux a percentage is called ok exactly if there is one, for every row
\* a collector makes; a card that shares memory has none.
THEOREM StatusIsTrue ==
  ASSUME NEW row, row.total \in Nat \cup {Unknown}, row.used \in Nat \cup {Unknown},
         row.percent \in Nat \cup {Unknown}, row.memory \in {"shared", "unset"},
         row.memory = "shared" => row.percent = Unknown
  PROVE  /\ PercentStatus(row) = "ok" <=> MemPercent(row) # Unknown
         /\ row.memory = "shared" => PercentStatus(row) = "shared"
<1>1. \A a, b \in Nat : b > 0 => Percent(a, b) # Unknown
  <2>1. \A n, d \in Nat : d > 0 => n \div d \in Nat
    OBVIOUS
  <2> TAKE a, b \in Nat
  <2>2. 200 * a + b \in Nat /\ 2 * b \in Nat
    OBVIOUS
  <2> QED
    BY <2>1, <2>2 DEF Percent, Unknown
<1> DEFINE computed == row.memory # "shared" /\ row.total > 0 /\ row.used # Unknown
<1>2. CASE computed
  <2>1. row.used \in Nat /\ row.total \in Nat
    BY <1>2 DEF Unknown
  <2>2. MemPercent(row) # Unknown
    BY <1>1, <1>2, <2>1 DEF MemPercent
  <2> QED
    BY <1>2, <2>2 DEF PercentStatus
<1>3. CASE ~computed
  BY <1>3 DEF PercentStatus, MemPercent, Status, DefaultStatus
<1> QED
  BY <1>2, <1>3

\* The fan's duty cycle is shown within a hundred percent.
THEOREM FanWithinHundred ==
  ASSUME NEW pwm \in 0 .. 255
  PROVE  FanPercent(pwm) \in 0 .. 100
BY DEF FanPercent, Unknown

\* Where all adapters count under the physical index 0, as the comment on
\* the AMD collector has it (telemetry_worker.py:513), an Intel card that is
\* not the first controller always reads idle.
THEOREM IntelReadsIdle ==
  ASSUME NEW controllers \in Seq([name : STRING, maker : STRING, ram : Nat]), NEW counted,
         DOMAIN counted = {0}, NEW i \in OfMaker("Intel", controllers), i # 1
  PROVE  IntelRows(counted, controllers)[i].use = 0
BY DEF IntelRows, OfMaker, WmiRow

------------------------------------------------------------------------------
(* What the history may hide.                                                *)

\* The newest rows of each table are enough: if every row can be converted,
\* the merged history is the newest of both tables together, as their texts
\* say.
THEOREM NewestOfBoth ==
  ASSUME NEW center, NEW legacy, IsFiniteSet(center), IsFiniteSet(legacy),
         center \cap legacy = {},
         \A r \in center \cup legacy : r.ok /\ r.text \in Int,
         NEW limit \in Nat, NEW T, ScanHistory(center, legacy, limit, T)
  PROVE  Newest(center \cup legacy, limit, T)
<1>1. PICK a \in SUBSET center, b \in SUBSET legacy :
          /\ ReadUntilBad(center, limit, a)
          /\ ReadUntilBad(legacy, limit, b)
          /\ Newest(a \cup b, limit, T)
  BY DEF ScanHistory
<1>2. Newest(center, limit, a) /\ Newest(legacy, limit, b)
  BY <1>1 DEF ReadUntilBad
<1>3. T \subseteq a \cup b /\ Cardinality(T) <= limit
  BY <1>1 DEF Newest
<1>4. IsFiniteSet(a) /\ IsFiniteSet(b) /\ IsFiniteSet(T)
  <2>1. IsFiniteSet(a) /\ IsFiniteSet(b)
    BY FS_Subset
  <2>. QED
    BY <2>1, <1>3, FS_Union, FS_Subset
<1>5. Cardinality(a) \in Nat /\ Cardinality(b) \in Nat /\ Cardinality(T) \in Nat
  BY <1>4, FS_CardinalityType
<1>6. a = center /\ b = legacy => Newest(center \cup legacy, limit, T)
  BY <1>1
<1>7. ASSUME a # center \/ b # legacy
      PROVE  Cardinality(T) = limit
  <2>1. Cardinality(a) = limit \/ Cardinality(b) = limit
    BY <1>2, <1>7 DEF Newest
  <2>2. T = a \cup b => Cardinality(a) <= Cardinality(T) /\ Cardinality(b) <= Cardinality(T)
    BY <1>4, FS_Subset
  <2>. QED
    BY <2>1, <2>2, <1>1, <1>3, <1>5 DEF Newest
<1>8. ASSUME NEW c, c \in SUBSET (a \cup b), NEW S, S \subseteq center \cup legacy, c \subseteq S,
             Newest(S, limit, c), NEW t \in T, NEW u \in S, u \notin c
      PROVE  t.text >= u.text
  <2>1. Cardinality(c) = limit
    BY <1>8 DEF Newest
  <2>2. CASE t \in c
    BY <2>2, <1>8 DEF Newest
  <2>3. CASE t \notin c
    <3>1. PICK v \in c : v \notin T
      <4>1. c \subseteq T => c = T
        <5>1. Cardinality(c) <= Cardinality(T) \/ ~(c \subseteq T)
          BY <1>4, FS_Subset
        <5>2. Cardinality(T) = Cardinality(c) => (c \subseteq T => c = T)
          BY <1>4, FS_Subset
        <5>. QED
          BY <5>1, <5>2, <2>1, <1>3, <1>5
      <4>. QED
        BY <4>1, <2>3
    <3>2. t.text >= v.text
      BY <3>1, <1>1, <1>8 DEF Newest
    <3>3. v.text >= u.text
      BY <3>1, <1>8 DEF Newest
    <3>4. t.text \in Int /\ v.text \in Int /\ u.text \in Int
      BY <3>1, <1>8, <1>3
    <3>. QED
      BY <3>2, <3>3, <3>4
  <2>. QED
    BY <2>2, <2>3
<1>9. ASSUME NEW t \in T, NEW u \in (center \cup legacy) \ T
      PROVE  t.text >= u.text
  <2>1. CASE u \in a \cup b
    BY <2>1, <1>1 DEF Newest
  <2>2. CASE u \in center /\ u \notin a
    BY <2>2, <1>8, <1>2
  <2>3. CASE u \in legacy /\ u \notin b
    BY <2>3, <1>8, <1>2
  <2>. QED
    BY <2>1, <2>2, <2>3
<1>. QED
  BY <1>3, <1>6, <1>7, <1>9 DEF Newest

\* The Scan Center writes its times in UTC and the bridge in local time, and
\* the history compares the texts: east of UTC a scan of the Scan Center is
\* left out for older scans of the bridge, if they fill the page.
THEOREM OlderHidesNewer ==
  ASSUME NEW center, NEW legacy, IsFiniteSet(center), IsFiniteSet(legacy),
         center \cap legacy = {}, NEW east \in Int,
         \A r \in center \cup legacy : r.ok /\ r.made \in Int,
         \A r \in center : r.text = r.made,
         \A r \in legacy : r.text = r.made + east,
         NEW limit \in Nat, NEW T, ScanHistory(center, legacy, limit, T),
         NEW s \in center,
         Cardinality({r \in legacy : r.made > s.made - east}) >= limit
  PROVE  s \notin T
<1> DEFINE L == {r \in legacy : r.made > s.made - east}
<1>1. Newest(center \cup legacy, limit, T)
  BY NewestOfBoth
<1>2. IsFiniteSet(T) /\ IsFiniteSet(L)
  BY <1>1, FS_Union, FS_Subset DEF Newest
<1>3. SUFFICES ASSUME s \in T PROVE FALSE
  OBVIOUS
<1>4. L \subseteq T
  <2>1. SUFFICES ASSUME NEW r \in L, r \notin T PROVE FALSE
    OBVIOUS
  <2>2. s.text >= r.text
    BY <1>1, <1>3, <2>1 DEF Newest
  <2>. QED
    BY <2>1, <2>2
<1>5. s \notin L
  OBVIOUS
<1>6. Cardinality(L \cup {s}) = Cardinality(L) + 1
  BY <1>2, <1>5, FS_AddElement
<1>7. Cardinality(L \cup {s}) <= Cardinality(T)
  BY <1>2, <1>3, <1>4, FS_Subset
<1>8. Cardinality(T) \in Nat /\ Cardinality(L) \in Nat /\ Cardinality(T) <= limit
  BY <1>1, <1>2, FS_CardinalityType DEF Newest
<1>. QED
  BY <1>6, <1>7, <1>8

\* One row that cannot be converted hides every older row of its table from
\* the history: the whole table, if it is the newest.
THEOREM UnreadableHidesOlder ==
  ASSUME NEW S, NEW n \in Nat \ {0}, NEW T, ReadUntilBad(S, n, T),
         NEW bad \in S, ~bad.ok, \A r \in S : r.text \in Int,
         \A r \in S \ {bad} : r.text < bad.text
  PROVE  T = {}
<1>1. PICK batch \in SUBSET S :
        /\ Newest(S, n, batch)
        /\ \/ T = batch /\ \A r \in batch : r.ok
           \/ \E b \in batch :
                  /\ ~b.ok
                  /\ T \subseteq {r \in batch : r.ok /\ r.text >= b.text}
                  /\ {r \in batch : r.text > b.text} \subseteq T
  BY DEF ReadUntilBad
<1>2. bad \in batch
  <2>1. CASE batch = S
    BY <2>1
  <2>2. CASE batch # S
    <3>1. batch # {}
      BY <2>2, <1>1, FS_EmptySet DEF Newest
    <3>. QED
      BY <3>1, <1>1 DEF Newest
  <2>. QED
    BY <2>1, <2>2
<1>3. PICK b \in batch :
        /\ ~b.ok
        /\ T \subseteq {r \in batch : r.ok /\ r.text >= b.text}
        /\ {r \in batch : r.text > b.text} \subseteq T
  BY <1>1, <1>2
<1>4. b = bad
  BY <1>2, <1>3
<1>. QED
  BY <1>3, <1>4

\* What the vault records the page shows: the same source and quality, a file
\* action that was recorded, and an entry that can be restored.
THEOREM VaultIsShown ==
  ASSUME NEW m \in Metadata
  PROVE  LET e == VaultEntry(m)
             row == QuarantineRow(e)
         IN /\ row.source = e.source
            /\ row.quality = e.quality
            /\ ~row.file.inferred
            /\ row.canRestore
<1> DEFINE e == VaultEntry(m)
<1>1. e.source \in {"rtp", "scan_center", "manual", "legacy", "unknown"}
  BY DEF VaultEntry, NormalizeSource, Named
<1>2. e.quality # "none"
  BY DEF VaultEntry, VaultQuality
<1>3. e.source = "unknown" => e.detail # "security_assistant" /\ e.reason \notin {"rtp", "manual"}
  BY DEF VaultEntry, NormalizeSource, RecordedReason, Named
<1>4. e.fileAction = "quarantine_file" /\ e.status = "quarantined"
  BY DEF VaultEntry
<1> HIDE DEF e
<1>5. ShownSource(e) = e.source
  BY <1>1, <1>3 DEF ShownSource, Named, RtpNames, CenterNames, HandNames, OldNames
<1>. QED
  BY <1>2, <1>4, <1>5 DEF QuarantineRow, ShownQuality, ShownAction, e

\* A file quarantined by hand with a whole decision is complete on the page,
\* with nothing missing, beside a note that no score was captured: the vault
\* writes that note for every manual record (quarantine_manager.py:266).
THEOREM ManualNoteDenies ==
  ASSUME NEW m \in Metadata, NormalizeSource(m) = "manual", m.decision = DecisionParts, ~m.note
  PROVE  LET row == QuarantineRow(VaultEntry(m))
         IN row.quality = "complete" /\ row.missing = {} /\ row.note = "no score was captured"
BY VaultIsShown DEF QuarantineRow, VaultEntry, VaultQuality, VaultNote, DecisionParts

\* Reasons are shown once: the cache has no column for them, and the list,
\* which finds the explanation's row, then shows an empty text.
THEOREM ReasonsAreShownOnce ==
  ASSUME NEW events, NEW cache \in [events -> {NoSummary, Summarized}], NEW e \in events,
         ~cache[e].there, NEW summarizer, NEW other, NEW fails \in BOOLEAN
  PROVE  LET after == ExplainEvent(cache, e, "answers", summarizer, FALSE).cache
         IN /\ ~ExplainEvent(after, e, "answers", summarizer, fails).answer.why
            /\ ListEvent(after, e, other, fails).shown = "nothing"
<1> DEFINE after == ExplainEvent(cache, e, "answers", summarizer, FALSE).cache
<1>1. after[e] = [text |-> FALSE, why |-> FALSE, there |-> TRUE]
  BY DEF ExplainEvent, SaveSummary, Explained
<1> HIDE DEF after
<1>2. ExplainEvent(after, e, "answers", summarizer, fails).answer = after[e]
  BY <1>1 DEF ExplainEvent
<1>3. ListEvent(after, e, other, fails).shown = "nothing"
  BY <1>1 DEF ListEvent
<1>4. ~after[e].why
  BY <1>1
<1>. QED
  BY <1>2, <1>3, <1>4 DEF after

\* An event whose summary the list could save is never explained: the request
\* finds the list's row.
THEOREM ListedIsNotExplained ==
  ASSUME NEW events, NEW cache \in [events -> {NoSummary, Summarized}], NEW e \in events,
         NEW explainer, NEW fails \in BOOLEAN
  PROVE  LET after == ListEvent(cache, e, "answers", FALSE).cache
         IN ~ExplainEvent(after, e, explainer, "answers", fails).answer.why
<1> DEFINE after == ListEvent(cache, e, "answers", FALSE).cache
<1>1. after[e].there /\ ~after[e].why
  BY DEF ListEvent, SaveSummary, Summarized, NoSummary
<1> HIDE DEF after
<1>. QED
  BY <1>1 DEF ExplainEvent, after

\* What the result cache answers it still answers after a restart, if the
\* value can be written; and it answers what was invalidated before it, which
\* is removed from memory only.
THEOREM CacheOutlivesInvalidation ==
  ASSUME NEW c, NEW Plain, NEW key, NEW removed, NEW start \in Nat, NEW now \in Nat, start <= now,
         \A k \in DOMAIN c : c[k].expiry \in Nat
  PROVE  LET again == LoadedCache(SavedCache(c, Plain), start)
         IN /\ CacheGet(c, key, now) \subseteq Plain
                 => CacheGet(again, key, now) = CacheGet(c, key, now)
            /\ CacheGet(Invalidated(c, removed), removed, now) = {}
<1> DEFINE saved == SavedCache(c, Plain)
<1> DEFINE again == LoadedCache(saved, start)
<1>1. /\ DOMAIN saved = {k \in DOMAIN c : c[k].value \in Plain}
      /\ \A k \in DOMAIN saved : saved[k] = c[k]
  BY DEF SavedCache
<1>2. /\ DOMAIN again = {k \in DOMAIN saved : start < saved[k].expiry}
      /\ \A k \in DOMAIN again : again[k] = saved[k]
  BY DEF LoadedCache, CacheKept
<1> HIDE DEF saved, again
<1>3. CASE key \in DOMAIN c /\ now < c[key].expiry /\ c[key].value \in Plain
  <2>1. key \in DOMAIN again /\ again[key] = c[key]
    BY <1>1, <1>2, <1>3
  <2>. QED
    BY <2>1, <1>3 DEF CacheGet, Invalidated, again, saved
<1>4. CASE ~(key \in DOMAIN c /\ now < c[key].expiry)
  <2>1. ~(key \in DOMAIN again /\ now < again[key].expiry)
    BY <1>1, <1>2, <1>4
  <2>. QED
    BY <2>1, <1>4 DEF CacheGet, Invalidated, again, saved
<1>5. CASE (key \in DOMAIN c /\ now < c[key].expiry) /\ c[key].value \notin Plain
  BY <1>5 DEF CacheGet, Invalidated
<1>. QED
  BY <1>3, <1>4, <1>5

------------------------------------------------------------------------------
(* BridgeScans: the slots of the bridge and what is stored of their results. *)

\* A local or integrated scan that ends while it is registered frees the page
\* for the next; one that the watchdog has called stalled never does: its end
\* is dropped, and every later call is refused (_on_worker_stalled,
\* backend_bridge.py:1413, forgets the worker and leaves the flag).
THEOREM StalledScanBlocks ==
  ASSUME NEW s \in [active : SUBSET STRING, busy : BOOLEAN], NEW id \in s.active, s.busy,
         NEW end, NEW other, NEW given
  PROVE  LET late == Stalled(s, id)
         IN /\ ~LocalFileEnds(s, id, end).s.busy
            /\ LocalFileEnds(late, id, end) = Say(late, "nothing")
            /\ ScanFileLocal(late, other, given) = Say(late, "refused")
            /\ ~IntegratedEnds(s, id, end).s.busy
            /\ IntegratedEnds(late, id, end) = Say(late, "nothing")
            /\ RunIntegratedScan(late, other, given) = Say(late, "refused")
<1>. DEFINE late == Stalled(s, id)
<1>2. id \notin late.active /\ late.busy
  BY DEF Stalled, Release
<1>3. ~Settle(s, id).busy /\ (\A told : Say(Settle(s, id), told).s = Settle(s, id))
  BY DEF Settle, Say
<1>. HIDE DEF late
<1>4. /\ ~LocalFileEnds(s, id, end).s.busy
      /\ ~IntegratedEnds(s, id, end).s.busy
  BY <1>3 DEF LocalFileEnds, IntegratedEnds, Ending
<1>5. /\ LocalFileEnds(late, id, end) = Say(late, "nothing")
      /\ IntegratedEnds(late, id, end) = Say(late, "nothing")
  BY <1>2 DEF LocalFileEnds, IntegratedEnds, Ending
<1>6. /\ ScanFileLocal(late, other, given) = Say(late, "refused")
      /\ RunIntegratedScan(late, other, given) = Say(late, "refused")
  BY <1>2 DEF ScanFileLocal, RunIntegratedScan
<1>. QED
  BY <1>4, <1>5, <1>6 DEF late

\* A second network scan of the same target, begun while the first one runs,
\* shares its id: whichever ends first is told, and the other one's result is
\* dropped (runNetworkScan has no test for a scan in progress, as scanFile
\* and scanUrl have).
THEOREM SecondScanIsDropped ==
  ASSUME NEW s \in [active : SUBSET STRING, busy : BOOLEAN], NEW id \in STRING,
         NEW first, NEW second
  PROVE  LET begun == RunNetworkScan(s, id, TRUE, "good", FALSE).s
             again == RunNetworkScan(begun, id, TRUE, "good", FALSE)
             ended == NetworkEnds(again.s, id, first)
         IN /\ again = Say(begun, "nothing")
            /\ ended.told = Told(first)
            /\ NetworkEnds(ended.s, id, second) = Say(ended.s, "nothing")
            /\ ScanFile(begun, id, TRUE, "good") = Say(begun, "refused")
<1>. DEFINE begun == [s EXCEPT !.active = @ \cup {id}]
            ended == [begun EXCEPT !.active = @ \ {id}]
<1>1. RunNetworkScan(s, id, TRUE, "good", FALSE) = Say(begun, "nothing")
  BY DEF RunNetworkScan, Begin
<1>2. id \in begun.active /\ [begun EXCEPT !.active = @ \cup {id}] = begun
  OBVIOUS
<1>3. RunNetworkScan(begun, id, TRUE, "good", FALSE) = Say(begun, "nothing")
  BY <1>2 DEF RunNetworkScan, Begin
<1>4. NetworkEnds(begun, id, first) = Say(ended, Told(first))
  BY <1>2 DEF NetworkEnds, Ending, Release
<1>5. id \notin ended.active
  OBVIOUS
<1>6. NetworkEnds(ended, id, second) = Say(ended, "nothing")
  BY <1>5 DEF NetworkEnds, Ending
<1>7. ScanFile(begun, id, TRUE, "good") = Say(begun, "refused")
  BY <1>2 DEF ScanFile
<1>8. \A x, told : Say(x, told).s = x /\ Say(x, told).told = told
  BY DEF Say
<1>. HIDE DEF begun, ended
<1>9. RunNetworkScan(s, id, TRUE, "good", FALSE).s = begun
  BY <1>1, <1>8
<1>10. RunNetworkScan(begun, id, TRUE, "good", FALSE).s = begun
  BY <1>3, <1>8
<1>11. NetworkEnds(begun, id, first).s = ended /\ NetworkEnds(begun, id, first).told = Told(first)
  BY <1>4, <1>8
<1>. QED
  BY <1>3, <1>6, <1>7, <1>9, <1>10, <1>11

\* No end of the sandbox leaves a window captured: it starts to be when a
\* process is seen, which none is before the sample runs. But every end without
\* an exception leaves the session referred to, so that Cancel goes on telling
\* that it cancels, and during the next scan's static analysis it cancels
\* nothing: the sandbox begins by forgetting it (cancelSandbox,
\* backend_bridge.py:2844, and runIntegratedScan, 2411).
THEOREM EarlyCancelIsLost ==
  ASSUME NEW w \in [session : BOOLEAN, cancelled : BOOLEAN, captured : BOOLEAN],
         ~w.captured, NEW seen \in BOOLEAN, NEW starts \in BOOLEAN,
         NEW end \in {"unready", "early", "late", "good", "failed"},
         end \in {"unready", "early"} => ~seen
  PROVE  LET left == SandboxEnds(SandboxSees(SandboxBegins(w), seen, starts), end).w
         IN /\ ~left.captured
            /\ CancelSandbox(left).told = IF end \in {"early", "late"} THEN "nothing" ELSE "cancelling"
            /\ ~SandboxBegins(CancelSandbox(left).w).cancelled
<1>. DEFINE begun == SandboxBegins(w)
            shown == SandboxSees(begun, seen, starts)
            left == SandboxEnds(shown, end).w
<1>. DEFINE Ws == [session : BOOLEAN, cancelled : BOOLEAN, captured : BOOLEAN]
<1>1. begun \in Ws /\ ~begun.captured
  BY DEF SandboxBegins
<1>. HIDE DEF begun
<1>2. shown \in Ws /\ (shown.captured => seen)
  BY <1>1 DEF SandboxSees, StartLivePreview
<1>. HIDE DEF shown
<1>3. left \in Ws /\ ~left.captured /\ left.session = (end \notin {"early", "late"})
  BY <1>2 DEF SandboxEnds, StopLivePreview
<1>. HIDE DEF left
<1>4. CancelSandbox(left).w \in Ws
  BY <1>3 DEF CancelSandbox, StopLivePreview
<1>5. ~SandboxBegins(CancelSandbox(left).w).cancelled
  BY <1>4 DEF SandboxBegins
<1>6. CancelSandbox(left).told = IF end \in {"early", "late"} THEN "nothing" ELSE "cancelling"
  BY <1>3 DEF CancelSandbox
<1>. QED
  BY <1>3, <1>5, <1>6 DEF left, shown, begun

\* The toast of an integrated scan names the band of its score, which is the
\* decision's verdict; a scan that could not be scored is toasted as safe
\* while its decision says unknown.
THEOREM ToastTellsTheVerdict ==
  ASSUME NEW score \in 0 .. 100
  PROVE  /\ IntegratedToast(IntegratedResult(TRUE, score))
              = IntegratedResult(TRUE, score).decision.verdict
         /\ IntegratedToast(IntegratedResult(FALSE, score)) = "safe"
         /\ IntegratedResult(FALSE, score).decision.verdict = "unknown"
BY DEF IntegratedToast, IntegratedResult, ScoringBand, ScoreBand, FinalDecision, Clip, AtMost, If

\* The colour of a toast and the label of a row say the same.
Agree(toast, label) ==
  \/ toast = "safe" /\ label = "clean"
  \/ toast = "suspicious" /\ label = "suspicious"
  \/ toast \in {"likely_malicious", "malicious"} /\ label = "malicious"

\* The row's verdict and the toast cut the same score at different places:
\* they disagree exactly from 21 to 24, where a suspicious file is stored as
\* clean and of low risk, and from 51 to 59, where one toasted as likely
\* malicious is stored as suspicious (report_schema.py:127-145).
THEOREM RowAndToastDisagree ==
  ASSUME NEW score \in 0 .. 100
  PROVE  ~Agree(IntegratedToast(IntegratedResult(TRUE, score)), BuiltVerdict(score).label)
           <=> score \in 21 .. 24 \/ score \in 51 .. 59
<1>1. IntegratedToast(IntegratedResult(TRUE, score)) = ScoringBand(score)
  BY DEF IntegratedToast, IntegratedResult, ScoringBand, If
<1>2. BuiltVerdict(score).label = ScoreToLabel(score)
  BY DEF BuiltVerdict
<1>. SUFFICES ~Agree(ScoringBand(score), ScoreToLabel(score))
                <=> score \in 21 .. 24 \/ score \in 51 .. 59
  BY <1>1, <1>2
<1>. USE DEF Agree
<1>3. CASE score <= 20
  <2>1. ScoringBand(score) = "safe" /\ ScoreToLabel(score) = "clean"
    BY <1>3 DEF ScoringBand, ScoreToLabel
  <2>. QED  BY <1>3, <2>1
<1>4. CASE score > 20 /\ score <= 50
  <2>1. ScoringBand(score) = "suspicious"
    BY <1>4 DEF ScoringBand
  <2>2. ScoreToLabel(score) = IF score < 25 THEN "clean" ELSE "suspicious"
    BY <1>4 DEF ScoreToLabel
  <2>. QED  BY <1>4, <2>1, <2>2
<1>5. CASE score > 50
  <2>1. ScoringBand(score) = IF score <= 80 THEN "likely_malicious" ELSE "malicious"
    BY <1>5 DEF ScoringBand
  <2>2. ScoreToLabel(score) = IF score < 60 THEN "suspicious" ELSE "malicious"
    BY <1>5 DEF ScoreToLabel
  <2>. QED  BY <1>5, <2>1, <2>2
<1>. QED  BY <1>3, <1>4, <1>5

\* A report that could not be written is replaced by an empty one: whatever
\* the score, the page's sections and the row read clean, at low risk and
\* without confidence, and pass the schema's validation.
THEOREM UnsavedReadsClean ==
  ASSUME NEW score \in 0 .. 100, NEW second
  PROVE  /\ PassedVerdict(score, FALSE) = EmptyVerdict
         /\ IsComplete(PassedVerdict(score, FALSE))
         /\ PassedVerdict(score, TRUE) = BuiltVerdict(score)
         /\ IntegratedRow(second, score, FALSE) =
               [job |-> <<"static", second>>, risk |-> "Low", confidence |-> 0]
<1>1. VerdictFields = {"risk", "label", "score", "confidence"}
  BY DEF VerdictFields, EmptyVerdict
<1>2. NormalizeReport(<<>>) = EmptyVerdict
  <2>1. DOMAIN <<>> = {}
    OBVIOUS
  <2>2. NormalizeReport(<<>>) = [f \in VerdictFields |-> EmptyVerdict[f]]
    BY <2>1 DEF NormalizeReport
  <2>. QED
    BY <2>2, <1>1 DEF EmptyVerdict
<1>3. NormalizeReport(BuiltVerdict(score)) = BuiltVerdict(score)
  <2>1. DOMAIN BuiltVerdict(score) = VerdictFields
    BY <1>1 DEF BuiltVerdict
  <2>2. NormalizeReport(BuiltVerdict(score)) = [f \in VerdictFields |-> BuiltVerdict(score)[f]]
    BY <2>1 DEF NormalizeReport
  <2>. QED
    BY <2>2, <1>1 DEF BuiltVerdict
<1>4. PassedVerdict(score, FALSE) = EmptyVerdict
  BY <1>2 DEF PassedVerdict
<1>5. IsComplete(EmptyVerdict)
  BY DEF IsComplete, VerdictFields
<1>6. PassedVerdict(score, TRUE) = BuiltVerdict(score)
  BY <1>3 DEF PassedVerdict
<1>7. EmptyVerdict.risk = "Low" /\ EmptyVerdict.confidence = 0
  BY DEF EmptyVerdict
<1>. QED
  BY <1>4, <1>5, <1>6, <1>7 DEF IntegratedRow

-------------------------------------------------------------------------------
USE TimingAssumption

\* Any two failures that count are a watchdog interval apart, the last one
\* is at least as old as the running timer, and so is the last restart.
Spacing ==
  /\ failures \subseteq 0..(Window - 1)
  /\ \A f, g \in failures : f < g => g >= f + HbTimeout
  /\ hbOn \in BOOLEAN
  /\ hbAge \in 0..HbTimeout
  /\ sinceRestart \in 0..Cooldown
  /\ hbOn => /\ \A f \in failures : f >= hbAge
             /\ sinceRestart >= hbAge \/ sinceRestart = Cooldown

\* When the watchdog fires, one earlier failure counts at most.
LEMMA NotTooOften ==
  ASSUME SlowWatchdog, Spacing, HeartbeatDue
  PROVE  ~TooOften
<1>1. PICK f : failures \subseteq {f}
  <2>1. \A g, h \in failures : g = h
    BY DEF Spacing, HeartbeatDue, SlowWatchdog
  <2>. QED
    BY <2>1
<1>2. /\ IsFiniteSet({0, f})
      /\ Cardinality({0, f}) \in Nat
      /\ Cardinality({0, f}) <= 2
  <2>1. IsFiniteSet({0}) /\ Cardinality({0}) = 1
    BY FS_Singleton
  <2>2. /\ IsFiniteSet({0} \cup {f})
        /\ \/ Cardinality({0} \cup {f}) = Cardinality({0})
           \/ Cardinality({0} \cup {f}) = Cardinality({0}) + 1
    <3>1. CASE f \in {0}
      BY <2>1, <3>1, FS_AddElement, Zenon
    <3>2. CASE f \notin {0}
      BY <2>1, <3>2, FS_AddElement, Zenon
    <3>. QED
      BY <3>1, <3>2
  <2>3. {0, f} = {0} \cup {f}
    BY Zenon
  <2>. QED
    BY <2>1, <2>2, <2>3
<1>3. /\ Cardinality(failures \cup {0}) \in Nat
      /\ Cardinality(failures \cup {0}) <= Cardinality({0, f})
  <2>1. failures \cup {0} \subseteq {0, f}
    BY <1>1
  <2>2. IsFiniteSet(failures \cup {0})
    BY <2>1, <1>2, FS_Subset
  <2>. QED
    BY <2>1, <2>2, <1>2, FS_Subset, FS_CardinalityType
<1>4. Cardinality(failures \cup {0}) < MaxFailures
  BY <1>2, <1>3 DEF SlowWatchdog
<1>5. sinceRestart >= Cooldown
  BY DEF Spacing, HeartbeatDue, SlowWatchdog
<1>. QED
  BY <1>3, <1>4, <1>5 DEF TooOften, Spacing

LEMMA InitSpacing == Init => Spacing /\ ~breaker
<1> SUFFICES ASSUME Init PROVE Spacing /\ ~breaker
  OBVIOUS
<1>1. failures = {} /\ hbOn = FALSE /\ hbAge = 0 /\ sinceRestart = Cooldown
  BY DEF Init
<1>2. ~breaker
  BY DEF Init
<1>3. hbOn \in BOOLEAN
  BY <1>1
<1>4. /\ failures \subseteq 0..(Window - 1)
      /\ hbAge \in 0..HbTimeout
      /\ sinceRestart \in 0..Cooldown
  BY <1>1
<1>. QED
  BY <1>1, <1>2, <1>3, <1>4 DEF Spacing

LEMMA StepSpacing ==
  ASSUME SlowWatchdog, Spacing, ~breaker, [Next]_vars
  PROVE  Spacing' /\ ~breaker'
<1> USE DEF watchdog, faultState, StartTimer, StopTimer
<1>1. CASE UNCHANGED <<failures, breaker, sinceRestart>>
           /\ (UNCHANGED <<hbOn, hbAge>> \/ StartTimer \/ StopTimer)
  <2>1. CASE UNCHANGED <<hbOn, hbAge>>
    BY <1>1, <2>1 DEF Spacing
  <2>2. CASE hbAge' = 0 /\ hbOn' \in BOOLEAN
    <3>1. \A f \in failures : f >= 0
      BY DEF Spacing
    <3>2. sinceRestart >= 0 /\ 0 \in 0..HbTimeout
      BY DEF Spacing
    <3>. QED
      BY <1>1, <2>2, <3>1, <3>2 DEF Spacing
  <2>. QED
    BY <1>1, <2>1, <2>2
<1>2. CASE OpenBreaker
  BY <1>2, NotTooOften DEF OpenBreaker
<1>3. CASE ScheduleRestart
  <2>1. /\ failures' = failures \cup {0}
        /\ sinceRestart' = 0
        /\ hbAge' = 0
        /\ hbOn' \in BOOLEAN
        /\ UNCHANGED breaker
    BY <1>3 DEF ScheduleRestart, KillWorker
  <2>2. \A f \in failures : f >= HbTimeout
    BY <1>3 DEF ScheduleRestart, HeartbeatDue, Spacing
  <2>3. \A f, g \in failures' : f < g => g >= f + HbTimeout
    BY <2>1, <2>2 DEF Spacing
  <2>. QED
    BY <2>1, <2>3 DEF Spacing
<1>4. CASE Tick
  <2>1. failures' = {t + 1 : t \in {f \in failures : f + 1 < Window}}
    BY <1>4 DEF Tick
  <2>2. \A g \in failures' : \E f \in failures : g = f + 1 /\ f + 1 < Window
    BY <2>1
  <2>3. failures' \subseteq 0..(Window - 1)
    BY <2>2 DEF Spacing
  <2>4. \A f, g \in failures' : f < g => g >= f + HbTimeout
    BY <2>2 DEF Spacing
  <2>5. /\ hbOn' = hbOn
        /\ hbAge' = IF hbOn THEN hbAge + 1 ELSE 0
        /\ hbOn => hbAge # HbTimeout
    BY <1>4 DEF Tick, HeartbeatDue
  <2>6. hbOn' => \A f \in failures' : f >= hbAge'
    BY <2>2, <2>5 DEF Spacing
  <2>7. /\ sinceRestart' = IF sinceRestart < Cooldown THEN sinceRestart + 1
                           ELSE Cooldown
        /\ UNCHANGED breaker
    BY <1>4 DEF Tick
  <2>. QED
    BY <2>3, <2>4, <2>5, <2>6, <2>7 DEF Spacing
<1>5. CASE UNCHANGED vars
  BY <1>1, <1>5 DEF vars
<1>6. CASE PageStarts \/ RestartFires
  BY <1>1, <1>6 DEF PageStarts, RestartFires, StartWorker
<1>7. CASE Stop \/ SetInterval
  BY <1>1, <1>7 DEF Stop, SetInterval, KillWorker
<1>8. CASE Started \/ FailsToStart \/ Heartbeat \/ Hang \/ Recover \/ Exit
  BY <1>1, <1>8 DEF Started, FailsToStart, Heartbeat, Hang, Recover, Exit
<1>. QED
  BY <1>2, <1>3, <1>4, <1>5, <1>6, <1>7, <1>8 DEF Next, Watch

\* With the timing in the code the breaker of GPUServiceBridge stays closed:
\* a worker that hangs every time is restarted for ever.
THEOREM BreakerNeverOpens == Spec => []BreakerStaysClosed
<1>1. CASE ~SlowWatchdog
  <2>1. BreakerStaysClosed
    BY <1>1 DEF BreakerStaysClosed
  <2>. QED
    BY <2>1, PTL
<1>2. CASE SlowWatchdog
  <2> DEFINE Inv == Spacing /\ ~breaker
  <2>1. Init => Inv
    BY InitSpacing
  <2>2. Inv /\ [Next]_vars => Inv'
    BY <1>2, StepSpacing
  <2>3. Inv => BreakerStaysClosed
    BY DEF BreakerStaysClosed
  <2>. QED
    BY <2>1, <2>2, <2>3, PTL DEF Spec
<1>. QED
  BY <1>1, <1>2

------------------------------------------------------------------------------
\* A live worker is watched, and has been silent no longer than the timer runs.
Watched == proc \in Alive => hbOn /\ silent <= hbAge

GpuIInv == GpuInv /\ Watched

LEMMA InitGpu == Init => GpuIInv
<1> SUFFICES ASSUME Init PROVE GpuIInv
  OBVIOUS
<1>1. /\ proc = "down" /\ status = "stopped" /\ hbOn = FALSE /\ hbAge = 0
      /\ failures = {} /\ breaker = FALSE /\ sinceRestart = Cooldown
      /\ restarts = {} /\ silent = 0
  BY DEF Init
<1>2. hbOn \in BOOLEAN /\ breaker \in BOOLEAN
  BY <1>1
<1>3. /\ hbAge \in 0..HbTimeout /\ failures \subseteq 0..(Window - 1)
      /\ sinceRestart \in 0..Cooldown /\ restarts \subseteq 0..Cooldown
      /\ silent \in Nat
  BY <1>1
<1>4. proc \in Proc /\ status \in Statuses /\ proc \notin Alive /\ status # "running"
  BY <1>1 DEF Proc, Alive, Statuses
<1>. QED
  BY <1>2, <1>3, <1>4 DEF GpuIInv, GpuInv, Watched, TypeOK, SilenceIsBounded, RunningIsTrue

LEMMA TickGpu ==
  ASSUME GpuIInv, Tick
  PROVE  GpuIInv'
<1> USE DEF GpuIInv, GpuInv, TypeOK
<1>1. hbOn => hbAge < HbTimeout
  BY DEF Tick, HeartbeatDue
<1>2. hbAge' \in 0..HbTimeout /\ (hbOn' => hbAge' = hbAge + 1) /\ UNCHANGED <<proc, status, hbOn, breaker>>
  BY <1>1 DEF Tick
<1>3. failures' \subseteq 0..(Window - 1)
  <2>1. \A g \in failures' : \E f \in failures : g = f + 1 /\ f + 1 < Window
    BY DEF Tick
  <2>. QED
    BY <2>1
<1>4. sinceRestart' \in 0..Cooldown
  BY DEF Tick
<1>5. restarts' \subseteq 0..Cooldown
  <2>1. \A e \in restarts' : \E d \in restarts : e = d - 1 /\ d # 0
    BY DEF Tick
  <2>. QED
    BY <2>1
<1>6. silent' \in Nat /\ (proc \in Alive => silent' = silent + 1)
  BY DEF Tick
<1>7. Watched'
  BY <1>2, <1>6 DEF Watched
<1>8. SilenceIsBounded' /\ RunningIsTrue'
  BY <1>1, <1>2, <1>6 DEF Watched, SilenceIsBounded, RunningIsTrue
<1>. QED
  BY <1>2, <1>3, <1>4, <1>5, <1>6, <1>7, <1>8

LEMMA StepGpu ==
  ASSUME GpuIInv, [Next]_vars
  PROVE  GpuIInv'
<1> USE DEF watchdog, faultState, StartTimer, StopTimer, Proc, Alive, Statuses
<1> USE DEF GpuIInv, GpuInv, TypeOK, Watched, SilenceIsBounded, RunningIsTrue
<1>1. CASE StartWorker /\ UNCHANGED faultState /\ restarts' \subseteq restarts
  <2>1. CASE UNCHANGED <<proc, status, watchdog, silent>>
    BY <1>1, <2>1
  <2>2. CASE proc' = "starting" /\ status' = "starting" /\ StartTimer /\ silent' = 0
    BY <1>1, <2>2
  <2>3. CASE status' = "stopped" /\ UNCHANGED <<proc, watchdog, silent>>
    BY <1>1, <2>3
  <2>. QED
    BY <1>1, <2>1, <2>2, <2>3 DEF StartWorker
<1>2. CASE PageStarts \/ RestartFires
  BY <1>1, <1>2 DEF PageStarts, RestartFires
<1>3. CASE /\ KillWorker /\ status' \in {"stopped", "breaker-open", "restarting"}
           /\ failures' \in {failures, failures \cup {0}} /\ breaker' \in BOOLEAN
           /\ sinceRestart' \in {sinceRestart, 0}
           /\ restarts' \in {restarts, restarts \cup {Cooldown}}
  <2>1. proc' \in {"down", "dying"} /\ silent' = silent /\ hbOn' \in BOOLEAN /\ hbAge' = 0
    BY <1>3 DEF KillWorker
  <2>. QED
    BY <1>3, <2>1
<1>4. CASE Stop
  BY <1>3, <1>4 DEF Stop
<1>5. CASE SetInterval
  <2>1. UNCHANGED <<failures, breaker, sinceRestart, restarts>>
    BY <1>5 DEF SetInterval
  <2>2. CASE proc' = "starting" /\ status' = "starting" /\ silent' = 0 /\ StartTimer
    BY <2>1, <2>2
  <2>3. CASE /\ proc' \in {"dying", "down"} /\ status' = "stopped" /\ UNCHANGED silent
             /\ StopTimer \/ StartTimer
    <3>1. hbOn' \in BOOLEAN /\ hbAge' = 0
      BY <2>3
    <3>. QED
      BY <2>1, <2>3, <3>1
  <2>. QED
    BY <1>5, <2>2, <2>3 DEF SetInterval
<1>6. CASE OpenBreaker \/ ScheduleRestart
  BY <1>3, <1>6 DEF OpenBreaker, ScheduleRestart
<1>7. CASE Started \/ FailsToStart \/ Heartbeat \/ Hang \/ Recover \/ Exit
  <2>1. UNCHANGED <<failures, breaker, sinceRestart, restarts>>
    BY <1>7 DEF Started, FailsToStart, Heartbeat, Hang, Recover, Exit
  <2>2. CASE Started \/ Hang \/ Recover
    BY <2>1, <2>2 DEF Started, Hang, Recover
  <2>3. CASE FailsToStart \/ Exit
    BY <2>1, <2>3 DEF FailsToStart, Exit
  <2>4. CASE Heartbeat
    BY <2>1, <2>4 DEF Heartbeat
  <2>. QED
    BY <1>7, <2>2, <2>3, <2>4
<1>8. CASE Tick
  BY <1>8, TickGpu
<1>9. CASE UNCHANGED vars
  BY <1>9 DEF vars
<1>. QED
  BY <1>2, <1>4, <1>5, <1>6, <1>7, <1>8, <1>9 DEF Next, Watch

\* A hung worker is noticed within the watchdog's interval, whatever the pages
\* and late signals do meanwhile, and "running" is shown of a live one only.
THEOREM GpuInvariant == Spec => []GpuInv
<1>1. Init => GpuIInv
  BY InitGpu
<1>2. GpuIInv /\ [Next]_vars => GpuIInv'
  BY StepGpu
<1>3. GpuIInv => GpuInv
  BY DEF GpuIInv
<1>. QED
  BY <1>1, <1>2, <1>3, PTL DEF Spec

\* An open breaker stays open and starts no worker.
THEOREM BreakerFinal == Spec => BreakerIsFinal
<1>1. ASSUME GpuInv, [Next]_vars
      PROVE  [breaker => breaker' /\ (proc' \in Alive => proc \in Alive)]_vars
  <2> SUFFICES ASSUME Next, breaker
               PROVE  breaker' /\ (proc' \in Alive => proc \in Alive)
    BY <1>1
  <2> USE DEF watchdog, faultState, Alive
  <2>1. CASE PageStarts \/ RestartFires
    BY <2>1 DEF PageStarts, RestartFires, StartWorker
  <2>2. CASE Stop \/ OpenBreaker \/ ScheduleRestart
    BY <2>2 DEF Stop, OpenBreaker, ScheduleRestart, KillWorker
  <2>3. CASE SetInterval
    BY <1>1, <2>3 DEF SetInterval, GpuInv, RunningIsTrue
  <2>4. CASE Started \/ FailsToStart \/ Heartbeat \/ Hang \/ Recover \/ Exit \/ Tick
    BY <2>4 DEF Started, FailsToStart, Heartbeat, Hang, Recover, Exit, Tick
  <2>. QED
    BY <2>1, <2>2, <2>3, <2>4 DEF Next, Watch
<1>. QED
  BY <1>1, GpuInvariant, PTL DEF Spec, BreakerIsFinal

===============================================================================
