------------------------------- MODULE FileScan -------------------------------
(***************************************************************************)
(* A static scan of one file (scanning/static_scanner.py) with ClamAV      *)
(* (infra/integrations.py, scanning/clamav_adapter.py), and what the Scan  *)
(* Center's static pipeline (scancenter/controller.py) makes of it.        *)
(*                                                                         *)
(* Functions without state, over a machine m and a file f.  m.pefile and   *)
(* m.signtool: what is installed; m.clam: how a run of ClamAV ends; m.ai:  *)
(* the key, whether an answer can be read, and its score.  f.regular,      *)
(* f.opens, f.reads: there, still readable when hashed, and when read; its *)
(* kind by extension, its first bytes, and in f.pe what the parser finds   *)
(* until it is through or gives up.                                        *)
(***************************************************************************)
EXTENDS Verdicts

Severities == [low : Nat, medium : Nat, high : Nat, critical : Nat]
Parts == [imports : Severities, entropy : Nat, rwx : Nat, packed : BOOLEAN, certified : BOOLEAN]

Hosts ==
    [pefile : BOOLEAN, signtool : {"none", "approves", "rejects", "fails"},
     clam : {"absent", "infected", "clean", "error", "late", "broken"},
     ai : [key : BOOLEAN, answers : BOOLEAN, score : Int]]

Files ==
    [regular : BOOLEAN, opens : BOOLEAN, reads : BOOLEAN,
     kind : {"program", "powershell", "script", "other"}, mz : BOOLEAN,
     format : {"good", "bad"}, pe : Parts,
     encoded : BOOLEAN, dynamic : BOOLEAN, chars : Nat, ips : Nat, urls : Nat]

------------------------------------------------------------------------------
(* Where the entropies are computed; one failure on the GPU ends its use. *)

Requests == {"auto", "gpu", "cpu"}
Backend(requested, installed, device) ==
    IF requested # "cpu" /\ installed /\ device THEN "gpu" ELSE "cpu"
AfterEntropy(backend, fails) == IF fails THEN "cpu" ELSE backend

------------------------------------------------------------------------------
(* Programs. *)

AsPe(f) == f.kind = "program" \/ (f.reads /\ f.mz)

(* Without the parser every such file is taken for a PE in which nothing is *)
(* found.                                                                   *)
IsPe(m, f) == AsPe(f) /\ (m.pefile => f.format = "good")
Parsed(m, f) == IsPe(m, f) /\ m.pefile

PeFinds(pe) ==
    25 * pe.imports.critical + 15 * pe.imports.high
    + 8 * pe.imports.medium + 3 * pe.imports.low
    + 8 * pe.entropy + 15 * pe.rwx + If(pe.packed, 8)

(* valid: TRUE, FALSE or None. *)
Signature(m, f) ==
    IF AsPe(f) /\ m.signtool = "approves" THEN "valid"
    ELSE IF Parsed(m, f) /\ f.pe.certified /\ m.signtool = "rejects" THEN "invalid"
    ELSE "unknown"

(* The AI's own verdict is kept as a text; a reply that cannot be read is none. *)
AiAnswers(m, f) == IsPe(m, f) /\ m.ai.key /\ m.ai.answers

------------------------------------------------------------------------------
(* Scripts, by their extension. *)

ScriptFinds(f) ==
    IF ~f.reads THEN 0
    ELSE If(f.kind = "powershell" /\ f.encoded, 15)
         + If(f.kind = "powershell" /\ f.dynamic, 15)
         + If(f.kind \in {"powershell", "script"} /\ f.chars > 10, 8)

------------------------------------------------------------------------------
(* Indicators: the addresses each of the two scanners keeps, as octets. *)

Octet == 0 .. 255
Ips == [a : Octet, b : Octet, c : Octet, d : Octet]

ScannerKeeps(p) ==
    /\ p.a \notin {0, 10, 127} /\ p.a < 224
    /\ ~(p.a = 172 /\ p.b \in 16 .. 31)
    /\ ~(p.a = 192 /\ p.b = 168) /\ ~(p.a = 169 /\ p.b = 254)
    /\ ~(p.b = 0 /\ p.c = 0 /\ p.d = 0)

Same(p, n) == p.a = n[1] /\ p.b = n[2] /\ p.c = n[3] /\ p.d = n[4]
Skipped == {<<0, 0, 0, 0>>, <<127, 0, 0, 1>>, <<255, 255, 255, 255>>}

ControllerKeeps(p) ==
    /\ \A n \in Skipped : ~Same(p, n)
    /\ p.a \notin {10, 169}
    /\ ~(p.a = 172 /\ p.b \in 16 .. 31) /\ ~(p.a = 192 /\ p.b = 168)

(* A name as its last label and the labels before it. *)
ScannerKeepsName(n) ==
    /\ n.labels # {} /\ n.last.length \in 2 .. 24 /\ n.last.letters /\ ~n.last.artefact
    /\ \A l \in n.labels : l.length >= 3 /\ ~l.digits

------------------------------------------------------------------------------
(* ClamAV: the client that is found, and how the probe words it.  A client *)
(* counts as the scanner whether or not it finds its daemon.               *)

Client(h) ==
    IF h.clamscan THEN "clamscan" ELSE IF h.clamdscan THEN "clamdscan"
    ELSE IF h.windows THEN h.installed ELSE "none"

ClamStatus(h) ==
    LET active == ~h.windows /\ h.daemon
    IN IF Client(h) # "none"
       THEN IF active THEN "daemon_available" ELSE "scanner_available"
       ELSE IF active THEN "unavailable" ELSE "not_installed"

(* What the scan says of it: a run that ended in an error was scanned, one *)
(* that broke off was not, and only "infected" is looked at.               *)
ClamEntry(asked, clam) ==
    [available |-> asked /\ clam # "absent",
     scanned   |-> asked /\ clam \in {"infected", "clean", "error"},
     infected  |-> asked /\ clam = "infected"]

------------------------------------------------------------------------------
(* scan_file. *)

Unscanned == FinalDecision(0, TRUE, "none", "unnamed", "static", BlockThreshold)

Points(m, f, clam) ==
    If(Parsed(m, f), PeFinds(f.pe)) + ScriptFinds(f) + If(clam.infected, 25)

Works(f) == f.regular /\ f.opens

Scanned(m, f, clam, s) ==
    [label |-> ScanLabel(s), score |-> s, clam |-> clam, signature |-> Signature(m, f),
     decision |-> FinalDecision(s, FALSE, "none", "unnamed", "static", BlockThreshold)]

(* The results, of which there are two if the blend may round either way.  *)
Scans(m, f, asked) ==
    LET clam == ClamEntry(asked, m.clam)
    IN IF Works(f)
       THEN {Scanned(m, f, clam, s) :
                 s \in ScanScores(Points(m, f, clam), AiAnswers(m, f),
                                  Clip(m.ai.score), clam.infected)}
       ELSE {[label |-> "unknown", score |-> 0, clam |-> ClamEntry(FALSE, m.clam),
              signature |-> "unknown", decision |-> Unscanned]}

------------------------------------------------------------------------------
(* The static pipeline of the Scan Center, which hashes the file itself, and *)
(* goes on when the scanner failed.  Nothing is run: the sandbox's section   *)
(* is a placeholder, and the bridge sends a scan with a sandbox elsewhere.   *)

FileSources(m, f, asked) ==
    LET clam == ClamEntry(asked /\ Works(f), m.clam)
        answered == Works(f) /\ AiAnswers(m, f)
    IN [clam |-> [active |-> clam.available, score |-> StaticClamScore(clam.infected)],
        ai   |-> [active |-> answered, score |-> If(answered, Clip(m.ai.score))],
        box  |-> [active |-> FALSE, score |-> 0]]

Bonus(m, f) ==
    LET parsed == Works(f) /\ Parsed(m, f)
    IN PeBonus([packed   |-> parsed /\ f.pe.packed,
                entropy  |-> parsed /\ f.pe.entropy > 0,
                rwx      |-> parsed /\ f.pe.rwx > 0,
                critical |-> If(parsed, f.pe.imports.critical),
                high     |-> If(parsed, f.pe.imports.high)])
       + IocBonus(f.ips, f.urls)

(* The signature reaches the report when it is finalised, after the scoring: *)
(* what is scored has none.                                                  *)
ScoredSignature == FALSE

CenterScores(m, f, asked) ==
    LET s == FileSources(m, f, asked)
    IN StaticScores(s.clam, s.ai, s.box, Bonus(m, f), SignatureDiscount(ScoredSignature, FALSE))

CenterRisk(label) ==
    CASE label = "Clean" -> "Low" [] label = "Suspicious" -> "Medium"
      [] label = "Likely Malicious" -> "High" [] label = "Malicious" -> "Critical"
      [] OTHER -> "Unknown"

Recommendation(risk) ==
    IF risk \in {"High", "Critical"} THEN "remove" ELSE IF risk = "Medium" THEN "verify"
    ELSE "nothing to do"

(* With no source active the AI's place counts as one. *)
CenterConfidence(s, score) ==
    IF s.clam.active /\ s.ai.active THEN AtMost(80, 60 + score \div 10)
    ELSE AtMost(65, 40 + score \div 8)

Scored(m, f, asked, s) ==
    [label |-> CenterLabel(s), risk |-> CenterRisk(CenterLabel(s)), score |-> s,
     confidence |-> CenterConfidence(FileSources(m, f, asked), s),
     advice |-> Recommendation(CenterRisk(CenterLabel(s)))]

Unscored(label) ==
    [label |-> label, risk |-> "Unknown", score |-> 0, confidence |-> 0, advice |-> "none"]

(* run: there when it starts, hashed, and not cancelled before the scoring. *)
(* All three are written to the history.                                    *)
CenterReports(m, f, asked, there, hashed, cancelled) ==
    IF ~there \/ ~hashed THEN {Unscored("Error")}
    ELSE IF cancelled THEN {Unscored("Unknown")}
    ELSE {Scored(m, f, asked, s) : s \in CenterScores(m, f, asked)}
===============================================================================
