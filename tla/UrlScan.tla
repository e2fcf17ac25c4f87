------------------------------- MODULE UrlScan -------------------------------
(***************************************************************************)
(* What a scan of an address finds, and what the page says of it: the      *)
(* offline checker (scanning/url_checker.py), the scanner that fetches the *)
(* page (scanning/url_scanner.py), the browser it may be opened in         *)
(* (payload/url_detonator/webview2_detonator.py), the remote lists         *)
(* (scanning/url_external_apis.py), the points all of it has for the       *)
(* scorer (scanning/url_scoring.py), and the advice that is given          *)
(* (scanning/friendly_report.py, ai/url_explainer.py).                     *)
(*                                                                         *)
(* Functions without state.  An address is a record of what the rules ask  *)
(* of it; the rules' lists and patterns are data.  Scores and verdicts of  *)
(* the points are in Verdicts.  Left out: the fragment, which only the     *)
(* checker sees, and credentials with a colon, which hide the host from it.*)
(***************************************************************************)
EXTENDS Verdicts

(* How it is written: "schemed" or bare, or nothing one can ask for.  An @   *)
(* in front of the host is noticed only where the scheme was typed.  The     *)
(* checker and the scanner have a list of bad top-level domains each; only   *)
(* the scanner knows addresses of IPv6.                                      *)
Unusable == {"empty", "control", "unparsable", "hostless"}
Addresses ==
    [form : Unusable \cup {"schemed", "bare"}, listed : BOOLEAN, allowed : BOOLEAN,
     badTld : BOOLEAN, abusedTld : BOOLEAN, ip : BOOLEAN, ipv4 : BOOLEAN, private : BOOLEAN,
     localhost : BOOLEAN, punycode : BOOLEAN, at : BOOLEAN, lookalike : BOOLEAN,
     typo : BOOLEAN, port : BOOLEAN, numeric : BOOLEAN, executable : BOOLEAN,
     redirects : BOOLEAN, dots : Nat, length : Nat, escapes : Nat,
     keywords : Nat, words : Nat]

------------------------------------------------------------------------------
(* URLChecker. *)

ListPoints(a) == If(a.listed, 50) - If(a.allowed, 20)
HostPoints(a) ==
    If(a.badTld, 15) + If(a.ipv4, 20) + If(a.dots > 3, 10)
    + If(a.at /\ a.form = "schemed", 25) + If(a.lookalike, 35)
NamePoints(a) == If(a.typo, 25) + If(a.port, 5) + If(a.numeric, 10)
PathPoints(a) ==
    If(a.length > 200, 5) + If(a.escapes > 10, 12) + 8 * AtMost(3, a.keywords)
    + If(a.executable, 20)

CheckerScore(a) ==
    IF a.form = "unparsable" THEN 0
    ELSE Clip(ListPoints(a) + HostPoints(a) + NamePoints(a) + PathPoints(a))
CheckerVerdict(a) ==
    LET s == CheckerScore(a)
    IN IF a.form = "unparsable" THEN "Unknown"
       ELSE IF s < 15 THEN "Safe" ELSE IF s < 40 THEN "Suspicious" ELSE "Malicious"

------------------------------------------------------------------------------
(* UrlScanner.  Findings are counted by their severity. *)

Found(critical, high, medium, low) ==
    [critical |-> critical, high |-> high, medium |-> medium, low |-> low]
Nothing == Found(0, 0, 0, 0)
Both(f, g) == [s \in DOMAIN f |-> f[s] + g[s]]

(* _normalize_and_validate.  A scheme it does not know is taken for a host, *)
(* so that the test for other schemes never fails.                          *)
Barred(a, option) == option /\ ((a.ip /\ a.private) \/ a.localhost)
Refuses(a, option) == a.form \in Unusable \/ Barred(a, option)
Validated(a, option) ==
    IF a.form \in Unusable THEN Found(1, 0, 0, 0)
    ELSE Found(If(Barred(a, option), 1), If(a.punycode, 1), If(a.ip, 1), 0)

(* _analyze_url_structure. *)
Structure(a) ==
    Found(0, If(a.words > 2, 1),
          If(a.abusedTld, 1) + If(a.words \in 1 .. 2, 1),
          If(a.redirects, 1) + If(a.dots >= 4, 1) + If(a.length > 500, 1)
          + If(a.escapes > 10, 1))

(* _safe_fetch.  More than five redirects are an error of the library; an  *)
(* answer that is cut off while it is read is like one that is not text.   *)
MaxRedirects == 5
Fetches ==
    [end : {"text", "other", "download", "too many", "timeout", "tls", "unreachable"},
     hops : 0 .. MaxRedirects]
Answered(f) == f.end \in {"text", "other", "download"}

Fetched(f) ==
    Found(0, If(Answered(f) /\ f.hops = MaxRedirects, 1)
             + If(f.end \in {"download", "too many", "tls"}, 1),
          If(Answered(f) /\ f.hops \in 3 .. MaxRedirects - 1, 1)
          + If(f.end = "timeout", 1), 0)

(* A download is read on only if downloads are not blocked, and no download *)
(* is text.                                                                 *)
HasContent(f) == f.end = "text"

(* _analyze_content, of a page: its title, forms, frames and scripts, no two *)
(* of its forms or frames alike.                                             *)
Pages ==
    [brand : BOOLEAN, password : BOOLEAN, obfuscated : BOOLEAN,
     forms : Nat, frames : Nat, data : Nat, wallets : 0 .. 3]
Content(p) ==
    Found(0, p.forms,
          If(p.brand, 1) + If(p.password, 1) + p.frames + If(p.data > 5, 1)
          + If(p.obfuscated, 1) + p.wallets, 0)

StaticFinds(a, option, f, p) ==
    IF Refuses(a, option) THEN Validated(a, option)
    ELSE Both(Both(Validated(a, option), Structure(a)),
              Both(Fetched(f), IF HasContent(f) THEN Content(p) ELSE Nothing))

(* _calculate_verdict; box is what it looks up in the detonator's report. *)
ScannerScore(finds, box) ==
    AtMost(100, 25 * finds.critical + 15 * finds.high + 8 * finds.medium + 3 * finds.low
                + If(box.connects, 10) + If(box.mutations > 50, 5))
ScannerVerdict(s) ==
    IF s <= 10 THEN "safe" ELSE IF s <= 30 THEN "low_risk"
    ELSE IF s <= 55 THEN "suspicious" ELSE IF s <= 80 THEN "dangerous" ELSE "malicious"

(* The result object is what is cached for an hour, unless the address was  *)
(* refused or something failed; the option is no part of the key.  A run in *)
(* the sandbox and the scorer of all engines write into the same object.    *)
Cacheable(refused, failed) == ~refused /\ ~failed
RefusesNow(a, option, cached) == ~cached /\ Refuses(a, option)

------------------------------------------------------------------------------
(* The detonator.  Edge first; where it does not end well, a web view, if    *)
(* there is one.  "asked" is the address it was given.                       *)
Ends == [success : BOOLEAN, final : {"asked", "elsewhere"}]
Edge(runtime, edge) == [success |-> runtime /\ edge = "ends well", final |-> "asked"]
Detonate(runtime, edge, view) ==
    IF ~runtime \/ Edge(runtime, edge).success \/ view \in {"none", "raises"}
    THEN Edge(runtime, edge)
    ELSE [success |-> view # "hangs",
          final |-> IF view = "moves" THEN "elsewhere" ELSE "asked"]

(* _run_sandbox_detonation: no report without a detonator, a sandbox, an     *)
(* answer in time and a file that can be read.                               *)
Obstacles == {"no detonator", "no sandbox", "timeout", "no output", "no JSON"}
Report(obstacle, end) ==
    IF obstacle \in Obstacles THEN [success |-> FALSE, final |-> "none"] ELSE end

(* What its report has under the names that are looked up.  It counts popups *)
(* under another name, has none for navigations, script errors, connections  *)
(* and mutations, and neither way of opening a page notes a download.        *)
Boxes == [downloads : Nat, popups : Nat, navigations : Nat, connects : BOOLEAN,
          mutations : Nat]
FromDetonator(box) ==
    /\ box.downloads = 0 /\ box.popups = 0 /\ box.navigations = 0
    /\ ~box.connects /\ box.mutations = 0

(* _process_sandbox_result. *)
Observed(report, box) ==
    IF report.success
    THEN Found(0, AtMost(5, box.downloads),
               If(box.popups > 0, 1) + If(box.navigations > 5, 1), 0)
    ELSE Nothing

(* scan_sandbox: a script redirected the page if the report's address is not *)
(* the one the fetch ended at.                                               *)
ScriptRedirects(report, moved, same) ==
    IF report.final = "elsewhere" THEN ~same ELSE report.final = "asked" /\ moved
SandboxFinds(report, box, moved, same) ==
    Both(Observed(report, box),
         Found(0, 0, If(ScriptRedirects(report, moved, same), 1), 0))

------------------------------------------------------------------------------
(* The remote lists. *)

(* A key, the library and an answer are needed; what VirusTotal does not    *)
(* know and what fails is not flagged.                                      *)
RemoteAnswers == {"no key", "failed", "error", "unknown", "clean", "flagged"}
Asked(answer) == answer \notin {"no key", "failed"}
RemoteFlag(answer) == answer = "flagged"
VirusTotalPoints(answer, both) == If(RemoteFlag(answer), IF both THEN 40 ELSE 20)

------------------------------------------------------------------------------
(* What the scorer takes all of this for (_score_evidence): some titles have *)
(* their own points, the others those of their severity.  The same finding   *)
(* of the checker and of the scanner is two.                                 *)

CheckerPoints(a) ==
    If(a.form # "unparsable",
       If(a.badTld, 12) + If(a.ipv4, 15) + If(a.length > 200, 5) + If(a.dots > 3, 10)
       + If(a.at /\ a.form = "schemed", 20) + If(a.lookalike, 30)
       + If(a.escapes > 10, 10) + If(a.keywords > 0, 10) + If(a.executable, 20)
       + If(a.typo, 20) + If(a.port, 5) + If(a.numeric, 10))

ValidationPoints(a, option) ==
    IF a.form \in Unusable THEN 30
    ELSE If(a.punycode, 25) + If(a.ip, 15) + If(Barred(a, option), 30)

StructurePoints(a) ==
    If(a.abusedTld, 12) + (IF a.words > 2 THEN 20 ELSE If(a.words > 0, 10))
    + If(a.redirects, 5) + If(a.dots >= 4, 5) + If(a.length > 500, 5) + If(a.escapes > 10, 5)

FetchPoints(f) ==
    If(Answered(f) /\ f.hops >= 3, 10) + If(f.end \in {"download", "too many"}, 25)
    + If(f.end = "tls", 20) + If(f.end = "timeout", 10)

ContentPoints(p, trusted) ==
    If(p.brand, 15) + If(p.password /\ ~trusted, 12) + 20 * p.forms + 12 * p.frames
    + If(p.data > 5, 10) + If(p.obfuscated, 15) + 10 * p.wallets

SandboxPoints(report, box, moved, same) ==
    If(report.success, 35 * AtMost(5, box.downloads) + If(box.popups > 0, 12)
                       + If(box.navigations > 5, 10))
    + If(ScriptRedirects(report, moved, same), 15)

ScannerPoints(a, option, f, p) ==
    ValidationPoints(a, option)
    + If(~Refuses(a, option),
         StructurePoints(a) + FetchPoints(f) + If(HasContent(f), ContentPoints(p, a.allowed)))

(* A static scan with all engines, Safe Browsing and VirusTotal silent, as *)
(* MultiVerdict takes it.  domains: those the page links to.               *)
Engines(a, option, f, p, domains, https) ==
    [points |-> CheckerPoints(a) + ScannerPoints(a, option, f, p),
     domains |-> If(~Refuses(a, option) /\ HasContent(f), domains),
     read |-> ~Refuses(a, option), https |-> https,
     listed |-> a.listed, allowed |-> a.allowed, flagged |-> FALSE]

------------------------------------------------------------------------------
(* What is said.  The toast and the report, whose advice is by score; the   *)
(* explanation, which draws its lines one point lower.                      *)
Toast(s, verdict) ==
    IF verdict = "malicious" \/ s > 80 THEN "malicious"
    ELSE IF verdict = "likely_malicious" \/ s > 50 THEN "likely_malicious"
    ELSE IF verdict = "suspicious" \/ s > 20 THEN "suspicious" ELSE "safe"

ReportAdvice(s) == IF s > 50 THEN "avoid" ELSE IF s > 20 THEN "careful" ELSE "visit"

WhatToDo(s, verdict) ==
    IF verdict = "malicious" \/ s >= 80 THEN "never"
    ELSE IF verdict = "likely_malicious" \/ s >= 50 THEN "avoid"
    ELSE IF verdict = "suspicious" \/ s >= 20 THEN "careful" ELSE "visit"

(* _generate_what_it_is asks the signals for names the scanner has not. *)
Signals == {"has_redirects", "redirect_count", "is_https", "is_ip_literal",
            "evidence_count", "critical_count", "high_count", "medium_count",
            "ioc_domains", "ioc_ips", "sandbox_used"}
Impressions == {"is_phishing_url", "has_download_form", "suspicious_tld",
                "punycode_domain", "ip_address_url"}
WhatItIs(signals, type, hops) ==
    IF signals \cap Impressions # {} THEN "a suspicion"
    ELSE IF type \in {"html", "javascript", "json", "file"} THEN type
    ELSE IF hops > 2 THEN "a chain of redirects" ELSE "a page"

(* _generate_why_risky: which evidence it quotes. *)
WhyRisky(verdict, finds) ==
    IF verdict = "safe" THEN "reassures"
    ELSE IF finds.critical + finds.high > 0 THEN "the worst"
    ELSE IF finds.medium > 0 THEN "the medium" ELSE "caution"

Confidence(status, content, evidence, boxed) ==
    LET c == If(status # 0, 20) + If(content > 0, 20) + If(evidence > 0, 20)
             + If(evidence >= 3, 10) + If(boxed, 30)
    IN IF c >= 70 THEN "high" ELSE IF c >= 40 THEN "medium" ELSE "low"
===============================================================================
