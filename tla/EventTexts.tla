------------------------------ MODULE EventTexts ------------------------------
(***************************************************************************)
(* What an event of the log is called: the rules of the knowledge base     *)
(* (event_rules_engine.py), the preview and the instant explanation made   *)
(* of them, the remote model's reply and its stand-ins (groq.py), and the  *)
(* row an explanation is kept in (sqlite_repo.py).  EventExplanations says *)
(* when each is asked for and shown; this module what it says.             *)
(*                                                                         *)
(* An event is [id, privilege, rule, level]: whether its message contains  *)
(* "privilege", and the severity of the rule for its source and id, or     *)
(* "none".  An explanation is [risk, normal, confidence, worded, source]:  *)
(* confidence in hundredths, worded if a word stands in its place.  Texts, *)
(* entities and evidence are left out.                                     *)
(***************************************************************************)
EXTENDS Naturals

EventSeverities == {"Safe", "Minor", "Warning", "Critical"}

------------------------------------------------------------------------------
(* The readers of the two systems' logs, and the rules they can reach. *)

WindowsLogs == {"Application", "System", "Security"}

WindowsLevels == {"ERROR", "WARNING", "INFO", "SUCCESS", "FAILURE", "UNKNOWN"}

(* The rules are found by the source, which is the log's name: exactly, then *)
(* but for case, then as a part of a provider's name.  "System" is in none.  *)
WindowsRule(log, id) ==
    CASE log = "Application" /\ id = 1000 -> "Warning"
      [] log = "Application" /\ id = 1002 -> "Minor"
      [] log = "Security" /\ id \in {4624, 4634, 4672, 4688, 4689} -> "Safe"
      [] log = "Security" /\ id \in {4625, 4719} -> "Warning"
      [] log = "Security" /\ id \in {4648, 4697, 4732, 4733} -> "Minor"
      [] OTHER -> "none"

PrivilegedLogon == 4672   \* shown as "Special privileges assigned to new login"

WindowsEvent(log, id, level, privilege) ==
    [id |-> id, privilege |-> privilege \/ id = PrivilegedLogon,
     rule |-> WindowsRule(log, id), level |-> level]

(* The id of an event of the journal is the process's, or 0. *)
LinuxLevel(priority) ==
    CASE priority \in 0 .. 2 -> "Critical" [] priority = 3 -> "Error"
      [] priority = 4 -> "Warning" [] OTHER -> "Information"

JournalEvent(pid, priority, privilege, rule) ==
    [id |-> pid, privilege |-> privilege, rule |-> rule,
     level |-> LinuxLevel(priority)]

------------------------------------------------------------------------------
(* The rules. *)

TemplateSeverity(level) ==
    CASE level = "Critical" -> "Critical"
      [] level \in {"Error", "Warning", "ERROR", "WARNING"} -> "Minor"
      [] OTHER -> "Safe"

NoPrivilege == 1314       \* ERROR_PRIVILEGE_NOT_HELD, of reading the log itself

PrivilegeAnswer == [severity |-> "Minor", matched |-> TRUE]

EventLookup(e) ==
    IF e.id = NoPrivilege \/ e.privilege THEN PrivilegeAnswer
    ELSE IF e.rule # "none"
         THEN [severity |-> e.rule, matched |-> TRUE]
         ELSE [severity |-> TemplateSeverity(e.level), matched |-> FALSE]

RoutineSeverities == {"Safe", "Minor"}

SeverityRisk(severity) ==
    CASE severity = "Safe" -> "none" [] severity = "Minor" -> "low"
      [] severity = "Warning" -> "medium" [] severity = "Critical" -> "high"

LevelRisk(level) ==
    CASE level = "Information" -> "none" [] level = "Warning" -> "medium"
      [] level \in {"Error", "Critical"} -> "high" [] OTHER -> "low"

(* _risk_to_severity lowers the case first: both spellings are given. *)
RiskSeverity(risk) ==
    CASE risk = "none" -> "Safe"
      [] risk \in {"medium", "Medium"} -> "Warning"
      [] risk \in {"high", "High", "critical", "Critical"} -> "Critical"
      [] OTHER -> "Minor"

------------------------------------------------------------------------------
(* The preview of a selected row. *)

RiskReason(severity) ==
    CASE severity \in RoutineSeverities -> "routine and safe"
      [] severity = "Warning" -> "may need attention"
      [] OTHER -> "may be a real problem"

LevelPreview(level) ==
    [risk |-> CASE level \in {"Error", "Warning"} -> "Medium"
                [] level = "Critical" -> "High" [] OTHER -> "Low",
     reason |-> "by level", matched |-> FALSE]

(* engine: the explainer was made and the rules answer. *)
Preview(engine, e) ==
    LET found == EventLookup(e)
    IN IF ~engine THEN LevelPreview(e.level)
       ELSE [risk |-> CASE found.severity = "Warning" -> "Medium"
                        [] found.severity = "Critical" -> "High"
                        [] OTHER -> "Low",
             reason |-> RiskReason(found.severity), matched |-> found.matched]

------------------------------------------------------------------------------
(* Explanations. *)

Explanation(risk, normal, confidence, source) ==
    [risk |-> risk, normal |-> normal, confidence |-> confidence,
     worded |-> FALSE, source |-> source]

(* explain_event_instant: confidence is left at its default. *)
Instant(rules, e) ==
    LET found == EventLookup(e)
    IN IF rules
       THEN Explanation(SeverityRisk(found.severity),
                        found.severity \in RoutineSeverities, 100,
                        IF found.matched THEN "local_kb" ELSE "template")
       ELSE Explanation(LevelRisk(e.level), TRUE, 100, "fallback")

(* The worker's own text, when the provider is not there to be asked. *)
FromRules(found) ==
    Explanation(SeverityRisk(found.severity),
                found.severity \in RoutineSeverities,
                IF found.matched THEN 85 ELSE 50, "local_kb")

(* _kb_to_response, read by the worker as the model's: it has no is_normal. *)
StandIn(found) ==
    Explanation(CASE found.severity = "Warning" -> "Medium"
                  [] found.severity = "Critical" -> "High" [] OTHER -> "Low",
                TRUE, IF found.matched THEN 90 ELSE 60, "groq")

ReplyRisk(word) ==
    CASE word \in {"medium", "Medium"} -> "Medium" [] word \in {"high", "High"} -> "High"
      [] word \in {"critical", "Critical"} -> "Critical" [] OTHER -> "Low"

(* A reply of the model, after repair: an object of the fields it has, or odd: *)
(* no object, a confidence that is no number, a list of other than texts.     *)
Replies == [odd : BOOLEAN, normal : {"yes", "no", "none"}, risk : STRING,
            confidence : 0 .. 100, unsure : BOOLEAN]

FromReply(reply) ==
    IF reply.odd THEN Explanation("low", TRUE, 90, "groq")
    ELSE Explanation(ReplyRisk(reply.risk), reply.normal # "no",
                     IF reply.unsure THEN 100 ELSE reply.confidence, "groq")

(* to_dict writes the response's word over the confidence it found. *)
Remembered(explanation) == [explanation EXCEPT !.worded = TRUE]

------------------------------------------------------------------------------
(* The row.  It keeps no confidence, so the default is read back. *)

Row(explanation) == [risk |-> explanation.risk, normal |-> explanation.normal]

FromRow(row) == Explanation(row.risk, row.normal, 100, "groq")

(* created_at is the database's, in UTC; its age is taken from local time. *)
RowExpired(age, east, ttl) == age + east > ttl

------------------------------------------------------------------------------
(* What the page's two other buttons reach: methods that the explainer does *)
(* not have, then a worker process that is never started.                   *)

ExplainerMethods == {"explain_event_instant", "explain_event_async",
                     "cancel_request", "cancel_all"}

Has(made, method) == made /\ method \in ExplainerMethods

(* _request_explanation_fallback, on a pool worker. *)
Fallback(made) == IF Has(made, "explain_event") THEN "explained" ELSE "failed"

Enhance(made, listed) ==
    IF ~listed THEN "failed"
    ELSE IF Has(made, "request_ai_enhancement") THEN "asked" ELSE Fallback(made)

Simplify(made, listed) ==
    IF listed /\ Has(made, "_get_ai_explanation") THEN "asked" ELSE "failed"
==============================================================================
