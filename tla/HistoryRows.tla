------------------------------ MODULE HistoryRows ------------------------------
(***************************************************************************)
(* What the History page, the event list and the scan lists read back of   *)
(* what was stored: the tables of sentinel.db (infra/sqlite_repo.py, the   *)
(* incident and Scan Center repositories, the bridge's scan_history), the  *)
(* merged lists of engines/history/unified_history.py, the metadata of a   *)
(* quarantined file from the vault's call to its row on the page, the      *)
(* cached event summaries, and the result cache.                           *)
(*                                                                         *)
(* Functions without state; HistoryPage has the steps of the page.  A row  *)
(* has its key (job or id), the time its text says (text), whether it can  *)
(* be parsed (ok), and what a query asks for.  Times are integers; texts   *)
(* that no decision reads are left out.  A query that fails and a table    *)
(* that is missing read as no rows.                                        *)
(***************************************************************************)
EXTENDS Integers, FiniteSets

------------------------------------------------------------------------------
(* ORDER BY text DESC LIMIT n: T may be any n newest of S, ties being open.   *)
Newest(S, n, T) ==
    /\ T \subseteq S
    /\ Cardinality(T) <= n
    /\ T = S \/ Cardinality(T) = n
    /\ \A t \in T, u \in S \ T : t.text >= u.text

(* The rows of the two tables of file scans, written with different clocks:  *)
(* the Scan Center's controller writes the time in UTC, the bridge the local *)
(* one, which is east seconds ahead.  made is when it was, kept for stating  *)
(* what the texts hide.                                                      *)
CenterRow(job, now) == [table |-> "center", job |-> job, made |-> now, text |-> now, ok |-> TRUE]
LegacyRow(job, now, east) ==
    [table |-> "legacy", job |-> job, made |-> now, text |-> now + east, ok |-> TRUE]

(* INSERT OR REPLACE by the primary key; what fails is only logged. *)
Upsert(table, row, fails) == IF fails THEN table ELSE {r \in table : r.job # row.job} \cup {row}

(* list_combined_scan_history reads a table's rows newest first until one    *)
(* cannot be converted, which loses that one and what is older.              *)
ReadUntilBad(S, n, T) ==
    \E batch \in SUBSET S :
        /\ Newest(S, n, batch)
        /\ \/ T = batch /\ \A r \in batch : r.ok
           \/ \E bad \in batch :
                  /\ ~bad.ok
                  /\ T \subseteq {r \in batch : r.ok /\ r.text >= bad.text}
                  /\ {r \in batch : r.text > bad.text} \subseteq T

ScanHistory(center, legacy, limit, T) ==
    \E a \in SUBSET center, b \in SUBSET legacy :
        /\ ReadUntilBad(center, limit, a)
        /\ ReadUntilBad(legacy, limit, b)
        /\ Newest(a \cup b, limit, T)

------------------------------------------------------------------------------
(* SqliteRepo: all, get_by_type, recent, get_by_level and get_by_source skip  *)
(* what they cannot parse, but only after the limit; get_by_id returns None.  *)
Readable(T) == {r \in T : r.ok}
Query(S, limit, T) == \E batch \in SUBSET S : Newest(S, limit, batch) /\ T = Readable(batch)

AllScans(scans, limit, T) == Query(scans, limit, T)
GetByType(scans, kind, limit, T) == Query({r \in scans : r.kind = kind}, limit, T)
GetById(scans, id) == {r \in scans : r.id = id /\ r.ok}
RecentEvents(events, limit, T) == Query(events, limit, T)
GetByLevel(events, level, limit, T) == Query({r \in events : r.level = level}, limit, T)
GetBySource(events, source, limit, T) == Query({r \in events : r.source = source}, limit, T)
UrlHistory(scans, limit, T) == GetByType(scans, "url", limit, T)

(* add raises what went wrong; add_many stores all or none.  loadRecentEvents *)
(* shows what was read only if it could be stored.                            *)
Insert(table, rows, fails) == [table |-> IF fails THEN table ELSE table \cup rows, raised |-> fails]
LoadedEvents(table, events, fails) ==
    [table |-> Insert(table, events, fails).table, shown |-> IF fails THEN {} ELSE events]

(* Incidents never raise: one that cannot be stored is lost with a warning. *)
AppendIncident(table, row, fails) == IF fails THEN table ELSE table \cup {row}
Incidents(table, limit, T) == Newest(table, limit, T)

(* exportScanHistoryCSV: a failed query is an empty list, which is exported. *)
Export(readable, scans, writable) ==
    [told |-> IF writable THEN "success" ELSE "error",
     rows |-> IF readable /\ writable THEN Readable(scans) ELSE {}]

------------------------------------------------------------------------------
(* The events table, of whatever age: init adds the columns it may lack.      *)
EventColumns == {"timestamp", "level", "source", "message", "event_id", "friendly_message"}
MigratedEvents(columns) ==
    IF columns = {} THEN EventColumns ELSE columns \cup {"event_id", "friendly_message"}
CanReadEvents(columns) == EventColumns \subseteq columns

(* An explanation is stored with SQLite's CURRENT_TIMESTAMP, which is UTC, and *)
(* its age is taken by the local clock.                                       *)
ExplanationAge(at, now, east) == (now + east) - at
ExplanationServed(at, now, east, ttl) == ExplanationAge(at, now, east) <= ttl
CleanedUp(rows, now, days) == {r \in rows : now - r.at <= days * 86400}

------------------------------------------------------------------------------
(* The cached summaries, a row per signature: [text, why] says whether it has  *)
(* the list's sentence and the reasons.  The table has no column for reasons.  *)
NoSummary == [text |-> FALSE, why |-> FALSE, there |-> FALSE]
Summarized == [text |-> TRUE, why |-> FALSE, there |-> TRUE]
Explained == [text |-> FALSE, why |-> TRUE, there |-> TRUE]
SaveSummary(cache, event, row, fails) ==
    IF fails THEN cache ELSE [cache EXCEPT ![event] = [row EXCEPT !.why = FALSE]]

(* What the list shows of an event: its summary, a cached one's empty text, or *)
(* its own message; explainer and summarizer are "absent", "fails" or          *)
(* "answers", and fails says whether saving does.                              *)
ListEvent(cache, event, summarizer, fails) ==
    IF cache[event].there
    THEN [cache |-> cache, shown |-> IF cache[event].text THEN "summary" ELSE "nothing"]
    ELSE IF summarizer = "answers"
    THEN [cache |-> SaveSummary(cache, event, Summarized, fails), shown |-> "summary"]
    ELSE [cache |-> cache, shown |-> "message"]

(* _request_explanation_fallback, when there is no AI worker process. *)
ExplainEvent(cache, event, explainer, summarizer, fails) ==
    IF cache[event].there THEN [cache |-> cache, answer |-> cache[event]]
    ELSE IF explainer = "answers"
    THEN [cache |-> SaveSummary(cache, event, Explained, fails), answer |-> Explained]
    ELSE IF explainer = "absent" /\ summarizer = "answers"
    THEN [cache |-> SaveSummary(cache, event, Summarized, fails), answer |-> Summarized]
    ELSE [cache |-> cache, answer |-> NoSummary]

------------------------------------------------------------------------------
(* The metadata a quarantined file is recorded with.  m has the caller's source *)
(* and detail, what its reason mentions, which parts of a decision it has, and  *)
(* whether it is empty or has a note of its own; the file action, where given,  *)
(* is to quarantine.                                                            *)
DecisionParts == {"score", "verdict", "action"}
RtpNames == {"rtp", "real_time_protection"}
CenterNames == {"scan_center", "scancenter"}
HandNames == {"manual", "security_assistant", "ai_assistant"}
OldNames == {"legacy", "imported"}
Metadata ==
    [source : RtpNames \cup CenterNames \cup HandNames \cup OldNames \cup {"none", "unknown", "other"},
     detail : {"none", "manual", "security_assistant", "other"},
     reason : {"none", "rtp", "manual", "other"},
     decision : SUBSET DecisionParts, empty : BOOLEAN, note : BOOLEAN]

Named(source) ==
    IF source \in RtpNames THEN "rtp" ELSE IF source \in CenterNames THEN "scan_center"
    ELSE IF source \in HandNames THEN "manual" ELSE IF source \in OldNames THEN "legacy" ELSE "none"

NormalizeSource(m) ==
    IF Named(m.source) # "none" THEN Named(m.source)
    ELSE IF m.detail \in {"manual", "security_assistant"} \/ (m.reason = "manual" \/ m.empty)
         THEN "manual"
         ELSE IF m.reason = "rtp" THEN "rtp" ELSE "unknown"

(* A reason is always recorded; the default ones for rtp and manual name it. *)
RecordedReason(m, source) ==
    IF m.reason # "none" THEN m.reason
    ELSE IF source \in {"rtp", "manual"} THEN source ELSE "other"

VaultQuality(source, decision) ==
    IF source = "legacy" THEN "legacy_incomplete"
    ELSE IF decision # {} THEN "complete"
    ELSE IF source = "manual" THEN "manual_record" ELSE "partial"

(* The note of the record, by its first sentence's claim. *)
VaultNote(m, source, quality) ==
    IF m.note THEN "own"
    ELSE IF quality = "legacy_incomplete" THEN "predates"
    ELSE IF source = "manual" THEN "no score was captured"
    ELSE IF quality = "partial" THEN "partial" ELSE "none"

VaultEntry(m) ==
    LET source == NormalizeSource(m)
        quality == VaultQuality(source, m.decision)
    IN [source |-> source, detail |-> m.detail, reason |-> RecordedReason(m, source),
        decision |-> m.decision, quality |-> quality, note |-> VaultNote(m, source, quality),
        fileAction |-> "quarantine_file", status |-> "quarantined"]

(* What the page makes of an entry, of this version of the program or older: *)
(* an older one lacks fields, and any of them may be "none".                  *)
ShownSource(e) ==
    IF Named(e.source) # "none" THEN Named(e.source)
    ELSE IF e.detail = "security_assistant" THEN "manual"
    ELSE IF e.reason = "rtp" THEN "rtp"
    ELSE IF e.reason = "manual" THEN "manual"
    ELSE IF e.source = "none" /\ e.reason = "none" THEN "legacy" ELSE "unknown"

ShownQuality(e, source) ==
    IF e.quality # "none" THEN e.quality
    ELSE IF source = "legacy" THEN "legacy_incomplete"
    ELSE IF source = "manual" /\ e.decision = {} THEN "manual_record"
    ELSE IF e.decision # {} /\ e.reason # "none" THEN "complete"
    ELSE IF e.decision = {} /\ e.reason = "none" THEN "legacy_incomplete" ELSE "partial"

ShownAction(e) ==
    IF e.fileAction = "none" /\ e.status \in {"quarantined", "restored", "deleted"}
    THEN [action |-> "quarantine_file", inferred |-> TRUE]
    ELSE [action |-> e.fileAction, inferred |-> FALSE]

QuarantineRow(e) ==
    LET source == ShownSource(e)
        quality == ShownQuality(e, source)
    IN [source |-> source, quality |-> quality, file |-> ShownAction(e),
        missing |-> DecisionParts \ e.decision,
        note |-> IF e.note # "none" THEN e.note
                 ELSE IF quality = "legacy_incomplete" THEN "predates"
                 ELSE IF quality = "manual_record" THEN "no score was captured" ELSE "none",
        canRestore |-> e.status = "quarantined", canDelete |-> e.status = "quarantined"]

------------------------------------------------------------------------------
(* What PowerShell says of a file's signature: only a recognised answer is one. *)
SignatureAnswers == {"failed", "unreadable", "Valid", "NotSigned", "UnknownError",
                     "NotSupportedFileFormat", "HashMismatch", "NotTrusted"}
Probe(platform, answer) ==
    IF platform # "win" THEN "unknown"
    ELSE IF answer = "Valid" THEN "valid"
    ELSE IF answer \in {"HashMismatch", "NotTrusted"} THEN "invalid" ELSE "unknown"
SignatureOf(given, platform, answer) == IF given # "unknown" THEN given ELSE Probe(platform, answer)
TrustClass(place) ==
    IF place = "windows" THEN "windows_system"
    ELSE IF place \in {"ProgramFiles", "LocalPrograms"} THEN "program_files" ELSE "user_space"

------------------------------------------------------------------------------
(* ResultCache: memory and file map keys to [value, expiry].  A value that is *)
(* not in Plain cannot be written.                                            *)
CacheGet(c, key, now) == IF key \in DOMAIN c /\ now < c[key].expiry THEN {c[key].value} ELSE {}
CacheKept(c, now) == [k \in {j \in DOMAIN c : now < c[j].expiry} |-> c[k]]
CacheSet(c, key, value, expiry) ==
    [k \in DOMAIN c \cup {key} |-> IF k = key THEN [value |-> value, expiry |-> expiry] ELSE c[k]]
SavedCache(c, Plain) == [k \in {j \in DOMAIN c : c[j].value \in Plain} |-> c[k]]
LoadedCache(file, now) == CacheKept(file, now)
Invalidated(c, key) == [k \in DOMAIN c \ {key} |-> c[k]]
================================================================================
