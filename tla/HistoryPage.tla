----------------------------- MODULE HistoryPage -----------------------------
(***************************************************************************)
(* The history page (HistoryPage.qml) between those who write the tables   *)
(* it lists and the signals it listens to: the static pipeline's thread,   *)
(* which saves a row and then tells of its end; the monitor, which tells   *)
(* of an incident for the bridge to save, then of the threat; the scan of  *)
(* an address, saved on the UI thread; and the assistant, whose tools move *)
(* files into and out of the vault and tell no page.  Also the routes of   *)
(* the main window (main.qml) and the home page's count (HomePage.qml).    *)
(*                                                                         *)
(* A list is behind if its table has changed since it was read; of the     *)
(* vault's list the page keeps the statuses, which decide what may be      *)
(* clicked.  What a row shows is in HistoryRows.  Left out: a table that   *)
(* cannot be read, whose list is then empty.                               *)
(***************************************************************************)
EXTENDS Naturals, Sequences, FiniteSets

CONSTANTS MaxEntries,   \* bound: files ever taken into the vault
          MaxSignals    \* bound: signals of a kind on their way

ASSUME HistoryBounds == MaxEntries \in Nat \ {0} /\ MaxSignals \in Nat \ {0}

VARIABLES
    \* main.qml
    route,        \* currentRoute; "other" is the home page and all others
    \* the page
    opened,       \* it was created, and has read its lists once
    follows,      \* requestedTab is still bound to the window's tab
    tabAt,        \* currentTab, and requestedTab
    behind,       \* the lists of scans, incidents and addresses that are behind
    entries,      \* the vault's list: the status of each entry
    counted,      \* the files in the vault, as the home page counts them
    untold,       \* those of these two that the assistant has put behind
    askedOf,      \* the entry a dialog asks about, or 0
    \* elsewhere
    ledger,       \* the vault: the status of each entry
    saving,       \* what a thread has saved and not yet told of
    signals       \* queued for the UI thread

pageHVars == <<opened, follows, tabAt, askedOf>>
recordVars == <<behind, entries, counted, untold>>
historyVars == <<route, pageHVars, recordVars, ledger, saving, signals>>

Tabs == {"scan", "incidents", "quarantine", "url"}
Routes == {"history", "other"}

HistoryInit ==
    /\ route = "other"
    /\ opened = FALSE /\ follows = TRUE /\ tabAt = "scan"
    /\ behind = {"scan", "incidents", "url"} /\ entries = <<>>
    /\ askedOf = 0 /\ untold = {}
    /\ ledger \in {<<>>, <<"quarantined">>} /\ counted = Len(ledger)
    /\ saving = {} /\ signals = <<>>

------------------------------------------------------------------------------
(* The lists, each read whole, and the home page's count: whatever the vault *)
(* has ever held is counted.                                                 *)

Reread(tabs, vault) ==
    /\ behind' = behind \ tabs
    /\ entries' = IF "quarantine" \in tabs THEN vault ELSE entries
    /\ counted' = IF "home" \in tabs THEN Len(vault) ELSE counted
    /\ untold' = untold \ tabs

OnHistory == route = "history" /\ askedOf = 0

------------------------------------------------------------------------------
(* The user.  A dialog is modal, and stays open when the bridge navigates. *)

Leave ==
    /\ route = "history" /\ route' = "other"
    /\ UNCHANGED <<pageHVars, recordVars, ledger, saving, signals>>

(* loadRoute, from the side bar or one of the home page's "Review" links.  The *)
(* page is created at its first showing and reads everything; afterwards a    *)
(* route changes its tab only through the binding.                            *)
Navigate(t) ==
    /\ askedOf = 0 /\ t # "url"
    /\ route' = "history" /\ opened' = TRUE
    /\ tabAt' = IF follows THEN t ELSE tabAt
    /\ Reread(IF ~opened THEN Tabs ELSE IF tabAt' # tabAt THEN {tabAt'} ELSE {}, ledger)
    /\ UNCHANGED <<follows, askedOf, ledger, saving, signals>>

(* A click on a tab assigns requestedTab, which ends its binding. *)
ClickTab(t) ==
    /\ OnHistory
    /\ follows' = FALSE /\ tabAt' = t
    /\ Reread(IF t # tabAt THEN {t} ELSE {}, ledger)
    /\ UNCHANGED <<route, opened, askedOf, ledger, saving, signals>>

ClickReread ==
    /\ OnHistory /\ Reread({tabAt}, ledger)
    /\ UNCHANGED <<route, pageHVars, ledger, saving, signals>>

(* openQuarantineTab, from an incident whose file was quarantined. *)
OpenQuarantine ==
    /\ OnHistory /\ tabAt = "incidents"
    /\ follows' = FALSE /\ tabAt' = "quarantine"
    /\ Reread({"quarantine"}, ledger)
    /\ UNCHANGED <<route, opened, askedOf, ledger, saving, signals>>

(* openScanRecord: the report, if it can be read, is emitted at once as a *)
(* finished scan.                                                         *)
OpenRecord ==
    /\ OnHistory /\ tabAt = "scan"
    /\ route' = "other" /\ \E read \in {{}, {"scan"}} : Reread(read, ledger)
    /\ UNCHANGED <<pageHVars, ledger, saving, signals>>

(* queueQuarantineAction: the buttons of an entry listed as quarantined. *)
Ask(i) ==
    /\ OnHistory /\ tabAt = "quarantine"
    /\ i \in DOMAIN entries /\ entries[i] = "quarantined"
    /\ askedOf' = i
    /\ UNCHANGED <<route, opened, follows, tabAt, recordVars,
                   ledger, saving, signals>>

Reject ==
    /\ askedOf # 0 /\ askedOf' = 0
    /\ UNCHANGED <<route, opened, follows, tabAt, recordVars,
                   ledger, saving, signals>>

(* A mutant: the list is not read again, and the buttons stay. *)
ConfirmUnread ==
    /\ askedOf # 0 /\ askedOf' = 0
    /\ \E s \in {"restored", "deleted"} : ledger' = [ledger EXCEPT ![askedOf] = s]
    /\ UNCHANGED <<route, opened, follows, tabAt, recordVars,
                   saving, signals>>

(* executePendingQuarantineAction: restored or deleted, if the vault does it; *)
(* it refuses an entry that is neither.                                       *)
Confirm ==
    /\ askedOf # 0 /\ askedOf' = 0
    /\ \/ \E s \in {"restored", "deleted"} :
             /\ ledger[askedOf] = "quarantined"
             /\ ledger' = [ledger EXCEPT ![askedOf] = s]
             /\ Reread({"quarantine", "incidents"}, ledger')
       \/ ledger' = ledger /\ Reread({"quarantine"}, ledger)
    /\ UNCHANGED <<route, opened, follows, tabAt, saving, signals>>

(* loadActivitySummary, from its button. *)
CountAgain ==
    /\ route = "other" /\ askedOf = 0 /\ Reread({"home"}, ledger)
    /\ UNCHANGED <<route, pageHVars, ledger, saving, signals>>

------------------------------------------------------------------------------
(* Those who write. *)

FewOf(signal) ==
    Cardinality({i \in DOMAIN signals : signals[i] = signal}) < MaxSignals

Others == <<route, pageHVars>>
OtherLists == <<entries, counted, untold>>

(* _finalise saves the row of a static scan, on the pipeline's thread. *)
SaveScan ==
    /\ "scan" \notin saving /\ saving' = saving \cup {"scan"}
    /\ behind' = behind \cup {"scan"}
    /\ UNCHANGED <<Others, OtherLists, ledger, signals>>

(* A static scan's end is told behind its row; an interactive one has none. *)
TellScan ==
    /\ FewOf("finished")                                      \* bound
    /\ signals' = Append(signals, "finished")
    /\ saving' = saving \ {"scan"}
    /\ UNCHANGED <<Others, recordVars, ledger>>

(* on_success of a scan of an address: urlScanFinished, which the page does *)
(* not listen to.                                                           *)
SaveAddress ==
    /\ behind' = behind \cup {"url"}
    /\ UNCHANGED <<Others, OtherLists, ledger, saving, signals>>

(* The monitor acts on a threat; its file may go to the vault. *)
Act ==
    /\ "threat" \notin saving /\ saving' = saving \cup {"threat"}
    /\ ledger' \in {ledger} \cup (IF Len(ledger) < MaxEntries              \* bound
                                  THEN {Append(ledger, "quarantined")} ELSE {})
    /\ UNCHANGED <<Others, recordVars, signals>>

(* The assistant's tools quarantine_file and restore_file, on its thread. *)
Assist ==
    /\ \/ /\ Len(ledger) < MaxEntries                           \* bound
          /\ ledger' = Append(ledger, "quarantined")
          /\ untold' = {"quarantine", "home"}
       \/ \E i \in DOMAIN ledger :
             /\ ledger[i] = "quarantined" /\ ledger' = [ledger EXCEPT ![i] = "restored"]
             /\ untold' = untold \cup {"quarantine"}
    /\ UNCHANGED <<Others, behind, entries, counted, saving, signals>>

(* threat_recorded, then threat_detected. *)
TellThreat ==
    /\ "threat" \in saving /\ saving' = saving \ {"threat"}
    /\ FewOf("detected")                                      \* bound
    /\ signals' = signals \o <<"recorded", "detected">>
    /\ UNCHANGED <<Others, recordVars, ledger>>

(* A mutant: the threat is told before the incident. *)
TellThreatFirst ==
    /\ "threat" \in saving /\ saving' = saving \ {"threat"}
    /\ FewOf("detected")
    /\ signals' = signals \o <<"detected", "recorded">>
    /\ UNCHANGED <<Others, recordVars, ledger>>

------------------------------------------------------------------------------
(* The UI thread. *)

(* A page that was never shown does not exist and hears nothing. *)
Heard(tabs) == IF opened THEN tabs ELSE {}

Finished ==
    /\ signals # <<>> /\ Head(signals) = "finished" /\ signals' = Tail(signals)
    /\ Reread(Heard({"scan"}), ledger)
    /\ UNCHANGED <<Others, ledger, saving>>

(* _on_threat_recorded: the incident is saved, or that fails and is logged. *)
Recorded ==
    /\ signals # <<>> /\ Head(signals) = "recorded" /\ signals' = Tail(signals)
    /\ behind' \in {behind, behind \cup {"incidents"}}
    /\ UNCHANGED <<Others, OtherLists, ledger, saving>>

(* _on_threat: both pages hear of it. *)
Detected ==
    /\ signals # <<>> /\ Head(signals) = "detected" /\ signals' = Tail(signals)
    /\ Reread(Heard({"incidents", "quarantine"}) \cup {"home"}, ledger)
    /\ UNCHANGED <<Others, ledger, saving>>

------------------------------------------------------------------------------
HistoryNext ==
    \/ \E t \in Tabs : Navigate(t) \/ ClickTab(t)
    \/ Leave \/ ClickReread \/ OpenQuarantine \/ OpenRecord
    \/ \E i \in DOMAIN entries : Ask(i)
    \/ Reject \/ Confirm \/ CountAgain
    \/ SaveScan \/ TellScan \/ SaveAddress \/ Act \/ TellThreat \/ Assist
    \/ Finished \/ Recorded \/ Detected

(* Threads run, and the event loop handles what is queued. *)
HistoryFairness ==
    /\ WF_historyVars(Finished \/ Recorded \/ Detected)
    /\ WF_historyVars("scan" \in saving /\ TellScan) /\ WF_historyVars(TellThreat)

HistorySpec == HistoryInit /\ [][HistoryNext]_historyVars /\ HistoryFairness

------------------------------------------------------------------------------
(* Properties. *)

Statuses == {"quarantined", "restored", "deleted"}

HistoryTypeOK ==
    /\ route \in Routes /\ tabAt \in Tabs
    /\ {opened, follows} \subseteq BOOLEAN
    /\ behind \subseteq Tabs \ {"quarantine"}
    /\ ledger \in Seq(Statuses) /\ entries \in Seq(Statuses)
    /\ askedOf \in Nat /\ counted \in Nat /\ untold \subseteq {"quarantine", "home"}
    /\ saving \subseteq {"scan", "threat"}
    /\ signals \in Seq({"finished", "recorded", "detected"})

Queued(signal) == \E i \in DOMAIN signals : signals[i] = signal
ThreatComes == "threat" \in saving \/ Queued("detected")

(* Once the page was shown, a list of scans, incidents or quarantined files  *)
(* that is behind will be read again: the signal for it is queued, or comes  *)
(* from whoever wrote the row; but nobody tells of an address, nor of what   *)
(* the assistant does to the vault.                                          *)
ListsWillBeRead ==
    opened =>
        /\ "scan" \in behind => "scan" \in saving \/ Queued("finished")
        /\ "incidents" \in behind => ThreatComes
        /\ entries # ledger => ThreatComes \/ "quarantine" \in untold

(* Every incident is saved before the page is made to look for it. *)
RecordedComesFirst ==
    \A i \in DOMAIN signals : signals[i] = "recorded" =>
        \E k \in DOMAIN signals : k > i /\ signals[k] = "detected"

(* However old the list, what it shows as restored or deleted is that, and a *)
(* dialog asks about an entry that is in the vault, unless the assistant has  *)
(* restored it since the list was read.                                       *)
AskedIsVaulted ==
    /\ Len(entries) <= Len(ledger)
    /\ \A i \in DOMAIN entries : entries[i] = ledger[i] \/ "quarantine" \in untold
    /\ \A i \in DOMAIN entries : entries[i] \in {"quarantined", ledger[i]}
    /\ askedOf # 0 => askedOf \in DOMAIN entries /\ askedOf \in DOMAIN ledger

(* The home page's number of vaulted files is that of all files ever taken,  *)
(* restored or deleted ones included; it is behind a threat, or the          *)
(* assistant.                                                                *)
HomeCounts == counted # Len(ledger) => ThreatComes \/ "home" \in untold

HistoryInv ==
    /\ HistoryTypeOK /\ ListsWillBeRead /\ RecordedComesFirst /\ AskedIsVaulted
    /\ HomeCounts

(* What does not last: a list that is behind is read again, whatever is *)
(* written meanwhile.                                                    *)
ScansUnread == opened /\ "scan" \in behind
IncidentsUnread == opened /\ "incidents" \in behind
==============================================================================
