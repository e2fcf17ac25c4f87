----------------------------- MODULE SecurityTab -----------------------------
(***************************************************************************)
(* The security tab on Windows: its switches (SystemSnapshot.qml), the     *)
(* toggles (api/security_controller.py), the threads that read the state   *)
(* of the machine for it (api/system_snapshot_service.py), and the cache   *)
(* they share (utils/security_info.py).                                    *)
(*                                                                         *)
(* One switch stands for those of Remote Desktop and UAC, which read what  *)
(* they write; what the firewall's reads is another matter (Posture).      *)
(* Everything else that is read is left out, and the notification that     *)
(* each reading pushes when the machine is not well protected.  On Linux   *)
(* there is no cache.                                                      *)
(***************************************************************************)
EXTENDS Naturals, Sequences, FiniteSets

CONSTANT MaxReaders     \* bound: readings underway or not yet shown, at a start

ASSUME SecurityBounds == MaxReaders \in Nat \ {0}

VARIABLES
    feature,    \* the machine's
    \* the page
    tab,        \* raw: what it was told, "none" before the first reading
    override,   \* rdpOverride, uacOverride
    dialog,     \* what the risk dialog asks to confirm
    again,      \* securityRefreshTimer runs
    \* the service
    launching,  \* the first reading, 10 s after the start, is to come
    cached,     \* SecurityInfo._cache
    readers,    \* per thread: [at, saw]
    payloads,   \* readings posted to the UI thread
    \* history
    elsewhere,  \* the machine was changed past the page since the last refresh
    outdated    \* a thread held a reading of another state at that refresh

pageSVars  == <<tab, override, dialog, again>>
readVars   == <<cached, readers, payloads>>
noteSVars  == <<elsewhere, outdated>>
securityVars == <<feature, pageSVars, launching, readVars, noteSVars>>

States   == {"on", "off"}
Readings == States \cup {"unknown"}
Readers  == 1 .. MaxReaders
NoReader == [at |-> "none", saw |-> "none"]

Opposite(s) == IF s = "on" THEN "off" ELSE "on"

(* What the switch shows. *)
Switch == IF override # "none" THEN override ELSE tab

Idle(r) == readers[r] = NoReader
Busy == {r \in Readers : ~Idle(r)}
Agrees(saw, state) == saw \in {state, "unknown", "none"}

SecurityRests ==
    /\ feature \in States
    /\ tab = "none" /\ override = "none" /\ dialog = "none" /\ again = FALSE
    /\ cached = "none"
    /\ readers = [r \in Readers |-> NoReader] /\ payloads = <<>>
    /\ elsewhere = FALSE /\ outdated = FALSE

SecurityInit == SecurityRests /\ launching

------------------------------------------------------------------------------
(* The UI thread. *)

Launches ==
    \E r \in Readers :
        /\ Idle(r) /\ \A q \in 1 .. r - 1 : ~Idle(q)
        /\ Cardinality(Busy) + Len(payloads) < MaxReaders     \* bound
        /\ readers' = [readers EXCEPT ![r] = [at |-> "begins", saw |-> "none"]]

FirstReading ==
    /\ launching /\ launching' = FALSE
    /\ Launches
    /\ UNCHANGED <<feature, pageSVars, cached, payloads, noteSVars>>

(* A mutant: a refresh leaves the cache as it is. *)
RefreshCached ==
    /\ cached' = cached /\ Launches
    /\ elsewhere' = FALSE
    /\ outdated' = \E r \in Readers : ~Agrees(readers[r].saw, feature')

(* refreshSecurityInfo: the cache is cleared, another thread reads. *)
Refresh ==
    /\ cached' = "none" /\ Launches
    /\ elsewhere' = FALSE
    /\ outdated' = \E r \in Readers : ~Agrees(readers[r].saw, feature')

(* A switch can be used while it shows one of its two states; the dialog *)
(* keeps what it was to become.                                          *)
ClickSwitch ==
    /\ dialog = "none" /\ Switch \in States
    /\ dialog' = Opposite(Switch)
    /\ UNCHANGED <<feature, tab, override, again, launching, readVars, noteSVars>>

Dismiss ==
    /\ dialog # "none" /\ dialog' = "none"
    /\ UNCHANGED <<feature, tab, override, again, launching, readVars, noteSVars>>

(* toggle_security_feature with success: feature_state_updated and           *)
(* featureToggled, whose handlers set the override, refresh, and start the   *)
(* timer for another refresh.                                                *)
Toggle ==
    /\ dialog # "none" /\ dialog' = "none"
    /\ feature' = dialog
    /\ override' = dialog /\ again' = TRUE
    /\ Refresh
    /\ UNCHANGED <<tab, launching, payloads>>

(* An error, which may come after the first of UAC's two values has been *)
(* written: no refresh.                                                   *)
ToggleFails ==
    /\ dialog # "none" /\ dialog' = "none"
    /\ feature' \in {feature, dialog}
    /\ elsewhere' = (elsewhere \/ feature' # feature)
    /\ UNCHANGED <<tab, override, again, launching, readVars, outdated>>

RefreshAgain ==
    /\ again /\ again' = FALSE
    /\ feature' = feature /\ Refresh
    /\ UNCHANGED <<tab, override, dialog, launching, payloads>>

(* _onSecurityInfoReady; any reading ends the override. *)
ShowReading ==
    /\ payloads # <<>> /\ payloads' = Tail(payloads)
    /\ tab' = Head(payloads) /\ override' = "none"
    /\ UNCHANGED <<feature, dialog, again, launching, cached, readers, noteSVars>>

------------------------------------------------------------------------------
(* A reading thread. *)

OnReader == UNCHANGED <<feature, pageSVars, launching, noteSVars>>

Reader(r, from, to, saw) ==
    /\ readers[r].at = from
    /\ readers' = [readers EXCEPT ![r] = [at |-> to, saw |-> saw]]

(* A reading 60 s old is none; what comes before may raise. *)
LookInCache(r) ==
    /\ \/ cached # "none" /\ Reader(r, "begins", "tells", cached)
       \/ Reader(r, "begins", "asks", "none")
       \/ Reader(r, "begins", "tells", "unknown")
    /\ OnReader /\ UNCHANGED <<cached, payloads>>

(* The queries: an answer, or none; a later one may raise. *)
Query(r) ==
    /\ \/ \E saw \in {feature, "unknown"} : Reader(r, "asks", "stores", saw)
       \/ Reader(r, "asks", "tells", "unknown")
    /\ OnReader /\ UNCHANGED <<cached, payloads>>

Store(r) ==
    /\ Reader(r, "stores", "tells", readers[r].saw)
    /\ cached' = readers[r].saw
    /\ OnReader /\ UNCHANGED payloads

Tell(r) ==
    /\ readers[r].at = "tells" /\ readers' = [readers EXCEPT ![r] = NoReader]
    /\ payloads' = Append(payloads, readers[r].saw)
    /\ OnReader /\ UNCHANGED cached

Read(r) == LookInCache(r) \/ Query(r) \/ Store(r) \/ Tell(r)

------------------------------------------------------------------------------
(* Windows' own settings, a policy, another program. *)
ChangeElsewhere ==
    /\ feature' = Opposite(feature) /\ elsewhere' = TRUE
    /\ UNCHANGED <<pageSVars, launching, readVars, outdated>>

SecurityNext ==
    \/ FirstReading \/ ClickSwitch \/ Dismiss \/ Toggle \/ ToggleFails
    \/ RefreshAgain \/ ShowReading \/ ChangeElsewhere
    \/ \E r \in Readers : Read(r)

(* Timers fire, posted readings are delivered; the queries have timeouts. *)
SecurityFairness ==
    /\ WF_securityVars(FirstReading) /\ WF_securityVars(RefreshAgain)
    /\ WF_securityVars(ShowReading)
    /\ \A r \in Readers : WF_securityVars(Read(r))

SecuritySpec == SecurityInit /\ [][SecurityNext]_securityVars /\ SecurityFairness

------------------------------------------------------------------------------
(* Properties. *)

SecurityTypeOK ==
    /\ feature \in States
    /\ tab \in Readings \cup {"none"} /\ override \in States \cup {"none"}
    /\ dialog \in States \cup {"none"} /\ cached \in Readings \cup {"none"}
    /\ {again, launching, elsewhere, outdated} \subseteq BOOLEAN
    /\ readers \in [Readers -> [at : {"none", "begins", "asks", "stores", "tells"},
                                saw : Readings \cup {"none"}]]
    /\ payloads \in Seq(Readings)

(* The page has been told of nothing the machine is not, or will be told:   *)
(* unless the machine was changed past the page, or a thread that had read  *)
(* before the toggle still held its reading at the last refresh.  Such a    *)
(* thread stores it behind clear_cache and tells it last.                   *)
Coming == payloads # <<>> \/ Busy # {}
Untold == elsewhere \/ outdated
TabIsCurrent == ~Untold /\ ~Coming => Agrees(tab, feature)

(* Nor does the cache hold a former state, to be told for a minute. *)
CacheIsCurrent ==
    ~Untold => /\ Agrees(cached, feature)
               /\ \A r \in Readers : Agrees(readers[r].saw, feature)

(* While the switch shows what was asked for instead of what was read, a *)
(* reading is coming that will end it.                                   *)
OverrideIsFounded == override # "none" => Coming

SecurityInv == SecurityTypeOK /\ TabIsCurrent /\ CacheIsCurrent /\ OverrideIsFounded
==============================================================================
