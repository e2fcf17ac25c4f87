---------------------------- MODULE DesktopPages ----------------------------
(***************************************************************************)
(* The event page, the shredder tab, the recovery tab, the assistant's     *)
(* chat, the security tab and the history in one instance.  They share no  *)
(* state, so that a behaviour shows one of them while the others stand     *)
(* still: the state space is the sum of theirs.                            *)
(***************************************************************************)
EXTENDS EventExplanations, Shredder, FileRecovery, Chatbot, SecurityTab, HistoryPage

VARIABLE page   \* the one shown

pagesVars ==
    <<page, explainVars, shredderVars, recoveryVars, chatVars, securityVars,
      historyVars>>

TheLog == <<1, 2>>

(* A header across the border of two chunks and one within the overlap; then *)
(* three chunks, the second of which may be unreadable; then four, the last  *)
(* of which is behind what a Linux scan reads.                               *)
TheDevices == {<<"a", "b", "a", "b", "z", "x">>,
               <<"x", "a", "b", "x", "x", "x", "z", "x", "x">>,
               <<"a", "b", "x", "x", "x", "x", "x", "x", "x", "a", "b">>}

PagesInit ==
    /\ page \in {"events", "shredder", "recovery", "chat", "security", "history"}
    /\ ExplainInit /\ ShredderInit /\ RecoveryInit /\ ChatInit
    /\ SecurityRests /\ launching = (page = "security")
    /\ HistoryInit
    /\ page # "recovery" => device = (CHOOSE d \in Devices : TRUE) /\ bad = (CHOOSE f \in Faults : TRUE)
    /\ page # "chat" => key
    /\ page # "security" => feature = "on"
    /\ page # "history" => ledger = <<>>

OnEvents ==
    page = "events" /\ UNCHANGED <<shredderVars, recoveryVars, chatVars, securityVars, historyVars>>
OnShredder ==
    page = "shredder" /\ UNCHANGED <<explainVars, recoveryVars, chatVars, securityVars, historyVars>>
OnRecovery ==
    page = "recovery" /\ UNCHANGED <<explainVars, shredderVars, chatVars, securityVars, historyVars>>
OnChat ==
    page = "chat" /\ UNCHANGED <<explainVars, shredderVars, recoveryVars, securityVars, historyVars>>
OnSecurity ==
    page = "security" /\ UNCHANGED <<explainVars, shredderVars, recoveryVars, chatVars, historyVars>>
OnRecords ==
    page = "history" /\ UNCHANGED <<explainVars, shredderVars, recoveryVars, chatVars, securityVars>>

PagesNext ==
    /\ UNCHANGED page
    /\ \/ OnEvents /\ ExplainNext
       \/ OnShredder /\ ShredderNext
       \/ OnRecovery /\ RecoveryNext
       \/ OnChat /\ ChatNext
       \/ OnSecurity /\ SecurityNext
       \/ OnRecords /\ HistoryNext

PagesSpec ==
    /\ PagesInit /\ [][PagesNext]_pagesVars
    /\ ExplainFairness /\ ShredderFairness /\ RecoveryFairness
    /\ ChatFairness /\ SecurityFairness /\ HistoryFairness

(* No page waits forever: an explanation or its error comes, a shredding and *)
(* a scan end, the chat gives its field back, the switches of the security   *)
(* tab fall back to what is read, and the lists of the history are read again.*)
(* (The other pages do not wait meanwhile.)                                  *)
PageWaits ==
    aiBusy \/ ShredderWaits \/ scanning \/ ChatWaits \/ override # "none" \/ ScansUnread
WorkWaits(r) == Underway(r) \/ recovering \/ IncidentsUnread
PagesEnd ==
    /\ PageWaits ~> ~PageWaits
    /\ \A r \in Requests : WorkWaits(r) ~> ~WorkWaits(r)

(* No request joins those on their way through an open breaker, and a       *)
(* recovered file is lost only to a candidate of its id, itself or one of a  *)
(* later scan.                                                               *)
PagesSteps == [][DrainsOnly /\ LostToItsName]_pagesVars
==============================================================================
