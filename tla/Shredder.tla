------------------------------ MODULE Shredder ------------------------------
(***************************************************************************)
(* Secure deletion: the file page's shredder tab (FileFunction.qml), the   *)
(* bridge and its thread (filefunction/backend_bridge.py), and shred_file  *)
(* of both platforms (utils/secure_delete.py and                           *)
(* platform/linux/secure_delete.py).                                       *)
(*                                                                         *)
(* A file has the name it was picked by, a random one, or none.            *)
(* Verification is left out: it comes after the removal and its message is *)
(* replaced by the one of success.  Nothing else writes, moves or creates  *)
(* the files, and the user does not look for a file under its random name. *)
(***************************************************************************)
EXTENDS Naturals, Sequences

CONSTANTS
    Files,      \* files the user may pick
    NoFile,
    PassCounts  \* choices of the passes box

ASSUME ShredderBounds ==
    /\ NoFile \notin Files /\ PassCounts \subseteq Nat \ {0} /\ PassCounts # {}

VARIABLES
    \* the page
    chosen,     \* selectedFilePath
    typed,      \* confirmInput.text = "DELETE"
    shredRunning, shredDone, shredSuccess,
    \* the thread
    shredAt,    \* where shred_file is; "none" when no thread runs
    job,        \* [file, passes, rename, gnu] of the thread
    stopped,    \* its cancel_event
    results,    \* results posted to the page: [file, ok]
    \* the disk
    named,      \* per file: "own", "random", "gone"
    left,       \* per file: passes still to complete
    touched,    \* files of which some byte was overwritten
    \* history
    confirmed,  \* what was on the page when DELETE was typed
    repicked,   \* another file came to the page since
    swapped,    \* the file on the page changed since Start
    unheard     \* Start was clicked while a thread still ran

formVars  == <<chosen, typed, shredRunning, shredDone, shredSuccess>>
shredVars == <<shredAt, job, stopped, results>>
diskVars  == <<named, left, touched>>
noteVars  == <<confirmed, repicked, swapped, unheard>>
shredderVars == <<formVars, shredVars, diskVars, noteVars>>

Jobs == [file : Files, passes : PassCounts, rename : BOOLEAN, gnu : BOOLEAN]
NoJob == [file |-> NoFile, passes |-> 0, rename |-> FALSE, gnu |-> FALSE]

ShredderInit ==
    /\ chosen = NoFile /\ typed = FALSE
    /\ shredRunning = FALSE /\ shredDone = FALSE /\ shredSuccess = FALSE
    /\ shredAt = "none" /\ job = NoJob /\ stopped = FALSE /\ results = <<>>
    /\ named = [f \in Files |-> "own"] /\ left = [f \in Files |-> 0]
    /\ touched = {}
    /\ confirmed = NoFile /\ repicked = FALSE /\ swapped = FALSE /\ unheard = FALSE

------------------------------------------------------------------------------
(* The page. *)

(* The dialog and both kinds of drop; the text typed stays. *)
PickFile(f) ==
    /\ named[f] = "own"
    /\ chosen' = f /\ shredDone' = FALSE
    /\ swapped' = (swapped \/ (shredRunning /\ f # chosen))
    /\ repicked' = (repicked \/ (typed /\ f # chosen))
    /\ UNCHANGED <<typed, shredRunning, shredSuccess, shredVars, diskVars,
                   confirmed, unheard>>

TypeConfirmation ==
    /\ ~shredRunning /\ ~shredDone
    /\ typed' = ~typed
    /\ confirmed' = IF typed' THEN chosen ELSE NoFile
    /\ repicked' = FALSE
    /\ UNCHANGED <<chosen, shredRunning, shredDone, shredSuccess, shredVars,
                   diskVars, swapped, unheard>>

(* btnShred, then startSecureDelete: it returns at once, and says nothing, *)
(* while the thread before it runs.  Passes and renaming are choices of    *)
(* the user, GNU shred is there or not.                                    *)
ClickShred ==
    /\ chosen # NoFile /\ typed /\ ~shredRunning /\ ~shredDone
    /\ shredRunning' = TRUE
    /\ IF shredAt = "none"
       THEN /\ \E j \in Jobs : j.file = chosen /\ job' = j
            /\ shredAt' = "check" /\ stopped' = FALSE /\ unheard' = FALSE
       ELSE UNCHANGED <<shredAt, job, stopped>> /\ unheard' = TRUE
    /\ swapped' = FALSE
    /\ UNCHANGED <<chosen, typed, shredDone, shredSuccess, results, diskVars,
                   confirmed, repicked>>

ClickCancel ==
    /\ shredRunning
    /\ stopped' = (stopped \/ shredAt # "none")
    /\ UNCHANGED <<formVars, shredAt, job, results, diskVars, noteVars>>

ShredAnother ==
    /\ shredDone
    /\ shredRunning' = FALSE /\ shredDone' = FALSE /\ shredSuccess' = FALSE
    /\ typed' = FALSE /\ chosen' = NoFile /\ confirmed' = NoFile
    /\ repicked' = FALSE
    /\ UNCHANGED <<shredVars, diskVars, swapped, unheard>>

ShowResult ==
    /\ results # <<>> /\ results' = Tail(results)
    /\ shredRunning' = FALSE /\ shredDone' = TRUE
    /\ shredSuccess' = Head(results).ok
    /\ UNCHANGED <<chosen, typed, shredAt, job, stopped, diskVars, noteVars>>

------------------------------------------------------------------------------
(* ShredderWorker.run.  Its steps are the file operations. *)

File == job.file

OnThread(from, to) ==
    /\ shredAt = from /\ shredAt' = to
    /\ IF to = "none" THEN job' = NoJob /\ stopped' = FALSE ELSE UNCHANGED <<job, stopped>>
    /\ UNCHANGED <<formVars, noteVars>>

Report(ok) == results' = Append(results, [file |-> File, ok |-> ok])

(* validate_target, or the first stat, refuses. *)
Refuse ==
    /\ OnThread("check", "over") /\ Report(FALSE)
    /\ UNCHANGED diskVars

(* Renaming comes first, whatever follows. *)
Rename ==
    /\ OnThread("check", "ready") /\ named[File] = "own"
    /\ named' = [named EXCEPT ![File] = IF job.rename THEN "random" ELSE "own"]
    /\ left' = [left EXCEPT ![File] = job.passes]
    /\ UNCHANGED <<results, touched>>

(* The tests of cancel_event before a pass, or before GNU shred. *)
Begin ==
    /\ ~stopped /\ OnThread("ready", "writing")
    /\ UNCHANGED <<results, diskVars>>

StopBefore ==
    /\ stopped /\ OnThread("ready", "over") /\ Report(FALSE)
    /\ UNCHANGED diskVars

(* The test before a chunk of the Python loop. *)
StopWithin ==
    /\ stopped /\ ~job.gnu /\ OnThread("writing", "over") /\ Report(FALSE)
    /\ touched' \in {touched, touched \cup {File}}
    /\ UNCHANGED <<named, left>>

(* A mutant: the last pass is skipped. *)
PassButOne ==
    /\ ~job.gnu
    /\ OnThread("writing", IF left[File] <= 2 THEN "remove" ELSE "ready")
    /\ left' = [left EXCEPT ![File] = @ - 1]
    /\ touched' = touched \cup {File}
    /\ UNCHANGED <<results, named>>

(* One pass, to its fsync. *)
Pass ==
    /\ ~job.gnu
    /\ OnThread("writing", IF left[File] = 1 THEN "remove" ELSE "ready")
    /\ left' = [left EXCEPT ![File] = @ - 1]
    /\ touched' = touched \cup {File}
    /\ UNCHANGED <<results, named>>

(* An open, a write, an fsync or the removal raises; GNU shred ends with an *)
(* error or is killed after 300 s, with any number of its passes done.      *)
Raise ==
    /\ shredAt \in {"writing", "remove"} /\ OnThread(shredAt, "over")
    /\ Report(FALSE)
    /\ touched' \in {touched, touched \cup {File}}
    /\ IF job.gnu /\ File \in touched'
       THEN \E n \in 0 .. left[File] : left' = [left EXCEPT ![File] = n]
       ELSE UNCHANGED left
    /\ UNCHANGED named

Remove ==
    /\ OnThread("remove", "over") /\ Report(TRUE)
    /\ named' = [named EXCEPT ![File] = "gone"]
    /\ UNCHANGED <<left, touched>>

(* shred -u overwrites and removes in one; nothing cancels it. *)
GnuShred ==
    /\ job.gnu /\ OnThread("writing", "over") /\ Report(TRUE)
    /\ named' = [named EXCEPT ![File] = "gone"]
    /\ left' = [left EXCEPT ![File] = 0]
    /\ touched' = touched \cup {File}

(* The signal is posted; then the thread ends. *)
EndThread ==
    /\ OnThread("over", "none")
    /\ UNCHANGED <<results, diskVars>>

ShredFile ==
    \/ Refuse \/ Rename \/ Begin \/ StopBefore \/ StopWithin
    \/ Pass \/ Raise \/ Remove \/ GnuShred \/ EndThread

ShredderNext ==
    \/ \E f \in Files : PickFile(f)
    \/ TypeConfirmation \/ ClickShred \/ ClickCancel \/ ShredAnother
    \/ ShowResult \/ ShredFile

(* Threads run and posted results are delivered; file operations return. *)
ShredderFairness == WF_shredderVars(ShredFile) /\ WF_shredderVars(ShowResult)

ShredderSpec == ShredderInit /\ [][ShredderNext]_shredderVars /\ ShredderFairness

------------------------------------------------------------------------------
(* Properties. *)

ShredderTypeOK ==
    /\ chosen \in Files \cup {NoFile} /\ typed \in BOOLEAN
    /\ shredRunning \in BOOLEAN /\ shredDone \in BOOLEAN /\ shredSuccess \in BOOLEAN
    /\ stopped \in BOOLEAN /\ repicked \in BOOLEAN
    /\ swapped \in BOOLEAN /\ unheard \in BOOLEAN
    /\ shredAt \in {"none", "check", "ready", "writing", "remove", "over"}
    /\ job \in Jobs \cup {NoJob}
    /\ results \in Seq([file : Files, ok : BOOLEAN])
    /\ named \in [Files -> {"own", "random", "gone"}]
    /\ left \in [Files -> Nat] /\ touched \in SUBSET Files
    /\ confirmed \in Files \cup {NoFile}

(* A file is removed only when every pass asked for has overwritten it, *)
(* whatever was cancelled, raised or killed before.                     *)
DestroyedIsOverwritten ==
    \A f \in Files : named[f] = "gone" => left[f] = 0 /\ f \in touched

(* Success is told of a file that is gone, and shown of the file on the   *)
(* page unless another was picked while the thread ran.                   *)
SuccessIsDestroyed ==
    /\ \A i \in DOMAIN results : results[i].ok => named[results[i].file] = "gone"
    /\ shredDone /\ shredSuccess /\ ~swapped => chosen # NoFile /\ named[chosen] = "gone"

(* While the page waits a thread runs or its result is on the way, unless   *)
(* the click came between the last result and the end of its thread; and a  *)
(* thread never works for two jobs: one result is on the way at most.       *)
WaitsAreFounded ==
    /\ shredRunning /\ ~unheard => shredAt # "none" \/ results # <<>>
    /\ Len(results) <= 1
    /\ shredAt \notin {"none", "over"} => results = <<>> /\ shredRunning

(* "Type DELETE to confirm": what is destroyed was on the page when the *)
(* word was typed, or was picked afterwards while the word stood there. *)
OnlyPicksSlipBy == shredAt = "check" /\ ~repicked => job.file = confirmed

ShredderInv ==
    /\ ShredderTypeOK /\ DestroyedIsOverwritten /\ SuccessIsDestroyed
    /\ WaitsAreFounded /\ OnlyPicksSlipBy

(* The page is to come back, unless its click was not heard. *)
ShredderWaits == shredRunning /\ ~unheard
==============================================================================
