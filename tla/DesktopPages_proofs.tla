-------------------------- MODULE DesktopPages_proofs --------------------------
(***************************************************************************)
(* The desktop's pages for any values of their constants: what the         *)
(* shredder destroys and tells, what the security tab shows of the         *)
(* machine, what the assistant's chat keeps of a conversation, what the    *)
(* lists of the history lack, what an explanation is about, and what a     *)
(* recovery scan finds, lists and copies.                                  *)
(***************************************************************************)
EXTENDS DesktopPages, FiniteSetTheorems, TLAPS

------------------------------------------------------------------------------
(* The shredder: what is removed was overwritten, success is told of removed *)
(* files, a waiting page is waited for by a thread or a result, and only a   *)
(* file picked after DELETE was typed can be destroyed unconfirmed.          *)

USE ShredderBounds

Results == [file : Files, ok : BOOLEAN]

\* Where the thread is tells what it has done to its file.
ThreadKnows ==
    /\ shredAt # "none" => job \in Jobs
    /\ shredAt \in {"ready", "writing", "remove"} => named[job.file] # "gone"
    /\ shredAt \in {"ready", "writing"} => left[job.file] >= 1
    /\ shredAt = "remove" => left[job.file] = 0 /\ job.file \in touched

\* A page that waits has shown no result yet, and what is on the way to it is
\* about the file it shows unless that was swapped.
PageKnows ==
    /\ shredRunning => ~shredDone
    /\ results # <<>> => shredRunning
    /\ ~swapped => /\ shredAt \notin {"none", "over"} => job.file = chosen
                   /\ \A i \in DOMAIN results : results[i].file = chosen
    /\ typed /\ ~repicked => confirmed = chosen
    /\ shredAt = "over" /\ shredRunning /\ ~unheard => results # <<>>

ShredderIInv == ShredderInv /\ ThreadKnows /\ PageKnows

USE DEF formVars, shredVars, diskVars, noteVars

LEMMA OneResult ==
  ASSUME NEW r \in Results
  PROVE  /\ Append(<<>>, r) = <<r>> /\ <<r>> \in Seq(Results) /\ <<r>> # <<>>
         /\ Len(<<r>>) = 1 /\ DOMAIN <<r>> = {1} /\ <<r>>[1] = r
OBVIOUS

LEMMA NoResult ==
  /\ <<>> \in Seq(Results) /\ Len(<<>>) = 0 /\ DOMAIN <<>> = {}
OBVIOUS

LEMMA LastResult ==
  ASSUME NEW s \in Seq(Results), Len(s) <= 1, s # <<>>
  PROVE  Tail(s) = <<>> /\ Head(s) = s[1] /\ 1 \in DOMAIN s /\ s[1] \in Results
OBVIOUS

LEMMA ShredderInitInv == ShredderInit => ShredderIInv
<1> SUFFICES ASSUME ShredderInit PROVE ShredderIInv
  OBVIOUS
<1>1. /\ chosen = NoFile /\ typed = FALSE /\ shredRunning = FALSE /\ shredDone = FALSE
      /\ shredSuccess = FALSE /\ shredAt = "none" /\ job = NoJob /\ stopped = FALSE
      /\ results = <<>> /\ named = [f \in Files |-> "own"] /\ left = [f \in Files |-> 0]
      /\ touched = {} /\ confirmed = NoFile /\ repicked = FALSE /\ swapped = FALSE
      /\ unheard = FALSE
  BY DEF ShredderInit
<1>2. ShredderTypeOK
  <2>1. /\ typed \in BOOLEAN /\ shredRunning \in BOOLEAN /\ shredDone \in BOOLEAN
        /\ shredSuccess \in BOOLEAN /\ stopped \in BOOLEAN /\ repicked \in BOOLEAN
        /\ swapped \in BOOLEAN /\ unheard \in BOOLEAN
    BY <1>1
  <2>2. results \in Seq([file : Files, ok : BOOLEAN])
    BY <1>1, NoResult DEF Results
  <2>3. /\ chosen \in Files \cup {NoFile} /\ job \in Jobs \cup {NoJob}
        /\ named \in [Files -> {"own", "random", "gone"}]
        /\ left \in [Files -> Nat] /\ touched \in SUBSET Files
        /\ confirmed \in Files \cup {NoFile}
        /\ shredAt \in {"none", "check", "ready", "writing", "remove", "over"}
    BY <1>1
  <2>. QED
    BY <2>1, <2>2, <2>3 DEF ShredderTypeOK
<1>3. DestroyedIsOverwritten
  BY <1>1 DEF DestroyedIsOverwritten
<1>4. SuccessIsDestroyed
  BY <1>1, NoResult DEF SuccessIsDestroyed
<1>5. WaitsAreFounded /\ OnlyPicksSlipBy
  BY <1>1, NoResult DEF WaitsAreFounded, OnlyPicksSlipBy
<1>6. ThreadKnows
  BY <1>1 DEF ThreadKnows
<1>7. PageKnows
  BY <1>1, NoResult DEF PageKnows
<1>. QED
  BY <1>2, <1>3, <1>4, <1>5, <1>6, <1>7 DEF ShredderIInv, ShredderInv

------------------------------------------------------------------------------
\* The page.

LEMMA PickInv ==
  ASSUME ShredderIInv, NEW f \in Files, PickFile(f)
  PROVE  ShredderIInv'
<1> USE DEF ShredderIInv, ShredderInv, PickFile
<1>1. ShredderTypeOK'
  BY DEF ShredderTypeOK
<1>2. DestroyedIsOverwritten' /\ ThreadKnows'
  BY DEF DestroyedIsOverwritten, ThreadKnows
<1>3. SuccessIsDestroyed' /\ WaitsAreFounded'
  BY DEF SuccessIsDestroyed, WaitsAreFounded
<1>4. ~swapped' => ~swapped /\ (shredRunning => chosen' = chosen)
  BY DEF ShredderTypeOK
<1>5. PageKnows'
  BY <1>4 DEF PageKnows, WaitsAreFounded, ShredderTypeOK
<1>6. OnlyPicksSlipBy'
  BY DEF OnlyPicksSlipBy, ShredderTypeOK
<1>. QED
  BY <1>1, <1>2, <1>3, <1>5, <1>6

LEMMA TypeInv ==
  ASSUME ShredderIInv, TypeConfirmation
  PROVE  ShredderIInv'
<1> USE DEF ShredderIInv, ShredderInv, TypeConfirmation
<1>1. ShredderTypeOK'
  BY DEF ShredderTypeOK
<1>2. DestroyedIsOverwritten' /\ ThreadKnows'
  BY DEF DestroyedIsOverwritten, ThreadKnows
<1>3. SuccessIsDestroyed' /\ WaitsAreFounded'
  BY DEF SuccessIsDestroyed, WaitsAreFounded
<1>4. shredAt \in {"none", "over"}
  BY DEF WaitsAreFounded
<1>5. PageKnows'
  BY <1>4 DEF PageKnows, ShredderTypeOK
<1>6. OnlyPicksSlipBy'
  BY <1>4 DEF OnlyPicksSlipBy
<1>. QED
  BY <1>1, <1>2, <1>3, <1>5, <1>6

LEMMA ClickInv ==
  ASSUME ShredderIInv, ClickShred
  PROVE  ShredderIInv'
<1> USE DEF ShredderIInv, ShredderInv, ClickShred
<1>1. results = <<>> /\ shredAt \in {"none", "over"}
  BY DEF PageKnows, WaitsAreFounded, ShredderTypeOK
<1>2. CASE shredAt = "none"
  <2>1. /\ job' \in Jobs /\ job'.file = chosen /\ shredAt' = "check"
        /\ stopped' = FALSE /\ unheard' = FALSE
    BY <1>2
  <2>2. ShredderTypeOK'
    BY <2>1 DEF ShredderTypeOK
  <2>3. DestroyedIsOverwritten' /\ ThreadKnows'
    BY <2>1 DEF DestroyedIsOverwritten, ThreadKnows
  <2>4. SuccessIsDestroyed' /\ WaitsAreFounded'
    BY <2>1, <1>1, NoResult DEF SuccessIsDestroyed, WaitsAreFounded
  <2>5. PageKnows'
    BY <2>1, <1>1, NoResult DEF PageKnows, ShredderTypeOK
  <2>6. OnlyPicksSlipBy'
    BY <2>1 DEF OnlyPicksSlipBy, PageKnows
  <2>. QED
    BY <2>2, <2>3, <2>4, <2>5, <2>6
<1>3. CASE shredAt = "over"
  <2>1. UNCHANGED <<shredAt, job, stopped>> /\ unheard' = TRUE
    BY <1>3
  <2>2. ShredderTypeOK'
    BY <2>1 DEF ShredderTypeOK
  <2>3. DestroyedIsOverwritten' /\ ThreadKnows'
    BY <2>1 DEF DestroyedIsOverwritten, ThreadKnows
  <2>4. SuccessIsDestroyed' /\ WaitsAreFounded'
    BY <2>1, <1>1, <1>3, NoResult DEF SuccessIsDestroyed, WaitsAreFounded
  <2>5. PageKnows'
    BY <2>1, <1>1, <1>3, NoResult DEF PageKnows, ShredderTypeOK
  <2>6. OnlyPicksSlipBy'
    BY <2>1, <1>3 DEF OnlyPicksSlipBy
  <2>. QED
    BY <2>2, <2>3, <2>4, <2>5, <2>6
<1>. QED
  BY <1>1, <1>2, <1>3

LEMMA CancelInv ==
  ASSUME ShredderIInv, ClickCancel
  PROVE  ShredderIInv'
<1> USE DEF ShredderIInv, ShredderInv, ClickCancel
<1>1. ShredderTypeOK'
  BY DEF ShredderTypeOK
<1>2. DestroyedIsOverwritten' /\ ThreadKnows'
  BY DEF DestroyedIsOverwritten, ThreadKnows
<1>3. SuccessIsDestroyed' /\ WaitsAreFounded' /\ OnlyPicksSlipBy'
  BY DEF SuccessIsDestroyed, WaitsAreFounded, OnlyPicksSlipBy
<1>4. PageKnows'
  BY DEF PageKnows
<1>. QED
  BY <1>1, <1>2, <1>3, <1>4

LEMMA AnotherInv ==
  ASSUME ShredderIInv, ShredAnother
  PROVE  ShredderIInv'
<1> USE DEF ShredderIInv, ShredderInv, ShredAnother
<1>1. results = <<>> /\ shredAt \in {"none", "over"}
  BY DEF PageKnows, WaitsAreFounded, ShredderTypeOK
<1>2. ShredderTypeOK'
  BY DEF ShredderTypeOK
<1>3. DestroyedIsOverwritten' /\ ThreadKnows'
  BY DEF DestroyedIsOverwritten, ThreadKnows
<1>4. SuccessIsDestroyed' /\ WaitsAreFounded' /\ OnlyPicksSlipBy'
  BY <1>1, NoResult DEF SuccessIsDestroyed, WaitsAreFounded, OnlyPicksSlipBy
<1>5. PageKnows'
  BY <1>1, NoResult DEF PageKnows
<1>. QED
  BY <1>2, <1>3, <1>4, <1>5

LEMMA ShowInv ==
  ASSUME ShredderIInv, ShowResult
  PROVE  ShredderIInv'
<1> USE DEF ShredderIInv, ShredderInv
<1> DEFINE r == results[1]
<1>1. /\ results' = <<>> /\ r \in Results /\ 1 \in DOMAIN results
      /\ shredRunning' = FALSE /\ shredDone' = TRUE /\ shredSuccess' = r.ok
      /\ UNCHANGED <<chosen, typed, shredAt, job, stopped, diskVars, noteVars>>
  <2>1. results \in Seq(Results) /\ Len(results) <= 1 /\ results # <<>>
    BY DEF ShowResult, ShredderTypeOK, WaitsAreFounded, Results
  <2>. QED
    BY <2>1, LastResult DEF ShowResult
<1>2. r.ok \in BOOLEAN /\ r.file \in Files /\ shredAt \in {"none", "over"}
  BY <1>1 DEF Results, WaitsAreFounded, ShredderTypeOK, ShowResult
<1>3. ShredderTypeOK'
  BY <1>1, <1>2, NoResult DEF ShredderTypeOK, Results
<1>4. DestroyedIsOverwritten' /\ ThreadKnows'
  BY <1>1 DEF DestroyedIsOverwritten, ThreadKnows
<1>5. (r.ok => named[r.file] = "gone") /\ (~swapped => r.file = chosen)
  BY <1>1 DEF SuccessIsDestroyed, PageKnows
<1>6. SuccessIsDestroyed'
  BY <1>1, <1>2, <1>5, NoResult DEF SuccessIsDestroyed
<1>7. WaitsAreFounded' /\ OnlyPicksSlipBy'
  BY <1>1, <1>2, NoResult DEF WaitsAreFounded, OnlyPicksSlipBy
<1>8. PageKnows'
  BY <1>1, <1>2, NoResult DEF PageKnows
<1>. QED
  BY <1>3, <1>4, <1>6, <1>7, <1>8

------------------------------------------------------------------------------
\* The thread.

LEMMA AtWork ==
  ASSUME ShredderIInv, shredAt \notin {"none", "over"}
  PROVE  /\ results = <<>> /\ shredRunning /\ ~shredDone
         /\ job \in Jobs /\ File \in Files /\ job.passes \in Nat \ {0}
BY DEF ShredderIInv, ShredderInv, WaitsAreFounded, ThreadKnows, PageKnows, Jobs, File

\* A step that ends the job with a result.
LEMMA ReportInv ==
  ASSUME ShredderIInv, shredAt \notin {"none", "over"}, NEW ok \in BOOLEAN,
         OnThread(shredAt, "over"), Report(ok),
         named' \in [Files -> {"own", "random", "gone"}],
         left' \in [Files -> Nat], touched' \in SUBSET Files,
         DestroyedIsOverwritten',
         \A f \in Files : named[f] = "gone" => named'[f] = "gone",
         ok => named'[File] = "gone"
  PROVE  ShredderIInv'
<1> DEFINE r == [file |-> File, ok |-> ok]
<1> USE DEF ShredderIInv, ShredderInv
<1>1. /\ results = <<>> /\ shredRunning /\ ~shredDone /\ job \in Jobs /\ File \in Files
  BY AtWork
<1>2. /\ shredAt' = "over"
      /\ UNCHANGED <<job, stopped, chosen, typed, shredRunning, shredDone, shredSuccess,
                     confirmed, repicked, swapped, unheard>>
  BY DEF OnThread
<1>3. r \in Results /\ r.file = File /\ r.ok = ok
  BY <1>1 DEF Results
<1>4. /\ results' = <<r>> /\ results' \in Seq(Results) /\ results' # <<>>
      /\ Len(results') = 1 /\ DOMAIN results' = {1} /\ results'[1] = r
  <2>1. results' = Append(<<>>, r)
    BY <1>1 DEF Report
  <2>. QED
    BY <2>1, <1>3, OneResult
<1>5. ShredderTypeOK'
  BY <1>2, <1>4 DEF ShredderTypeOK, Results
<1>6. SuccessIsDestroyed'
  BY <1>1, <1>2, <1>3, <1>4 DEF SuccessIsDestroyed
<1>7. WaitsAreFounded' /\ OnlyPicksSlipBy'
  BY <1>2, <1>4 DEF WaitsAreFounded, OnlyPicksSlipBy
<1>8. ThreadKnows'
  BY <1>1, <1>2 DEF ThreadKnows
<1>9. PageKnows'
  BY <1>1, <1>2, <1>3, <1>4 DEF PageKnows, File
<1>. QED
  BY <1>5, <1>6, <1>7, <1>8, <1>9

LEMMA RefuseInv ==
  ASSUME ShredderIInv, Refuse \/ StopBefore
  PROVE  ShredderIInv'
<1>1. /\ shredAt \notin {"none", "over"} /\ OnThread(shredAt, "over")
      /\ Report(FALSE) /\ UNCHANGED diskVars
  BY DEF Refuse, StopBefore, OnThread
<1>2. /\ named' \in [Files -> {"own", "random", "gone"}]
      /\ left' \in [Files -> Nat] /\ touched' \in SUBSET Files
      /\ DestroyedIsOverwritten'
  BY <1>1 DEF ShredderIInv, ShredderInv, ShredderTypeOK, DestroyedIsOverwritten
<1>. QED
  BY <1>1, <1>2, ReportInv

\* A step that leaves the job underway.
LEMMA WorkInv ==
  ASSUME ShredderIInv, shredAt \notin {"none", "over"},
         NEW to \in {"ready", "writing", "remove"},
         OnThread(shredAt, to), UNCHANGED results,
         named' \in [Files -> {"own", "random", "gone"}],
         left' \in [Files -> Nat], touched' \in SUBSET Files,
         DestroyedIsOverwritten', ThreadKnows',
         \A f \in Files : named[f] = "gone" => named'[f] = "gone"
  PROVE  ShredderIInv'
<1> USE DEF ShredderIInv, ShredderInv
<1>1. /\ results = <<>> /\ results' = <<>> /\ shredRunning /\ ~shredDone
  BY AtWork
<1>2. /\ shredAt' = to
      /\ UNCHANGED <<job, stopped, chosen, typed, shredRunning, shredDone, shredSuccess,
                     confirmed, repicked, swapped, unheard>>
  BY DEF OnThread
<1>3. ShredderTypeOK'
  BY <1>2 DEF ShredderTypeOK
<1>4. SuccessIsDestroyed'
  BY <1>1, <1>2, NoResult DEF SuccessIsDestroyed
<1>5. WaitsAreFounded' /\ OnlyPicksSlipBy'
  BY <1>1, <1>2, NoResult DEF WaitsAreFounded, OnlyPicksSlipBy
<1>6. PageKnows'
  BY <1>1, <1>2, NoResult DEF PageKnows
<1>. QED
  BY <1>3, <1>4, <1>5, <1>6

LEMMA RenameInv ==
  ASSUME ShredderIInv, Rename
  PROVE  ShredderIInv'
<1> USE DEF ShredderIInv, ShredderInv
<1>1. shredAt = "check" /\ OnThread(shredAt, "ready") /\ UNCHANGED <<results, job>>
  BY DEF Rename, OnThread
<1>2. job \in Jobs /\ File \in Files /\ job.passes \in Nat \ {0}
  BY <1>1, AtWork
<1>3. /\ named' \in [Files -> {"own", "random", "gone"}] /\ left' \in [Files -> Nat]
      /\ named'[File] # "gone" /\ left'[File] >= 1 /\ touched' = touched
      /\ \A f \in Files : f # File => named'[f] = named[f] /\ left'[f] = left[f]
      /\ named[File] = "own" /\ touched \in SUBSET Files
  BY <1>2 DEF Rename, ShredderTypeOK
<1>4. DestroyedIsOverwritten'
  BY <1>3 DEF DestroyedIsOverwritten
<1>5. ThreadKnows'
  BY <1>1, <1>2, <1>3 DEF ThreadKnows, OnThread, File
<1>. QED
  BY <1>1, <1>3, <1>4, <1>5, WorkInv

LEMMA BeginInv ==
  ASSUME ShredderIInv, Begin
  PROVE  ShredderIInv'
<1> USE DEF ShredderIInv, ShredderInv
<1>1. /\ shredAt = "ready" /\ OnThread(shredAt, "writing")
      /\ shredAt' = "writing" /\ UNCHANGED <<results, job, named, left, touched>>
  BY DEF Begin, OnThread
<1>2. /\ named' \in [Files -> {"own", "random", "gone"}]
      /\ left' \in [Files -> Nat] /\ touched' \in SUBSET Files
  BY <1>1 DEF ShredderTypeOK
<1>3. DestroyedIsOverwritten' /\ ThreadKnows'
  BY <1>1 DEF DestroyedIsOverwritten, ThreadKnows
<1>. QED
  BY <1>1, <1>2, <1>3, WorkInv

LEMMA PassInv ==
  ASSUME ShredderIInv, Pass
  PROVE  ShredderIInv'
<1> USE DEF ShredderIInv, ShredderInv
<1> DEFINE to == IF left[File] = 1 THEN "remove" ELSE "ready"
<1>1. /\ shredAt = "writing" /\ OnThread(shredAt, to) /\ shredAt' = to
      /\ UNCHANGED <<results, job, named>>
  BY DEF Pass, OnThread
<1>2. job \in Jobs /\ File \in Files /\ named[File] # "gone" /\ left[File] >= 1
  BY <1>1, AtWork DEF ThreadKnows, File
<1>3. /\ left[File] \in Nat /\ left \in [Files -> Nat] /\ touched \in SUBSET Files
      /\ named' \in [Files -> {"own", "random", "gone"}]
  BY <1>1, <1>2 DEF ShredderTypeOK
<1>4. /\ left' = [left EXCEPT ![File] = @ - 1] /\ touched' = touched \cup {File}
  BY DEF Pass
<1>5. /\ left' \in [Files -> Nat] /\ touched' \in SUBSET Files
      /\ left'[File] = left[File] - 1 /\ File \in touched'
      /\ \A f \in Files : f # File => left'[f] = left[f]
  BY <1>2, <1>3, <1>4
<1>6. DestroyedIsOverwritten'
  BY <1>1, <1>2, <1>4, <1>5 DEF DestroyedIsOverwritten
<1>7. ThreadKnows'
  BY <1>1, <1>2, <1>3, <1>5 DEF ThreadKnows, File
<1>8. to \in {"ready", "writing", "remove"}
  OBVIOUS
<1>. QED
  BY <1>1, <1>3, <1>5, <1>6, <1>7, <1>8, WorkInv

LEMMA StopWithinInv ==
  ASSUME ShredderIInv, StopWithin
  PROVE  ShredderIInv'
<1> USE DEF ShredderIInv, ShredderInv
<1>1. /\ shredAt = "writing" /\ OnThread(shredAt, "over") /\ Report(FALSE)
      /\ UNCHANGED <<named, left>> /\ touched' \in {touched, touched \cup {File}}
  BY DEF StopWithin, OnThread
<1>2. File \in Files
  BY <1>1, AtWork
<1>3. /\ named' \in [Files -> {"own", "random", "gone"}]
      /\ left' \in [Files -> Nat] /\ touched' \in SUBSET Files
      /\ \A f \in Files : f \in touched => f \in touched'
  BY <1>1, <1>2 DEF ShredderTypeOK
<1>4. DestroyedIsOverwritten'
  BY <1>1, <1>3 DEF DestroyedIsOverwritten
<1>. QED
  BY <1>1, <1>3, <1>4, ReportInv

LEMMA RaiseInv ==
  ASSUME ShredderIInv, Raise
  PROVE  ShredderIInv'
<1> USE DEF ShredderIInv, ShredderInv
<1>1. /\ shredAt \in {"writing", "remove"} /\ OnThread(shredAt, "over") /\ Report(FALSE)
      /\ UNCHANGED named /\ touched' \in {touched, touched \cup {File}}
  BY DEF Raise
<1>2. File \in Files /\ named[File] # "gone" /\ left[File] \in Nat
  BY <1>1, AtWork DEF ThreadKnows, File, ShredderTypeOK
<1>3. left' = left \/ \E n \in 0 .. left[File] : left' = [left EXCEPT ![File] = n]
  BY DEF Raise
<1>4. /\ left' \in [Files -> Nat]
      /\ \A f \in Files : f # File => left'[f] = left[f]
  BY <1>2, <1>3 DEF ShredderTypeOK
<1>5. /\ named' \in [Files -> {"own", "random", "gone"}] /\ touched' \in SUBSET Files
      /\ \A f \in Files : f \in touched => f \in touched'
  BY <1>1, <1>2 DEF ShredderTypeOK
<1>6. DestroyedIsOverwritten'
  BY <1>1, <1>2, <1>4, <1>5 DEF DestroyedIsOverwritten
<1>. QED
  BY <1>1, <1>4, <1>5, <1>6, ReportInv

LEMMA RemoveInv ==
  ASSUME ShredderIInv, Remove \/ GnuShred
  PROVE  ShredderIInv'
<1> USE DEF ShredderIInv, ShredderInv
<1>1. /\ shredAt \in {"writing", "remove"} /\ OnThread(shredAt, "over") /\ Report(TRUE)
      /\ named' = [named EXCEPT ![File] = "gone"]
  BY DEF Remove, GnuShred, OnThread
<1>2. File \in Files
  BY <1>1, AtWork
<1>3. /\ left' \in [Files -> Nat] /\ touched' \in SUBSET Files
      /\ left'[File] = 0 /\ File \in touched'
      /\ \A f \in Files : f # File => left'[f] = left[f]
      /\ \A f \in Files : f \in touched => f \in touched'
  <2>1. CASE Remove
    BY <1>2, <2>1 DEF Remove, OnThread, ThreadKnows, ShredderTypeOK, File
  <2>2. CASE GnuShred
    BY <1>2, <2>2 DEF GnuShred, ShredderTypeOK
  <2>. QED
    BY <2>1, <2>2
<1>4. /\ named' \in [Files -> {"own", "random", "gone"}] /\ named'[File] = "gone"
      /\ \A f \in Files : f # File => named'[f] = named[f]
  BY <1>1, <1>2 DEF ShredderTypeOK
<1>5. DestroyedIsOverwritten'
  BY <1>3, <1>4 DEF DestroyedIsOverwritten
<1>6. \A f \in Files : named[f] = "gone" => named'[f] = "gone"
  BY <1>4
<1>. QED
  BY <1>1, <1>3, <1>4, <1>5, <1>6, ReportInv

LEMMA EndInv ==
  ASSUME ShredderIInv, EndThread
  PROVE  ShredderIInv'
<1> USE DEF ShredderIInv, ShredderInv
<1>1. /\ shredAt = "over" /\ shredAt' = "none" /\ job' = NoJob /\ stopped' = FALSE
      /\ UNCHANGED <<formVars, noteVars, results, diskVars>>
  BY DEF EndThread, OnThread
<1>2. ShredderTypeOK'
  BY <1>1 DEF ShredderTypeOK
<1>3. DestroyedIsOverwritten' /\ ThreadKnows'
  BY <1>1 DEF DestroyedIsOverwritten, ThreadKnows
<1>4. SuccessIsDestroyed' /\ OnlyPicksSlipBy'
  BY <1>1 DEF SuccessIsDestroyed, OnlyPicksSlipBy
<1>5. WaitsAreFounded'
  BY <1>1 DEF WaitsAreFounded, PageKnows
<1>6. PageKnows'
  BY <1>1 DEF PageKnows
<1>. QED
  BY <1>2, <1>3, <1>4, <1>5, <1>6

LEMMA ShredderStepInv ==
  ASSUME ShredderIInv, [ShredderNext]_shredderVars
  PROVE  ShredderIInv'
<1>1. ASSUME NEW f \in Files, PickFile(f) PROVE ShredderIInv'
  BY <1>1, PickInv
<1>2. CASE TypeConfirmation
  BY <1>2, TypeInv
<1>3. CASE ClickShred
  BY <1>3, ClickInv
<1>4. CASE ClickCancel
  BY <1>4, CancelInv
<1>5. CASE ShredAnother
  BY <1>5, AnotherInv
<1>6. CASE ShowResult
  BY <1>6, ShowInv
<1>7. CASE ShredFile
  BY <1>7, RefuseInv, RenameInv, BeginInv, StopWithinInv, PassInv, RaiseInv, RemoveInv,
     EndInv DEF ShredFile
<1>8. CASE UNCHANGED shredderVars
  BY <1>8 DEF shredderVars, ShredderIInv, ShredderInv, ShredderTypeOK,
     DestroyedIsOverwritten, SuccessIsDestroyed, WaitsAreFounded, OnlyPicksSlipBy,
     ThreadKnows, PageKnows
<1>. QED
  BY <1>1, <1>2, <1>3, <1>4, <1>5, <1>6, <1>7, <1>8 DEF ShredderNext

(* shred_file removes a file only after every pass asked for, tells success *)
(* of removed files only, posts one result per job to a page that waits for *)
(* it, and destroys what DELETE was typed for unless another file was       *)
(* picked while the word stood: for any files and any choices of passes.    *)
THEOREM ShredderInvariant == ShredderSpec => []ShredderInv
<1>1. ShredderIInv => ShredderInv
  BY DEF ShredderIInv
<1>. QED
  BY <1>1, ShredderInitInv, ShredderStepInv, PTL DEF ShredderSpec

(* The shredder never brings a file back or gives it its own name again: a *)
(* file under a random name stays there until it is removed.               *)
THEOREM NamesAreNotRestored ==
  ShredderSpec => [][\A f \in Files : /\ named[f] = "gone" => named'[f] = "gone"
                                      /\ named'[f] = "own" => named[f] = "own"]_shredderVars
<1> DEFINE Kept == \A f \in Files : /\ named[f] = "gone" => named'[f] = "gone"
                                    /\ named'[f] = "own" => named[f] = "own"
<1>1. ShredderIInv /\ [ShredderNext]_shredderVars => [Kept]_shredderVars
  <2> SUFFICES ASSUME ShredderIInv, ShredderNext PROVE Kept
    OBVIOUS
  <2>1. named \in [Files -> {"own", "random", "gone"}]
    BY DEF ShredderIInv, ShredderInv, ShredderTypeOK
  <2>2. CASE ShredFile
    <3>1. CASE Rename
      BY <3>1, <2>1 DEF Rename
    <3>2. CASE Remove \/ GnuShred
      BY <3>2, <2>1 DEF Remove, GnuShred
    <3>. QED
      BY <2>2, <3>1, <3>2 DEF ShredFile, Refuse, Begin, StopBefore, StopWithin, Pass,
         Raise, EndThread
  <2>3. CASE ~ShredFile
    BY <2>3 DEF ShredderNext, PickFile, TypeConfirmation, ClickShred, ClickCancel,
       ShredAnother, ShowResult
  <2>. QED
    BY <2>2, <2>3
<1>. QED
  BY <1>1, ShredderInitInv, ShredderStepInv, PTL DEF ShredderSpec

------------------------------------------------------------------------------
(* The security tab.  That its parts are current rests on the order of what  *)
(* is posted: the last reading posted is the one the tab keeps.              *)

\* The last reading posted is of the present state when no other is coming.
LastIsCurrent ==
    ~Untold /\ Busy = {} /\ payloads # <<>> => Agrees(payloads[Len(payloads)], feature)

\* A thread about to store or to tell a reading has one.
HoldsReading ==
    \A r \in Readers : readers[r].at \in {"stores", "tells"} => readers[r].saw \in Readings

SecurityIInv == SecurityInv /\ LastIsCurrent /\ HoldsReading

USE SecurityBounds DEF pageSVars, readVars, noteSVars

ReaderStates == [at : {"none", "begins", "asks", "stores", "tells"},
                 saw : Readings \cup {"none"}]

LEMMA OneMoreReading ==
  ASSUME NEW s \in Seq(Readings), NEW x \in Readings
  PROVE  /\ Append(s, x) \in Seq(Readings) /\ Append(s, x) # <<>>
         /\ Append(s, x)[Len(Append(s, x))] = x
OBVIOUS

LEMMA OneReadingLess ==
  ASSUME NEW s \in Seq(Readings), s # <<>>
  PROVE  /\ Tail(s) \in Seq(Readings) /\ Head(s) \in Readings
         /\ Tail(s) # <<>> => Tail(s)[Len(Tail(s))] = s[Len(s)]
         /\ Tail(s) = <<>> => Head(s) = s[Len(s)]
<1>1. /\ Len(s) \in Nat /\ Len(s) >= 1 /\ Head(s) = s[1] /\ s[1] \in Readings
      /\ Tail(s) \in Seq(Readings) /\ Len(Tail(s)) = Len(s) - 1
      /\ \A i \in 1 .. Len(s) - 1 : Tail(s)[i] = s[i + 1]
  OBVIOUS
<1>2. ASSUME NEW t \in Seq(Readings) PROVE (t = <<>>) <=> Len(t) = 0
  OBVIOUS
<1>3. /\ Tail(s) # <<>> => Len(s) - 1 \in 1 .. Len(s) - 1
      /\ Tail(s) = <<>> => Len(s) = 1
  <2>1. (Tail(s) = <<>>) <=> Len(s) - 1 = 0
    BY <1>1, <1>2
  <2>. QED
    BY <1>1, <2>1
<1>. QED
  BY <1>1, <1>3

LEMMA OppositeState == \A s \in States : Opposite(s) \in States
BY DEF Opposite, States

LEMMA SecurityInitInv == SecurityRests /\ launching \in BOOLEAN => SecurityIInv
<1> SUFFICES ASSUME SecurityRests, launching \in BOOLEAN PROVE SecurityIInv
  OBVIOUS
<1> USE DEF SecurityRests
<1>1. {again, launching, elsewhere, outdated} \subseteq BOOLEAN
  <2>1. again \in BOOLEAN /\ elsewhere \in BOOLEAN /\ outdated \in BOOLEAN
    BY Zenon
  <2>. QED
    BY <2>1, Zenon
<1>2. readers \in [Readers -> ReaderStates]
  BY DEF ReaderStates, NoReader
<1>3. \A r \in Readers : readers[r].saw = "none" /\ readers[r].at = "none"
  BY DEF NoReader
<1>4. SecurityTypeOK
  BY <1>1, <1>2 DEF SecurityTypeOK, ReaderStates, Readings
<1>5. TabIsCurrent /\ CacheIsCurrent
  BY <1>3 DEF TabIsCurrent, CacheIsCurrent, Agrees
<1>6. OverrideIsFounded /\ LastIsCurrent /\ HoldsReading
  BY <1>3 DEF OverrideIsFounded, LastIsCurrent, HoldsReading
<1>. QED
  BY <1>4, <1>5, <1>6 DEF SecurityIInv, SecurityInv

\* What a new thread changes of the readers.
LEMMA LaunchesOne ==
  ASSUME SecurityTypeOK, Launches
  PROVE  /\ readers' \in [Readers -> ReaderStates] /\ Busy' # {}
         /\ \A q \in Readers : readers'[q].saw = readers[q].saw
         /\ \A q \in Readers : readers'[q].at = readers[q].at \/ readers'[q].at = "begins"
<1>1. PICK r \in Readers :
         Idle(r) /\ readers' = [readers EXCEPT ![r] = [at |-> "begins", saw |-> "none"]]
  BY DEF Launches
<1>2. readers \in [Readers -> ReaderStates]
  BY DEF SecurityTypeOK, ReaderStates
<1>3. readers[r].saw = "none" /\ readers'[r] = [at |-> "begins", saw |-> "none"]
  BY <1>1, <1>2 DEF Idle, NoReader
<1>4. readers'[r] # NoReader
  <2>1. readers'[r].at = "begins" /\ NoReader.at = "none"
    BY <1>3 DEF NoReader
  <2>. QED
    BY <2>1
<1>5. r \in Busy'
  BY <1>4 DEF Busy, Idle
<1>. QED
  BY <1>1, <1>2, <1>3, <1>5 DEF ReaderStates

LEMMA FirstReadingInv ==
  ASSUME SecurityIInv, FirstReading
  PROVE  SecurityIInv'
<1> USE DEF SecurityIInv, SecurityInv, FirstReading
<1>1. {again, launching, elsewhere, outdated}' \subseteq BOOLEAN
  BY Zenon DEF SecurityTypeOK
<1>2. SecurityTypeOK'
  BY <1>1, LaunchesOne DEF SecurityTypeOK, ReaderStates
<1>3. TabIsCurrent' /\ OverrideIsFounded' /\ LastIsCurrent'
  BY LaunchesOne DEF TabIsCurrent, OverrideIsFounded, LastIsCurrent, Coming
<1>4. CacheIsCurrent'
  BY LaunchesOne DEF CacheIsCurrent, Untold, Agrees
<1>5. HoldsReading'
  BY LaunchesOne DEF HoldsReading
<1>. QED
  BY <1>2, <1>3, <1>4, <1>5

\* A refresh: whatever the machine's state is now, the cache is empty, and a
\* reading of another state that is still held is known to be outdated.
LEMMA RefreshInv ==
  ASSUME SecurityIInv, Refresh, feature' \in States, override' \in States \cup {"none"},
         dialog' \in States \cup {"none"}, again' \in BOOLEAN,
         UNCHANGED <<tab, launching, payloads>>
  PROVE  SecurityIInv'
<1> USE DEF SecurityIInv, SecurityInv, Refresh
<1>1. {again, launching, elsewhere, outdated}' \subseteq BOOLEAN
  BY Zenon DEF SecurityTypeOK
<1>2. SecurityTypeOK'
  BY <1>1, LaunchesOne DEF SecurityTypeOK, ReaderStates
<1>3. TabIsCurrent' /\ OverrideIsFounded' /\ LastIsCurrent'
  BY LaunchesOne DEF TabIsCurrent, OverrideIsFounded, LastIsCurrent, Coming
<1>4. CacheIsCurrent'
  BY LaunchesOne DEF CacheIsCurrent, Untold, Agrees
<1>5. HoldsReading'
  BY LaunchesOne DEF HoldsReading
<1>. QED
  BY <1>2, <1>3, <1>4, <1>5

LEMMA ToggleInv ==
  ASSUME SecurityIInv, Toggle
  PROVE  SecurityIInv'
<1>1. /\ feature' \in States /\ override' \in States \cup {"none"}
      /\ dialog' \in States \cup {"none"}
  BY DEF Toggle, SecurityIInv, SecurityInv, SecurityTypeOK
<1>2. again' \in BOOLEAN
  BY Zenon DEF Toggle
<1>3. Refresh /\ UNCHANGED <<tab, launching, payloads>>
  BY DEF Toggle
<1>. QED
  BY <1>1, <1>2, <1>3, RefreshInv

LEMMA RefreshAgainInv ==
  ASSUME SecurityIInv, RefreshAgain
  PROVE  SecurityIInv'
<1>1. /\ feature' \in States /\ override' \in States \cup {"none"}
      /\ dialog' \in States \cup {"none"}
  BY DEF RefreshAgain, SecurityIInv, SecurityInv, SecurityTypeOK
<1>2. again' \in BOOLEAN
  BY Zenon DEF RefreshAgain
<1>3. Refresh /\ UNCHANGED <<tab, launching, payloads>>
  BY DEF RefreshAgain
<1>. QED
  BY <1>1, <1>2, <1>3, RefreshInv

LEMMA DialogInv ==
  ASSUME SecurityIInv, ClickSwitch \/ Dismiss
  PROVE  SecurityIInv'
<1> USE DEF SecurityIInv, SecurityInv, ClickSwitch, Dismiss
<1>1. dialog' \in States \cup {"none"}
  BY OppositeState
<1>2. {again, launching, elsewhere, outdated}' \subseteq BOOLEAN
  BY Zenon DEF SecurityTypeOK
<1>3. SecurityTypeOK'
  BY <1>1, <1>2 DEF SecurityTypeOK
<1>4. /\ UNCHANGED <<feature, tab, override, cached, readers, payloads, elsewhere, outdated>>
  OBVIOUS
<1>5. TabIsCurrent' /\ CacheIsCurrent' /\ OverrideIsFounded' /\ LastIsCurrent' /\ HoldsReading'
  BY <1>4 DEF TabIsCurrent, CacheIsCurrent, OverrideIsFounded, LastIsCurrent, HoldsReading,
     Coming, Untold, Busy, Idle, Agrees
<1>. QED
  BY <1>3, <1>5

\* Past the page: what is changed is known to be untold.
LEMMA PastThePageInv ==
  ASSUME SecurityIInv, ToggleFails \/ ChangeElsewhere
  PROVE  SecurityIInv'
<1> USE DEF SecurityIInv, SecurityInv, ToggleFails, ChangeElsewhere
<1>1. feature' \in States /\ dialog' \in States \cup {"none"}
  BY OppositeState DEF SecurityTypeOK
<1>2. {again, launching, elsewhere, outdated}' \subseteq BOOLEAN
  BY Zenon DEF SecurityTypeOK
<1>3. SecurityTypeOK'
  BY <1>1, <1>2 DEF SecurityTypeOK
<1>4. /\ UNCHANGED <<tab, override, cached, readers, payloads, outdated>>
      /\ ~elsewhere' => feature' = feature /\ ~elsewhere
  OBVIOUS
<1>5. TabIsCurrent' /\ CacheIsCurrent' /\ OverrideIsFounded' /\ LastIsCurrent' /\ HoldsReading'
  BY <1>4 DEF TabIsCurrent, CacheIsCurrent, OverrideIsFounded, LastIsCurrent, HoldsReading,
     Coming, Untold, Busy, Idle, Agrees
<1>. QED
  BY <1>3, <1>5

LEMMA ShowReadingInv ==
  ASSUME SecurityIInv, ShowReading
  PROVE  SecurityIInv'
<1> USE DEF SecurityIInv, SecurityInv, ShowReading
<1>1. payloads \in Seq(Readings)
  BY DEF SecurityTypeOK
<1>2. {again, launching, elsewhere, outdated}' \subseteq BOOLEAN
  BY Zenon DEF SecurityTypeOK
<1>3. SecurityTypeOK'
  BY <1>1, <1>2, OneReadingLess DEF SecurityTypeOK
<1>4. /\ Busy' = Busy /\ Untold' = Untold /\ feature' = feature
      /\ cached' = cached /\ readers' = readers
  BY DEF Busy, Idle, Untold
<1>5. TabIsCurrent' /\ LastIsCurrent'
  BY <1>1, <1>4, OneReadingLess DEF TabIsCurrent, LastIsCurrent, Coming, Agrees
<1>6. CacheIsCurrent' /\ OverrideIsFounded' /\ HoldsReading'
  BY <1>4 DEF CacheIsCurrent, OverrideIsFounded, HoldsReading, Agrees
<1>. QED
  BY <1>3, <1>5, <1>6

\* A thread at work, not yet telling.
LEMMA ReaderWorks ==
  ASSUME SecurityIInv, NEW r \in Readers, NEW from, NEW to, NEW saw,
         Reader(r, from, to, saw), OnReader, UNCHANGED payloads,
         from # "none", to \in {"asks", "stores", "tells"},
         saw \in Readings \cup {"none"}, to # "asks" => saw \in Readings,
         ~Untold => Agrees(saw, feature),
         cached' = cached \/ (cached' = saw /\ saw # "none")
  PROVE  SecurityIInv'
<1> USE DEF SecurityIInv, SecurityInv, Reader, OnReader
<1>1. readers \in [Readers -> ReaderStates]
  BY DEF SecurityTypeOK, ReaderStates
<1>2. /\ readers' \in [Readers -> ReaderStates]
      /\ readers'[r] = [at |-> to, saw |-> saw]
      /\ \A q \in Readers \ {r} : readers'[q] = readers[q]
  BY <1>1 DEF ReaderStates
<1>3. readers[r] # NoReader /\ readers'[r] # NoReader
  <2>1. readers[r].at # "none" /\ readers'[r].at # "none" /\ NoReader.at = "none"
    BY <1>2 DEF NoReader
  <2>. QED
    BY <2>1
<1>4. r \in Busy /\ r \in Busy'
  BY <1>3 DEF Busy, Idle
<1>5. {again, launching, elsewhere, outdated}' \subseteq BOOLEAN
  BY Zenon DEF SecurityTypeOK
<1>6. SecurityTypeOK'
  BY <1>2, <1>5 DEF SecurityTypeOK, ReaderStates
<1>7. TabIsCurrent' /\ OverrideIsFounded' /\ LastIsCurrent'
  BY <1>4 DEF TabIsCurrent, OverrideIsFounded, LastIsCurrent, Coming
<1>8. CacheIsCurrent'
  <2>1. readers'[r].saw = saw
    BY <1>2
  <2>. QED
    BY <1>2, <2>1 DEF CacheIsCurrent, Untold, Agrees
<1>9. HoldsReading'
  <2>1. readers'[r].saw = saw /\ readers'[r].at = to
    BY <1>2
  <2>. QED
    BY <1>2, <2>1 DEF HoldsReading
<1>. QED
  BY <1>6, <1>7, <1>8, <1>9

LEMMA TellInv ==
  ASSUME SecurityIInv, NEW r \in Readers, Tell(r)
  PROVE  SecurityIInv'
<1> USE DEF SecurityIInv, SecurityInv, Tell, OnReader
<1>1. readers \in [Readers -> ReaderStates] /\ payloads \in Seq(Readings)
  BY DEF SecurityTypeOK, ReaderStates
<1>2. readers[r].saw \in Readings
  BY DEF HoldsReading
<1>3. /\ readers' \in [Readers -> ReaderStates] /\ readers'[r] = NoReader
      /\ \A q \in Readers \ {r} : readers'[q] = readers[q]
      /\ NoReader.saw = "none" /\ NoReader.at = "none"
  BY <1>1 DEF ReaderStates, NoReader
<1>4. /\ payloads' \in Seq(Readings) /\ payloads' # <<>>
      /\ payloads'[Len(payloads')] = readers[r].saw
  BY <1>1, <1>2, OneMoreReading
<1>5. {again, launching, elsewhere, outdated}' \subseteq BOOLEAN
  BY Zenon DEF SecurityTypeOK
<1>6. SecurityTypeOK'
  BY <1>3, <1>4, <1>5 DEF SecurityTypeOK, ReaderStates
<1>7. TabIsCurrent' /\ OverrideIsFounded'
  BY <1>4 DEF TabIsCurrent, OverrideIsFounded, Coming
<1>8. CacheIsCurrent'
  BY <1>3 DEF CacheIsCurrent, Untold, Agrees
<1>9. LastIsCurrent'
  <2>1. ~Untold => Agrees(readers[r].saw, feature)
    BY DEF CacheIsCurrent
  <2>. QED
    BY <1>4, <2>1 DEF LastIsCurrent, Untold, Agrees
<1>10. HoldsReading'
  BY <1>3 DEF HoldsReading
<1>. QED
  BY <1>6, <1>7, <1>8, <1>9, <1>10

LEMMA ReadInv ==
  ASSUME SecurityIInv, NEW r \in Readers, Read(r)
  PROVE  SecurityIInv'
<1>0. /\ cached \in Readings \cup {"none"} /\ feature \in Readings
      /\ readers[r].at = "stores" => readers[r].saw \in Readings
      /\ ~Untold => Agrees(cached, feature) /\ Agrees(readers[r].saw, feature)
  BY DEF SecurityIInv, SecurityInv, SecurityTypeOK, HoldsReading, CacheIsCurrent, Readings
<1>1. CASE LookInCache(r)
  <2>1. CASE cached # "none" /\ Reader(r, "begins", "tells", cached)
    BY <1>0, <1>1, <2>1, ReaderWorks DEF LookInCache
  <2>2. CASE Reader(r, "begins", "asks", "none")
    BY <1>1, <2>2, ReaderWorks DEF LookInCache, Agrees
  <2>3. CASE Reader(r, "begins", "tells", "unknown")
    BY <1>1, <2>3, ReaderWorks DEF LookInCache, Agrees, Readings
  <2>. QED
    BY <1>1, <2>1, <2>2, <2>3 DEF LookInCache
<1>2. CASE Query(r)
  <2>1. ASSUME NEW saw \in {feature, "unknown"}, Reader(r, "asks", "stores", saw)
        PROVE  SecurityIInv'
    BY <1>0, <1>2, <2>1, ReaderWorks DEF Query, Agrees, Readings
  <2>2. CASE Reader(r, "asks", "tells", "unknown")
    BY <1>2, <2>2, ReaderWorks DEF Query, Agrees, Readings
  <2>. QED
    BY <1>2, <2>1, <2>2 DEF Query
<1>3. CASE Store(r)
  <2>1. readers[r].saw \in Readings /\ readers[r].saw # "none"
    BY <1>0, <1>3 DEF Store, Reader, Readings, States
  <2>. QED
    BY <1>0, <1>3, <2>1, ReaderWorks DEF Store
<1>4. CASE Tell(r)
  BY <1>4, TellInv
<1>. QED
  BY <1>1, <1>2, <1>3, <1>4 DEF Read

LEMMA SecurityStepInv == SecurityIInv /\ [SecurityNext]_securityVars => SecurityIInv'
<1> SUFFICES ASSUME SecurityIInv, [SecurityNext]_securityVars PROVE SecurityIInv'
  OBVIOUS
<1>1. CASE FirstReading
  BY <1>1, FirstReadingInv
<1>2. CASE ClickSwitch \/ Dismiss
  BY <1>2, DialogInv
<1>3. CASE Toggle
  BY <1>3, ToggleInv
<1>4. CASE RefreshAgain
  BY <1>4, RefreshAgainInv
<1>5. CASE ToggleFails \/ ChangeElsewhere
  BY <1>5, PastThePageInv
<1>6. CASE ShowReading
  BY <1>6, ShowReadingInv
<1>7. ASSUME NEW r \in Readers, Read(r) PROVE SecurityIInv'
  BY <1>7, ReadInv
<1>8. CASE UNCHANGED securityVars
  BY <1>8 DEF securityVars, SecurityIInv, SecurityInv, SecurityTypeOK, TabIsCurrent,
     CacheIsCurrent, OverrideIsFounded, LastIsCurrent, HoldsReading, Coming, Untold, Busy,
     Idle, Agrees
<1>. QED
  BY <1>1, <1>2, <1>3, <1>4, <1>5, <1>6, <1>7, <1>8 DEF SecurityNext

(* With any number of readings underway: what the tab and the cache hold is  *)
(* of the machine as it is, or a reading is coming, unless the machine was   *)
(* changed past the page or a thread still held a former reading at the last *)
(* refresh; and a switch shows what was asked for only while one is coming.  *)
THEOREM SecurityInvariant == SecuritySpec => []SecurityInv
<1>1. SecurityIInv => SecurityInv
  BY DEF SecurityIInv
<1>. QED
  <2>1. SecurityInit => SecurityIInv
    <3>1. SecurityInit => SecurityRests /\ launching \in BOOLEAN
      BY Zenon DEF SecurityInit
    <3>. QED
      BY <3>1, SecurityInitInv
  <2>. QED
    BY <1>1, <2>1, SecurityStepInv, PTL DEF SecuritySpec

------------------------------------------------------------------------------
(* The chat.  A memory is whole with respect to the message whose answer is  *)
(* awaited; each way of extending one keeps it whole.                        *)

Entries == [role : {"user", "context", "reply"}, to : 1 .. MaxMessages]

\* ConversationIsWhole of any memory: w is the message whose answer is awaited,
\* 0 if none, and f those forgotten.
Gap(m, i, j) == \A k \in i + 1 .. j - 1 : m[k].role = "context"
Whole(m, w, f) ==
    /\ \A i \in DOMAIN m : m[i].role = "user" =>
          \/ \E j \in i + 1 .. Len(m) : m[j] = Entry("reply", m[i].to) /\ Gap(m, i, j)
          \/ w = m[i].to /\ Gap(m, i, Len(m) + 1)
    /\ \A j \in DOMAIN m : m[j].role = "reply" =>
          \/ m[j].to \in f
          \/ \E i \in 1 .. j - 1 : m[i] = Entry("user", m[j].to)
    /\ \A i \in 1 .. Len(m) - 1 : ~(m[i].role = "context" /\ m[i + 1].role = "context")

Awaited == IF ReplyComing THEN question ELSE 0

\* What the thread and its posts can be together.
OneRequest ==
    /\ worker = "asks" => chatPosts = <<>>
    /\ worker = "answered" => chatPosts \in {<<>>, <<"reply">>}
    /\ worker = "none" => chatPosts \in {<<>>, <<"reply", "done">>, <<"done">>}

\* The question underway is in the memory, unless that was cleared.
QuestionIsKept ==
    ReplyComing => \/ question \in forgotten
                   \/ \E i \in DOMAIN memory : memory[i] = Entry("user", question)

\* Without the event page, the page thinks while an answer is to come.
PageKeepsOff ==
    /\ settling => chat # "none"
    /\ ~fromEvents => /\ ReplyComing => thinking /\ ~settling
                      /\ settling /\ chat = "ready" => thinking

MemoryIsWhole == Whole(memory, Awaited, forgotten)

ChatIInv ==
    /\ ChatTypeOK /\ GuardIsTruthful /\ ThinkingIsFounded /\ OnlyEventsOverlap
    /\ OneRequest /\ QuestionIsKept /\ PageKeepsOff /\ MemoryIsWhole

USE ChatBounds DEF pageChatVars, workerVars, pastVars

------------------------------------------------------------------------------
(* Memories. *)

LEMMA Appended ==
  ASSUME NEW s \in Seq(Entries), NEW e \in Entries
  PROVE  /\ Append(s, e) \in Seq(Entries) /\ Len(Append(s, e)) = Len(s) + 1
         /\ Len(s) \in Nat /\ DOMAIN s = 1 .. Len(s)
         /\ DOMAIN Append(s, e) = 1 .. Len(s) + 1
         /\ \A i \in 1 .. Len(s) : Append(s, e)[i] = s[i]
         /\ Append(s, e)[Len(s) + 1] = e
OBVIOUS

LEMMA EntryIs ==
  ASSUME NEW r \in {"user", "context", "reply"}, NEW n \in 1 .. MaxMessages
  PROVE  Entry(r, n) \in Entries /\ Entry(r, n).role = r /\ Entry(r, n).to = n
BY DEF Entry, Entries

LEMMA WholeWithUser ==
  ASSUME NEW m \in Seq(Entries), NEW f, NEW n \in 1 .. MaxMessages, Whole(m, 0, f)
  PROVE  /\ Append(m, Entry("user", n)) \in Seq(Entries)
         /\ Whole(Append(m, Entry("user", n)), n, f)
         /\ \E i \in DOMAIN Append(m, Entry("user", n)) :
               Append(m, Entry("user", n))[i] = Entry("user", n)
<1> DEFINE e == Entry("user", n)
           s == Append(m, e)
<1>1. e \in Entries /\ e.role = "user" /\ e.to = n
  BY EntryIs
<1>2. /\ s \in Seq(Entries) /\ Len(s) = Len(m) + 1 /\ Len(m) \in Nat
      /\ DOMAIN m = 1 .. Len(m) /\ DOMAIN s = 1 .. Len(m) + 1
      /\ \A i \in 1 .. Len(m) : s[i] = m[i]
      /\ s[Len(m) + 1] = e
  BY <1>1, Appended
<1>3. \A i \in DOMAIN m : m[i].to # 0
  <2>1. \A i \in DOMAIN m : m[i] \in Entries
    OBVIOUS
  <2>2. \A x \in Entries : x.to \in 1 .. MaxMessages
    BY DEF Entries
  <2>. QED
    BY <2>1, <2>2
<1> HIDE DEF e, s
<1>4. ASSUME NEW i \in DOMAIN s, s[i].role = "user"
      PROVE  \/ \E j \in i + 1 .. Len(s) : s[j] = Entry("reply", s[i].to) /\ Gap(s, i, j)
             \/ n = s[i].to /\ Gap(s, i, Len(s) + 1)
  <2>1. CASE i = Len(m) + 1
    BY <2>1, <1>1, <1>2 DEF Gap
  <2>2. CASE i \in DOMAIN m
    <3>1. PICK j \in i + 1 .. Len(m) : m[j] = Entry("reply", m[i].to) /\ Gap(m, i, j)
      BY <2>2, <1>2, <1>3, <1>4 DEF Whole
    <3>2. j \in i + 1 .. Len(s) /\ s[j] = Entry("reply", s[i].to) /\ Gap(s, i, j)
      BY <3>1, <2>2, <1>2 DEF Gap
    <3>. QED
      BY <3>2
  <2>. QED
    BY <2>1, <2>2, <1>2
<1>5. ASSUME NEW j \in DOMAIN s, s[j].role = "reply"
      PROVE  s[j].to \in f \/ \E i \in 1 .. j - 1 : s[i] = Entry("user", s[j].to)
  <2>1. j \in DOMAIN m /\ s[j] = m[j]
    BY <1>1, <1>2, <1>5
  <2>2. m[j].to \in f \/ \E i \in 1 .. j - 1 : m[i] = Entry("user", m[j].to)
    BY <2>1, <1>5 DEF Whole
  <2>. QED
    BY <2>1, <2>2, <1>2
<1>6. \A i \in 1 .. Len(s) - 1 : ~(s[i].role = "context" /\ s[i + 1].role = "context")
  <2>1. \A i \in 1 .. Len(m) - 1 : ~(m[i].role = "context" /\ m[i + 1].role = "context")
    BY DEF Whole
  <2>2. ASSUME NEW i \in 1 .. Len(s) - 1
        PROVE  ~(s[i].role = "context" /\ s[i + 1].role = "context")
    <3>1. CASE i = Len(m)
      BY <3>1, <1>1, <1>2
    <3>2. CASE i # Len(m)
      <4>1. i \in 1 .. Len(m) /\ i + 1 \in 1 .. Len(m) /\ i \in 1 .. Len(m) - 1
        BY <3>2, <1>2
      <4>2. s[i] = m[i] /\ s[i + 1] = m[i + 1]
        BY <4>1, <1>2
      <4>. QED
        BY <4>1, <4>2, <2>1
    <3>. QED
      BY <3>1, <3>2
  <2>. QED
    BY <2>2
<1>7. Whole(s, n, f)
  BY <1>2, <1>4, <1>5, <1>6 DEF Whole
<1>8. Len(m) + 1 \in DOMAIN s
  BY <1>2
<1>. QED
  BY <1>2, <1>7, <1>8 DEF s, e

LEMMA WholeWithReply ==
  ASSUME NEW m \in Seq(Entries), NEW f, NEW n \in 1 .. MaxMessages, Whole(m, n, f),
         n \in f \/ \E i \in DOMAIN m : m[i] = Entry("user", n)
  PROVE  /\ Append(m, Entry("reply", n)) \in Seq(Entries)
         /\ Whole(Append(m, Entry("reply", n)), 0, f)
<1> DEFINE e == Entry("reply", n)
           s == Append(m, e)
<1>1. e \in Entries /\ e.role = "reply" /\ e.to = n
  BY EntryIs
<1>2. /\ s \in Seq(Entries) /\ Len(s) = Len(m) + 1 /\ Len(m) \in Nat
      /\ DOMAIN m = 1 .. Len(m) /\ DOMAIN s = 1 .. Len(m) + 1
      /\ \A i \in 1 .. Len(m) : s[i] = m[i]
      /\ s[Len(m) + 1] = e
  BY <1>1, Appended
<1>3. e = Entry("reply", n)
  OBVIOUS
<1> HIDE DEF e, s
<1>4. ASSUME NEW i \in DOMAIN s, s[i].role = "user"
      PROVE  \E j \in i + 1 .. Len(s) : s[j] = Entry("reply", s[i].to) /\ Gap(s, i, j)
  <2>1. i \in DOMAIN m /\ s[i] = m[i]
    BY <1>1, <1>2, <1>4
  <2>2. CASE \E j \in i + 1 .. Len(m) : m[j] = Entry("reply", m[i].to) /\ Gap(m, i, j)
    <3>1. PICK j \in i + 1 .. Len(m) : m[j] = Entry("reply", m[i].to) /\ Gap(m, i, j)
      BY <2>2
    <3>2. j \in i + 1 .. Len(s) /\ s[j] = Entry("reply", s[i].to) /\ Gap(s, i, j)
      BY <3>1, <2>1, <1>2 DEF Gap
    <3>. QED
      BY <3>2
  <2>3. CASE n = m[i].to /\ Gap(m, i, Len(m) + 1)
    <3>1. /\ Len(m) + 1 \in i + 1 .. Len(s) /\ s[Len(m) + 1] = Entry("reply", s[i].to)
          /\ Gap(s, i, Len(m) + 1)
      BY <2>1, <2>3, <1>2, <1>3 DEF Gap
    <3>. QED
      BY <3>1
  <2>. QED
    BY <2>1, <2>2, <2>3, <1>4 DEF Whole
<1>5. ASSUME NEW j \in DOMAIN s, s[j].role = "reply"
      PROVE  s[j].to \in f \/ \E i \in 1 .. j - 1 : s[i] = Entry("user", s[j].to)
  <2>1. CASE j = Len(m) + 1
    BY <2>1, <1>1, <1>2
  <2>2. CASE j \in DOMAIN m
    <3>1. m[j].to \in f \/ \E i \in 1 .. j - 1 : m[i] = Entry("user", m[j].to)
      BY <2>2, <1>2, <1>5 DEF Whole
    <3>. QED
      BY <2>2, <3>1, <1>2
  <2>. QED
    BY <2>1, <2>2, <1>2
<1>6. \A i \in 1 .. Len(s) - 1 : ~(s[i].role = "context" /\ s[i + 1].role = "context")
  <2>1. \A i \in 1 .. Len(m) - 1 : ~(m[i].role = "context" /\ m[i + 1].role = "context")
    BY DEF Whole
  <2>2. ASSUME NEW i \in 1 .. Len(s) - 1
        PROVE  ~(s[i].role = "context" /\ s[i + 1].role = "context")
    <3>1. CASE i = Len(m)
      BY <3>1, <1>1, <1>2
    <3>2. CASE i # Len(m)
      <4>1. i \in 1 .. Len(m) /\ i + 1 \in 1 .. Len(m) /\ i \in 1 .. Len(m) - 1
        BY <3>2, <1>2
      <4>2. s[i] = m[i] /\ s[i + 1] = m[i + 1]
        BY <4>1, <1>2
      <4>. QED
        BY <4>1, <4>2, <2>1
    <3>. QED
      BY <3>1, <3>2
  <2>. QED
    BY <2>2
<1>7. Whole(s, 0, f)
  BY <1>2, <1>4, <1>5, <1>6 DEF Whole
<1>. QED
  BY <1>2, <1>7 DEF s, e

\* The memory after a context for message n has come to it.
Contexted(m, n) ==
    IF m # <<>> /\ m[Len(m)].role = "context"
    THEN [m EXCEPT ![Len(m)] = Entry("context", n)]
    ELSE Append(m, Entry("context", n))

LEMMA WholeWithContext ==
  ASSUME NEW m \in Seq(Entries), NEW f, NEW w, NEW n \in 1 .. MaxMessages, Whole(m, w, f)
  PROVE  /\ Contexted(m, n) \in Seq(Entries)
         /\ Whole(Contexted(m, n), w, f)
         /\ \A k \in 1 .. MaxMessages :
              (\E i \in DOMAIN m : m[i] = Entry("user", k)) =>
                 \E i \in DOMAIN Contexted(m, n) : Contexted(m, n)[i] = Entry("user", k)
<1> DEFINE e == Entry("context", n)
<1>0. e \in Entries /\ e.role = "context"
  BY EntryIs
<1>a. DOMAIN m = 1 .. Len(m) /\ Len(m) \in Nat
  OBVIOUS
<1>1. CASE m # <<>> /\ m[Len(m)].role = "context"
  <2> DEFINE s == [m EXCEPT ![Len(m)] = e]
  <2>0. Len(m) \in 1 .. Len(m)
    <3>1. Len(m) # 0
      BY <1>1
    <3>. QED
      BY <3>1, <1>a
  <2>1. /\ s \in Seq(Entries) /\ Len(s) = Len(m) /\ DOMAIN s = DOMAIN m
        /\ Len(m) \in 1 .. Len(m) /\ s[Len(m)] = e
        /\ \A i \in 1 .. Len(m) - 1 : s[i] = m[i]
    <3>1. s[Len(m)] = e /\ \A i \in 1 .. Len(m) - 1 : s[i] = m[i]
      BY <2>0, <1>a
    <3>2. s \in [1 .. Len(m) -> Entries] /\ DOMAIN s = DOMAIN m
      <4>1. m \in [1 .. Len(m) -> Entries]
        OBVIOUS
      <4>. QED
        BY <4>1, <1>0, <1>a
    <3>3. s \in Seq(Entries) /\ Len(s) = Len(m)
      BY <3>2, <1>a
    <3>. QED
      BY <2>0, <3>1, <3>2, <3>3
  <2>2. Contexted(m, n) = s
    BY <1>1 DEF Contexted
  <2> HIDE DEF s, e
  <2>3. \A i \in DOMAIN m : m[i].role # "context" => s[i] = m[i] /\ i # Len(m)
    BY <1>1, <1>a, <2>1
  <2>4. \A i \in DOMAIN m : s[i].role # "context" => s[i] = m[i] /\ i # Len(m)
    BY <1>0, <1>a, <2>1
  <2>5. \A i \in DOMAIN m : m[i].role = "context" <=> s[i].role = "context"
    BY <1>0, <1>1, <1>a, <2>1
  <2>6. \A i \in DOMAIN m, j \in 1 .. Len(m) + 1 : Gap(m, i, j) => Gap(s, i, j)
    BY <1>a, <2>5 DEF Gap
  <2>7. ASSUME NEW i \in DOMAIN s, s[i].role = "user"
        PROVE  \/ \E j \in i + 1 .. Len(s) : s[j] = Entry("reply", s[i].to) /\ Gap(s, i, j)
               \/ w = s[i].to /\ Gap(s, i, Len(s) + 1)
    <3>1. i \in DOMAIN m /\ s[i] = m[i]
      BY <2>1, <2>4, <2>7
    <3>2. CASE \E j \in i + 1 .. Len(m) : m[j] = Entry("reply", m[i].to) /\ Gap(m, i, j)
      <4>1. PICK j \in i + 1 .. Len(m) : m[j] = Entry("reply", m[i].to) /\ Gap(m, i, j)
        BY <3>2
      <4>2. j \in DOMAIN m /\ m[j].role = "reply"
        BY <4>1, <3>1, <1>a DEF Entry
      <4>3. s[j] = Entry("reply", s[i].to) /\ Gap(s, i, j) /\ j \in i + 1 .. Len(s)
        BY <4>1, <4>2, <3>1, <2>1, <2>3, <2>6, <1>a
      <4>. QED
        BY <4>3
    <3>3. CASE w = m[i].to /\ Gap(m, i, Len(m) + 1)
      BY <3>1, <3>3, <2>1, <2>6, <1>a
    <3>. QED
      BY <3>1, <3>2, <3>3, <2>7 DEF Whole
  <2>8. ASSUME NEW j \in DOMAIN s, s[j].role = "reply"
        PROVE  s[j].to \in f \/ \E i \in 1 .. j - 1 : s[i] = Entry("user", s[j].to)
    <3>1. j \in DOMAIN m /\ s[j] = m[j]
      BY <2>1, <2>4, <2>8
    <3>2. CASE \E i \in 1 .. j - 1 : m[i] = Entry("user", m[j].to)
      <4>1. PICK i \in 1 .. j - 1 : m[i] = Entry("user", m[j].to)
        BY <3>2
      <4>2. i \in 1 .. Len(m) - 1
        BY <3>1, <1>a
      <4>. QED
        BY <4>1, <4>2, <3>1, <2>1
    <3>. QED
      BY <3>1, <3>2, <2>8 DEF Whole
  <2>9. \A i \in 1 .. Len(s) - 1 : ~(s[i].role = "context" /\ s[i + 1].role = "context")
    BY <2>1, <2>5, <1>a DEF Whole
  <2>10. ASSUME NEW k \in 1 .. MaxMessages, NEW i \in DOMAIN m, m[i] = Entry("user", k)
         PROVE  s[i] = Entry("user", k) /\ i \in DOMAIN s
    BY <2>1, <2>3, <2>10 DEF Entry
  <2>11. Whole(s, w, f)
    BY <2>1, <2>7, <2>8, <2>9 DEF Whole
  <2>. QED
    BY <2>1, <2>2, <2>10, <2>11
<1>2. CASE ~(m # <<>> /\ m[Len(m)].role = "context")
  <2> DEFINE s == Append(m, e)
  <2>1. /\ s \in Seq(Entries) /\ Len(s) = Len(m) + 1 /\ DOMAIN s = 1 .. Len(m) + 1
        /\ \A i \in 1 .. Len(m) : s[i] = m[i]
        /\ s[Len(m) + 1] = e
    BY <1>0, Appended
  <2>2. Contexted(m, n) = s
    BY <1>2 DEF Contexted
  <2>b. Len(m) # 0 => m[Len(m)].role # "context"
    BY <1>2
  <2> HIDE DEF s, e
  <2>3. ASSUME NEW i \in DOMAIN s, s[i].role = "user"
        PROVE  \/ \E j \in i + 1 .. Len(s) : s[j] = Entry("reply", s[i].to) /\ Gap(s, i, j)
               \/ w = s[i].to /\ Gap(s, i, Len(s) + 1)
    <3>1. i \in DOMAIN m /\ s[i] = m[i]
      BY <1>0, <1>a, <2>1, <2>3
    <3>2. CASE \E j \in i + 1 .. Len(m) : m[j] = Entry("reply", m[i].to) /\ Gap(m, i, j)
      <4>1. PICK j \in i + 1 .. Len(m) : m[j] = Entry("reply", m[i].to) /\ Gap(m, i, j)
        BY <3>2
      <4>2. j \in i + 1 .. Len(s) /\ s[j] = Entry("reply", s[i].to) /\ Gap(s, i, j)
        BY <4>1, <3>1, <2>1, <1>a DEF Gap
      <4>. QED
        BY <4>2
    <3>3. CASE w = m[i].to /\ Gap(m, i, Len(m) + 1)
      BY <3>1, <3>3, <2>1, <1>0, <1>a DEF Gap
    <3>. QED
      BY <3>1, <3>2, <3>3, <2>3 DEF Whole
  <2>4. ASSUME NEW j \in DOMAIN s, s[j].role = "reply"
        PROVE  s[j].to \in f \/ \E i \in 1 .. j - 1 : s[i] = Entry("user", s[j].to)
    <3>1. j \in DOMAIN m /\ s[j] = m[j]
      BY <1>0, <1>a, <2>1, <2>4
    <3>2. m[j].to \in f \/ \E i \in 1 .. j - 1 : m[i] = Entry("user", m[j].to)
      BY <3>1, <2>4 DEF Whole
    <3>. QED
      BY <3>1, <3>2, <2>1, <1>a
  <2>5. \A i \in 1 .. Len(s) - 1 : ~(s[i].role = "context" /\ s[i + 1].role = "context")
    BY <2>1, <2>b, <1>a DEF Whole
  <2>6. ASSUME NEW k \in 1 .. MaxMessages, NEW i \in DOMAIN m, m[i] = Entry("user", k)
        PROVE  s[i] = Entry("user", k) /\ i \in DOMAIN s
    BY <2>1, <2>6, <1>a
  <2>7. Whole(s, w, f)
    BY <2>1, <2>3, <2>4, <2>5 DEF Whole
  <2>. QED
    BY <2>1, <2>2, <2>6, <2>7
<1>. QED
  BY <1>1, <1>2

------------------------------------------------------------------------------
(* Steps. *)

Posts == Seq({"reply", "done"})

LEMMA PostsAre ==
  /\ <<>> \in Posts /\ <<"reply">> \in Posts /\ <<"done">> \in Posts
  /\ <<"reply", "done">> \in Posts
  /\ Append(<<>>, "reply") = <<"reply">> /\ Append(<<>>, "done") = <<"done">>
  /\ Append(<<"reply">>, "done") = <<"reply", "done">>
  /\ Head(<<"reply">>) = "reply" /\ Tail(<<"reply">>) = <<>>
  /\ Head(<<"done">>) = "done" /\ Tail(<<"done">>) = <<>>
  /\ Head(<<"reply", "done">>) = "reply" /\ Tail(<<"reply", "done">>) = <<"done">>
<1>1. <<>> \in Posts /\ <<"reply">> \in Posts /\ <<"done">> \in Posts
  BY DEF Posts
<1>2. <<"reply", "done">> \in Posts
  BY DEF Posts
<1>3. ASSUME NEW a \in {"reply", "done"}
      PROVE  Append(<<>>, a) = <<a>> /\ Head(<<a>>) = a /\ Tail(<<a>>) = <<>>
  <2>1. <<>> \in Posts /\ <<a>> \in Posts /\ Len(<<a>>) = 1 /\ <<a>>[1] = a
    BY DEF Posts
  <2>2. Append(<<>>, a) = <<a>>
    OBVIOUS
  <2>3. Head(<<a>>) = a
    BY <2>1
  <2>4. Tail(<<a>>) = <<>>
    BY <2>1 DEF Posts
  <2>. QED
    BY <2>2, <2>3, <2>4
<1>4. ASSUME NEW a \in {"reply", "done"}, NEW b \in {"reply", "done"}
      PROVE  /\ Append(<<a>>, b) = <<a, b>>
             /\ Head(<<a, b>>) = a /\ Tail(<<a, b>>) = <<b>>
  <2>1. /\ <<a, b>> \in Posts /\ Len(<<a, b>>) = 2 /\ <<a, b>>[1] = a /\ <<a, b>>[2] = b
    BY DEF Posts
  <2>2. Append(<<a>>, b) = <<a, b>>
    <3>1. ASSUME NEW s \in Posts, Len(s) = 2, s[1] = a, s[2] = b PROVE s = <<a, b>>
      BY <2>1, <3>1 DEF Posts
    <3>2. <<a>> \in Posts /\ Len(<<a>>) = 1 /\ <<a>>[1] = a
      BY DEF Posts
    <3>3. /\ Append(<<a>>, b) \in Posts /\ Len(Append(<<a>>, b)) = 2
          /\ Append(<<a>>, b)[1] = a /\ Append(<<a>>, b)[2] = b
      BY <3>2 DEF Posts
    <3>. QED
      BY <3>1, <3>3
  <2>3. Head(<<a, b>>) = a
    BY <2>1
  <2>4. Tail(<<a, b>>) = <<b>>
    BY <2>1 DEF Posts
  <2>. QED
    BY <2>2, <2>3, <2>4
<1>. QED
  BY <1>1, <1>2, <1>3, <1>4, Zenon

LEMMA RepliesAre ==
  /\ ~\E i \in DOMAIN <<>> : <<>>[i] = "reply"
  /\ \E i \in DOMAIN <<"reply">> : <<"reply">>[i] = "reply"
  /\ \E i \in DOMAIN <<"reply", "done">> : <<"reply", "done">>[i] = "reply"
  /\ ~\E i \in DOMAIN <<"done">> : <<"done">>[i] = "reply"
<1>1. 1 \in DOMAIN <<"reply">> /\ <<"reply">>[1] = "reply"
  OBVIOUS
<1>2. 1 \in DOMAIN <<"reply", "done">> /\ <<"reply", "done">>[1] = "reply"
  OBVIOUS
<1>. QED
  BY <1>1, <1>2

LEMMA Distinct ==
  /\ <<>> # <<"reply">> /\ <<>> # <<"done">> /\ <<>> # <<"reply", "done">>
OBVIOUS

LEMMA ChatInitInv == ChatInit => ChatIInv
<1> SUFFICES ASSUME ChatInit PROVE ChatIInv
  OBVIOUS
<1> USE DEF ChatInit
<1>1. {thinking, settling, key, guard, late, fromEvents} \subseteq BOOLEAN
  BY Zenon
<1>2. ChatTypeOK
  BY <1>1, PostsAre DEF ChatTypeOK, Posts
<1>3. ~ReplyComing
  BY RepliesAre DEF ReplyComing
<1>4. GuardIsTruthful /\ ThinkingIsFounded /\ OnlyEventsOverlap /\ OneRequest
  BY DEF GuardIsTruthful, ThinkingIsFounded, OnlyEventsOverlap, OneRequest
<1>5. QuestionIsKept /\ PageKeepsOff
  BY <1>3 DEF QuestionIsKept, PageKeepsOff
<1>6. MemoryIsWhole
  <2>1. memory = <<>> /\ DOMAIN memory = {} /\ Len(memory) = 0
    OBVIOUS
  <2>. QED
    BY <2>1 DEF MemoryIsWhole, Whole
<1>. QED
  BY <1>2, <1>4, <1>5, <1>6 DEF ChatIInv

\* The part of the invariant that a message sent by either page keeps, and what
\* it does to the rest.
LEMMA SendKeeps ==
  ASSUME ChatIInv, NEW before \in Seq(Entries), Whole(before, Awaited, forgotten),
         \A k \in 1 .. MaxMessages :
            (\E i \in DOMAIN memory : memory[i] = Entry("user", k)) =>
               \E i \in DOMAIN before : before[i] = Entry("user", k),
         SendMessage(before)
  PROVE  /\ GuardIsTruthful' /\ OneRequest' /\ QuestionIsKept' /\ MemoryIsWhole'
         /\ memory' \in Seq(Entries) /\ chat' = Ensured /\ chat' \in {"ready", "refused"}
         /\ guard' \in BOOLEAN /\ settling' \in BOOLEAN
         /\ worker' \in {"none", "asks", "answered"} /\ chatPosts' = chatPosts
         /\ question' \in 0 .. MaxMessages /\ sent' \in 1 .. MaxMessages
         /\ forgotten' = forgotten /\ key' = key
         /\ ReplyComing' <=> ReplyComing \/ (chat' = "ready" /\ ~guard)
         /\ IF chat' = "ready" /\ guard /\ ReplyComing
            THEN ignored' = ignored \cup {sent'} ELSE ignored' = ignored
         /\ IF chat' = "refused" THEN settling' = TRUE /\ ~ReplyComing
            ELSE settling' = settling
<1> USE DEF ChatIInv
<1>1. /\ sent' \in 1 .. MaxMessages /\ chat' = Ensured
      /\ forgotten' = forgotten /\ key' = key /\ chatPosts' = chatPosts
  BY DEF SendMessage, ChatTypeOK
<1>2. Ensured \in {"ready", "refused"}
  BY DEF Ensured, ChatTypeOK
<1>3. chat = "ready" => Ensured = "ready"
  BY DEF Ensured
<1>4. guard \in BOOLEAN /\ settling \in BOOLEAN
  BY Zenon DEF ChatTypeOK
<1>5. /\ worker \in {"none", "asks", "answered"} /\ question \in 0 .. MaxMessages
  BY DEF ChatTypeOK
<1>6. ~guard => /\ worker = "none" /\ chatPosts = <<>> /\ question = 0 /\ ~ReplyComing
  <2>1. ~guard => worker = "none" /\ chatPosts = <<>> /\ question = 0
    BY DEF GuardIsTruthful
  <2>. QED
    BY <2>1, RepliesAre DEF ReplyComing
<1>7. CASE Ensured = "refused"
  <2>1. /\ memory' = before /\ settling' = TRUE
        /\ UNCHANGED <<guard, worker, question, ignored>>
    BY <1>7 DEF SendMessage
  <2>2. ~guard
    BY <1>3, <1>7 DEF GuardIsTruthful
  <2>3. ReplyComing' = ReplyComing /\ ~ReplyComing' /\ Awaited = 0 /\ Awaited' = 0
    BY <1>1, <1>6, <2>1, <2>2 DEF ReplyComing, Awaited
  <2>4. GuardIsTruthful' /\ OneRequest' /\ QuestionIsKept'
    BY <1>1, <1>6, <2>1, <2>2, <2>3 DEF GuardIsTruthful, OneRequest, QuestionIsKept
  <2>5. MemoryIsWhole'
    BY <1>1, <2>1, <2>3 DEF MemoryIsWhole
  <2>. QED
    BY <1>1, <1>4, <1>5, <1>6, <1>7, <2>1, <2>2, <2>3, <2>4, <2>5
<1>8. CASE Ensured = "ready" /\ guard
  <2>1. /\ memory' = before
        /\ UNCHANGED <<settling, guard, worker, question>>
        /\ IF ReplyComing THEN ignored' = ignored \cup {sent'} ELSE ignored' = ignored
    BY <1>8 DEF SendMessage
  <2>2. (ReplyComing' <=> ReplyComing) /\ Awaited' = Awaited
    BY <1>1, <2>1 DEF ReplyComing, Awaited
  <2>3. GuardIsTruthful' /\ OneRequest'
    BY <1>1, <1>8, <2>1 DEF GuardIsTruthful, OneRequest
  <2>4. QuestionIsKept'
    <3>1. ReplyComing => question # 0 /\ question \in 1 .. MaxMessages
      BY <1>5, <1>8 DEF GuardIsTruthful
    <3>. QED
      BY <3>1, <1>1, <2>1, <2>2 DEF QuestionIsKept
  <2>5. MemoryIsWhole'
    BY <1>1, <2>1, <2>2 DEF MemoryIsWhole
  <2>. QED
    BY <1>1, <1>4, <1>5, <1>8, <2>1, <2>2, <2>3, <2>4, <2>5
<1>9. CASE Ensured = "ready" /\ ~guard
  <2>1. /\ guard' = TRUE /\ memory' = Append(before, Entry("user", sent'))
        /\ worker' = "asks" /\ question' = sent' /\ UNCHANGED <<settling, ignored>>
    BY <1>9 DEF SendMessage
  <2>2. ~ReplyComing /\ Awaited = 0 /\ ReplyComing' /\ Awaited' = sent'
    BY <1>6, <1>9, <2>1 DEF ReplyComing, Awaited
  <2>3. GuardIsTruthful' /\ OneRequest'
    BY <1>1, <1>6, <1>9, <2>1 DEF GuardIsTruthful, OneRequest
  <2>4. /\ memory' \in Seq(Entries) /\ Whole(memory', sent', forgotten)
        /\ \E i \in DOMAIN memory' : memory'[i] = Entry("user", sent')
    BY <1>1, <2>1, <2>2, WholeWithUser
  <2>5. QuestionIsKept' /\ MemoryIsWhole'
    BY <1>1, <2>1, <2>2, <2>4 DEF QuestionIsKept, MemoryIsWhole
  <2>. QED
    BY <1>1, <1>4, <1>9, <2>1, <2>2, <2>3, <2>4, <2>5
<1>. QED
  BY <1>2, <1>4, <1>7, <1>8, <1>9

LEMMA ClickSendInv ==
  ASSUME ChatIInv, ClickSend \/ ClickExplainEvents
  PROVE  ChatIInv'
<1> USE DEF ChatIInv
<1>1. memory \in Seq(Entries) /\ Whole(memory, Awaited, forgotten) /\ SendMessage(memory)
  BY DEF ChatTypeOK, Entries, MemoryIsWhole, ClickSend, ClickExplainEvents
<1>2. /\ ~thinking /\ UNCHANGED fromEvents
      /\ thinking' = TRUE \/ thinking' = (Ensured # "refused")
      /\ late' = (Ensured = "ready" /\ guard /\ ~ReplyComing)
  BY DEF ClickSend, ClickExplainEvents, ComesLate
<1>3. thinking' \in BOOLEAN /\ late' \in BOOLEAN
  BY <1>2, Zenon
<1>4. /\ key \in BOOLEAN /\ fromEvents \in BOOLEAN
  BY Zenon DEF ChatTypeOK
<1>5. {thinking, settling, key, guard, late, fromEvents}' \subseteq BOOLEAN
  BY <1>1, <1>2, <1>3, <1>4, SendKeeps
<1>6. ChatTypeOK'
  <2>1. /\ ignored' \subseteq 1 .. MaxMessages /\ forgotten' \subseteq 1 .. MaxMessages
        /\ chatPosts' \in Seq({"reply", "done"})
    BY <1>1, SendKeeps DEF ChatTypeOK
  <2>2. /\ chat' \in {"ready", "refused"} /\ worker' \in {"none", "asks", "answered"}
        /\ memory' \in Seq(Entries) /\ question' \in 0 .. MaxMessages
        /\ sent' \in 1 .. MaxMessages
    BY <1>1, SendKeeps
  <2>. QED
    BY <1>5, <2>1, <2>2 DEF ChatTypeOK, Entries
<1>7. Ensured = "ready" => thinking' = TRUE
  BY <1>2, Zenon
<1>8. Ensured = "ready" /\ guard /\ ~ReplyComing => late'
  BY <1>2, Zenon
<1>9. chat' = Ensured /\ chat' \in {"ready", "refused"}
  BY <1>1, SendKeeps
<1>10. ThinkingIsFounded'
  <2>1. chat' = "refused" => settling'
    BY <1>1, SendKeeps
  <2>2. ReplyComing' <=> ReplyComing \/ (chat' = "ready" /\ ~guard)
    BY <1>1, SendKeeps
  <2>. QED
    BY <1>8, <1>9, <2>1, <2>2 DEF ThinkingIsFounded
<1>11. OnlyEventsOverlap'
  <2>1. ~fromEvents => ~ReplyComing
    BY <1>2 DEF PageKeepsOff
  <2>2. ~fromEvents => ignored' = ignored
    BY <2>1, <1>1, SendKeeps
  <2>. QED
    BY <2>2, <1>2 DEF OnlyEventsOverlap
<1>12. PageKeepsOff'
  <2>1. CASE chat' = "refused"
    <3>1. ~ReplyComing'
      BY <2>1, <1>1, SendKeeps
    <3>. QED
      BY <2>1, <3>1 DEF PageKeepsOff
  <2>2. CASE chat' = "ready"
    <3>1. settling' = settling /\ thinking' = TRUE
      BY <2>2, <1>1, <1>7, <1>9, SendKeeps
    <3>2. settling /\ ~fromEvents => chat = "ready"
      BY <1>9, <2>2 DEF PageKeepsOff, Ensured, ChatTypeOK
    <3>3. ~fromEvents => ~settling
      BY <1>2, <3>2 DEF PageKeepsOff
    <3>. QED
      BY <1>2, <2>2, <3>1, <3>3 DEF PageKeepsOff
  <2>. QED
    BY <1>9, <2>1, <2>2
<1>. QED
  BY <1>1, <1>6, <1>10, <1>11, <1>12, SendKeeps

LEMMA AskInv ==
  ASSUME ChatIInv, AskAboutEvent
  PROVE  ChatIInv'
<1> USE DEF ChatIInv
<1> DEFINE before == IF chat = "ready" THEN WithContext(sent + 1) ELSE memory
<1>1. memory \in Seq(Entries) /\ Whole(memory, Awaited, forgotten) /\ SendMessage(before)
  BY DEF ChatTypeOK, Entries, MemoryIsWhole, AskAboutEvent
<1>2. sent + 1 \in 1 .. MaxMessages
  BY <1>1 DEF ChatTypeOK, SendMessage
<1>3. before = IF chat = "ready" THEN Contexted(memory, sent + 1) ELSE memory
  BY DEF Contexted, WithContext
<1>4. /\ before \in Seq(Entries) /\ Whole(before, Awaited, forgotten)
      /\ \A k \in 1 .. MaxMessages :
            (\E i \in DOMAIN memory : memory[i] = Entry("user", k)) =>
               \E i \in DOMAIN before : before[i] = Entry("user", k)
  <2> HIDE DEF before
  <2>1. CASE chat = "ready"
    BY <2>1, <1>1, <1>2, <1>3, WholeWithContext
  <2>2. CASE chat # "ready"
    BY <2>2, <1>1, <1>3
  <2>. QED
    BY <2>1, <2>2
<1> HIDE DEF before
<1>5. /\ GuardIsTruthful' /\ OneRequest' /\ QuestionIsKept' /\ MemoryIsWhole'
      /\ memory' \in Seq(Entries) /\ chat' \in {"ready", "refused"}
      /\ guard' \in BOOLEAN /\ settling' \in BOOLEAN
      /\ worker' \in {"none", "asks", "answered"} /\ chatPosts' = chatPosts
      /\ question' \in 0 .. MaxMessages /\ sent' \in 1 .. MaxMessages
      /\ forgotten' = forgotten /\ key' = key
      /\ ignored' = ignored \/ ignored' = ignored \cup {sent'}
      /\ ReplyComing => ReplyComing'
      /\ settling => settling'
  BY <1>1, <1>4, SendKeeps
<1>6. fromEvents' = TRUE /\ UNCHANGED <<thinking, late>>
  BY DEF AskAboutEvent
<1>7. /\ thinking \in BOOLEAN /\ key \in BOOLEAN /\ late \in BOOLEAN
  BY Zenon DEF ChatTypeOK
<1>8. {thinking, settling, key, guard, late, fromEvents}' \subseteq BOOLEAN
  BY <1>5, <1>6, <1>7
<1>9. ChatTypeOK'
  <2>1. /\ ignored' \subseteq 1 .. MaxMessages /\ forgotten' \subseteq 1 .. MaxMessages
        /\ chatPosts' \in Seq({"reply", "done"})
    BY <1>5 DEF ChatTypeOK
  <2>. QED
    BY <1>5, <1>8, <2>1 DEF ChatTypeOK, Entries
<1>10. ThinkingIsFounded' /\ OnlyEventsOverlap' /\ PageKeepsOff'
  BY <1>5, <1>6 DEF ThinkingIsFounded, OnlyEventsOverlap, PageKeepsOff
<1>. QED
  BY <1>5, <1>9, <1>10

\* Steps that leave the memory, the thread and its posts alone.
LEMMA ElsewhereInv ==
  ASSUME ChatIInv, ChangeKey \/ Settle
  PROVE  ChatIInv'
<1> USE DEF ChatIInv, ChangeKey, Settle
<1>1. /\ UNCHANGED <<chat, memory, guard, worker, question, chatPosts, sent, forgotten,
                      ignored, late, fromEvents>>
  OBVIOUS
<1>2. {thinking, settling, key, guard, late, fromEvents}' \subseteq BOOLEAN
  BY Zenon DEF ChatTypeOK
<1>3. ChatTypeOK'
  BY <1>1, <1>2 DEF ChatTypeOK
<1>4. (ReplyComing' <=> ReplyComing) /\ Awaited' = Awaited
  BY <1>1 DEF ReplyComing, Awaited
<1>5. GuardIsTruthful' /\ OneRequest' /\ OnlyEventsOverlap' /\ QuestionIsKept'
  BY <1>1, <1>4 DEF GuardIsTruthful, OneRequest, OnlyEventsOverlap, QuestionIsKept
<1>6. MemoryIsWhole'
  BY <1>1, <1>4 DEF MemoryIsWhole
<1>7. ThinkingIsFounded' /\ PageKeepsOff'
  BY <1>1, <1>4 DEF ThinkingIsFounded, PageKeepsOff
<1>. QED
  BY <1>3, <1>5, <1>6, <1>7

LEMMA ClearInv ==
  ASSUME ChatIInv, ClearChat
  PROVE  ChatIInv'
<1> USE DEF ChatIInv, ClearChat
<1>1. /\ UNCHANGED <<thinking, settling, key, chat, guard, worker, question, chatPosts, sent,
                      ignored, late, fromEvents>>
      /\ memory' = <<>>
  OBVIOUS
<1>2. {thinking, settling, key, guard, late, fromEvents}' \subseteq BOOLEAN
  BY <1>1, Zenon DEF ChatTypeOK
<1>3. ReplyComing => question \in 1 .. MaxMessages
  BY RepliesAre DEF ReplyComing, GuardIsTruthful, ChatTypeOK
<1>4. /\ forgotten' \subseteq 1 .. MaxMessages
      /\ ReplyComing => question \in forgotten'
  BY <1>3 DEF ChatTypeOK
<1>5. ChatTypeOK'
  BY <1>1, <1>2, <1>4 DEF ChatTypeOK
<1>6. (ReplyComing' <=> ReplyComing) /\ Awaited' = Awaited
  BY <1>1 DEF ReplyComing, Awaited
<1>7. GuardIsTruthful' /\ OneRequest' /\ OnlyEventsOverlap' /\ QuestionIsKept'
  BY <1>1, <1>4, <1>6 DEF GuardIsTruthful, OneRequest, OnlyEventsOverlap, QuestionIsKept
<1>8. MemoryIsWhole'
  <2>1. DOMAIN memory' = {} /\ Len(memory') = 0
    BY <1>1
  <2>. QED
    BY <2>1 DEF MemoryIsWhole, Whole
<1>9. ThinkingIsFounded' /\ PageKeepsOff'
  BY <1>1, <1>6 DEF ThinkingIsFounded, PageKeepsOff
<1>. QED
  BY <1>5, <1>7, <1>8, <1>9

LEMMA RunInv ==
  ASSUME ChatIInv, RunWorker
  PROVE  ChatIInv'
<1> USE DEF ChatIInv, RunWorker
<1>1. /\ UNCHANGED <<thinking, settling, key, chat, memory, guard, question, sent, forgotten,
                      ignored, late, fromEvents>>
  OBVIOUS
<1>2. {thinking, settling, key, guard, late, fromEvents}' \subseteq BOOLEAN
  BY <1>1, Zenon DEF ChatTypeOK
<1>3. /\ worker' \in {"none", "answered"} /\ chatPosts' \in Posts /\ chatPosts' # <<>>
      /\ OneRequest' /\ (ReplyComing' <=> ReplyComing) /\ guard
  <2>1. CASE worker = "asks"
    <3>1. chatPosts = <<>> /\ worker' = "answered" /\ chatPosts' = <<"reply">>
      BY <2>1, PostsAre DEF OneRequest
    <3>. QED
      BY <2>1, <3>1, PostsAre, RepliesAre DEF OneRequest, ReplyComing, GuardIsTruthful
  <2>2. CASE worker = "answered" /\ chatPosts = <<>>
    <3>1. worker' = "none" /\ chatPosts' = <<"done">>
      BY <2>2, PostsAre
    <3>. QED
      BY <2>2, <3>1, PostsAre, RepliesAre DEF OneRequest, ReplyComing, GuardIsTruthful
  <2>3. CASE worker = "answered" /\ chatPosts = <<"reply">>
    <3>1. worker' = "none" /\ chatPosts' = <<"reply", "done">>
      BY <2>3, PostsAre
    <3>. QED
      BY <2>3, <3>1, PostsAre, RepliesAre DEF OneRequest, ReplyComing, GuardIsTruthful
  <2>. QED
    BY <2>1, <2>2, <2>3 DEF OneRequest
<1>4. ChatTypeOK'
  BY <1>1, <1>2, <1>3 DEF ChatTypeOK, Posts
<1>5. Awaited' = Awaited
  BY <1>1, <1>3 DEF Awaited
<1>6. GuardIsTruthful' /\ OnlyEventsOverlap' /\ QuestionIsKept'
  BY <1>1, <1>3 DEF GuardIsTruthful, OnlyEventsOverlap, QuestionIsKept
<1>7. MemoryIsWhole'
  BY <1>1, <1>5 DEF MemoryIsWhole
<1>8. ThinkingIsFounded' /\ PageKeepsOff'
  BY <1>1, <1>3 DEF ThinkingIsFounded, PageKeepsOff
<1>. QED
  BY <1>3, <1>4, <1>6, <1>7, <1>8

LEMMA ReplyInv ==
  ASSUME ChatIInv, ShowReply
  PROVE  ChatIInv'
<1> USE DEF ChatIInv, ShowReply
<1>1. /\ UNCHANGED <<thinking, key, chat, guard, worker, question, sent, forgotten,
                      ignored, late, fromEvents>>
      /\ settling' = TRUE /\ memory' = Append(memory, Entry("reply", question))
      /\ memory \in Seq(Entries)
  BY DEF ChatTypeOK, Entries
<1>2. {thinking, settling, key, guard, late, fromEvents}' \subseteq BOOLEAN
  BY Zenon DEF ChatTypeOK
<1>3. chatPosts = <<"reply">> \/ chatPosts = <<"reply", "done">>
  BY PostsAre DEF OneRequest, ChatTypeOK
<1>4. /\ worker # "asks" /\ chatPosts' \in Posts /\ OneRequest' /\ ReplyComing /\ ~ReplyComing'
      /\ worker = "none" => chatPosts' # <<>>
  <2>1. CASE chatPosts = <<"reply">>
    <3>1. chatPosts' = <<>> /\ worker = "answered"
      BY <2>1, PostsAre, Distinct DEF OneRequest, ChatTypeOK
    <3>. QED
      BY <1>1, <2>1, <3>1, PostsAre, RepliesAre DEF OneRequest, ReplyComing
  <2>2. CASE chatPosts = <<"reply", "done">>
    <3>1. chatPosts' = <<"done">> /\ worker = "none"
      BY <2>2, PostsAre, Distinct DEF OneRequest, ChatTypeOK
    <3>. QED
      BY <1>1, <2>2, <3>1, PostsAre, RepliesAre DEF OneRequest, ReplyComing
  <2>. QED
    BY <1>3, <2>1, <2>2
<1>5. guard /\ question \in 1 .. MaxMessages /\ chat = "ready"
  BY <1>3, Distinct DEF GuardIsTruthful, ChatTypeOK
<1>6. Awaited = question /\ Awaited' = 0
  BY <1>4 DEF Awaited
<1>7. memory' \in Seq(Entries) /\ Whole(memory', 0, forgotten)
  <2>1. Whole(memory, question, forgotten)
    BY <1>6 DEF MemoryIsWhole
  <2>2. question \in forgotten \/ \E i \in DOMAIN memory : memory[i] = Entry("user", question)
    BY <1>4 DEF QuestionIsKept
  <2>. QED
    BY <1>1, <1>5, <2>1, <2>2, WholeWithReply
<1>8. MemoryIsWhole'
  BY <1>1, <1>6, <1>7 DEF MemoryIsWhole
<1>9. ChatTypeOK'
  BY <1>1, <1>2, <1>4, <1>7 DEF ChatTypeOK, Posts, Entries
<1>10. GuardIsTruthful' /\ OnlyEventsOverlap' /\ QuestionIsKept'
  BY <1>1, <1>4, <1>5 DEF GuardIsTruthful, OnlyEventsOverlap, QuestionIsKept, ChatTypeOK
<1>11. ThinkingIsFounded' /\ PageKeepsOff'
  BY <1>1, <1>4, <1>5 DEF ThinkingIsFounded, PageKeepsOff
<1>. QED
  BY <1>4, <1>8, <1>9, <1>10, <1>11

LEMMA DoneInv ==
  ASSUME ChatIInv, WorkerDone
  PROVE  ChatIInv'
<1> USE DEF ChatIInv, WorkerDone
<1>1. /\ UNCHANGED <<thinking, settling, key, chat, memory, worker, sent, forgotten,
                      ignored, late, fromEvents>>
      /\ guard' = FALSE /\ question' = 0
  OBVIOUS
<1>2. {thinking, settling, key, guard, late, fromEvents}' \subseteq BOOLEAN
  BY Zenon DEF ChatTypeOK
<1>3. chatPosts = <<"done">>
  BY PostsAre DEF OneRequest, ChatTypeOK
<1>4. worker = "none" /\ chatPosts' = <<>>
  BY <1>3, PostsAre, Distinct DEF OneRequest, ChatTypeOK
<1>5. ~ReplyComing /\ ~ReplyComing' /\ Awaited = 0 /\ Awaited' = 0
  BY <1>1, <1>3, <1>4, RepliesAre DEF ReplyComing, Awaited
<1>6. ChatTypeOK'
  BY <1>1, <1>2, <1>4, PostsAre DEF ChatTypeOK, Posts
<1>7. GuardIsTruthful' /\ OneRequest' /\ OnlyEventsOverlap' /\ QuestionIsKept'
  BY <1>1, <1>4, <1>5 DEF GuardIsTruthful, OneRequest, OnlyEventsOverlap, QuestionIsKept
<1>8. MemoryIsWhole'
  BY <1>1, <1>5 DEF MemoryIsWhole
<1>9. ThinkingIsFounded' /\ PageKeepsOff'
  BY <1>1, <1>5 DEF ThinkingIsFounded, PageKeepsOff
<1>. QED
  BY <1>6, <1>7, <1>8, <1>9

LEMMA ChatStepInv == ChatIInv /\ [ChatNext]_chatVars => ChatIInv'
<1> SUFFICES ASSUME ChatIInv, [ChatNext]_chatVars PROVE ChatIInv'
  OBVIOUS
<1>1. CASE ClickSend \/ ClickExplainEvents
  BY <1>1, ClickSendInv
<1>2. CASE AskAboutEvent
  BY <1>2, AskInv
<1>3. CASE ClearChat
  BY <1>3, ClearInv
<1>4. CASE ChangeKey \/ Settle
  BY <1>4, ElsewhereInv
<1>5. CASE RunWorker
  BY <1>5, RunInv
<1>6. CASE ShowReply
  BY <1>6, ReplyInv
<1>7. CASE WorkerDone
  BY <1>7, DoneInv
<1>8. CASE UNCHANGED chatVars
  <2>1. (ReplyComing' <=> ReplyComing) /\ Awaited' = Awaited
    BY <1>8 DEF chatVars, ReplyComing, Awaited
  <2>. QED
    BY <1>8, <2>1 DEF chatVars, ChatIInv, ChatTypeOK, GuardIsTruthful, ThinkingIsFounded,
       OnlyEventsOverlap, OneRequest, QuestionIsKept, PageKeepsOff, MemoryIsWhole
<1>. QED
  BY <1>1, <1>2, <1>3, <1>4, <1>5, <1>6, <1>7, <1>8 DEF ChatNext

(* For any number of messages: the guard is on exactly while a request is    *)
(* underway, the memory stays a conversation, the page thinks only while     *)
(* something will end it or its message came late, and without the event     *)
(* page no message is refused while an answer is awaited.                    *)
THEOREM ChatInvariant == ChatSpec => []ChatInv
<1>1. ChatIInv => ChatInv
  <2> SUFFICES ASSUME ChatIInv PROVE ConversationIsWhole
    BY DEF ChatIInv, ChatInv
  <2>1. \A i \in DOMAIN memory : memory[i].to # 0
    <3>0. memory \in Seq(Entries)
      BY DEF ChatIInv, ChatTypeOK, Entries
    <3>1. \A i \in DOMAIN memory : memory[i] \in Entries
      BY <3>0
    <3>2. \A x \in Entries : x.to \in 1 .. MaxMessages
      BY DEF Entries
    <3>. QED
      BY <3>1, <3>2
  <2>. QED
    BY <2>1 DEF ChatIInv, MemoryIsWhole, Whole, Gap, Awaited, ConversationIsWhole,
       OnlyContextBetween
<1>. QED
  BY <1>1, ChatInitInv, ChatStepInv, PTL DEF ChatSpec

------------------------------------------------------------------------------
(* The history: what a list lacks is on its way to it, and nothing is done   *)
(* because a list was old.                                                   *)

Signals == {"finished", "recorded", "detected"}

\* What the queue holds when one signal or a threat's two are added, and when
\* the next is handled.
LEMMA SignalAdded ==
  ASSUME signals \in Seq(Signals), RecordedComesFirst, NEW s \in Signals \ {"recorded"},
         signals' = Append(signals, s)
  PROVE  /\ signals' \in Seq(Signals) /\ RecordedComesFirst'
         /\ \A t \in Signals : Queued(t) => Queued(t)'
         /\ Queued(s)'
  <1>1. /\ Len(signals') = Len(signals) + 1 /\ signals' \in Seq(Signals)
        /\ \A i \in 1 .. Len(signals) : signals'[i] = signals[i]
        /\ signals'[Len(signals) + 1] = s
    BY DEF Signals
  <1> QED  BY <1>1 DEF Queued, RecordedComesFirst, Signals

LEMMA ThreatAdded ==
  ASSUME signals \in Seq(Signals), RecordedComesFirst,
         signals' = signals \o <<"recorded", "detected">>
  PROVE  /\ signals' \in Seq(Signals) /\ RecordedComesFirst'
         /\ \A t \in Signals : Queued(t) => Queued(t)'
         /\ Queued("detected")'
  <1>1. /\ Len(signals') = Len(signals) + 2
        /\ \A i \in 1 .. Len(signals) : signals'[i] = signals[i]
        /\ signals'[Len(signals) + 1] = "recorded"
        /\ signals'[Len(signals) + 2] = "detected"
    BY DEF Signals
  <1>2. signals' \in Seq(Signals)
    BY DEF Signals
  <1>3. RecordedComesFirst'
    <2> SUFFICES ASSUME NEW i \in DOMAIN signals', signals'[i] = "recorded"
                 PROVE  \E k \in DOMAIN signals' : k > i /\ signals'[k] = "detected"
      BY DEF RecordedComesFirst
    <2>1. i <= Len(signals) + 1 /\ Len(signals) + 2 \in DOMAIN signals'
      BY <1>1, <1>2
    <2> QED  BY SMTT(30), <1>1, <2>1
  <1>4. ASSUME NEW t \in Signals, Queued(t) PROVE Queued(t)'
    <2>1. PICK i \in DOMAIN signals : signals[i] = t
      BY <1>4 DEF Queued
    <2>2. i \in DOMAIN signals' /\ signals'[i] = t
      BY <1>1, <1>2, <2>1
    <2> QED  BY <2>2 DEF Queued
  <1>5. Queued("detected")'
    <2>1. Len(signals) + 2 \in DOMAIN signals'
      BY <1>1, <1>2
    <2> QED  BY <1>1, <2>1 DEF Queued
  <1> QED  BY <1>2, <1>3, <1>4, <1>5

LEMMA SignalHandled ==
  ASSUME signals \in Seq(Signals), RecordedComesFirst, signals # <<>>,
         signals' = Tail(signals)
  PROVE  /\ signals' \in Seq(Signals) /\ RecordedComesFirst'
         /\ \A t \in Signals \ {Head(signals)} : Queued(t) => Queued(t)'
         /\ Head(signals) = "recorded" => Queued("detected")'
  <1>1. /\ Len(signals') = Len(signals) - 1 /\ Len(signals) >= 1
        /\ \A i \in 1 .. Len(signals') : signals'[i] = signals[i + 1]
        /\ Head(signals) = signals[1] /\ signals' \in Seq(Signals)
    BY DEF Signals
  <1>2. \A i \in 2 .. Len(signals) : /\ i - 1 \in 1 .. Len(signals')
                                     /\ signals'[i - 1] = signals[i]
    BY <1>1
  <1>3. ASSUME NEW t \in Signals, NEW i \in 1 .. Len(signals), signals[i] = t, i # 1
        PROVE  Queued(t)'
    <2>1. i - 1 \in DOMAIN signals' /\ signals'[i - 1] = t
      BY <1>1, <1>2, <1>3
    <2> QED  BY <2>1 DEF Queued
  <1>4. ASSUME NEW t \in Signals \ {Head(signals)}, Queued(t) PROVE Queued(t)'
    BY <1>1, <1>3, <1>4 DEF Queued
  <1>5. ASSUME Head(signals) = "recorded" PROVE Queued("detected")'
    BY <1>1, <1>3, <1>5 DEF RecordedComesFirst, Signals
  <1>6. RecordedComesFirst'
    <2> SUFFICES ASSUME NEW i \in DOMAIN signals', signals'[i] = "recorded"
                 PROVE  \E k \in DOMAIN signals' : k > i /\ signals'[k] = "detected"
      BY DEF RecordedComesFirst
    <2>1. i + 1 \in 1 .. Len(signals) /\ signals[i + 1] = "recorded"
      BY <1>1
    <2>2. PICK k \in 1 .. Len(signals) : k > i + 1 /\ signals[k] = "detected"
      BY <2>1 DEF RecordedComesFirst
    <2>3. k - 1 \in DOMAIN signals' /\ k - 1 > i /\ signals'[k - 1] = "detected"
      BY <1>1, <1>2, <2>1, <2>2
    <2> QED  BY <2>3
  <1> QED  BY <1>1, <1>4, <1>5, <1>6

------------------------------------------------------------------------------
USE DEF recordVars, pageHVars, Others, OtherLists

LEMMA HistoryInitInv == HistoryInit => HistoryInv
  <1> SUFFICES ASSUME HistoryInit PROVE HistoryInv
    OBVIOUS
  <1>1. ledger \in Seq(Statuses) /\ Len(ledger) \in Nat
    <2>1. <<"quarantined">> \in Seq(Statuses)
      BY DEF Statuses
    <2>2. <<>> \in Seq(Statuses)
      OBVIOUS
    <2>3. ledger \in Seq(Statuses)
      BY <2>1, <2>2 DEF HistoryInit
    <2> QED  BY <2>3
  <1>2. HistoryTypeOK
    <2>1. /\ Len(ledger) \in Nat /\ ledger \in Seq(Statuses)
          /\ <<>> \in Seq(Statuses) /\ <<>> \in Seq({"finished", "recorded", "detected"})
      BY <1>1
    <2> QED  BY <2>1 DEF HistoryInit, HistoryTypeOK, Routes, Tabs
  <1>3. ListsWillBeRead /\ RecordedComesFirst
    BY DEF HistoryInit, ListsWillBeRead, RecordedComesFirst
  <1>4. AskedIsVaulted /\ HomeCounts
    BY <1>1 DEF HistoryInit, AskedIsVaulted, HomeCounts
  <1> QED  BY <1>2, <1>3, <1>4 DEF HistoryInv

\* What the lists are after some of them are read.
LEMMA RereadLists ==
  ASSUME HistoryInv, NEW tabs, Reread(tabs, ledger), ledger' = ledger
  PROVE  /\ behind' \subseteq behind /\ behind' \cap tabs = {}
         /\ entries' = IF "quarantine" \in tabs THEN ledger ELSE entries
         /\ counted' = IF "home" \in tabs THEN Len(ledger) ELSE counted
         /\ untold' \subseteq untold
         /\ \A l \in untold : l \in untold' \/ l \in tabs
  BY DEF Reread

\* Whatever the user does to the page, and a handler that reads its lists:
\* a list is read as the vault is now, and a first showing reads them all.
LEMMA PageInv ==
  ASSUME HistoryInv, NEW tabs, Reread(tabs, ledger), UNCHANGED ledger,
         opened' \in BOOLEAN, opened => opened', opened' => opened \/ Tabs \subseteq tabs,
         route' \in Routes, tabAt' \in Tabs, follows' \in BOOLEAN,
         askedOf' \in {0, askedOf} \cup DOMAIN entries,
         UNCHANGED <<saving, signals>>
  PROVE  HistoryInv'
  <1> USE RereadLists
  <1>1. askedOf' \in Nat
    BY DEF HistoryInv, HistoryTypeOK
  <1>2. /\ entries' \in Seq(Statuses) /\ counted' \in Nat
        /\ behind' \subseteq Tabs \ {"quarantine"} /\ untold' \subseteq {"quarantine", "home"}
    <2>1. Len(ledger) \in Nat /\ ledger \in Seq(Statuses)
      BY DEF HistoryInv, HistoryTypeOK
    <2>2. entries' \in Seq(Statuses) /\ counted' \in Nat
      BY <2>1 DEF HistoryInv, HistoryTypeOK
    <2>3. behind' \subseteq Tabs \ {"quarantine"}
      BY DEF HistoryInv, HistoryTypeOK
    <2>4. untold' \subseteq {"quarantine", "home"}
      BY DEF HistoryInv, HistoryTypeOK
    <2> QED  BY <2>2, <2>3, <2>4
  <1>3. HistoryTypeOK'
    BY <1>1, <1>2 DEF HistoryInv, HistoryTypeOK
  <1>4. ListsWillBeRead'
    BY DEF HistoryInv, ListsWillBeRead, ThreatComes, Queued, Tabs
  <1>5. AskedIsVaulted'
    <2>1. Len(entries') <= Len(ledger) /\ DOMAIN entries \subseteq DOMAIN entries'
      BY DEF HistoryInv, AskedIsVaulted, HistoryTypeOK
    <2>2. DOMAIN entries' \subseteq DOMAIN ledger
      BY <1>2, <2>1 DEF HistoryInv, HistoryTypeOK
    <2> QED  BY <2>1, <2>2 DEF HistoryInv, AskedIsVaulted
  <1>6. HomeCounts' /\ RecordedComesFirst'
    BY DEF HistoryInv, HomeCounts, RecordedComesFirst, ThreatComes, Queued
  <1> QED  BY <1>3, <1>4, <1>5, <1>6 DEF HistoryInv

\* No list is read: as if none of them.
LEMMA Unread == UNCHANGED recordVars => Reread({}, ledger)
  BY DEF Reread

LEMMA UserInv ==
  ASSUME HistoryInv,
         \/ \E t \in Tabs : Navigate(t) \/ ClickTab(t)
         \/ Leave \/ ClickReread \/ OpenQuarantine \/ OpenRecord
         \/ \E i \in DOMAIN entries : Ask(i)
         \/ Reject \/ CountAgain
  PROVE  HistoryInv'
  <1> USE Unread DEF HistoryInv, HistoryTypeOK
  <1>1. CASE \E t \in Tabs : Navigate(t)
    <2> PICK t \in Tabs : Navigate(t)
      BY <1>1
    <2> DEFINE tabs == IF ~opened THEN Tabs ELSE IF tabAt' # tabAt THEN {tabAt'} ELSE {}
    <2>1. Reread(tabs, ledger) /\ (opened \/ Tabs \subseteq tabs)
      BY DEF Navigate
    <2> HIDE DEF tabs
    <2> QED  BY <2>1, PageInv DEF Navigate, Routes
  <1>2. CASE \E t \in Tabs : ClickTab(t)
    <2> PICK t \in Tabs : ClickTab(t)
      BY <1>2
    <2> DEFINE tabs == IF t # tabAt THEN {t} ELSE {}
    <2>1. Reread(tabs, ledger)
      BY DEF ClickTab
    <2> HIDE DEF tabs
    <2> QED  BY <2>1, PageInv DEF ClickTab
  <1>3. CASE Leave
    BY <1>3, PageInv DEF Leave, Routes
  <1>4. CASE ClickReread
    BY <1>4, PageInv DEF ClickReread
  <1>5. CASE OpenQuarantine
    BY <1>5, PageInv DEF OpenQuarantine, Tabs
  <1>6. CASE OpenRecord
    BY <1>6, PageInv DEF OpenRecord, Routes
  <1>7. CASE \E i \in DOMAIN entries : Ask(i)
    BY <1>7, PageInv DEF Ask
  <1>8. CASE Reject
    BY <1>8, PageInv DEF Reject
  <1>9. CASE CountAgain
    BY <1>9, PageInv DEF CountAgain
  <1> QED  BY <1>1, <1>2, <1>3, <1>4, <1>5, <1>6, <1>7, <1>8, <1>9

LEMMA ConfirmInv ==
  ASSUME HistoryInv, Confirm PROVE HistoryInv'
  <1>1. CASE ledger' = ledger
    <2>1. PICK tabs : Reread(tabs, ledger)
      BY <1>1 DEF Confirm
    <2> QED  BY <1>1, <2>1, PageInv DEF Confirm, HistoryInv, HistoryTypeOK
  <1>2. ASSUME NEW s \in {"restored", "deleted"}, ledger[askedOf] = "quarantined",
               ledger' = [ledger EXCEPT ![askedOf] = s],
               Reread({"quarantine", "incidents"}, ledger')
        PROVE  HistoryInv'
    <2>1. /\ askedOf \in DOMAIN ledger /\ ledger' \in Seq(Statuses)
          /\ Len(ledger') = Len(ledger) /\ entries' = ledger'
      BY <1>2 DEF Confirm, HistoryInv, HistoryTypeOK, AskedIsVaulted, Reread, Statuses
    <2>2. /\ behind' \subseteq behind /\ "incidents" \notin behind'
          /\ counted' = counted /\ untold' \subseteq untold
          /\ "home" \in untold => "home" \in untold'
      BY <1>2 DEF Reread
    <2>3. HistoryTypeOK'
      BY <2>1, <2>2 DEF Confirm, HistoryInv, HistoryTypeOK
    <2>4. ListsWillBeRead'
      BY <2>1, <2>2 DEF Confirm, HistoryInv, ListsWillBeRead, Queued
    <2>5. AskedIsVaulted'
      BY <2>1 DEF Confirm, AskedIsVaulted, HistoryTypeOK, HistoryInv
    <2>6. HomeCounts' /\ RecordedComesFirst'
      BY <2>1, <2>2 DEF Confirm, HistoryInv, HomeCounts, RecordedComesFirst, ThreatComes, Queued
    <2> QED  BY <2>3, <2>4, <2>5, <2>6 DEF HistoryInv
  <1> QED  BY <1>1, <1>2 DEF Confirm

\* Lists that are behind have a signal, or somebody who will send it.
LEMMA WriterInv ==
  ASSUME HistoryInv, UNCHANGED <<Others, entries, counted>>,
         \/ SaveScan \/ TellScan \/ SaveAddress \/ TellThreat
  PROVE  HistoryInv'
  <1> USE DEF HistoryInv
  <1>1. CASE SaveScan
    <2>1. HistoryTypeOK'
      BY <1>1 DEF SaveScan, HistoryTypeOK, Tabs
    <2>2. ListsWillBeRead' /\ HomeCounts' /\ RecordedComesFirst'
      BY <1>1 DEF SaveScan, ListsWillBeRead, HomeCounts, RecordedComesFirst, ThreatComes, Queued
    <2>3. AskedIsVaulted'
      BY <1>1 DEF SaveScan, AskedIsVaulted
    <2> QED  BY <2>1, <2>2, <2>3
  <1>2. CASE SaveAddress
    <2>1. HistoryTypeOK'
      BY <1>2 DEF SaveAddress, HistoryTypeOK, Tabs
    <2>2. ListsWillBeRead' /\ HomeCounts' /\ RecordedComesFirst'
      BY <1>2 DEF SaveAddress, ListsWillBeRead, HomeCounts, RecordedComesFirst, ThreatComes, Queued
    <2>3. AskedIsVaulted'
      BY <1>2 DEF SaveAddress, AskedIsVaulted
    <2> QED  BY <2>1, <2>2, <2>3
  <1>3. CASE TellScan
    <2>1. /\ signals' \in Seq(Signals) /\ RecordedComesFirst' /\ Queued("finished")'
          /\ \A t \in Signals : Queued(t) => Queued(t)'
      BY <1>3, SignalAdded DEF TellScan, HistoryTypeOK, Signals
    <2>2. HistoryTypeOK'
      BY <1>3, <2>1 DEF TellScan, HistoryTypeOK, Signals
    <2>3. ListsWillBeRead' /\ HomeCounts'
      BY <1>3, <2>1 DEF TellScan, ListsWillBeRead, HomeCounts, ThreatComes, Signals
    <2>4. AskedIsVaulted'
      BY <1>3 DEF TellScan, AskedIsVaulted
    <2> QED  BY <2>1, <2>2, <2>3, <2>4
  <1>4. CASE TellThreat
    <2>1. /\ signals' \in Seq(Signals) /\ RecordedComesFirst' /\ Queued("detected")'
          /\ \A t \in Signals : Queued(t) => Queued(t)'
      BY <1>4, ThreatAdded DEF TellThreat, HistoryTypeOK, Signals
    <2>2. HistoryTypeOK'
      BY <1>4, <2>1 DEF TellThreat, HistoryTypeOK, Signals
    <2>3. ListsWillBeRead' /\ HomeCounts'
      BY <1>4, <2>1 DEF TellThreat, ListsWillBeRead, HomeCounts, ThreatComes, Signals
    <2>4. AskedIsVaulted'
      BY <1>4 DEF TellThreat, AskedIsVaulted
    <2> QED  BY <2>1, <2>2, <2>3, <2>4
  <1> QED  BY <1>1, <1>2, <1>3, <1>4

\* What comes into the vault is told of, or the assistant's.
LEMMA VaultInv ==
  ASSUME HistoryInv, Act \/ Assist PROVE HistoryInv'
  <1> USE DEF HistoryInv
  <1>1. /\ entries' = entries /\ counted' = counted /\ askedOf' = askedOf
        /\ behind' = behind /\ opened' = opened /\ signals' = signals
        /\ UNCHANGED <<route, follows, tabAt>>
    BY DEF Act, Assist
  <1>2. \/ Act /\ "threat" \in saving' /\ untold' = untold
        \/ Assist /\ "quarantine" \in untold' /\ saving' = saving
    BY DEF Act, Assist
  <1>3. /\ untold \subseteq untold' /\ saving \subseteq saving'
        /\ untold' \subseteq {"quarantine", "home"} /\ saving' \subseteq {"scan", "threat"}
    BY DEF Act, Assist, HistoryTypeOK
  <1>4. ASSUME ledger' = Append(ledger, "quarantined")
        PROVE  /\ ledger' \in Seq(Statuses) /\ Len(ledger') >= Len(ledger)
               /\ DOMAIN ledger \subseteq DOMAIN ledger'
               /\ \A i \in DOMAIN ledger : ledger'[i] = ledger[i]
    BY <1>4 DEF HistoryTypeOK, Statuses
  <1>5. ASSUME NEW i \in DOMAIN ledger, ledger[i] = "quarantined",
               ledger' = [ledger EXCEPT ![i] = "restored"]
        PROVE  /\ ledger' \in Seq(Statuses) /\ Len(ledger') = Len(ledger)
               /\ DOMAIN ledger = DOMAIN ledger'
               /\ \A k \in DOMAIN ledger : ledger[k] \in {"quarantined", ledger'[k]}
    BY <1>5 DEF HistoryTypeOK, Statuses
  <1>6. /\ ledger' \in Seq(Statuses) /\ Len(ledger') >= Len(ledger)
        /\ DOMAIN ledger \subseteq DOMAIN ledger'
        /\ \A i \in DOMAIN ledger : ledger[i] \in {"quarantined", ledger'[i]}
    BY <1>4, <1>5 DEF Act, Assist, HistoryTypeOK
  <1>7. Act => \A i \in DOMAIN ledger : ledger'[i] = ledger[i]
    BY <1>4 DEF Act
  <1>8. HistoryTypeOK'
    BY <1>1, <1>3, <1>6 DEF HistoryTypeOK
  <1>9. ListsWillBeRead' /\ RecordedComesFirst'
    BY <1>1, <1>2, <1>3 DEF ListsWillBeRead, ThreatComes, Queued, RecordedComesFirst
  <1>10. AskedIsVaulted'
    <2>1. DOMAIN entries \subseteq DOMAIN ledger
      BY DEF AskedIsVaulted, HistoryTypeOK
    <2>2. Len(entries') <= Len(ledger')
      BY <1>1, <1>6 DEF AskedIsVaulted, HistoryTypeOK
    <2>3. \A i \in DOMAIN entries' : entries'[i] = ledger'[i] \/ "quarantine" \in untold'
      BY <1>1, <1>2, <1>7, <2>1 DEF AskedIsVaulted
    <2>4. \A i \in DOMAIN entries' : entries'[i] \in {"quarantined", ledger'[i]}
      BY <1>1, <1>6, <2>1 DEF AskedIsVaulted
    <2> QED  BY <1>1, <1>6, <2>2, <2>3, <2>4 DEF AskedIsVaulted
  <1>11. HomeCounts'
    <2>1. CASE ledger' = Append(ledger, "quarantined")
      <3>1. "home" \in untold' \/ "threat" \in saving'
        <4>1. CASE Act
          BY <4>1 DEF Act
        <4>2. CASE Assist
          BY <2>1, <4>2, <1>5 DEF Assist, HistoryTypeOK
        <4> QED  BY <4>1, <4>2
      <3> QED  BY <3>1 DEF HomeCounts, ThreatComes
    <2>2. CASE Len(ledger') = Len(ledger)
      BY <1>1, <1>3, <2>2 DEF HomeCounts, ThreatComes, Queued
    <2> QED  BY <1>5, <2>1, <2>2 DEF Act, Assist
  <1> QED  BY <1>8, <1>9, <1>10, <1>11

\* A list may fall behind its signal only when that is handled, and then it is read.
LEMMA HandlerInv ==
  ASSUME HistoryInv, Finished \/ Recorded \/ Detected PROVE HistoryInv'
  <1> USE DEF HistoryInv
  <1>1. /\ signals' \in Seq(Signals) /\ RecordedComesFirst'
        /\ \A t \in Signals \ {Head(signals)} : Queued(t) => Queued(t)'
        /\ Head(signals) = "recorded" => Queued("detected")'
    BY SignalHandled DEF Finished, Recorded, Detected, HistoryTypeOK, Signals
  <1>2. CASE Recorded
    <2>1. HistoryTypeOK'
      BY <1>1, <1>2 DEF Recorded, HistoryTypeOK, Signals, Tabs
    <2>2. ListsWillBeRead'
      BY <1>1, <1>2 DEF Recorded, ListsWillBeRead, ThreatComes, Signals
    <2>3. AskedIsVaulted'
      BY <1>2 DEF Recorded, AskedIsVaulted
    <2>4. HomeCounts'
      BY <1>1, <1>2 DEF Recorded, HomeCounts, ThreatComes, Signals
    <2> QED  BY <1>1, <2>1, <2>2, <2>3, <2>4
  <1>3. ASSUME NEW tabs, Reread(tabs, ledger), UNCHANGED <<Others, ledger, saving>>,
               \/ Head(signals) = "finished" /\ (opened => "scan" \in tabs)
               \/ /\ Head(signals) = "detected" /\ "home" \in tabs
                  /\ opened => {"incidents", "quarantine"} \subseteq tabs
        PROVE  HistoryInv'
    <2> USE <1>3, RereadLists
    <2>1. Len(ledger) \in Nat /\ ledger \in Seq(Statuses)
      BY DEF HistoryTypeOK
    <2>2. entries' \in Seq(Statuses) /\ counted' \in Nat
      BY <2>1 DEF HistoryTypeOK
    <2>3. behind' \subseteq Tabs \ {"quarantine"} /\ untold' \subseteq {"quarantine", "home"}
      BY DEF HistoryTypeOK
    <2>4. HistoryTypeOK'
      BY <1>1, <2>2, <2>3 DEF HistoryTypeOK, Signals
    <2>5. ListsWillBeRead'
      BY <1>1 DEF ListsWillBeRead, ThreatComes, Signals
    <2>6. AskedIsVaulted'
      <3>1. Len(entries') <= Len(ledger) /\ DOMAIN entries \subseteq DOMAIN entries'
        BY DEF AskedIsVaulted, HistoryTypeOK
      <3> QED  BY <3>1 DEF AskedIsVaulted
    <2>7. HomeCounts'
      BY <1>1 DEF HomeCounts, ThreatComes, Signals
    <2> QED  BY <1>1, <2>4, <2>5, <2>6, <2>7
  <1>4. CASE Finished
    <2>1. Reread(Heard({"scan"}), ledger) /\ (opened => "scan" \in Heard({"scan"}))
      BY <1>4 DEF Finished, Heard
    <2> QED  BY <1>3, <1>4, <2>1 DEF Finished
  <1>5. CASE Detected
    <2> DEFINE tabs == Heard({"incidents", "quarantine"}) \cup {"home"}
    <2>1. /\ Reread(tabs, ledger) /\ "home" \in tabs
          /\ opened => {"incidents", "quarantine"} \subseteq tabs
      BY <1>5 DEF Detected, Heard
    <2> HIDE DEF tabs
    <2> QED  BY <1>3, <1>5, <2>1 DEF Detected
  <1> QED  BY <1>2, <1>4, <1>5

LEMMA HistoryStepInv == HistoryInv /\ [HistoryNext]_historyVars => HistoryInv'
  <1> SUFFICES ASSUME HistoryInv, [HistoryNext]_historyVars PROVE HistoryInv'
    OBVIOUS
  <1>1. CASE HistoryNext
    <2>1. SaveScan \/ TellScan \/ SaveAddress \/ TellThreat => UNCHANGED <<Others, entries, counted>>
      BY DEF SaveScan, TellScan, SaveAddress, TellThreat
    <2> QED  BY <1>1, <2>1, UserInv, ConfirmInv, WriterInv, VaultInv, HandlerInv DEF HistoryNext
  <1>2. CASE UNCHANGED historyVars
    <2>1. Reread({}, ledger)
      BY <1>2, Unread DEF historyVars
    <2> QED  BY <1>2, <2>1, PageInv DEF historyVars, HistoryInv, HistoryTypeOK
  <1> QED  BY <1>1, <1>2

(* Whatever the user clicks and whoever writes, a list that is behind has    *)
(* its signal on the way or a writer that will send it, unless it is of      *)
(* addresses or the assistant's doing; every incident is saved before the    *)
(* page looks for it; and no list is so old that it shows a file as restored *)
(* or deleted that is not.                                                   *)
THEOREM HistoryInvariant == HistorySpec => []HistoryInv
  BY HistoryInitInv, HistoryStepInv, PTL DEF HistorySpec

------------------------------------------------------------------------------
(* The event page: what is shown is about the event selected as long as      *)
(* nothing crossed the request, each request has one answer, and an open     *)
(* breaker only drains.                                                      *)


HIDE ShredderBounds
HIDE SecurityBounds
HIDE ChatBounds
HIDE DEF formVars, shredVars, diskVars, noteVars, pageSVars, readVars, noteSVars,
         pageChatVars, workerVars, pastVars, recordVars, pageHVars, Others, OtherLists

USE ExplanationBounds

Answers == [request : Requests, told : BOOLEAN]

\* The index the page keeps, or has handed to the debouncer, still finds the
\* selected event in the bridge's list, and every request is about it.
IndexHolds ==
    ~crossed =>
       /\ selected # NoEvent => place \in DOMAIN loaded /\ loaded[place] = selected
       /\ debounced # 0 => debounced = place /\ selected # NoEvent
       /\ \A r \in Requests : Underway(r) => about[r] = selected

ExplainIInv == ExplanationInv /\ IndexHolds

USE DEF pageVars, listVars, askVars, groqVars

LEMMA AppendAnswer ==
  ASSUME NEW s \in Seq(Answers), NEW a \in Answers
  PROVE  /\ Append(s, a) \in Seq(Answers)
         /\ DOMAIN s = 1 .. Len(s) /\ Len(s) \in Nat
         /\ DOMAIN Append(s, a) = 1 .. Len(s) + 1
         /\ \A i \in DOMAIN s : Append(s, a)[i] = s[i]
         /\ Append(s, a)[Len(s) + 1] = a
OBVIOUS

LEMMA TailAnswers ==
  ASSUME NEW s \in Seq(Answers), s # <<>>
  PROVE  /\ Tail(s) \in Seq(Answers) /\ Head(s) = s[1] /\ 1 \in DOMAIN s
         /\ s[1] \in Answers /\ DOMAIN s = 1 .. Len(s) /\ Len(s) \in Nat
         /\ DOMAIN Tail(s) = 1 .. Len(s) - 1
         /\ \A i \in DOMAIN Tail(s) : Tail(s)[i] = s[i + 1]
OBVIOUS

LEMMA EmptyAnswers == <<>> \in Seq(Answers) /\ DOMAIN <<>> = {}
OBVIOUS

LEMMA LogsAreSequences ==
  /\ <<>> \in Seq(Events)
  /\ \A i \in DOMAIN Log : SubSeq(Log, i, Len(Log)) \in Seq(Events)
  /\ SubSeq(Log, 2, Len(Log)) \in Seq(Events)
OBVIOUS

LEMMA ExplainInitInv == ExplainInit => ExplainIInv
<1> SUFFICES ASSUME ExplainInit PROVE ExplainIInv
  OBVIOUS
<1>1. /\ selected = NoEvent /\ place = 0 /\ aiBusy = FALSE /\ aiData = NoEvent
      /\ aiError = FALSE /\ listed = SubSeq(Log, 2, Len(Log)) /\ loaded = listed
      /\ reading = "no" /\ debounced = 0 /\ ask = [r \in Requests |-> "free"]
      /\ about = [r \in Requests |-> NoEvent] /\ former = {} /\ answers = <<>>
      /\ failures = 0 /\ open = FALSE /\ limiter = 0 /\ crossed = FALSE
  BY DEF ExplainInit
<1>2. ExplainTypeOK
  <2>1. /\ aiBusy \in BOOLEAN /\ aiError \in BOOLEAN /\ open \in BOOLEAN
        /\ crossed \in BOOLEAN
    BY <1>1
  <2>2. answers \in Seq([request : Requests, told : BOOLEAN])
    BY <1>1, EmptyAnswers DEF Answers
  <2>3. listed \in Seq(Events) /\ loaded \in Seq(Events)
    BY <1>1, LogsAreSequences
  <2>4. Len(Log) \in Nat
    OBVIOUS
  <2>. QED
    BY <1>1, <2>1, <2>2, <2>3, <2>4 DEF ExplainTypeOK, Requests
<1>3. RequestsAreWhole
  BY <1>1, EmptyAnswers DEF RequestsAreWhole, Underway
<1>4. ShownIsSelected /\ IndexHolds
  BY <1>1 DEF ShownIsSelected, IndexHolds, Underway
<1>. QED
  BY <1>1, <1>2, <1>3, <1>4 DEF ExplainIInv, ExplanationInv

------------------------------------------------------------------------------
\* The page, and the thread that reads the log.

LEMMA SelectInv ==
  ASSUME ExplainIInv, NEW i \in 1 .. Len(Log), SelectRow(i)
  PROVE  ExplainIInv'
<1> USE DEF ExplainIInv, ExplanationInv, SelectRow
<1>1. listed[i] \in Events /\ listed \in Seq(Events)
  BY DEF ExplainTypeOK
<1>2. crossed' \in BOOLEAN /\ aiError' \in BOOLEAN /\ aiBusy' \in BOOLEAN
  BY Zenon
<1>3. ExplainTypeOK'
  BY <1>1, <1>2 DEF ExplainTypeOK
<1>4. RequestsAreWhole'
  BY DEF RequestsAreWhole, Underway
<1>5. ShownIsSelected' /\ ~(aiError /\ aiData # NoEvent)'
  BY DEF ShownIsSelected
<1>6. IndexHolds'
  BY DEF IndexHolds, Expected, Underway
<1>. QED
  BY <1>3, <1>4, <1>5, <1>6

LEMMA ExplainClickInv ==
  ASSUME ExplainIInv, ClickExplain
  PROVE  ExplainIInv'
<1> USE DEF ExplainIInv, ExplanationInv, ClickExplain
<1>1. ExplainTypeOK'
  BY DEF ExplainTypeOK
<1>2. RequestsAreWhole'
  BY DEF RequestsAreWhole, Underway
<1>3. ShownIsSelected' /\ ~(aiError /\ aiData # NoEvent)'
  BY DEF ShownIsSelected
<1>4. IndexHolds'
  BY DEF IndexHolds, Underway
<1>. QED
  BY <1>1, <1>2, <1>3, <1>4

LEMMA ExplainRefreshInv ==
  ASSUME ExplainIInv, ClickRefresh
  PROVE  ExplainIInv'
<1> USE DEF ExplainIInv, ExplanationInv, ClickRefresh
<1>1. crossed' \in BOOLEAN /\ aiError' \in BOOLEAN
  BY Zenon DEF Expected
<1>6. Len(Log) \in Nat
  OBVIOUS
<1>2. ExplainTypeOK'
  BY <1>1, <1>6 DEF ExplainTypeOK
<1>3. RequestsAreWhole'
  BY DEF RequestsAreWhole, Underway
<1>4. ShownIsSelected' /\ ~(aiError /\ aiData # NoEvent)'
  BY DEF ShownIsSelected
<1>5. IndexHolds'
  BY DEF IndexHolds, Expected, Underway
<1>. QED
  BY <1>2, <1>3, <1>4, <1>5

LEMMA ExplainReadInv ==
  ASSUME ExplainIInv, ReadLog \/ ShowLog
  PROVE  ExplainIInv'
<1> USE DEF ExplainIInv, ExplanationInv
<1>1. UNCHANGED <<pageVars, debounced, askVars, answers, groqVars, limiter>>
  BY DEF ReadLog, ShowLog
<1>2. /\ listed' \in Seq(Events) /\ loaded' \in Seq(Events)
      /\ reading' \in {"no", "reads", "has"} /\ crossed' \in BOOLEAN
  <2>1. CASE ReadLog
    <3>1. crossed' \in BOOLEAN
      BY <2>1, Zenon DEF ReadLog
    <3>2. loaded' \in Seq(Events)
      BY <2>1, LogsAreSequences DEF ReadLog, Logs, ExplainTypeOK
    <3>. QED
      BY <2>1, <3>1, <3>2 DEF ReadLog, ExplainTypeOK
  <2>2. CASE ShowLog
    BY <2>2, LogsAreSequences DEF ShowLog, ExplainTypeOK
  <2>. QED
    BY <2>1, <2>2
<1>3. ExplainTypeOK'
  BY <1>1, <1>2 DEF ExplainTypeOK
<1>4. RequestsAreWhole'
  BY <1>1 DEF RequestsAreWhole, Underway
<1>5. ~crossed' => ~crossed /\ (loaded' = loaded \/ (selected = NoEvent /\ ~Expected))
  BY Zenon DEF ReadLog, ShowLog
<1>6. ShownIsSelected' /\ ~(aiError /\ aiData # NoEvent)'
  BY <1>1, <1>5 DEF ShownIsSelected
<1>7. IndexHolds'
  BY <1>1, <1>5 DEF IndexHolds, Expected, Underway
<1>. QED
  BY <1>3, <1>4, <1>6, <1>7

------------------------------------------------------------------------------
\* The bridge.

LEMMA ExplainInv ==
  ASSUME ExplainIInv, Explain
  PROVE  ExplainIInv'
<1> USE DEF ExplainIInv, ExplanationInv
<1>1. /\ debounced # 0 /\ debounced' = 0 /\ aiBusy' = FALSE
      /\ UNCHANGED <<selected, place, listVars, former, answers, groqVars, limiter, crossed>>
  BY DEF Explain
<1>2. \/ /\ debounced \in DOMAIN loaded /\ aiData' = loaded[debounced] /\ aiError' = FALSE
      \/ /\ debounced \notin DOMAIN loaded /\ aiData' = NoEvent /\ aiError' = TRUE
         /\ UNCHANGED <<ask, about>>
  BY DEF Explain
<1>3. \/ UNCHANGED <<ask, about>>
      \/ /\ debounced \in DOMAIN loaded
         /\ \E r \in Requests :
              /\ ask[r] = "free" /\ ask' = [ask EXCEPT ![r] = "queued"]
              /\ about' = [about EXCEPT ![r] = loaded[debounced]]
  BY DEF Explain
<1>4. /\ debounced \in DOMAIN loaded => loaded[debounced] \in Events
      /\ ask \in [Requests -> {"free", "queued", "limited", "sleeps", "sent", "answered"}]
      /\ about \in [Requests -> Events \cup {NoEvent}]
  BY DEF ExplainTypeOK
<1>5. aiError' \in BOOLEAN /\ aiBusy' \in BOOLEAN
  BY <1>1, <1>2
<1>6. /\ aiData' \in Events \cup {NoEvent} /\ debounced' \in 0 .. Len(Log)
      /\ ask' \in [Requests -> {"free", "queued", "limited", "sleeps", "sent", "answered"}]
      /\ about' \in [Requests -> Events \cup {NoEvent}]
  BY <1>1, <1>2, <1>3, <1>4
<1>7. ExplainTypeOK'
  BY <1>1, <1>5, <1>6 DEF ExplainTypeOK
<1>8. RequestsAreWhole'
  <2>1. CASE UNCHANGED <<ask, about>>
    BY <1>1, <2>1 DEF RequestsAreWhole, Underway
  <2>2. ASSUME NEW r \in Requests, debounced \in DOMAIN loaded, ask[r] = "free",
               ask' = [ask EXCEPT ![r] = "queued"],
               about' = [about EXCEPT ![r] = loaded[debounced]]
        PROVE  RequestsAreWhole'
    <3>1. /\ \A q \in Requests \ {r} : ask'[q] = ask[q] /\ about'[q] = about[q]
          /\ ask'[r] = "queued" /\ about'[r] = loaded[debounced]
      BY <2>2, <1>4
    <3>2. \A q \in Requests : Underway(q)' <=> about'[q] # NoEvent
      BY <2>2, <3>1, <1>4 DEF RequestsAreWhole, Underway
    <3>3. \A q \in Requests : ask'[q] = "answered" <=> ask[q] = "answered"
      BY <2>2, <3>1
    <3>4. limiter # 0 => ask'[limiter] = "sleeps" /\ limiter \notin former
      BY <2>2, <3>1 DEF RequestsAreWhole, ExplainTypeOK
    <3>. QED
      BY <1>1, <3>2, <3>3, <3>4 DEF RequestsAreWhole
  <2>. QED
    BY <1>3, <2>1, <2>2
<1>9. ~crossed /\ debounced \in DOMAIN loaded => loaded[debounced] = selected
  BY <1>1 DEF IndexHolds
<1>10. ShownIsSelected' /\ ~(aiError /\ aiData # NoEvent)'
  BY <1>1, <1>2, <1>9 DEF ShownIsSelected
<1>11. IndexHolds'
  BY <1>1, <1>3, <1>4, <1>9 DEF IndexHolds, Underway
<1>. QED
  BY <1>7, <1>8, <1>10, <1>11

LEMMA DeliverInv ==
  ASSUME ExplainIInv, Deliver
  PROVE  ExplainIInv'
<1> USE DEF ExplainIInv, ExplanationInv
<1> DEFINE r == answers[1].request
<1>1. /\ answers \in Seq(Answers) /\ answers # <<>> /\ answers' = Tail(answers)
  BY DEF Deliver, ExplainTypeOK, Answers
<1>2. /\ answers' \in Seq(Answers) /\ Head(answers) = answers[1] /\ 1 \in DOMAIN answers
      /\ answers[1] \in Answers
      /\ DOMAIN answers = 1 .. Len(answers) /\ Len(answers) \in Nat
      /\ DOMAIN answers' = 1 .. Len(answers) - 1
      /\ \A i \in DOMAIN answers' : answers'[i] = answers[i + 1]
  BY <1>1, TailAnswers
<1>3. /\ r \in Requests /\ ask[r] = "answered" /\ about[r] \in Events \cup {NoEvent}
  BY <1>2 DEF Answers, RequestsAreWhole, ExplainTypeOK
<1>4. /\ aiBusy' = FALSE
      /\ \/ aiData' = about[r] /\ aiError' = FALSE
         \/ aiData' = NoEvent /\ aiError' = TRUE
      /\ ask' = [ask EXCEPT ![r] = "free"] /\ about' = [about EXCEPT ![r] = NoEvent]
      /\ former' = former \ {r}
      /\ UNCHANGED <<selected, place, listVars, debounced, groqVars, limiter, crossed>>
  BY <1>2 DEF Deliver
<1>5. aiBusy' \in BOOLEAN /\ aiError' \in BOOLEAN
  BY <1>4
<1>6. ExplainTypeOK'
  BY <1>2, <1>3, <1>4, <1>5 DEF ExplainTypeOK, Answers
<1>7. /\ \A q \in Requests \ {r} : ask'[q] = ask[q] /\ about'[q] = about[q]
      /\ ask'[r] = "free" /\ about'[r] = NoEvent
  BY <1>3, <1>4 DEF ExplainTypeOK
<1>8. RequestsAreWhole'
  <2>1. \A q \in Requests : Underway(q)' <=> about'[q] # NoEvent
    BY <1>7 DEF RequestsAreWhole, Underway
  <2>2. \A i \in DOMAIN answers' : i + 1 \in DOMAIN answers /\ answers'[i].request # r
    BY <1>2 DEF RequestsAreWhole
  <2>3. \A q \in Requests :
           ask'[q] = "answered" <=> \E i \in DOMAIN answers' : answers'[i].request = q
    <3>1. ASSUME NEW q \in Requests \ {r}, NEW j \in DOMAIN answers, answers[j].request = q
          PROVE  j - 1 \in DOMAIN answers' /\ answers'[j - 1].request = q
      BY <3>1, <1>2
    <3>. QED
      BY <1>2, <1>7, <2>2, <3>1 DEF RequestsAreWhole
  <2>4. \A i, j \in DOMAIN answers' : answers'[i].request = answers'[j].request => i = j
    BY <1>2 DEF RequestsAreWhole
  <2>5. limiter' # 0 => ask'[limiter'] = "sleeps" /\ limiter' \notin former'
    BY <1>3, <1>4, <1>7 DEF RequestsAreWhole, ExplainTypeOK
  <2>. QED
    BY <2>1, <2>3, <2>4, <2>5 DEF RequestsAreWhole
<1>9. ShownIsSelected' /\ ~(aiError /\ aiData # NoEvent)'
  BY <1>3, <1>4 DEF ShownIsSelected, IndexHolds, Underway
<1>10. IndexHolds'
  BY <1>4, <1>7 DEF IndexHolds, Underway
<1>. QED
  BY <1>6, <1>8, <1>9, <1>10

LEMMA SaveKeyInv ==
  ASSUME ExplainIInv, SaveKey
  PROVE  ExplainIInv'
<1> USE DEF ExplainIInv, ExplanationInv, SaveKey
<1>1. open' \in BOOLEAN /\ former' \in SUBSET Requests
  BY DEF ExplainTypeOK
<1>2. ExplainTypeOK'
  BY <1>1 DEF ExplainTypeOK
<1>3. RequestsAreWhole'
  BY DEF RequestsAreWhole, Underway
<1>4. ShownIsSelected' /\ IndexHolds' /\ ~(aiError /\ aiData # NoEvent)'
  BY DEF ShownIsSelected, IndexHolds, Underway
<1>. QED
  BY <1>2, <1>3, <1>4

------------------------------------------------------------------------------
\* The pool workers.

\* A worker's step on its own request, with or without a reply.
LEMMA ExplainWorkInv ==
  ASSUME ExplainIInv, NEW r \in Requests, NEW told \in BOOLEAN,
         OnlyWork, ask[r] \notin {"free", "answered"},
         \/ Reply(r, told)
         \/ /\ UNCHANGED answers
            /\ \E to \in {"limited", "sleeps", "sent"} : ask' = [ask EXCEPT ![r] = to],
         failures' \in 0 .. FailureLimit, open' \in BOOLEAN,
         limiter' \in Requests \cup {0},
         limiter' # 0 => ask'[limiter'] = "sleeps" /\ limiter' \notin former
  PROVE  ExplainIInv'
<1> USE DEF ExplainIInv, ExplanationInv
<1> DEFINE a == [request |-> r, told |-> told]
<1>1. UNCHANGED <<pageVars, listVars, debounced, about, former, crossed>>
  BY DEF OnlyWork
<1>2. /\ ask \in [Requests -> {"free", "queued", "limited", "sleeps", "sent", "answered"}]
      /\ answers \in Seq(Answers) /\ a \in Answers /\ a.request = r
  BY DEF ExplainTypeOK, Answers
<1>3. /\ ask' \in [Requests -> {"free", "queued", "limited", "sleeps", "sent", "answered"}]
      /\ ask'[r] # "free" /\ \A q \in Requests \ {r} : ask'[q] = ask[q]
  BY <1>2 DEF Reply
<1>4. \/ answers' = answers /\ ask'[r] # "answered"
      \/ answers' = Append(answers, a) /\ ask'[r] = "answered"
  <2>1. CASE Reply(r, told)
    <3>1. answers' = Append(answers, a) /\ ask' = [ask EXCEPT ![r] = "answered"]
      BY <2>1, Zenon DEF Reply
    <3>. QED
      BY <1>2, <3>1
  <2>2. CASE ~Reply(r, told)
    BY <1>2, <2>2
  <2>. QED
    BY <2>1, <2>2
<1>5. answers' \in Seq(Answers)
  <2> HIDE DEF a
  <2>1. answers \in Seq(Answers) /\ a \in Answers
    BY <1>2
  <2>2. Append(answers, a) \in Seq(Answers)
    BY <2>1, AppendAnswer, Zenon
  <2>3. answers' = answers \/ answers' = Append(answers, a)
    BY <1>4
  <2>. QED
    BY <2>1, <2>2, <2>3, Zenon
<1>6. ExplainTypeOK'
  BY <1>1, <1>3, <1>5 DEF ExplainTypeOK, Answers
<1>7. \A q \in Requests : Underway(q)' <=> Underway(q)
  BY <1>3 DEF Underway
<1>8. RequestsAreWhole'
  <2>1. \A q \in Requests : Underway(q)' <=> about'[q] # NoEvent
    BY <1>1, <1>7 DEF RequestsAreWhole
  <2>2. ~\E i \in DOMAIN answers : answers[i].request = r
    BY DEF RequestsAreWhole
  <2>3. CASE answers' = answers /\ ask'[r] # "answered"
    BY <1>3, <2>1, <2>2, <2>3, <1>1 DEF RequestsAreWhole
  <2>4. CASE answers' = Append(answers, a) /\ ask'[r] = "answered"
    <3>1. /\ DOMAIN answers = 1 .. Len(answers) /\ Len(answers) \in Nat
          /\ DOMAIN answers' = 1 .. Len(answers) + 1
          /\ \A i \in DOMAIN answers : answers'[i] = answers[i]
          /\ answers'[Len(answers) + 1].request = r
      BY <1>2, <2>4, AppendAnswer
    <3>2. \A q \in Requests :
             ask'[q] = "answered" <=> \E i \in DOMAIN answers' : answers'[i].request = q
      <4>1. ASSUME NEW q \in Requests \ {r}
            PROVE  (\E i \in DOMAIN answers' : answers'[i].request = q)
                     <=> \E i \in DOMAIN answers : answers[i].request = q
        BY <3>1
      <4>2. \E i \in DOMAIN answers' : answers'[i].request = r
        BY <3>1
      <4>. QED
        BY <4>1, <4>2, <1>3, <2>4 DEF RequestsAreWhole
    <3>3. \A i, j \in DOMAIN answers' : answers'[i].request = answers'[j].request => i = j
      BY <3>1, <2>2 DEF RequestsAreWhole
    <3>. QED
      BY <2>1, <3>2, <3>3, <1>1 DEF RequestsAreWhole
  <2>. QED
    BY <1>4, <2>3, <2>4
<1>9. ShownIsSelected' /\ ~(aiError /\ aiData # NoEvent)'
  BY <1>1 DEF ShownIsSelected
<1>10. IndexHolds'
  BY <1>1, <1>7 DEF IndexHolds
<1>. QED
  BY <1>6, <1>8, <1>9, <1>10

\* A step of a request that is not in the limiter leaves its lock as it is.
LEMMA LockStays ==
  ASSUME ExplainIInv, NEW r \in Requests, ask[r] \in {"queued", "limited", "sent"},
         UNCHANGED limiter,
         \E to \in {"limited", "sleeps", "answered"} : ask' = [ask EXCEPT ![r] = to]
  PROVE  /\ limiter' \in Requests \cup {0}
         /\ limiter' # 0 => ask'[limiter'] = "sleeps" /\ limiter' \notin former
BY DEF ExplainIInv, ExplanationInv, RequestsAreWhole, ExplainTypeOK

LEMMA WorkerInv ==
  ASSUME ExplainIInv, NEW r \in Requests, Work(r)
  PROVE  ExplainIInv'
<1>1. /\ failures \in 0 .. FailureLimit /\ open \in BOOLEAN
      /\ limiter \in Requests \cup {0}
      /\ ask \in [Requests -> {"free", "queued", "limited", "sleeps", "sent", "answered"}]
      /\ limiter # 0 => ask[limiter] = "sleeps" /\ limiter \notin former
  BY DEF ExplainIInv, ExplanationInv, ExplainTypeOK, RequestsAreWhole
<1>2. OnlyWork
  BY DEF Work, Lookup, Limit, Send, Answered, Refused, Fails
<1>3. CASE Lookup(r)
  <2>1. ask[r] = "queued" /\ UNCHANGED <<failures, open, limiter>>
    BY <1>3 DEF Lookup
  <2>2. \/ Reply(r, TRUE)
        \/ ask' = [ask EXCEPT ![r] = "limited"] /\ UNCHANGED answers
    BY <1>3, Zenon DEF Lookup
  <2>3. /\ limiter' \in Requests \cup {0}
        /\ limiter' # 0 => ask'[limiter'] = "sleeps" /\ limiter' \notin former
    BY <2>1, <2>2, LockStays DEF Reply
  <2>. QED
    BY <1>1, <1>2, <2>1, <2>2, <2>3, ExplainWorkInv
<1>4. CASE Limit(r)
  <2>1. /\ ask[r] = "limited" /\ ask' = [ask EXCEPT ![r] = "sleeps"]
        /\ UNCHANGED <<answers, failures, open>>
        /\ \/ r \notin former /\ limiter' = r
           \/ UNCHANGED limiter
    BY <1>4 DEF Limit, Current
  <2>2. /\ limiter' \in Requests \cup {0}
        /\ limiter' # 0 => ask'[limiter'] = "sleeps" /\ limiter' \notin former
    BY <1>1, <2>1
  <2>. QED
    BY <1>1, <1>2, <2>1, <2>2, ExplainWorkInv
<1>5. CASE Send(r)
  <2>1. /\ ask[r] = "sleeps" /\ ask' = [ask EXCEPT ![r] = "sent"]
        /\ UNCHANGED <<answers, failures, open>>
        /\ limiter' = IF limiter = r THEN 0 ELSE limiter
    BY <1>5 DEF Send
  <2>2. /\ limiter' \in Requests \cup {0}
        /\ limiter' # 0 => ask'[limiter'] = "sleeps" /\ limiter' \notin former
    BY <1>1, <2>1
  <2>. QED
    BY <1>1, <1>2, <2>1, <2>2, ExplainWorkInv
<1>6. CASE Answered(r)
  <2>1. /\ ask[r] = "sent" /\ UNCHANGED <<open, limiter>>
        /\ failures' \in 0 .. FailureLimit
    BY <1>1, <1>6 DEF Answered
  <2>2. PICK told \in BOOLEAN : Reply(r, told)
    BY <1>6 DEF Answered
  <2>3. /\ limiter' \in Requests \cup {0}
        /\ limiter' # 0 => ask'[limiter'] = "sleeps" /\ limiter' \notin former
    BY <2>1, <2>2, LockStays DEF Reply
  <2>. QED
    BY <1>1, <1>2, <2>1, <2>2, <2>3, ExplainWorkInv
<1>7. CASE Refused(r) \/ Fails(r)
  <2>1. ask[r] = "sent" /\ Reply(r, TRUE) /\ UNCHANGED limiter
    BY <1>7 DEF Refused, Fails
  <2>2. failures' \in 0 .. FailureLimit /\ open' \in BOOLEAN
    <3>1. CASE Refused(r)
      BY <1>1, <3>1 DEF Refused
    <3>2. CASE Fails(r) /\ ~Current(r)
      BY <1>1, <3>2 DEF Fails
    <3>3. CASE Fails(r) /\ Current(r)
      <4>1. failures' \in 0 .. FailureLimit
        BY <1>1, <3>3 DEF Fails
      <4>2. open' \in BOOLEAN
        BY <1>1, <3>3 DEF Fails
      <4>. QED
        BY <4>1, <4>2
    <3>. QED
      BY <1>7, <3>1, <3>2, <3>3
  <2>3. /\ limiter' \in Requests \cup {0}
        /\ limiter' # 0 => ask'[limiter'] = "sleeps" /\ limiter' \notin former
    BY <2>1, LockStays DEF Reply
  <2>. QED
    BY <1>2, <2>1, <2>2, <2>3, ExplainWorkInv
<1>. QED
  BY <1>3, <1>4, <1>5, <1>6, <1>7 DEF Work

LEMMA ExplainStepInv ==
  ASSUME ExplainIInv, [ExplainNext]_explainVars
  PROVE  ExplainIInv'
<1>1. CASE UNCHANGED explainVars
  BY <1>1 DEF explainVars, ExplainIInv, ExplanationInv, ExplainTypeOK, RequestsAreWhole,
     ShownIsSelected, IndexHolds, Underway
<1>2. ASSUME NEW i \in 1 .. Len(Log), SelectRow(i) PROVE ExplainIInv'
  BY <1>2, SelectInv
<1>3. ASSUME NEW r \in Requests, Work(r) PROVE ExplainIInv'
  BY <1>3, WorkerInv
<1>. QED
  BY <1>1, <1>2, <1>3, ExplainClickInv, ExplainRefreshInv, ExplainReadInv, ExplainInv, DeliverInv, SaveKeyInv
     DEF ExplainNext

(* Each request has one answer and only one holds the limiter's lock; the   *)
(* page shows an explanation of the event selected unless a selection or a  *)
(* new list crossed the request, and never an explanation and an error: for *)
(* any log and any number of requests.                                      *)
THEOREM ExplanationInvariant == ExplainSpec => []ExplanationInv
<1>1. ExplainIInv => ExplanationInv
  BY DEF ExplainIInv
<1>. QED
  BY <1>1, ExplainInitInv, ExplainStepInv, PTL DEF ExplainSpec

\* No step of the event page lets a request through an open breaker.
LEMMA BreakerStep == ExplainIInv /\ [ExplainNext]_explainVars => [DrainsOnly]_explainVars
<1> SUFFICES ASSUME ExplainIInv, ExplainNext, open
             PROVE  InFlight' \subseteq InFlight
  BY DEF DrainsOnly
<1>1. ask \in [Requests -> {"free", "queued", "limited", "sleeps", "sent", "answered"}]
  BY DEF ExplainIInv, ExplanationInv, ExplainTypeOK
<1>2. ASSUME UNCHANGED <<ask, former>>
      PROVE  InFlight' \subseteq InFlight
  BY <1>2 DEF InFlight
<1>3. CASE Deliver
  BY <1>1, <1>3 DEF Deliver, InFlight
<1>4. CASE Explain
  BY <1>2, <1>4 DEF Explain, Available
<1>5. CASE SaveKey
  BY <1>5 DEF SaveKey, InFlight
<1>6. ASSUME NEW r \in Requests, Work(r)
      PROVE  InFlight' \subseteq InFlight
  <2>1. former' = former
    BY <1>6 DEF Work, Lookup, Limit, Send, Answered, Refused, Fails, OnlyWork
  <2>2. \A q \in Requests : ask'[q] \in {"limited", "sleeps", "sent"}
                            => ask[q] \in {"limited", "sleeps", "sent"}
    BY <1>1, <1>6 DEF Work, Lookup, Limit, Send, Answered, Refused, Fails, Reply, Available
  <2>. QED
    BY <2>1, <2>2 DEF InFlight
<1>7. CASE (\E i \in 1 .. Len(Log) : SelectRow(i)) \/ ClickExplain \/ ClickRefresh
           \/ ReadLog \/ ShowLog
  BY <1>2, <1>7 DEF SelectRow, ClickExplain, ClickRefresh, ReadLog, ShowLog
<1>. QED
  BY <1>3, <1>4, <1>5, <1>6, <1>7 DEF ExplainNext

(* While the provider's breaker is open no request joins those already on    *)
(* their way to it: not one queued before it opened, nor one asked for       *)
(* since, however the pool threads interleave (groq.py).                     *)
THEOREM BreakerOnlyDrains == ExplainSpec => BreakerDrains
  BY BreakerStep, ExplainInitInv, ExplainStepInv, PTL DEF ExplainSpec, BreakerDrains

------------------------------------------------------------------------------
HIDE ExplanationBounds
HIDE DEF pageVars, listVars, askVars, groqVars

(* Induction over data.  What a recursive function computes is proved by the *)
(* least counterexample: intervals of naturals that end at a counterexample  *)
(* have a smallest one, inclusion of finite sets being well-founded.         *)

LEMMA Smallest ==
  ASSUME NEW T \in SUBSET Nat, T # {}
  PROVE  \E x \in T : \A y \in T : x <= y
<1> DEFINE R == StrictSubsetOrdering(Nat)
           W == {0 .. n : n \in T}
<1>1. IsWellFoundedOn(R, FiniteSubsetsOf(Nat))
  BY FS_StrictSubsetOrderingWellFounded
<1>2. W \subseteq FiniteSubsetsOf(Nat) /\ W # {}
  <2>1. \A n \in T : IsFiniteSet(0 .. n) /\ 0 .. n \subseteq Nat
    BY FS_Interval
  <2>. QED
    BY <2>1 DEF FiniteSubsetsOf
<1>3. PICK w \in W : \A v \in W : ~(<<v, w>> \in R)
  <2> HIDE DEF R, W
  <2>. QED
    BY <1>1, <1>2, WFMin
<1>4. PICK x \in T : w = 0 .. x
  BY <1>3
<1>5. ASSUME NEW y \in T, y < x PROVE FALSE
  <2>1. 0 .. y \subseteq 0 .. x /\ x \in 0 .. x /\ x \notin 0 .. y
    BY <1>5
  <2>2. <<0 .. y, 0 .. x>> \in R
    BY <2>1 DEF StrictSubsetOrdering
  <2>. QED
    BY <1>3, <1>4, <2>2
<1>. QED
  BY <1>5

LEMMA Greatest ==
  ASSUME NEW n \in Nat, NEW T \in SUBSET (0 .. n), T # {}
  PROVE  \E x \in T : \A y \in T : y <= x
<1> DEFINE U == {n - x : x \in T}
<1>1. U \in SUBSET Nat /\ U # {}
  <2>1. \A x \in T : n - x \in Nat
    OBVIOUS
  <2>2. PICK x \in T : TRUE
    OBVIOUS
  <2>3. n - x \in U
    BY <2>2
  <2>. QED
    BY <2>1, <2>3
<1>2. PICK u \in U : \A v \in U : u <= v
  <2> HIDE DEF U
  <2>. QED
    BY <1>1, Smallest
<1>3. PICK x \in T : u = n - x
  BY <1>2
<1>4. ASSUME NEW y \in T PROVE y <= x
  <2>1. n - y \in U /\ n - x <= n - y
    BY <1>2, <1>3
  <2>. QED
    BY <2>1
<1>. QED
  BY <1>4

LEMMA FindEndLies ==
  ASSUME NEW s, Len(s) \in Nat, NEW i \in 1 .. Len(s), HeaderAt(s, i)
  PROVE  FindEnd(s, i) \in i + 2 .. Len(s) + 1
<1> DEFINE footers == {j \in i + 2 .. Len(s) : s[j] = "z"}
<1>1. CASE footers = {}
  BY <1>1 DEF FindEnd, HeaderAt
<1>2. CASE footers # {}
  <2>1. footers \in SUBSET Nat
    OBVIOUS
  <2>2. \E j \in footers : \A k \in footers : j <= k
    <3> HIDE DEF footers
    <3>. QED
      BY <1>2, <2>1, Smallest
  <2>3. (CHOOSE j \in footers : \A k \in footers : j <= k) \in footers
    BY <2>2
  <2>4. FindEnd(s, i) = 1 + CHOOSE j \in footers : \A k \in footers : j <= k
    BY <1>2 DEF FindEnd
  <2>. QED
    BY <2>3, <2>4
<1>. QED
  BY <1>1, <1>2

\* Both recursive functions walk over a list of n places: at place i an item
\* is taken or not, and the walk goes on at next[i], behind i.
Step(n, take, item, next, f, i) ==
    IF i > n THEN <<>>
    ELSE IF take[i] THEN <<item[i]>> \o f[next[i]] ELSE f[next[i]]
IsWalk(n, take, item, next, f, m) ==
    f = [i \in m .. n + 1 |-> Step(n, take, item, next, f, i)]

\* The walk from some place exists: the one from the last place is extended
\* place by place to the first.
LEMMA WalkExists ==
  ASSUME NEW n \in Nat, NEW take, NEW item, NEW next,
         \A i \in 1 .. n : next[i] \in i + 1 .. n + 1
  PROVE  \E f : IsWalk(n, take, item, next, f, 1)
<1> DEFINE Has(k) == \E f : IsWalk(n, take, item, next, f, k)
           Lacks == {k \in 1 .. n + 1 : ~Has(k)}
<1>1. ASSUME Lacks # {} PROVE FALSE
  <2>1. PICK k \in Lacks : \A j \in Lacks : j <= k
    <3>1. Lacks \in SUBSET (0 .. n + 1) /\ n + 1 \in Nat
      OBVIOUS
    <3> HIDE DEF Lacks
    <3>. QED
      BY <1>1, <3>1, Greatest
  <2>2. k \in 1 .. n + 1 /\ ~Has(k)
    BY <2>1
  <2>3. CASE k = n + 1
    <3> DEFINE g == [i \in n + 1 .. n + 1 |-> <<>>]
    <3>1. g = [i \in n + 1 .. n + 1 |-> Step(n, take, item, next, g, i)]
      BY DEF Step
    <3>. QED
      BY <2>2, <2>3, <3>1 DEF IsWalk
  <2>4. CASE k < n + 1
    <3>1. k + 1 \in 1 .. n + 1 /\ k + 1 \notin Lacks
      BY <2>1, <2>2, <2>4
    <3>2. PICK f : IsWalk(n, take, item, next, f, k + 1)
      BY <3>1
    <3> DEFINE g == [i \in k .. n + 1 |->
                       IF i = k THEN Step(n, take, item, next, f, k) ELSE f[i]]
    <3>3. \A j \in k + 1 .. n + 1 : g[j] = f[j]
      BY <2>2
    <3>4. ASSUME NEW i \in k .. n + 1
          PROVE  Step(n, take, item, next, g, i) = Step(n, take, item, next, f, i)
      <4>1. i <= n => next[i] \in k + 1 .. n + 1
        BY <2>2
      <4>. QED
        BY <2>2, <3>3, <4>1 DEF Step
    <3>5. ASSUME NEW i \in k .. n + 1 PROVE g[i] = Step(n, take, item, next, f, i)
      <4>1. CASE i = k
        BY <4>1
      <4>2. CASE i # k
        <5>1. i \in k + 1 .. n + 1
          BY <2>2, <4>2
        <5>. QED
          BY <3>2, <3>3, <5>1 DEF IsWalk
      <4>. QED
        BY <4>1, <4>2
    <3>6. g = [i \in k .. n + 1 |-> g[i]]
      OBVIOUS
    <3>7. IsWalk(n, take, item, next, g, k)
      <4> HIDE DEF g
      <4>. QED
        BY <3>4, <3>5, <3>6 DEF IsWalk
    <3>. QED
      BY <2>2, <3>7
  <2>. QED
    BY <2>2, <2>3, <2>4
<1>. QED
  <2>1. 1 \in 1 .. n + 1
    OBVIOUS
  <2>. QED
    BY <1>1, <2>1

\* What a walk finds from place m, at the places g names.
Walked(n, take, item, next, found_, m) ==
    \E g \in [DOMAIN found_ -> m .. n] :
       /\ \A k \in DOMAIN found_ : take[g[k]] /\ found_[k] = item[g[k]]
       /\ \A k, l \in DOMAIN found_ : k < l => g[k] < g[l]
       /\ \A i \in m .. n : take[i] => \E k \in DOMAIN found_ : g[k] <= i /\ i < next[g[k]]

LEMMA OneBefore ==
  ASSUME NEW X, NEW x \in X, NEW rest \in Seq(X), NEW s, s = <<x>> \o rest
  PROVE  /\ s \in Seq(X) /\ s[1] = x
         /\ DOMAIN rest = 1 .. Len(rest) /\ Len(rest) \in Nat
         /\ DOMAIN s = 1 .. Len(rest) + 1
         /\ \A k \in DOMAIN rest : s[k + 1] = rest[k]
         /\ \A k \in DOMAIN s : k = 1 \/ (k - 1 \in DOMAIN rest /\ s[k] = rest[k - 1])
OBVIOUS

LEMMA WalkFinds ==
  ASSUME NEW n \in Nat, NEW take, NEW item, NEW next, NEW X, NEW f,
         \A i \in 1 .. n : /\ next[i] \in i + 1 .. n + 1 /\ item[i] \in X
                           /\ ~take[i] => next[i] = i + 1,
         IsWalk(n, take, item, next, f, 1)
  PROVE  f[1] \in Seq(X) /\ Walked(n, take, item, next, f[1], 1)
<1> DEFINE Good(m) == f[m] \in Seq(X) /\ Walked(n, take, item, next, f[m], m)
           Lacks == {m \in 1 .. n + 1 : ~Good(m)}
<1>0. \A i \in 1 .. n + 1 : f[i] = Step(n, take, item, next, f, i)
  BY DEF IsWalk
<1>1. ASSUME Lacks # {} PROVE FALSE
  <2>1. PICK m \in Lacks : \A j \in Lacks : j <= m
    <3>1. Lacks \in SUBSET (0 .. n + 1) /\ n + 1 \in Nat
      OBVIOUS
    <3> HIDE DEF Lacks
    <3>. QED
      BY <1>1, <3>1, Greatest
  <2>2. m \in 1 .. n + 1 /\ ~Good(m)
    BY <2>1
  <2>5. f[m] = Step(n, take, item, next, f, m)
    BY <1>0, <2>2
  <2>6. \A j \in 1 .. n + 1 : j > m => Good(j)
    BY <2>1, <2>2
  <2> HIDE DEF Lacks, Good
  <2>3. CASE m = n + 1
    <3>1. f[m] = <<>>
      BY <2>2, <2>3, <2>5 DEF Step
    <3>2. DOMAIN f[m] = {} /\ m .. n = {}
      BY <2>3, <3>1
    <3>3. [k \in {} |-> 0] \in [DOMAIN f[m] -> m .. n]
      BY <3>2
    <3>4. Walked(n, take, item, next, f[m], m)
      BY <3>2, <3>3 DEF Walked
    <3>. QED
      BY <2>2, <3>1, <3>4 DEF Good
  <2>4. CASE m <= n
    <3>0. PICK p, rest : p = next[m] /\ rest = f[p]
      OBVIOUS
    <3>1. /\ m \in 1 .. n /\ p \in m + 1 .. n + 1 /\ item[m] \in X
          /\ ~take[m] => p = m + 1
      BY <2>2, <2>4, <3>0
    <3>2. rest \in Seq(X) /\ Walked(n, take, item, next, rest, p)
      <4>1. p \in 1 .. n + 1 /\ p > m
        BY <3>1
      <4>. QED
        BY <2>6, <3>0, <4>1 DEF Good
    <3>3. PICK g \in [DOMAIN rest -> p .. n] :
             /\ \A k \in DOMAIN rest : take[g[k]] /\ rest[k] = item[g[k]]
             /\ \A k, l \in DOMAIN rest : k < l => g[k] < g[l]
             /\ \A i \in p .. n : take[i] => \E k \in DOMAIN rest : g[k] <= i /\ i < next[g[k]]
      BY <3>2 DEF Walked
    <3>4. CASE ~take[m]
      <4>1. f[m] = rest /\ p = m + 1
        BY <2>5, <3>0, <3>1, <3>4 DEF Step
      <4>2. g \in [DOMAIN rest -> m .. n]
        BY <3>1, <3>3
      <4>3. \A i \in m .. n : take[i] => i \in p .. n
        BY <3>4, <4>1, <3>1
      <4>4. Walked(n, take, item, next, f[m], m)
        BY <3>3, <4>1, <4>2, <4>3 DEF Walked
      <4>. QED
        BY <2>2, <3>2, <4>1, <4>4 DEF Good
    <3>5. CASE take[m]
      <4>1. f[m] = <<item[m]>> \o rest
        BY <2>5, <3>0, <3>1, <3>5 DEF Step
      <4>2. /\ f[m] \in Seq(X) /\ f[m][1] = item[m]
            /\ DOMAIN rest = 1 .. Len(rest) /\ Len(rest) \in Nat
            /\ DOMAIN f[m] = 1 .. Len(rest) + 1
            /\ \A k \in DOMAIN rest : f[m][k + 1] = rest[k]
            /\ \A k \in DOMAIN f[m] : k = 1 \/ (k - 1 \in DOMAIN rest /\ f[m][k] = rest[k - 1])
        <5>1. item[m] \in X /\ rest \in Seq(X)
          BY <3>1, <3>2
        <5>. QED
          BY ONLY <5>1, <4>1, OneBefore
      <4> DEFINE h == [k \in DOMAIN f[m] |-> IF k = 1 THEN m ELSE g[k - 1]]
      <4>3. \A k \in DOMAIN f[m] : k = 1 \/ k - 1 \in DOMAIN rest
        BY <4>2
      <4>4. h \in [DOMAIN f[m] -> m .. n]
        <5>1. \A k \in DOMAIN f[m] : h[k] \in m .. n
          BY <3>1, <3>3, <4>3
        <5>. QED
          BY <5>1
      <4>5. \A k \in DOMAIN f[m] : take[h[k]] /\ f[m][k] = item[h[k]]
        <5> SUFFICES ASSUME NEW k \in DOMAIN f[m]
                     PROVE  take[h[k]] /\ f[m][k] = item[h[k]]
          OBVIOUS
        <5>1. CASE k = 1
          BY <3>5, <4>2, <5>1
        <5>2. CASE k # 1
          <6>1. k - 1 \in DOMAIN rest /\ h[k] = g[k - 1] /\ f[m][k] = rest[k - 1]
            BY <4>2, <5>2
          <6>. QED
            BY <3>3, <6>1
        <5>. QED
          BY <5>1, <5>2
      <4>6. \A k, l \in DOMAIN f[m] : k < l => h[k] < h[l]
        <5> SUFFICES ASSUME NEW k \in DOMAIN f[m], NEW l \in DOMAIN f[m], k < l
                     PROVE  h[k] < h[l]
          OBVIOUS
        <5>1. l - 1 \in DOMAIN rest /\ h[l] = g[l - 1] /\ g[l - 1] \in p .. n
          BY <3>3, <4>2, <4>3
        <5>2. CASE k = 1
          BY <3>1, <4>2, <5>1, <5>2
        <5>3. CASE k # 1
          <6>1. k - 1 \in DOMAIN rest /\ h[k] = g[k - 1] /\ k - 1 < l - 1
            BY <4>2, <4>3, <5>3
          <6>. QED
            BY <3>3, <5>1, <6>1
        <5>. QED
          BY <5>2, <5>3
      <4>7. \A i \in m .. n : take[i] =>
                \E k \in DOMAIN f[m] : h[k] <= i /\ i < next[h[k]]
        <5> SUFFICES ASSUME NEW i \in m .. n, take[i]
                     PROVE  \E k \in DOMAIN f[m] : h[k] <= i /\ i < next[h[k]]
          OBVIOUS
        <5>1. CASE i < p
          <6>1. 1 \in DOMAIN f[m] /\ h[1] = m
            BY <4>2
          <6>. QED
            BY <3>0, <3>1, <5>1, <6>1
        <5>2. CASE i >= p
          <6>1. PICK k \in DOMAIN rest : g[k] <= i /\ i < next[g[k]]
            BY <3>1, <3>3, <5>2
          <6>2. k + 1 \in DOMAIN f[m] /\ k + 1 # 1 /\ (k + 1) - 1 = k
            BY <4>2
          <6>3. h[k + 1] = g[k]
            BY <6>2
          <6>. QED
            BY <6>1, <6>2, <6>3
        <5>. QED
          BY <3>1, <5>1, <5>2
      <4>8. Walked(n, take, item, next, f[m], m)
        <5> HIDE DEF h
        <5>. QED
          BY <4>4, <4>5, <4>6, <4>7 DEF Walked
      <4>. QED
        BY <2>2, <4>2, <4>8 DEF Good
    <3>. QED
      BY <3>4, <3>5
  <2>. QED
    BY <2>2, <2>3, <2>4
<1>2. 1 \in 1 .. n + 1
  OBVIOUS
<1>3. Good(1)
  BY <1>1, <1>2
<1>. QED
  BY <1>3

\* The search of a buffer finds only headers, and what it finds covers each.
LEMMA SearchFinds ==
  ASSUME NEW s, Len(s) \in Nat
  PROVE  /\ Search(s) \in Seq(Nat \X Nat)
         /\ \A k \in DOMAIN Search(s) :
               /\ Search(s)[k][1] \in 1 .. Len(s) /\ HeaderAt(s, Search(s)[k][1])
               /\ Search(s)[k][2] \in Search(s)[k][1] + 1 .. Len(s) + 1
         /\ \A i \in 1 .. Len(s) : HeaderAt(s, i) =>
               \E k \in DOMAIN Search(s) : Search(s)[k][1] <= i /\ i < Search(s)[k][2]
<1> DEFINE n == Len(s)
           take == [i \in 1 .. n |-> HeaderAt(s, i)]
           item == [i \in 1 .. n |-> IF HeaderAt(s, i) THEN <<i, FindEnd(s, i)>> ELSE <<1, 1>>]
           next == [i \in 1 .. n |-> IF HeaderAt(s, i) THEN FindEnd(s, i) ELSE i + 1]
           At(f, i) == IF i > Len(s) THEN <<>>
                       ELSE IF HeaderAt(s, i) THEN <<<<i, FindEnd(s, i)>>>> \o f[FindEnd(s, i)]
                            ELSE f[i + 1]
           from == CHOOSE f : f = [i \in 1 .. Len(s) + 1 |-> At(f, i)]
<1>1. ASSUME NEW i \in 1 .. n
      PROVE  /\ next[i] \in i + 1 .. n + 1 /\ item[i] \in Nat \X Nat
             /\ ~take[i] => next[i] = i + 1
             /\ take[i] => /\ HeaderAt(s, i) /\ item[i][1] = i /\ item[i][2] = next[i]
             /\ HeaderAt(s, i) => take[i]
  <2>1. HeaderAt(s, i) => FindEnd(s, i) \in i + 2 .. n + 1
    BY FindEndLies
  <2>. QED
    BY <2>1
<1>2. ASSUME NEW f, NEW i \in 1 .. n + 1
      PROVE  Step(n, take, item, next, f, i) = At(f, i)
  <2>1. CASE i > n
    BY <2>1 DEF Step
  <2>2. CASE i \in 1 .. n
    BY <2>2 DEF Step
  <2>. QED
    BY <2>1, <2>2
<1>3. ASSUME NEW f
      PROVE  IsWalk(n, take, item, next, f, 1) <=> f = [i \in 1 .. n + 1 |-> At(f, i)]
  <2> HIDE DEF take, item, next, At
  <2>. QED
    BY <1>2 DEF IsWalk
<1>4. IsWalk(n, take, item, next, from, 1)
  <2>1. \E f : IsWalk(n, take, item, next, f, 1)
    <3> HIDE DEF take, item, next
    <3>. QED
      BY <1>1, WalkExists
  <2>2. \E f : f = [i \in 1 .. Len(s) + 1 |-> At(f, i)]
    <3> HIDE DEF take, item, next, At
    <3>. QED
      BY <1>3, <2>1
  <2>3. from = [i \in 1 .. Len(s) + 1 |-> At(from, i)]
    <3> HIDE DEF At
    <3>. QED
      BY <2>2
  <2> HIDE DEF take, item, next, At, from
  <2>. QED
    BY <1>3, <2>3
<1>5. Search(s) = from[1]
  BY DEF Search
<1> HIDE DEF take, item, next, from
<1>6. from[1] \in Seq(Nat \X Nat) /\ Walked(n, take, item, next, from[1], 1)
  <2>1. \A i \in 1 .. n : /\ next[i] \in i + 1 .. n + 1 /\ item[i] \in Nat \X Nat
                          /\ ~take[i] => next[i] = i + 1
    BY <1>1
  <2>2. n \in Nat
    OBVIOUS
  <2> HIDE DEF n
  <2>3. PICK X : X = Nat \X Nat
    OBVIOUS
  <2>4. \A i \in 1 .. n : /\ next[i] \in i + 1 .. n + 1 /\ item[i] \in X
                          /\ ~take[i] => next[i] = i + 1
    BY ONLY <2>1, <2>3
  <2>5. from[1] \in Seq(X) /\ Walked(n, take, item, next, from[1], 1)
    BY ONLY <1>4, <2>2, <2>4, WalkFinds
  <2>. QED
    BY ONLY <2>3, <2>5
<1>7. PICK g \in [DOMAIN from[1] -> 1 .. n] :
          /\ \A k \in DOMAIN from[1] : take[g[k]] /\ from[1][k] = item[g[k]]
          /\ \A i \in 1 .. n : take[i] =>
                \E k \in DOMAIN from[1] : g[k] <= i /\ i < next[g[k]]
  BY <1>6 DEF Walked
<1>8. ASSUME NEW k \in DOMAIN from[1]
      PROVE  /\ g[k] \in 1 .. n /\ from[1][k][1] = g[k] /\ from[1][k][2] = next[g[k]]
             /\ HeaderAt(s, g[k]) /\ next[g[k]] \in g[k] + 1 .. n + 1
  <2>1. g[k] \in 1 .. n /\ take[g[k]] /\ from[1][k] = item[g[k]]
    BY <1>7
  <2>. QED
    BY <1>1, <2>1
<1>9. \A k \in DOMAIN Search(s) :
          /\ Search(s)[k][1] \in 1 .. Len(s) /\ HeaderAt(s, Search(s)[k][1])
          /\ Search(s)[k][2] \in Search(s)[k][1] + 1 .. Len(s) + 1
  BY <1>5, <1>8
<1>10. \A i \in 1 .. Len(s) : HeaderAt(s, i) =>
          \E k \in DOMAIN Search(s) : Search(s)[k][1] <= i /\ i < Search(s)[k][2]
  BY SMTT(30), <1>1, <1>5, <1>7, <1>8
<1>. QED
  BY <1>5, <1>6, <1>9, <1>10

\* A selection of a list holds only candidates of it that were picked.
LEMMA SelectedAreListed ==
  ASSUME NEW X, NEW list \in Seq(X), NEW ids
  PROVE  /\ Selected(list, ids) \in Seq(X)
         /\ \A k \in DOMAIN Selected(list, ids) : \E i \in DOMAIN list :
               Selected(list, ids)[k] = list[i] /\ list[i].id \in ids
<1> DEFINE n == Len(list)
           take == [i \in 1 .. n |-> list[i].id \in ids]
           next == [i \in 1 .. n |-> i + 1]
           At(f, i) == IF i > Len(list) THEN <<>>
                       ELSE IF list[i].id \in ids THEN <<list[i]>> \o f[i + 1] ELSE f[i + 1]
           from == CHOOSE f : f = [i \in 1 .. Len(list) + 1 |-> At(f, i)]
<1>0. n \in Nat /\ DOMAIN list = 1 .. n
  OBVIOUS
<1>1. ASSUME NEW i \in 1 .. n
      PROVE  /\ next[i] \in i + 1 .. n + 1 /\ list[i] \in X
             /\ ~take[i] => next[i] = i + 1
             /\ take[i] => list[i].id \in ids
  <2>1. list[i] \in X
    BY <1>0
  <2>2. next[i] = i + 1 /\ i + 1 \in i + 1 .. n + 1
    BY <1>0
  <2>3. take[i] = (list[i].id \in ids)
    BY Zenon
  <2>. QED
    BY <2>1, <2>2, <2>3
<1>2. ASSUME NEW f, NEW i \in 1 .. n + 1
      PROVE  Step(n, take, list, next, f, i) = At(f, i)
  <2>1. CASE i > n
    BY <2>1 DEF Step
  <2>2. CASE i \in 1 .. n
    BY <1>0, <2>2 DEF Step
  <2>. QED
    BY <1>0, <2>1, <2>2
<1>3. ASSUME NEW f
      PROVE  IsWalk(n, take, list, next, f, 1) <=> f = [i \in 1 .. n + 1 |-> At(f, i)]
  <2> HIDE DEF take, next, At
  <2>. QED
    BY <1>2 DEF IsWalk
<1>4. IsWalk(n, take, list, next, from, 1)
  <2>1. \E f : IsWalk(n, take, list, next, f, 1)
    <3> HIDE DEF take, next, n
    <3>. QED
      BY <1>0, <1>1, WalkExists
  <2>2. \E f : f = [i \in 1 .. Len(list) + 1 |-> At(f, i)]
    <3> HIDE DEF take, next, At
    <3>. QED
      BY <1>3, <2>1
  <2>3. from = [i \in 1 .. Len(list) + 1 |-> At(from, i)]
    <3> HIDE DEF At
    <3>. QED
      BY <2>2
  <2> HIDE DEF take, next, At, from
  <2>. QED
    BY <1>3, <2>3
<1>5. Selected(list, ids) = from[1]
  BY DEF Selected
<1>6. from[1] \in Seq(X) /\ Walked(n, take, list, next, from[1], 1)
  <2> HIDE DEF take, next, from, n
  <2>. QED
    BY <1>0, <1>1, <1>4, WalkFinds
<1>7. PICK g \in [DOMAIN from[1] -> 1 .. n] :
          \A k \in DOMAIN from[1] : take[g[k]] /\ from[1][k] = list[g[k]]
  <2> HIDE DEF take, next, from, n
  <2>. QED
    BY <1>6 DEF Walked
<1> HIDE DEF take, next, from, n
<1>8. ASSUME NEW k \in DOMAIN from[1]
      PROVE  \E i \in DOMAIN list : from[1][k] = list[i] /\ list[i].id \in ids
  <2>1. g[k] \in 1 .. n /\ take[g[k]] /\ from[1][k] = list[g[k]]
    BY <1>7
  <2>. QED
    BY <1>0, <1>1, <2>1
<1>. QED
  BY <1>5, <1>6, <1>8

------------------------------------------------------------------------------
(* The recovery tab. *)

IsLast(i) == i = Len(scanPosts)
Kept(list) == \A k \in DOMAIN list : \E i \in DOMAIN found : list[k] = found[i]
Single(list) == \A i, k \in DOMAIN list : list[i].id = list[k].id => i = k
Apart(a, b) == \A i \in DOMAIN a, k \in DOMAIN b : a[i].id # b[k].id

PostTypeOK ==
    /\ device \in Devices /\ bad \in Faults /\ scans \in Nat
    /\ leftover \in Seq({"a", "b", "x", "z"})
    /\ scanPosts \in Seq([kind : {"batch", "done", "error"}, list : Seq(Candidates)])
    /\ recoverPosts \in Seq({"error", "finished"})

\* What was left over of the chunk before are the cells before the position,
\* unless a chunk was skipped; it is there if the chunk before could be read.
LeftoverHolds ==
    /\ \E m \in 0 .. position : position = m * Chunk
    /\ Len(leftover) <= position
    /\ position <= Len(device) /\ ~gap =>
          \A i \in DOMAIN leftover : leftover[i] = device[position - Len(leftover) + i]
    /\ 0 < position /\ position <= Len(device) /\ Readable(position) =>
          ~gap /\ leftover # <<>>

\* No header before the position is missed.
NoneBefore ==
    \A i \in DOMAIN device :
        HeaderAt(device, i) /\ i + 1 <= position /\ Readable(i) /\ Readable(i + 1) =>
            \E k \in DOMAIN found : found[k].start <= i - 1 /\ i - 1 < found[k].behind

FoundInOrder == \A k \in DOMAIN found : found[k].id = k - 1

\* In the posts of batches, in a list shown and in a batch each id is once.
Parted(posts, shown, b) ==
    /\ Single(b) /\ Apart(shown, b)
    /\ \A i \in DOMAIN posts : posts[i].kind = "batch" =>
          /\ Single(posts[i].list) /\ Apart(posts[i].list, shown) /\ Apart(posts[i].list, b)
          /\ \A j \in DOMAIN posts : j # i /\ posts[j].kind = "batch" =>
                Apart(posts[i].list, posts[j].list)

\* The candidates of a scan on their way to the page: in the batch, in posts
\* and at the controller each is once, and the last post has them all.
StreamHolds ==
    /\ Kept(batch) /\ Single(batch)
    /\ scanning =>
          /\ Kept(candidates) /\ Parted(scanPosts, candidates, batch)
          /\ scanAt # "reads" =>
                scanPosts # <<>> /\ scanPosts[Len(scanPosts)].kind # "batch"
    /\ ~scanning => scanPosts = <<>> /\ scanAt # "reads"
    /\ \A i \in DOMAIN scanPosts :
          /\ Kept(scanPosts[i].list)
          /\ scanPosts[i].kind # "batch" => IsLast(i) /\ scanAt # "reads"
          /\ scanPosts[i].kind = "done" => scanPosts[i].list = found

\* Copies are of scans up to the present one, none later than what is still to
\* be copied; what has the same id and scan is the same.
CopiesHold ==
    /\ \A k \in DOMAIN found : found[k].scan = scans
    /\ \A k \in DOMAIN candidates : candidates[k].scan = scans
    /\ \A k \in DOMAIN work :
          /\ work[k].scan <= scans
          /\ work[k].scan = scans => \E i \in DOMAIN candidates : candidates[i] = work[k]
          /\ \A l \in DOMAIN work : work[l].id = work[k].id => work[l] = work[k]
          /\ \A l \in DOMAIN work : work[l].scan = work[k].scan
    /\ \A c \in copies :
          /\ c.scan <= scans
          /\ c.scan = scans => \E i \in DOMAIN candidates : candidates[i] = c
          /\ \A k \in DOMAIN work : /\ c.scan <= work[k].scan
                                    /\ c.scan = work[k].scan /\ c.id = work[k].id => c = work[k]

CopyIsHeard == recovering /\ recoverAt = "over" => recoverPosts # <<>>

RecoveryIInv ==
    /\ RecoveryTypeOK /\ PostTypeOK /\ HeadersAreReal /\ RowsAreHeld
    /\ RecoveryWaitsAreFounded /\ LeftoverHolds /\ NoneBefore /\ FoundInOrder
    /\ StreamHolds /\ CopiesHold /\ CopyIsHeard

USE RecoveryBounds

Cells == {"a", "b", "x", "z"}

LEMMA InChunk ==
  ASSUME NEW m \in Nat, NEW x \in Nat, m * Chunk <= x, x < m * Chunk + Chunk
  PROVE  x \div Chunk = m
<1>1. Chunk \in Nat \ {0}
  OBVIOUS
<1>2. PICK q \in Nat : q = x \div Chunk
  BY <1>1
<1>3. q * Chunk <= x /\ x < q * Chunk + Chunk
  BY <1>1, <1>2
<1>4. ASSUME q < m PROVE FALSE
  <2>1. PICK d \in Nat : m = q + 1 + d
    <3>1. m = q + 1 + (m - q - 1) /\ m - q - 1 \in Nat
      BY <1>2, <1>4
    <3>. QED
      BY <3>1
  <2>2. m * Chunk = q * Chunk + Chunk + d * Chunk /\ d * Chunk >= 0
    BY <1>1, <1>2, <2>1
  <2>. QED
    BY <1>1, <1>3, <2>2
<1>5. ASSUME q > m PROVE FALSE
  <2>1. PICK d \in Nat : q = m + 1 + d
    <3>1. q = m + 1 + (q - m - 1) /\ q - m - 1 \in Nat
      BY <1>2, <1>5
    <3>. QED
      BY <3>1
  <2>2. q * Chunk = m * Chunk + Chunk + d * Chunk /\ d * Chunk >= 0
    BY <1>1, <1>2, <2>1
  <2>. QED
    BY <1>1, <1>3, <2>2
<1>. QED
  BY <1>2, <1>4, <1>5

LEMMA ChunkEnds ==
  ASSUME position \in Nat, Len(device) \in Nat, position < Len(device)
  PROVE  /\ ChunkEnd \in position + 1 .. position + Chunk /\ ChunkEnd <= Len(device)
         /\ position + Chunk <= Len(device) => ChunkEnd = position + Chunk
BY DEF ChunkEnd

\* A buffer: what was left over, and behind it the cells of the chunk.
LEMMA BufferHolds ==
  ASSUME RecoveryTypeOK, PostTypeOK, LeftoverHolds, ~AtEnd,
         NEW buf, buf = leftover \o SubSeq(device, position + 1, ChunkEnd)
  PROVE  /\ buf \in Seq(Cells) /\ Len(leftover) \in Nat /\ Len(device) \in Nat
         /\ device \in Seq(Cells)
         /\ ChunkEnd \in position + 1 .. position + Chunk /\ ChunkEnd <= Len(device)
         /\ position + Chunk <= Len(device) => ChunkEnd = position + Chunk
         /\ Len(buf) = Len(leftover) + (ChunkEnd - position)
         /\ \A i \in position + 1 .. ChunkEnd : buf[Len(leftover) + (i - position)] = device[i]
         /\ \A i \in 1 .. Len(leftover) : buf[i] = leftover[i]
         /\ ~gap => \A b \in 1 .. Len(buf) : buf[b] = device[position - Len(leftover) + b]
<1> DEFINE L == Len(leftover)
           chunk == SubSeq(device, position + 1, ChunkEnd)
<1>1. /\ position \in Nat /\ Chunk \in Nat \ {0} /\ L \in Nat /\ L <= position
      /\ leftover \in Seq(Cells) /\ device \in Seq(Cells) /\ Len(device) \in Nat
      /\ position < Len(device)
  <2>1. position \in Nat /\ device \in Seq(Cells) /\ leftover \in Seq(Cells)
    BY DEF RecoveryTypeOK, PostTypeOK, Cells
  <2>2. L \in Nat /\ Len(device) \in Nat /\ Chunk \in Nat \ {0}
    BY <2>1
  <2>3. L <= position
    BY DEF LeftoverHolds
  <2>4. ~(position >= Len(device))
    BY DEF AtEnd
  <2>. QED
    BY <2>1, <2>2, <2>3, <2>4
<1>2. /\ ChunkEnd \in position + 1 .. position + Chunk /\ ChunkEnd <= Len(device)
      /\ position + Chunk <= Len(device) => ChunkEnd = position + Chunk
  BY ONLY <1>1, ChunkEnds
<1>3. /\ chunk \in Seq(Cells) /\ Len(chunk) = ChunkEnd - position
      /\ \A j \in 1 .. Len(chunk) : chunk[j] = device[position + j]
  <2>1. position + 1 \in 1 .. Len(device) + 1 /\ ChunkEnd \in position .. Len(device)
    BY <1>1, <1>2
  <2>2. \A i \in position + 1 .. ChunkEnd : i \in DOMAIN device /\ device[i] \in Cells
    BY <1>1, <1>2
  <2>. QED
    BY <1>1, <1>2, <2>1, <2>2
<1>4. /\ buf \in Seq(Cells) /\ Len(buf) = L + Len(chunk)
      /\ \A i \in 1 .. L : buf[i] = leftover[i]
      /\ \A j \in 1 .. Len(chunk) : buf[L + j] = chunk[j]
  <2> HIDE DEF chunk
  <2>. QED
    BY SMTT(30), <1>1, <1>3 DEF chunk
<1>5. ASSUME NEW i \in position + 1 .. ChunkEnd PROVE buf[L + (i - position)] = device[i]
  <2>1. i - position \in 1 .. Len(chunk) /\ position + (i - position) = i
    BY <1>1, <1>2, <1>3
  <2>. QED
    BY <1>3, <1>4, <2>1
<1>6. ASSUME ~gap, NEW b \in 1 .. Len(buf) PROVE buf[b] = device[position - L + b]
  <2>1. CASE b <= L
    <3>1. b \in 1 .. L /\ b \in DOMAIN leftover
      BY <1>1, <1>4, <2>1
    <3>. QED
      BY <1>1, <1>4, <1>6, <3>1 DEF LeftoverHolds
  <2>2. CASE b > L
    <3> DEFINE i == position + (b - L)
    <3>1. i \in position + 1 .. ChunkEnd /\ L + (i - position) = b /\ position - L + b = i
      BY <1>1, <1>2, <1>3, <1>4, <2>2
    <3>. QED
      BY <1>5, <3>1
  <2>. QED
    BY <1>1, <1>4, <2>1, <2>2
<1>. QED
  BY <1>1, <1>2, <1>3, <1>4, <1>5, <1>6

\* The candidates of a buffer: in order behind those found before, at headers
\* unless glued, and covering every header that ends in the chunk.
LEMMA HitsHold ==
  ASSUME RecoveryTypeOK, PostTypeOK, LeftoverHolds, ~AtEnd,
         NEW buf, buf = leftover \o SubSeq(device, position + 1, ChunkEnd),
         NEW hits, hits = Hits(buf)
  PROVE  /\ hits \in Seq(Candidates)
         /\ \A k \in DOMAIN hits : /\ hits[k].id = Len(found) + k - 1 /\ hits[k].scan = scans
                                   /\ hits[k].glued \/ HeaderAt(device, hits[k].start + 1)
         /\ \A i \in 1 .. Len(device) :
               /\ HeaderAt(device, i) /\ i + 1 > position /\ i + 1 <= ChunkEnd
               /\ i = position => ~gap /\ leftover # <<>>
               => \E k \in DOMAIN hits : hits[k].start <= i - 1 /\ i - 1 < hits[k].behind
<1> DEFINE L == Len(leftover)
           S == Search(buf)
<1>0. /\ position \in Nat /\ L \in Nat /\ L <= position /\ gap \in BOOLEAN /\ scans \in Nat
      /\ Len(found) \in Nat /\ leftover \in Seq(Cells)
  BY SMTT(30) DEF RecoveryTypeOK, PostTypeOK, LeftoverHolds, Cells
<1>1. PICK N \in Nat, D \in Nat, E \in Nat :
          /\ buf \in Seq(Cells) /\ N = Len(buf) /\ D = Len(device) /\ E = ChunkEnd
          /\ position < E /\ E <= D /\ N = L + (E - position)
          /\ \A b \in 1 .. N : b > L \/ ~gap => buf[b] = device[position - L + b]
  <2>1. /\ buf \in Seq(Cells) /\ Len(device) \in Nat
        /\ ChunkEnd \in position + 1 .. position + Chunk /\ ChunkEnd <= Len(device)
        /\ Len(buf) = L + (ChunkEnd - position)
        /\ \A i \in position + 1 .. ChunkEnd : buf[L + (i - position)] = device[i]
        /\ ~gap => \A b \in 1 .. Len(buf) : buf[b] = device[position - L + b]
    BY BufferHolds
  <2>2. Chunk \in Nat /\ Len(buf) \in Nat /\ ChunkEnd \in Nat /\ position < ChunkEnd
    BY ONLY <1>0, <2>1, RecoveryBounds
  <2>3. ASSUME NEW b \in 1 .. Len(buf), b > L PROVE buf[b] = device[position - L + b]
    <3>1. PICK i \in Int : i = position - L + b
      <4>1. position - L + b \in Int
        BY ONLY <1>0, <2>2
      <4>. QED
        BY ONLY <4>1
    <3>2. i \in position + 1 .. ChunkEnd /\ L + (i - position) = b
      BY ONLY <1>0, <2>1, <2>2, <2>3, <3>1
    <3>3. buf[L + (i - position)] = device[i]
      BY ONLY <2>1, <3>2
    <3>. QED
      BY ONLY <3>1, <3>2, <3>3
  <2>. QED
    BY ONLY <2>1, <2>2, <2>3
<1>2. /\ S \in Seq(Nat \X Nat)
      /\ \A k \in DOMAIN S : /\ S[k][1] \in 1 .. N /\ HeaderAt(buf, S[k][1])
                             /\ S[k][2] \in S[k][1] + 1 .. N + 1
      /\ \A i \in 1 .. N : HeaderAt(buf, i) =>
               \E k \in DOMAIN S : S[k][1] <= i /\ i < S[k][2]
  BY ONLY <1>1, SearchFinds
<1>3. /\ DOMAIN hits = DOMAIN S
      /\ \A k \in DOMAIN S :
            hits[k] = [id |-> Len(found) + k - 1, start |-> position + S[k][1] - 1 - L,
                       behind |-> position + S[k][1] - 1 - L + S[k][2] - S[k][1],
                       scan |-> scans, glued |-> gap /\ S[k][1] <= L]
  BY DEF Hits
<1> HIDE DEF S, L
<1>4. ASSUME NEW k \in DOMAIN S
      PROVE  /\ hits[k] \in Candidates /\ S[k][1] \in Nat /\ S[k][2] \in Nat
             /\ hits[k].id = Len(found) + k - 1 /\ hits[k].scan = scans
             /\ hits[k].start = position + S[k][1] - 1 - L
             /\ hits[k].behind = position + S[k][2] - 1 - L
             /\ (S[k][1] <= L /\ gap) => hits[k].glued
  <2>1. PICK a, e : a = S[k][1] /\ e = S[k][2]
    OBVIOUS
  <2>2. a \in 1 .. N /\ e \in a + 1 .. N + 1
    BY <1>2, <2>1
  <2>3. k \in Nat /\ k >= 1
    <3>1. DOMAIN S = 1 .. Len(S) /\ Len(S) \in Nat
      BY ONLY <1>2
    <3>. QED
      BY ONLY <3>1
  <2>4. L \in Nat /\ position \in Nat /\ L <= position /\ N \in Nat /\ Len(found) \in Nat
    BY <1>0, <1>1
  <2>5. /\ position + a - 1 - L \in Nat /\ Len(found) + k - 1 \in Nat
        /\ position + a - 1 - L + e - a = position + e - 1 - L
        /\ position + e - 1 - L \in Nat /\ a \in Nat /\ e \in Nat
    BY ONLY <2>2, <2>3, <2>4
  <2>6. PICK g \in BOOLEAN : g = (gap /\ a <= L)
    OBVIOUS
  <2>7. hits[k] = [id |-> Len(found) + k - 1, start |-> position + a - 1 - L,
                   behind |-> position + e - 1 - L, scan |-> scans, glued |-> g]
    BY <1>3, <2>1, <2>5, <2>6
  <2>8. scans \in Nat
    BY <1>0
  <2>9. hits[k] \in Candidates
    BY ONLY <2>5, <2>6, <2>7, <2>8 DEF Candidates
  <2>10. (a <= L /\ gap) => g = TRUE
    BY ONLY <1>0, <2>6
  <2>11. hits[k].glued = g /\ hits[k].start = position + a - 1 - L
         /\ hits[k].behind = position + e - 1 - L /\ hits[k].scan = scans
         /\ hits[k].id = Len(found) + k - 1
    BY ONLY <2>7
  <2>. QED
    BY ONLY <2>1, <2>5, <2>9, <2>10, <2>11
<1>5. hits \in Seq(Candidates)
  <2>1. DOMAIN hits = 1 .. Len(S) /\ Len(S) \in Nat
    BY <1>2, <1>3
  <2>2. hits = [k \in 1 .. Len(S) |-> hits[k]]
    BY <1>3, <2>1 DEF Hits, S
  <2>3. \A k \in 1 .. Len(S) : hits[k] \in Candidates
    BY ONLY <1>4, <1>3, <2>1
  <2>4. hits \in [1 .. Len(S) -> Candidates]
    BY ONLY <2>2, <2>3
  <2>. QED
    BY ONLY <2>1, <2>4
<1>6. ASSUME NEW k \in DOMAIN S
      PROVE  hits[k].glued \/ HeaderAt(device, hits[k].start + 1)
  <2>0. position < E /\ E <= D /\ N = L + (E - position)
    BY ONLY <1>1
  <2>1. PICK h \in Nat, at \in Nat :
            h = S[k][1] /\ at = hits[k].start /\ at = position + h - 1 - L
    BY <1>4 DEF Candidates
  <2>2. h \in 1 .. N /\ h < N /\ buf[h] = "a" /\ buf[h + 1] = "b"
    BY <1>1, <1>2, <2>1 DEF HeaderAt
  <2>3. /\ h + 1 \in 1 .. N /\ at + 1 = position - L + h
        /\ at + 1 + 1 = position - L + (h + 1) /\ at + 1 < D
    <3>1. h \in 1 .. N /\ h < N /\ at = position + h - 1 - L
      BY ONLY <2>1, <2>2
    <3>. QED
      BY ONLY <1>0, <2>0, <3>1
  <2>4. CASE h > L \/ ~gap
    <3>1. h + 1 > L \/ ~gap
      BY ONLY <1>0, <2>1, <2>4
    <3>2. buf[h] = device[position - L + h] /\ buf[h + 1] = device[position - L + (h + 1)]
      BY ONLY <1>1, <2>2, <2>3, <2>4, <3>1
    <3>3. device[at + 1] = "a" /\ device[at + 1 + 1] = "b"
      BY ONLY <2>2, <2>3, <3>2
    <3>. QED
      BY <1>1, <2>1, <2>3, <3>3 DEF HeaderAt
  <2>5. CASE h <= L /\ gap
    BY <1>4, <2>1, <2>5
  <2>. QED
    BY <1>0, <2>1, <2>4, <2>5
<1>7. ASSUME NEW i \in 1 .. D, HeaderAt(device, i),
             i + 1 > position, i + 1 <= E, i = position => ~gap /\ leftover # <<>>
      PROVE  \E k \in DOMAIN hits : hits[k].start <= i - 1 /\ i - 1 < hits[k].behind
  <2>1. PICK b \in Int : b = L + (i - position)
    BY <1>0
  <2>2. i = position => L >= 1
    BY <1>0, <1>7 DEF L
  <2>3. /\ b \in 1 .. N /\ b + 1 \in 1 .. N /\ b < N
        /\ position - L + b = i /\ position - L + (b + 1) = i + 1
        /\ (b + 1 > L \/ ~gap) /\ (b > L \/ ~gap)
    BY ONLY <1>0, <1>1, <1>7, <2>1, <2>2
  <2>4. buf[b] = device[i] /\ buf[b + 1] = device[i + 1]
    <3>1. buf[b] = device[position - L + b] /\ buf[b + 1] = device[position - L + (b + 1)]
      BY ONLY <1>1, <2>3
    <3>. QED
      BY ONLY <2>3, <3>1
  <2>5. HeaderAt(buf, b)
    BY <1>1, <1>7, <2>3, <2>4 DEF HeaderAt
  <2>6. PICK k \in DOMAIN S : S[k][1] <= b /\ b < S[k][2]
    BY <1>2, <2>3, <2>5
  <2>7. /\ S[k][1] \in Nat /\ S[k][2] \in Nat
        /\ hits[k].start = position + S[k][1] - 1 - L
        /\ hits[k].behind = position + S[k][2] - 1 - L
    BY <1>4
  <2>8. hits[k].start <= i - 1 /\ i - 1 < hits[k].behind
    <3>1. PICK h \in Nat, e \in Nat : h = S[k][1] /\ e = S[k][2]
      BY ONLY <2>7
    <3>2. h <= b /\ b < e
      BY ONLY <2>6, <3>1
    <3>3. position + h - 1 - L <= i - 1 /\ i - 1 < position + e - 1 - L
      BY ONLY <1>0, <2>1, <3>2
    <3>. QED
      BY ONLY <2>7, <3>1, <3>3
  <2>. QED
    BY <1>3, <2>8
<1>. QED
  BY <1>1, <1>3, <1>4, <1>5, <1>6, <1>7

USE DEF pageRVars, scanVars, copyVars, mediumVars

\* The type invariant, field by field.
LEMMA TypesOf ==
  ASSUME RecoveryTypeOK
  PROVE  /\ scanning \in BOOLEAN /\ recovering \in BOOLEAN /\ scanStop \in BOOLEAN
         /\ gap \in BOOLEAN /\ rows \in Seq(Candidates) /\ candidates \in Seq(Candidates)
         /\ found \in Seq(Candidates) /\ batch \in Seq(Candidates) /\ work \in Seq(Candidates)
         /\ picked \subseteq IdsOf(rows) /\ copies \subseteq Candidates
         /\ scanAt \in {"none", "reads", "over"} /\ recoverAt \in {"none", "copies", "over"}
         /\ position \in Nat /\ Len(leftover) <= Overlap
BY DEF RecoveryTypeOK

LEMMA TypesMake ==
  ASSUME scanning' \in BOOLEAN, recovering' \in BOOLEAN, scanStop' \in BOOLEAN,
         gap' \in BOOLEAN, rows' \in Seq(Candidates), candidates' \in Seq(Candidates),
         found' \in Seq(Candidates), batch' \in Seq(Candidates), work' \in Seq(Candidates),
         picked' \subseteq IdsOf(rows'), copies' \subseteq Candidates,
         scanAt' \in {"none", "reads", "over"}, recoverAt' \in {"none", "copies", "over"},
         position' \in Nat, Len(leftover') <= Overlap
  PROVE  RecoveryTypeOK'
BY DEF RecoveryTypeOK

LEMMA ReadingKept ==
  ASSUME HeadersAreReal, LeftoverHolds, NoneBefore, FoundInOrder,
         UNCHANGED <<device, bad, position, leftover, found, gap>>
  PROVE  HeadersAreReal' /\ LeftoverHolds' /\ NoneBefore' /\ FoundInOrder'
<1>1. \A i : Readable(i)' <=> Readable(i)
  BY DEF Readable
<1>2. HeadersAreReal' /\ FoundInOrder'
  BY DEF HeadersAreReal, FoundInOrder, HeaderAt
<1>3. NoneBefore'
  BY <1>1 DEF NoneBefore, HeaderAt
<1>4. LeftoverHolds'
  BY <1>1 DEF LeftoverHolds
<1>. QED
  BY <1>2, <1>3, <1>4

LEMMA StreamKept ==
  ASSUME StreamHolds, UNCHANGED <<batch, found, scanning, candidates, scanAt, scanPosts>>
  PROVE  StreamHolds'
BY DEF StreamHolds, Kept, Single, Apart, IsLast

LEMMA CopiesKept ==
  ASSUME CopiesHold, UNCHANGED <<found, candidates, work, copies, scans>>
  PROVE  CopiesHold'
BY DEF CopiesHold

\* The controller's list grows, or is replaced by one that has it all.
LEMMA CopiesGrow ==
  ASSUME CopiesHold, UNCHANGED <<found, work, copies, scans>>,
         \A k \in DOMAIN candidates' : candidates'[k].scan = scans,
         \A c : (\E i \in DOMAIN candidates : candidates[i] = c)
               => \E i \in DOMAIN candidates' : candidates'[i] = c
  PROVE  CopiesHold'
<1>1. /\ \A k \in DOMAIN work' :
            /\ work'[k].scan <= scans'
            /\ work'[k].scan = scans' => \E i \in DOMAIN candidates' : candidates'[i] = work'[k]
            /\ \A l \in DOMAIN work' : work'[l].id = work'[k].id => work'[l] = work'[k]
            /\ \A l \in DOMAIN work' : work'[l].scan = work'[k].scan
      /\ \A k \in DOMAIN found' : found'[k].scan = scans'
  BY DEF CopiesHold
<1>2. \A c \in copies' :
          /\ c.scan <= scans'
          /\ c.scan = scans' => \E i \in DOMAIN candidates' : candidates'[i] = c
          /\ \A k \in DOMAIN work' :
                /\ c.scan <= work'[k].scan
                /\ c.scan = work'[k].scan /\ c.id = work'[k].id => c = work'[k]
  BY DEF CopiesHold
<1>. QED
  BY <1>1, <1>2 DEF CopiesHold

LEMMA RowsGrow ==
  ASSUME RowsAreHeld, rows' = rows, Single(candidates'),
         \A c : (\E i \in DOMAIN candidates : candidates[i] = c)
               => \E i \in DOMAIN candidates' : candidates'[i] = c
  PROVE  RowsAreHeld'
BY DEF RowsAreHeld, Single

\* Clicks and answers that touch neither thread nor the controller's list.
LEMMA PageKeeps ==
  ASSUME RecoveryIInv, ClickCancelScan \/ ClickNewScan \/ ClickRows \/ ShowRecover
  PROVE  RecoveryIInv'
<1> USE DEF RecoveryIInv
<1>1. /\ UNCHANGED <<device, bad, position, leftover, found, gap, batch, scanning,
                     candidates, scanAt, scanPosts, work, copies, scans, recoverAt>>
      /\ scanStop' \in BOOLEAN
      /\ \/ rows' = <<>> /\ picked' = {} /\ recovering' = FALSE /\ UNCHANGED recoverPosts
         \/ rows' = rows /\ picked' \subseteq IdsOf(rows) /\ UNCHANGED <<recovering, recoverPosts>>
         \/ rows' = rows /\ picked' = picked /\ recovering' = FALSE
            /\ recoverPosts # <<>> /\ recoverPosts' = Tail(recoverPosts)
  BY DEF ClickCancelScan, ClickNewScan, ClickRows, ShowRecover, ClearPage, RecoveryTypeOK
<1>2. RecoveryTypeOK' /\ PostTypeOK'
  <2>1. rows' \in Seq(Candidates) /\ picked' \subseteq IdsOf(rows') /\ recovering' \in BOOLEAN
    <3>1. /\ <<>> \in Seq(Candidates) /\ rows \in Seq(Candidates)
          /\ picked \subseteq IdsOf(rows) /\ recovering \in BOOLEAN
      BY TypesOf
    <3>2. CASE rows' = <<>> /\ picked' = {} /\ recovering' = FALSE
      BY <3>1, <3>2
    <3>3. CASE rows' = rows /\ picked' \subseteq IdsOf(rows) /\ recovering' \in BOOLEAN
      BY <3>1, <3>3
    <3>. QED
      BY <1>1, <3>1, <3>2, <3>3
  <2>2. RecoveryTypeOK'
    BY <1>1, <2>1, TypesOf, TypesMake
  <2>3. PostTypeOK'
    <3>1. recoverPosts \in Seq({"error", "finished"})
      BY DEF PostTypeOK
    <3>2. recoverPosts' \in Seq({"error", "finished"})
      BY <1>1, <3>1
    <3>. QED
      BY <1>1, <3>2 DEF PostTypeOK
  <2>. QED
    BY <2>2, <2>3
<1>3. RowsAreHeld' /\ RecoveryWaitsAreFounded' /\ CopyIsHeard'
  BY <1>1 DEF RowsAreHeld, RecoveryWaitsAreFounded, CopyIsHeard
<1>4. HeadersAreReal' /\ LeftoverHolds' /\ NoneBefore' /\ FoundInOrder'
  BY <1>1, ReadingKept
<1>5. StreamHolds' /\ CopiesHold'
  BY <1>1, StreamKept, CopiesKept
<1>. QED
  BY <1>2, <1>3, <1>4, <1>5

LEMMA ScanClickKeeps == ASSUME RecoveryIInv, ClickScan PROVE RecoveryIInv'
<1> USE DEF RecoveryIInv
<1>1. /\ UNCHANGED <<device, bad, scanPosts, recoverPosts, work, copies, recoverAt>>
      /\ rows' = <<>> /\ picked' = {} /\ recovering' = FALSE /\ ~scanning
  BY DEF ClickScan, ClearPage
<1>2. CASE scanAt # "none"
  <2>1. UNCHANGED <<scanning, candidates, scanAt, position, leftover, found, batch,
                    scanStop, gap, scans>>
    BY <1>2 DEF ClickScan
  <2>2. RecoveryTypeOK' /\ PostTypeOK' /\ RowsAreHeld' /\ RecoveryWaitsAreFounded' /\ CopyIsHeard'
    <3>1. RecoveryTypeOK'
      <4>1. rows' \in Seq(Candidates) /\ picked' \subseteq IdsOf(rows') /\ recovering' \in BOOLEAN
        <5>1. <<>> \in Seq(Candidates) /\ {} \subseteq IdsOf(rows')
          OBVIOUS
        <5>2. rows' = <<>> /\ picked' = {} /\ recovering' = FALSE
          BY ONLY <1>1
        <5>. QED
          BY ONLY <5>1, <5>2
      <4>. QED
        BY <1>1, <2>1, <4>1, TypesOf, TypesMake
    <3>2. PostTypeOK'
      BY <1>1, <2>1 DEF PostTypeOK
    <3>3. RowsAreHeld' /\ RecoveryWaitsAreFounded' /\ CopyIsHeard'
      BY <1>1, <2>1 DEF RowsAreHeld, RecoveryWaitsAreFounded, CopyIsHeard
    <3>. QED
      BY <3>1, <3>2, <3>3
  <2>3. HeadersAreReal' /\ LeftoverHolds' /\ NoneBefore' /\ FoundInOrder'
    BY <1>1, <2>1, ReadingKept
  <2>4. StreamHolds' /\ CopiesHold'
    BY <1>1, <2>1, StreamKept, CopiesKept
  <2>. QED
    BY <2>2, <2>3, <2>4
<1>3. CASE scanAt = "none"
  <2>1. /\ scans' = scans + 1 /\ scanning' = TRUE /\ candidates' = <<>> /\ scanAt' = "reads"
        /\ position' = 0 /\ leftover' = <<>> /\ found' = <<>> /\ batch' = <<>>
        /\ scanStop' = FALSE /\ gap' = FALSE
    BY <1>3 DEF ClickScan
  <2>2. scanPosts = <<>> /\ scans \in Nat
    BY <1>1 DEF StreamHolds, PostTypeOK
  <2>3. RecoveryTypeOK'
    <3>1. <<>> \in Seq(Candidates) /\ Len(<<>>) <= Overlap /\ 0 \in Nat
      OBVIOUS
    <3>. QED
      BY <1>1, <2>1, <3>1, TypesOf, TypesMake
  <2>4. PostTypeOK'
    BY <1>1, <2>1, <2>2 DEF PostTypeOK
  <2>5. RowsAreHeld' /\ RecoveryWaitsAreFounded' /\ CopyIsHeard' /\ HeadersAreReal' /\ FoundInOrder'
    BY <1>1, <2>1 DEF RowsAreHeld, RecoveryWaitsAreFounded, CopyIsHeard, HeadersAreReal,
                      FoundInOrder
  <2>6. LeftoverHolds'
    <3>1. 0 = 0 * Chunk /\ 0 \in 0 .. 0 /\ Len(leftover') = 0
      BY <2>1
    <3>. QED
      BY <2>1, <3>1 DEF LeftoverHolds
  <2>7. NoneBefore'
    BY <1>1, <2>1 DEF NoneBefore, PostTypeOK
  <2>8. StreamHolds'
    BY <1>1, <2>1, <2>2 DEF StreamHolds, Kept, Single, Apart, Parted
  <2>9. CopiesHold'
    <3>1. \A k \in DOMAIN work : work[k].scan \in Nat
      <4>1. \A k \in DOMAIN work : work[k] \in Candidates
        BY TypesOf
      <4>. QED
        BY <4>1 DEF Candidates
    <3>2. \A c \in copies : c.scan \in Nat
      BY TypesOf DEF Candidates
    <3>. QED
      BY <1>1, <2>1, <2>2, <3>1, <3>2 DEF CopiesHold
  <2>. QED
    BY <2>3, <2>4, <2>5, <2>6, <2>7, <2>8, <2>9
<1>. QED
  BY <1>2, <1>3

LEMMA RecoverClickKeeps == ASSUME RecoveryIInv, ClickRecover PROVE RecoveryIInv'
<1> USE DEF RecoveryIInv
<1> DEFINE chosenOnes == Selected(candidates, picked)
<1>1. /\ UNCHANGED <<device, bad, position, leftover, found, gap, batch, scanning, rows, picked,
                     candidates, scanAt, scanPosts, recoverPosts, scanStop, copies, scans>>
      /\ \/ UNCHANGED <<recovering, recoverAt, work>>
         \/ recovering' = TRUE /\ recoverAt' = "copies" /\ work' = chosenOnes
  BY DEF ClickRecover
<1>2. /\ chosenOnes \in Seq(Candidates)
      /\ \A k \in DOMAIN chosenOnes : \E i \in DOMAIN candidates : chosenOnes[k] = candidates[i]
  BY SelectedAreListed, TypesOf
<1> HIDE DEF chosenOnes
<1>3. RecoveryTypeOK' /\ PostTypeOK'
  <2>1. RecoveryTypeOK'
    BY <1>1, <1>2, TypesOf, TypesMake
  <2>2. PostTypeOK'
    BY <1>1 DEF PostTypeOK
  <2>. QED
    BY <2>1, <2>2
<1>4. RowsAreHeld' /\ RecoveryWaitsAreFounded' /\ CopyIsHeard'
  BY <1>1 DEF RowsAreHeld, RecoveryWaitsAreFounded, CopyIsHeard
<1>5. HeadersAreReal' /\ LeftoverHolds' /\ NoneBefore' /\ FoundInOrder' /\ StreamHolds'
  BY <1>1, ReadingKept, StreamKept
<1>6. CopiesHold'
  <2>1. CASE work' = work
    BY <1>1, <2>1, CopiesKept
  <2>2. CASE work' = chosenOnes
    <3>1. scans \in Nat
      BY DEF PostTypeOK
    <3>2. \A k \in DOMAIN work' :
             /\ work'[k].scan = scans
             /\ \E i \in DOMAIN candidates : candidates[i] = work'[k]
             /\ \A l \in DOMAIN work' : work'[l].id = work'[k].id => work'[l] = work'[k]
      BY <1>2, <2>2 DEF CopiesHold, RowsAreHeld
    <3>3. \A c \in copies :
             /\ c.scan <= scans
             /\ c.scan = scans => \E i \in DOMAIN candidates : candidates[i] = c
      BY DEF CopiesHold
    <3>4. \A i, k \in DOMAIN candidates : candidates[i].id = candidates[k].id => i = k
      BY DEF RowsAreHeld
    <3>. QED
      BY <1>1, <3>1, <3>2, <3>3, <3>4 DEF CopiesHold
  <2>. QED
    BY <1>1, <2>1, <2>2
<1>. QED
  BY <1>3, <1>4, <1>5, <1>6

LEMMA CopyKeeps == ASSUME RecoveryIInv, Copy PROVE RecoveryIInv'
<1> USE DEF RecoveryIInv
<1>0. recoverPosts \in Seq({"error", "finished"})
  BY DEF PostTypeOK
<1>01. /\ Append(recoverPosts, "error") \in Seq({"error", "finished"})
      /\ Append(recoverPosts, "finished") \in Seq({"error", "finished"})
      /\ Append(recoverPosts, "error") # <<>> /\ Append(recoverPosts, "finished") # <<>>
  BY <1>0
<1>1. /\ UNCHANGED <<device, bad, position, leftover, found, gap, batch, scanning, rows, picked,
                     candidates, scanAt, scanPosts, scanStop, scans, recovering>>
      /\ recoverPosts' \in Seq({"error", "finished"})
      /\ \/ /\ work # <<>> /\ work' = Tail(work) /\ recoverAt' = recoverAt
            /\ recoverAt = "copies"
            /\ \/ copies' = copies
               \/ copies' = {c \in copies : c.id # Head(work).id}
               \/ copies' = {c \in copies : c.id # Head(work).id} \cup {Head(work)}
         \/ work' = <<>> /\ recoverAt' = "over" /\ recoverPosts' # <<>> /\ copies' = copies
         \/ /\ recoverAt = "over" /\ recoverAt' = "none"
            /\ UNCHANGED <<work, copies, recoverPosts>>
  <2>1. CASE CopyOne
    BY <1>0, <1>01, <2>1 DEF CopyOne, OnCopy
  <2>2. CASE FinishCopying
    BY <1>0, <1>01, <2>2 DEF FinishCopying, OnCopy
  <2>3. CASE EndCopyThread
    BY <1>0, <2>3 DEF EndCopyThread, OnCopy
  <2>. QED
    BY <2>1, <2>2, <2>3 DEF Copy
<1>2. work \in Seq(Candidates) /\ copies \subseteq Candidates
  BY TypesOf
<1>3. work # <<>> => /\ Tail(work) \in Seq(Candidates) /\ Head(work) \in Candidates
                     /\ Head(work) = work[1] /\ 1 \in DOMAIN work
                     /\ \A k \in DOMAIN Tail(work) : k + 1 \in DOMAIN work
                                                     /\ Tail(work)[k] = work[k + 1]
  BY <1>2
<1>4. RecoveryTypeOK' /\ PostTypeOK'
  <2>1. work' \in Seq(Candidates) /\ copies' \subseteq Candidates
        /\ recoverAt' \in {"none", "copies", "over"}
    <3>1. <<>> \in Seq(Candidates) /\ recoverAt \in {"none", "copies", "over"}
      BY TypesOf
    <3>2. work # <<>> => {c \in copies : c.id # Head(work).id} \cup {Head(work)} \subseteq Candidates
      BY <1>2, <1>3
    <3>. QED
      BY <1>1, <1>2, <1>3, <3>1, <3>2
  <2>2. RecoveryTypeOK'
    BY <1>1, <2>1, TypesOf, TypesMake
  <2>3. PostTypeOK'
    BY <1>1 DEF PostTypeOK
  <2>. QED
    BY <2>2, <2>3
<1>5. RowsAreHeld' /\ RecoveryWaitsAreFounded' /\ CopyIsHeard'
  BY <1>1 DEF RowsAreHeld, RecoveryWaitsAreFounded, CopyIsHeard
<1>6. HeadersAreReal' /\ LeftoverHolds' /\ NoneBefore' /\ FoundInOrder' /\ StreamHolds'
  BY <1>1, ReadingKept, StreamKept
<1>7. CopiesHold'
  <2>1. CASE work # <<>> /\ work' = Tail(work)
    <3>1. \A k \in DOMAIN work' : k + 1 \in DOMAIN work /\ work'[k] = work[k + 1]
      BY <1>3, <2>1
    <3>2. \A c \in copies' : c \in copies \/ c = work[1]
      BY <1>1, <1>3, <2>1
    <3>3. \A k \in DOMAIN work :
             /\ work[k].scan <= scans
             /\ work[k].scan = scans => \E i \in DOMAIN candidates : candidates[i] = work[k]
             /\ \A l \in DOMAIN work : work[l].id = work[k].id => work[l] = work[k]
             /\ \A l \in DOMAIN work : work[l].scan = work[k].scan
             /\ work[k].scan \in Nat
      <4>1. \A k \in DOMAIN work : work[k] \in Candidates
        BY <1>2
      <4>2. \A k \in DOMAIN work : work[k].scan \in Nat
        BY <4>1 DEF Candidates
      <4>. QED
        BY <4>2 DEF CopiesHold
    <3>4. \A c \in copies :
             /\ c.scan <= scans
             /\ c.scan = scans => \E i \in DOMAIN candidates : candidates[i] = c
             /\ \A k \in DOMAIN work : /\ c.scan <= work[k].scan
                                       /\ c.scan = work[k].scan /\ c.id = work[k].id => c = work[k]
      BY DEF CopiesHold
    <3>5. 1 \in DOMAIN work
      BY <1>3, <2>1
    <3>6. \A c \in copies' :
             /\ c.scan <= scans
             /\ c.scan = scans => \E i \in DOMAIN candidates : candidates[i] = c
             /\ \A k \in DOMAIN work : /\ c.scan <= work[k].scan
                                       /\ c.scan = work[k].scan /\ c.id = work[k].id => c = work[k]
      BY <3>2, <3>3, <3>4, <3>5
    <3>7. /\ \A k \in DOMAIN found : found[k].scan = scans
          /\ \A k \in DOMAIN candidates : candidates[k].scan = scans
      BY DEF CopiesHold
    <3>. QED
      BY <1>1, <3>1, <3>3, <3>6, <3>7 DEF CopiesHold
  <2>2. CASE work' = <<>> /\ copies' = copies
    BY <1>1, <2>2 DEF CopiesHold
  <2>3. CASE work' = work /\ copies' = copies
    BY <1>1, <2>3, CopiesKept
  <2>. QED
    BY <1>1, <2>1, <2>2, <2>3
<1>. QED
  BY <1>4, <1>5, <1>6, <1>7

\* How lists that are apart grow and split.
Parts(p, n, front, back) ==
    /\ front \in Seq(Candidates) /\ back \in Seq(Candidates)
    /\ Single(front) /\ Single(back) /\ Apart(front, back)
    /\ \A k \in DOMAIN front : k \in DOMAIN p /\ front[k] = p[k]
    /\ \A k \in DOMAIN back : n + k \in DOMAIN p /\ back[k] = p[n + k]

LEMMA PartsOfAList ==
  ASSUME NEW p \in Seq(Candidates), NEW n \in 0 .. Len(p), Single(p)
  PROVE  Parts(p, n, SubSeq(p, 1, n), SubSeq(p, n + 1, Len(p)))
<1> PICK front, back : front = SubSeq(p, 1, n) /\ back = SubSeq(p, n + 1, Len(p))
  OBVIOUS
<1>1. /\ front \in Seq(Candidates) /\ DOMAIN front = 1 .. n
      /\ \A k \in 1 .. n : k \in DOMAIN p /\ front[k] = p[k]
  <2>1. \A i \in 1 .. n : i \in DOMAIN p /\ p[i] \in Candidates
    OBVIOUS
  <2>. QED
    BY <2>1
<1>2. /\ back \in Seq(Candidates) /\ DOMAIN back = 1 .. Len(p) - n
      /\ \A k \in 1 .. Len(p) - n : n + k \in DOMAIN p /\ back[k] = p[n + k]
  <2>1. \A i \in n + 1 .. Len(p) : i \in DOMAIN p /\ p[i] \in Candidates
    OBVIOUS
  <2>. QED
    BY <2>1
<1>3. \A i, k \in DOMAIN p : p[i].id = p[k].id => i = k
  BY DEF Single
<1>4. Single(front)
  BY ONLY <1>1, <1>3 DEF Single
<1>5. Single(back)
  <2>1. ASSUME NEW i \in DOMAIN back, NEW k \in DOMAIN back, back[i].id = back[k].id
        PROVE  i = k
    <3>1. n + i \in DOMAIN p /\ n + k \in DOMAIN p /\ p[n + i].id = p[n + k].id
      BY ONLY <1>2, <2>1
    <3>2. n + i = n + k /\ i \in Int /\ k \in Int /\ n \in Nat
      BY <1>2, <1>3, <3>1
    <3>. QED
      BY ONLY <3>2
  <2>. QED
    BY <2>1 DEF Single
<1>6. Apart(front, back)
  <2>1. ASSUME NEW i \in DOMAIN front, NEW k \in DOMAIN back, front[i].id = back[k].id
        PROVE  FALSE
    <3>1. i \in DOMAIN p /\ n + k \in DOMAIN p /\ p[i].id = p[n + k].id
      BY ONLY <1>1, <1>2, <2>1
    <3>2. i = n + k /\ i <= n /\ k >= 1 /\ n \in Nat /\ k \in Int
      BY <1>1, <1>2, <1>3, <3>1
    <3>. QED
      BY ONLY <3>2
  <2>. QED
    BY <2>1 DEF Apart
<1>. QED
  BY <1>1, <1>2, <1>4, <1>5, <1>6 DEF Parts

\* A list that has the members of one, and behind them those of another.
InTurn(c, a, b) ==
    /\ c \in Seq(Candidates) /\ Len(a) \in Nat
    /\ \A k \in DOMAIN a : k \in DOMAIN c /\ c[k] = a[k]
    /\ \A k \in DOMAIN b : Len(a) + k \in DOMAIN c /\ c[Len(a) + k] = b[k]
    /\ \A k \in DOMAIN c : \/ k \in DOMAIN a /\ c[k] = a[k]
                           \/ k > Len(a) /\ k - Len(a) \in DOMAIN b /\ c[k] = b[k - Len(a)]

LEMMA Joined ==
  ASSUME NEW a \in Seq(Candidates), NEW b \in Seq(Candidates)
  PROVE  InTurn(a \o b, a, b)
<1>1. /\ a \o b \in Seq(Candidates) /\ DOMAIN (a \o b) = 1 .. Len(a) + Len(b)
      /\ Len(a) \in Nat /\ Len(b) \in Nat
      /\ \A k \in 1 .. Len(a) + Len(b) :
            (a \o b)[k] = IF k <= Len(a) THEN a[k] ELSE b[k - Len(a)]
  OBVIOUS
<1>2. DOMAIN a = 1 .. Len(a) /\ DOMAIN b = 1 .. Len(b)
  OBVIOUS
<1>. QED
  BY ONLY <1>1, <1>2 DEF InTurn

\* A list that has the members of two.
Both(c, a, b) ==
    /\ c \in Seq(Candidates)
    /\ \A k \in DOMAIN a : k \in DOMAIN c /\ c[k] = a[k]
    /\ \A k \in DOMAIN b : \E j \in DOMAIN c : c[j] = b[k]
    /\ \A k \in DOMAIN c : \/ k \in DOMAIN a /\ c[k] = a[k]
                           \/ \E j \in DOMAIN b : c[k] = b[j]

LEMMA JoinedHolds ==
  ASSUME NEW a \in Seq(Candidates), NEW b \in Seq(Candidates)
  PROVE  Both(a \o b, a, b)
<1>1. InTurn(a \o b, a, b)
  BY Joined
<1>. QED
  BY ONLY <1>1 DEF InTurn, Both

LEMMA JoinedApart ==
  ASSUME NEW a \in Seq(Candidates), NEW b \in Seq(Candidates), NEW c
  PROVE  /\ Apart(a, c) /\ Apart(b, c) => Apart(a \o b, c)
         /\ Apart(c, a) /\ Apart(c, b) => Apart(c, a \o b)
         /\ Single(a) /\ Single(b) /\ Apart(a, b) => Single(a \o b)
<1>1. /\ Len(a) \in Nat
      /\ \A k \in DOMAIN (a \o b) :
            \/ k \in DOMAIN a /\ (a \o b)[k] = a[k]
            \/ k > Len(a) /\ k - Len(a) \in DOMAIN b /\ (a \o b)[k] = b[k - Len(a)]
  BY Joined DEF InTurn
<1>2. Apart(a, c) /\ Apart(b, c) => Apart(a \o b, c)
  BY ONLY <1>1 DEF Apart
<1>3. Apart(c, a) /\ Apart(c, b) => Apart(c, a \o b)
  BY ONLY <1>1 DEF Apart
<1>4. ASSUME Single(a), Single(b), Apart(a, b) PROVE Single(a \o b)
  <2>1. DOMAIN (a \o b) \subseteq Int
    <3>1. a \o b \in Seq(Candidates)
      BY Joined DEF InTurn
    <3>. QED
      BY ONLY <3>1
  <2> SUFFICES ASSUME NEW i \in DOMAIN (a \o b), NEW k \in DOMAIN (a \o b),
                      (a \o b)[i].id = (a \o b)[k].id
               PROVE  i = k
    BY DEF Single
  <2>2. CASE i \in DOMAIN a /\ (a \o b)[i] = a[i]
    <3>1. CASE k \in DOMAIN a /\ (a \o b)[k] = a[k]
      BY ONLY <1>4, <2>2, <3>1, (a \o b)[i].id = (a \o b)[k].id DEF Single
    <3>2. CASE k - Len(a) \in DOMAIN b /\ (a \o b)[k] = b[k - Len(a)]
      BY ONLY <1>4, <2>2, <3>2, (a \o b)[i].id = (a \o b)[k].id DEF Apart
    <3>. QED
      BY <1>1, <3>1, <3>2
  <2>3. CASE i - Len(a) \in DOMAIN b /\ (a \o b)[i] = b[i - Len(a)]
    <3>1. CASE k \in DOMAIN a /\ (a \o b)[k] = a[k]
      BY ONLY <1>4, <2>3, <3>1, (a \o b)[i].id = (a \o b)[k].id DEF Apart
    <3>2. CASE k - Len(a) \in DOMAIN b /\ (a \o b)[k] = b[k - Len(a)]
      <4>1. i - Len(a) = k - Len(a)
        BY ONLY <1>4, <2>3, <3>2, (a \o b)[i].id = (a \o b)[k].id DEF Single
      <4>. QED
        BY ONLY <1>1, <2>1, <4>1, i \in DOMAIN (a \o b), k \in DOMAIN (a \o b)
    <3>. QED
      BY <1>1, <3>1, <3>2
  <2>. QED
    BY <1>1, <2>2, <2>3
<1>. QED
  BY <1>2, <1>3, <1>4

LEMMA ApartTurns == ASSUME NEW a, NEW b, Apart(a, b) PROVE Apart(b, a)
BY DEF Apart

ScanPosts == Seq([kind : {"batch", "done", "error"}, list : Seq(Candidates)])

\* A list of posts, and one with a post more.
OneMore(more, posts, kind, list) ==
    /\ more \in ScanPosts /\ Len(posts) \in Nat /\ Len(more) = Len(posts) + 1
    /\ \A i \in DOMAIN posts : i \in DOMAIN more /\ more[i] = posts[i]
    /\ more[Len(posts) + 1].kind = kind /\ more[Len(posts) + 1].list = list
    /\ \A i \in DOMAIN more : i \in DOMAIN posts \/ i = Len(posts) + 1
    /\ \A i \in DOMAIN posts : i # Len(posts) + 1
    /\ more # <<>> /\ Len(posts) + 1 \in DOMAIN more

LEMMA PostedLast ==
  ASSUME NEW posts \in ScanPosts, NEW kind \in {"batch", "done", "error"},
         NEW list \in Seq(Candidates)
  PROVE  OneMore(posts \o Post(kind, list), posts, kind, list)
<1>1. PICK r \in [kind : {"batch", "done", "error"}, list : Seq(Candidates)] :
         r = [kind |-> kind, list |-> list]
  OBVIOUS
<1>2. Post(kind, list) = <<r>> /\ r.kind = kind /\ r.list = list
  BY <1>1 DEF Post
<1>. QED
  BY <1>2 DEF ScanPosts, OneMore

\* A batch posted from the front of what is pending leaves its back.
LEMMA BatchPosted ==
  ASSUME NEW posts \in ScanPosts, NEW shown, NEW front \in Seq(Candidates),
         NEW back \in Seq(Candidates), NEW pending, Parted(posts, shown, pending),
         \A k \in DOMAIN front : \E i \in DOMAIN pending : front[k] = pending[i],
         \A k \in DOMAIN back : \E i \in DOMAIN pending : back[k] = pending[i],
         Single(front), Single(back), Apart(front, back)
  PROVE  Parted(posts \o Post("batch", front), shown, back)
<1>1. /\ \A a : Apart(a, pending) => Apart(a, front) /\ Apart(a, back)
      /\ \A a : Apart(a, front) => Apart(front, a)
  BY DEF Apart
<1> PICK more : more = posts \o Post("batch", front)
  OBVIOUS
<1>2. OneMore(more, posts, "batch", front)
  <2>1. "batch" \in {"batch", "done", "error"}
    OBVIOUS
  <2>. QED
    BY <2>1, PostedLast
<1>3. /\ Apart(shown, pending)
      /\ \A i \in DOMAIN posts : posts[i].kind = "batch" =>
            /\ Single(posts[i].list) /\ Apart(posts[i].list, shown)
            /\ Apart(posts[i].list, pending)
            /\ \A j \in DOMAIN posts : j # i /\ posts[j].kind = "batch" =>
                  Apart(posts[i].list, posts[j].list)
  BY DEF Parted
<1>4. Apart(shown, front) /\ Apart(shown, back) /\ Apart(front, shown)
  BY <1>1, <1>3
<1>5. ASSUME NEW i \in DOMAIN more, more[i].kind = "batch"
      PROVE  /\ Single(more[i].list) /\ Apart(more[i].list, shown) /\ Apart(more[i].list, back)
             /\ \A j \in DOMAIN more : j # i /\ more[j].kind = "batch" =>
                  Apart(more[i].list, more[j].list)
  <2>1. CASE i \in DOMAIN posts
    BY <1>1, <1>2, <1>3, <1>5, <2>1 DEF OneMore
  <2>2. CASE i = Len(posts) + 1
    BY <1>1, <1>2, <1>3, <1>4, <2>2 DEF OneMore
  <2>. QED
    BY <1>2, <2>1, <2>2 DEF OneMore
<1>. QED
  BY <1>4, <1>5 DEF Parted

LEMMA LastPosted ==
  ASSUME NEW posts \in ScanPosts, NEW kind \in {"done", "error"}, NEW list \in Seq(Candidates),
         NEW shown, NEW b, Parted(posts, shown, b)
  PROVE  Parted(posts \o Post(kind, list), shown, b)
<1> PICK more : more = posts \o Post(kind, list)
  OBVIOUS
<1>1. OneMore(more, posts, kind, list)
  <2>1. kind \in {"batch", "done", "error"}
    OBVIOUS
  <2>. QED
    BY <2>1, PostedLast
<1>2. \A i \in DOMAIN more : more[i].kind = "batch" => i \in DOMAIN posts
  BY <1>1 DEF OneMore
<1>3. Parted(more, shown, b)
  BY <1>1, <1>2 DEF Parted, OneMore
<1>. QED
  BY <1>3

LEMMA TailHolds ==
  ASSUME NEW X, NEW s \in Seq(X), s # <<>>
  PROVE  /\ Tail(s) \in Seq(X) /\ Head(s) = s[1] /\ s[1] \in X
         /\ 1 \in DOMAIN s /\ Len(s) \in Nat /\ Len(s) >= 1
         /\ Len(Tail(s)) = Len(s) - 1
         /\ Tail(s) = <<>> <=> Len(s) = 1
         /\ Tail(s) # <<>> => Len(Tail(s)) \in DOMAIN Tail(s)
         /\ \A k \in DOMAIN Tail(s) : /\ k + 1 \in DOMAIN s /\ Tail(s)[k] = s[k + 1]
                                      /\ k \in Nat /\ k >= 1
<1>1. /\ Tail(s) \in Seq(X) /\ Head(s) = s[1] /\ s[1] \in X
      /\ 1 \in DOMAIN s /\ Len(s) \in Nat /\ Len(s) >= 1
  OBVIOUS
<1>2. Len(Tail(s)) = Len(s) - 1
  OBVIOUS
<1>3. DOMAIN Tail(s) = 1 .. Len(s) - 1 /\ DOMAIN s = 1 .. Len(s)
  OBVIOUS
<1>4. \A k \in 1 .. Len(s) - 1 : Tail(s)[k] = s[k + 1]
  OBVIOUS
<1>5. Tail(s) = <<>> <=> Len(Tail(s)) = 0
  <2>1. \A t \in Seq(X) : t = <<>> <=> Len(t) = 0
    OBVIOUS
  <2>. QED
    BY ONLY <1>1, <2>1
<1>6. Tail(s) # <<>> => Len(s) - 1 \in 1 .. Len(s) - 1
  BY <1>1, <1>2, <1>5
<1>7. Tail(s) = <<>> <=> Len(s) = 1
  BY ONLY <1>1, <1>2, <1>5
<1>. QED
  BY ONLY <1>1, <1>2, <1>3, <1>4, <1>6, <1>7

LEMMA FirstTaken ==
  ASSUME NEW posts \in ScanPosts, posts # <<>>, NEW rest, rest = Tail(posts)
  PROVE  /\ rest \in ScanPosts /\ Head(posts) = posts[1]
         /\ 1 \in DOMAIN posts /\ Len(posts) \in Nat /\ Len(posts) >= 1
         /\ posts[1].kind \in {"batch", "done", "error"} /\ posts[1].list \in Seq(Candidates)
         /\ Len(rest) = Len(posts) - 1
         /\ rest = <<>> <=> Len(posts) = 1
         /\ rest # <<>> => Len(rest) \in DOMAIN rest
         /\ \A k \in DOMAIN rest : /\ k + 1 \in DOMAIN posts /\ rest[k] = posts[k + 1]
                                   /\ k \in Nat /\ k >= 1
<1> PICK X : X = [kind : {"batch", "done", "error"}, list : Seq(Candidates)]
  OBVIOUS
<1>1. ScanPosts = Seq(X) /\ \A x \in X : x.kind \in {"batch", "done", "error"} /\ x.list \in Seq(Candidates)
  BY DEF ScanPosts
<1>. QED
  BY ONLY <1>1, posts \in ScanPosts, posts # <<>>, rest = Tail(posts), TailHolds

LEMMA ShowKeeps == ASSUME RecoveryIInv, ShowScan PROVE RecoveryIInv'
<1> USE DEF RecoveryIInv
<1> PICK post : post = Head(scanPosts)
  OBVIOUS
<1>1. /\ UNCHANGED <<device, bad, position, leftover, found, gap, batch, recovering, picked,
                     recoverPosts, scanAt, scanStop, work, copies, recoverAt, scans>>
      /\ scanPosts # <<>> /\ scanPosts' = Tail(scanPosts)
      /\ candidates' = IF post.kind = "batch" THEN candidates \o post.list
                       ELSE IF post.kind = "done" THEN post.list ELSE candidates
      /\ rows' = rows \o (IF post.kind = "batch" THEN post.list ELSE <<>>)
      /\ scanning' = (scanning /\ post.kind = "batch")
  BY DEF ShowScan
<1>2. /\ scanPosts \in ScanPosts /\ scanPosts' \in ScanPosts /\ post = scanPosts[1]
      /\ 1 \in DOMAIN scanPosts /\ Len(scanPosts) \in Nat /\ Len(scanPosts) >= 1
      /\ post.kind \in {"batch", "done", "error"} /\ post.list \in Seq(Candidates)
      /\ Len(scanPosts') = Len(scanPosts) - 1
      /\ scanPosts' = <<>> <=> Len(scanPosts) = 1
      /\ scanPosts' # <<>> => Len(scanPosts') \in DOMAIN scanPosts'
      /\ \A k \in DOMAIN scanPosts' :
            /\ k + 1 \in DOMAIN scanPosts /\ scanPosts'[k] = scanPosts[k + 1]
            /\ k \in Nat /\ k >= 1
  <2>1. scanPosts \in ScanPosts
    BY DEF PostTypeOK, ScanPosts
  <2>2. scanPosts # <<>> /\ scanPosts' = Tail(scanPosts)
    BY ONLY <1>1
  <2>. QED
    BY ONLY <2>1, <2>2, post = Head(scanPosts), FirstTaken
<1>3. /\ scanning /\ scanning \in BOOLEAN /\ rows \in Seq(Candidates) /\ candidates \in Seq(Candidates)
      /\ picked \subseteq IdsOf(rows) /\ found \in Seq(Candidates) /\ batch \in Seq(Candidates)
  BY <1>1, TypesOf DEF StreamHolds
<1>4. /\ Kept(candidates) /\ Parted(scanPosts, candidates, batch) /\ Kept(post.list)
      /\ scanAt # "reads" => scanPosts[Len(scanPosts)].kind # "batch"
      /\ post.kind # "batch" => Len(scanPosts) = 1 /\ scanAt # "reads"
      /\ post.kind = "done" => post.list = found
  BY <1>2, <1>3 DEF StreamHolds, IsLast
<1>5. /\ HeadersAreReal' /\ LeftoverHolds' /\ NoneBefore' /\ FoundInOrder'
      /\ PostTypeOK' /\ CopyIsHeard'
  <2>1. HeadersAreReal' /\ LeftoverHolds' /\ NoneBefore' /\ FoundInOrder'
    BY <1>1, ReadingKept
  <2>2. CopyIsHeard'
    BY <1>1 DEF CopyIsHeard
  <2>3. PostTypeOK'
    BY <1>1, <1>2 DEF PostTypeOK, ScanPosts
  <2>. QED
    BY <2>1, <2>2, <2>3
<1>6. UNCHANGED <<found, work, copies, scans, batch>>
  BY <1>1
<1>7. CASE post.kind = "batch"
  <2>1. candidates' = candidates \o post.list /\ rows' = rows \o post.list /\ scanning' = TRUE
    BY <1>1, <1>3, <1>7
  <2>2. /\ Single(post.list) /\ Apart(post.list, candidates) /\ Apart(post.list, batch)
        /\ Single(batch) /\ Apart(candidates, batch)
        /\ \A i \in DOMAIN scanPosts : scanPosts[i].kind = "batch" =>
              /\ Single(scanPosts[i].list) /\ Apart(scanPosts[i].list, candidates)
              /\ Apart(scanPosts[i].list, batch)
              /\ \A j \in DOMAIN scanPosts : j # i /\ scanPosts[j].kind = "batch" =>
                    Apart(scanPosts[i].list, scanPosts[j].list)
    BY <1>2, <1>4, <1>7 DEF Parted
  <2>3. Both(rows', rows, post.list) /\ Both(candidates', candidates, post.list)
    <3>1. Both(rows \o post.list, rows, post.list)
      BY <1>2, <1>3, JoinedHolds
    <3>2. Both(candidates \o post.list, candidates, post.list)
      BY <1>2, <1>3, JoinedHolds
    <3>. QED
      BY ONLY <2>1, <3>1, <3>2
  <2> USE DEF Both
  <2>4. RecoveryTypeOK'
    <3>1. picked' \subseteq IdsOf(rows')
      BY ONLY <1>1, <1>3, <2>3 DEF IdsOf
    <3>. QED
      BY <1>1, <2>1, <2>3, <3>1, TypesOf, TypesMake
  <2>5. RowsAreHeld'
    <3>1. ASSUME NEW k \in DOMAIN rows' PROVE \E j \in DOMAIN candidates' : candidates'[j] = rows'[k]
      <4>1. \A i \in DOMAIN rows : \E j \in DOMAIN candidates : candidates[j] = rows[i]
        BY DEF RowsAreHeld
      <4>. QED
        BY ONLY <2>3, <4>1, k \in DOMAIN rows'
    <3>2. Single(candidates')
      <4>1. Single(candidates)
        BY DEF RowsAreHeld, Single
      <4>2. Apart(candidates, post.list)
        BY <2>2, ApartTurns
      <4>. QED
        BY ONLY <1>2, <1>3, <2>1, <2>2, <4>1, <4>2, JoinedApart
    <3>. QED
      BY <3>1, <3>2 DEF RowsAreHeld, Single
  <2>6. scanAt # "reads" => /\ scanPosts' # <<>> /\ Len(scanPosts') = Len(scanPosts) - 1
                            /\ scanPosts'[Len(scanPosts')] = scanPosts[Len(scanPosts)]
    <3>1. ASSUME scanAt # "reads" PROVE Len(scanPosts) # 1
      BY <1>2, <1>4, <1>7, <3>1
    <3>2. Len(scanPosts) - 1 + 1 = Len(scanPosts)
      BY ONLY <1>2
    <3>. QED
      BY ONLY <1>2, <3>1, <3>2
  <2>7. RecoveryWaitsAreFounded'
    BY <1>1, <2>6 DEF RecoveryWaitsAreFounded
  <2>8. Parted(scanPosts', candidates', batch')
    <3>1. Apart(candidates', batch)
      BY ONLY <1>2, <1>3, <2>1, <2>2, JoinedApart
    <3>2. ASSUME NEW i \in DOMAIN scanPosts', scanPosts'[i].kind = "batch"
          PROVE  /\ Single(scanPosts'[i].list) /\ Apart(scanPosts'[i].list, candidates')
                 /\ Apart(scanPosts'[i].list, batch)
                 /\ \A j \in DOMAIN scanPosts' : j # i /\ scanPosts'[j].kind = "batch" =>
                      Apart(scanPosts'[i].list, scanPosts'[j].list)
      <4>1. PICK k \in DOMAIN scanPosts : k = i + 1 /\ scanPosts'[i] = scanPosts[k] /\ k # 1
        BY <1>1, <1>2
      <4>2. /\ Apart(scanPosts[k].list, candidates) /\ Apart(scanPosts[k].list, post.list)
            /\ Single(scanPosts[k].list) /\ Apart(scanPosts[k].list, batch)
        BY <1>2, <1>7, <2>2, <3>2, <4>1
      <4>3. Apart(scanPosts[k].list, candidates')
        BY ONLY <1>2, <1>3, <2>1, <4>2, JoinedApart
      <4>4. ASSUME NEW j \in DOMAIN scanPosts', j # i, scanPosts'[j].kind = "batch"
            PROVE  Apart(scanPosts'[i].list, scanPosts'[j].list)
        <5>1. /\ j + 1 \in DOMAIN scanPosts /\ scanPosts'[j] = scanPosts[j + 1] /\ j \in Nat
              /\ i \in Nat
          BY <1>1, <1>2
        <5>2. j + 1 # k
          BY ONLY <4>1, <4>4, <5>1
        <5>. QED
          BY ONLY <2>2, <3>2, <4>1, <4>4, <5>1, <5>2
      <4>. QED
        BY ONLY <4>1, <4>2, <4>3, <4>4
    <3>. QED
      BY ONLY <1>6, <2>2, <3>1, <3>2 DEF Parted
  <2>9. StreamHolds'
    <3>1. Kept(candidates)'
      BY ONLY <1>4, <1>6, <2>3 DEF Kept
    <3>2. (Kept(batch) /\ Single(batch))'
      BY <1>6 DEF StreamHolds, Kept, Single
    <3>3. ASSUME NEW i \in DOMAIN scanPosts'
          PROVE  /\ Kept(scanPosts[i].list)'
                 /\ scanPosts'[i].kind # "batch" => IsLast(i)' /\ scanAt' # "reads"
                 /\ scanPosts'[i].kind = "done" => scanPosts'[i].list = found'
      <4>1. /\ i + 1 \in DOMAIN scanPosts /\ scanPosts'[i] = scanPosts[i + 1] /\ i \in Nat
            /\ Len(scanPosts') = Len(scanPosts) - 1
        BY <1>1, <1>2
      <4>2. /\ Kept(scanPosts[i + 1].list)
            /\ scanPosts[i + 1].kind # "batch" => IsLast(i + 1) /\ scanAt # "reads"
            /\ scanPosts[i + 1].kind = "done" => scanPosts[i + 1].list = found
        BY <4>1 DEF StreamHolds
      <4>3. Kept(scanPosts[i].list)'
        BY ONLY <1>6, <4>1, <4>2 DEF Kept
      <4>4. IsLast(i + 1) => IsLast(i)'
        BY ONLY <1>2, <4>1 DEF IsLast
      <4>. QED
        BY <1>1, <4>1, <4>2, <4>3, <4>4
    <3>4. scanAt' # "reads" => scanPosts' # <<>> /\ scanPosts'[Len(scanPosts')].kind # "batch"
      BY <1>1, <1>4, <2>6
    <3>. QED
      BY <2>1, <2>8, <3>1, <3>2, <3>3, <3>4 DEF StreamHolds
  <2>10. CopiesHold'
    <3>1. \A k \in DOMAIN candidates' : candidates'[k].scan = scans
      BY <1>4, <2>3 DEF CopiesHold, Kept
    <3>2. \A c : (\E i \in DOMAIN candidates : candidates[i] = c)
                 => \E i \in DOMAIN candidates' : candidates'[i] = c
      BY ONLY <2>3
    <3>. QED
      BY <1>6, <3>1, <3>2, CopiesGrow
  <2>. QED
    BY <1>5, <2>4, <2>5, <2>7, <2>9, <2>10
<1>8. CASE post.kind # "batch"
  <2>1. /\ rows' = rows \o <<>> /\ rows \o <<>> = rows /\ scanning' = FALSE
        /\ candidates' = found \/ candidates' = candidates
        /\ scanPosts' = <<>> /\ scanAt # "reads"
    <3>1. scanPosts' = <<>>
      BY ONLY <1>2, <1>4, <1>8
    <3>2. rows \o <<>> = rows /\ rows' = rows \o <<>>
      BY ONLY <1>1, <1>3, <1>8
    <3>. QED
      BY ONLY <1>1, <1>4, <1>8, <3>1, <3>2
  <2>2. RecoveryTypeOK'
    <3>1. candidates' \in Seq(Candidates) /\ rows' = rows
      BY <1>3, <2>1
    <3>. QED
      BY <1>1, <1>3, <2>1, <3>1, TypesOf, TypesMake
  <2>3. RowsAreHeld'
    <3>1. Single(found)
      <4>1. \A k \in DOMAIN found : found[k].id = k - 1 /\ k \in Int
        BY <1>3 DEF FoundInOrder
      <4>. QED
        BY ONLY <4>1 DEF Single
    <3>2. Single(candidates')
      BY <2>1, <3>1 DEF RowsAreHeld, Single
    <3>3. \A c : (\E i \in DOMAIN candidates : candidates[i] = c)
                 => \E i \in DOMAIN candidates' : candidates'[i] = c
      BY ONLY <1>4, <2>1 DEF Kept
    <3>. QED
      BY <2>1, <3>2, <3>3, RowsGrow
  <2>4. RecoveryWaitsAreFounded'
    BY <1>1, <2>1 DEF RecoveryWaitsAreFounded
  <2>5. StreamHolds'
    <3>1. (Kept(batch) /\ Single(batch))'
      BY <1>6 DEF StreamHolds, Kept, Single
    <3>2. DOMAIN scanPosts' = {}
      BY <2>1
    <3>. QED
      BY <1>1, <2>1, <3>1, <3>2 DEF StreamHolds
  <2>6. CopiesHold'
    <3>1. \A k \in DOMAIN candidates' : candidates'[k].scan = scans
      BY <2>1 DEF CopiesHold
    <3>2. \A c : (\E i \in DOMAIN candidates : candidates[i] = c)
                 => \E i \in DOMAIN candidates' : candidates'[i] = c
      BY ONLY <1>4, <2>1 DEF Kept
    <3>. QED
      BY <1>6, <3>1, <3>2, CopiesGrow
  <2>. QED
    BY <1>5, <2>2, <2>3, <2>4, <2>5, <2>6
<1>. QED
  BY <1>7, <1>8

\* What a step of the scanning thread leaves alone.
LEMMA ScanLeaves ==
  ASSUME RecoveryIInv, OnScan, scanAt = "reads"
  PROVE  /\ UNCHANGED <<device, bad, scanning, recovering, rows, picked, candidates, recoverPosts,
                        recoverAt, work, copies, scans, scanStop>>
         /\ scanning /\ scanning \in BOOLEAN /\ scanPosts \in ScanPosts
         /\ found \in Seq(Candidates) /\ batch \in Seq(Candidates) /\ candidates \in Seq(Candidates)
         /\ Kept(batch) /\ Kept(candidates) /\ Parted(scanPosts, candidates, batch)
         /\ \A i \in DOMAIN scanPosts : Kept(scanPosts[i].list) /\ scanPosts[i].kind = "batch"
         /\ CopyIsHeard' /\ RowsAreHeld'
<1> USE DEF RecoveryIInv
<1>1. UNCHANGED <<device, bad, scanning, recovering, rows, picked, candidates, recoverPosts,
                  recoverAt, work, copies, scans, scanStop>>
  BY DEF OnScan
<1>2. scanning
  BY DEF StreamHolds
<1>3. /\ scanPosts \in ScanPosts /\ Kept(batch) /\ Kept(candidates)
      /\ Parted(scanPosts, candidates, batch)
      /\ \A i \in DOMAIN scanPosts : Kept(scanPosts[i].list) /\ scanPosts[i].kind = "batch"
  BY <1>2 DEF StreamHolds, PostTypeOK, ScanPosts
<1>4. CopyIsHeard' /\ RowsAreHeld'
  BY <1>1 DEF CopyIsHeard, RowsAreHeld
<1>. QED
  BY <1>1, <1>2, <1>3, <1>4, TypesOf

\* The thread has come to its end: a last post is with the page, or behind a
\* batch.
LEMMA LastPostKeeps ==
  ASSUME RecoveryIInv, OnScan, scanAt = "reads", scanAt' = "over",
         UNCHANGED <<position, leftover, found, gap>>,
         NEW kind \in {"done", "error"}, NEW list \in Seq(Candidates),
         kind = "done" => list = found, Kept(list), NEW posts \in ScanPosts,
         Parted(posts, candidates, batch'), Single(batch'), Kept(batch'), batch' \in Seq(Candidates),
         \A i \in DOMAIN posts : Kept(posts[i].list) /\ posts[i].kind = "batch",
         scanPosts' = posts \o Post(kind, list)
  PROVE  RecoveryIInv'
<1> USE DEF RecoveryIInv
<1>1. /\ UNCHANGED <<device, bad, scanning, recovering, rows, picked, candidates, recoverPosts,
                     recoverAt, work, copies, scans, scanStop>>
      /\ scanning /\ Kept(candidates) /\ CopyIsHeard' /\ RowsAreHeld'
  BY ScanLeaves
<1>2. OneMore(scanPosts', posts, kind, list)
  BY PostedLast
<1>3. Parted(scanPosts', candidates, batch')
  BY LastPosted
<1>4. HeadersAreReal' /\ LeftoverHolds' /\ NoneBefore' /\ FoundInOrder'
  BY <1>1, ReadingKept
<1>5. CopiesHold'
  BY <1>1, CopiesKept
<1>6. RecoveryTypeOK' /\ PostTypeOK' /\ RecoveryWaitsAreFounded'
  <2>1. RecoveryTypeOK'
    BY <1>1, TypesOf, TypesMake
  <2>2. PostTypeOK'
    BY <1>1, <1>2 DEF PostTypeOK, OneMore, ScanPosts
  <2>3. RecoveryWaitsAreFounded'
    BY <1>1 DEF RecoveryWaitsAreFounded
  <2>. QED
    BY <2>1, <2>2, <2>3
<1>7. StreamHolds'
  <2>1. /\ Kept(batch)' /\ Single(batch)' /\ Kept(candidates)'
        /\ Parted(scanPosts, candidates, batch)'
    BY <1>1, <1>3 DEF Kept, Single, Parted
  <2>2. scanPosts' # <<>> /\ scanPosts'[Len(scanPosts')].kind # "batch"
    BY <1>2 DEF OneMore
  <2>3. ASSUME NEW i \in DOMAIN scanPosts'
        PROVE  /\ Kept(scanPosts[i].list)'
               /\ scanPosts'[i].kind # "batch" => IsLast(i)'
               /\ scanPosts'[i].kind = "done" => scanPosts'[i].list = found'
    <3>1. CASE i \in DOMAIN posts
      BY <1>2, <3>1 DEF OneMore, Kept
    <3>2. CASE i = Len(posts) + 1
      BY <1>2, <3>2 DEF OneMore, Kept, IsLast
    <3>. QED
      BY <1>2, <3>1, <3>2 DEF OneMore
  <2>. QED
    BY <1>1, <2>1, <2>2, <2>3 DEF StreamHolds
<1>. QED
  BY <1>1, <1>4, <1>5, <1>6, <1>7

LEMMA FailKeeps == ASSUME RecoveryIInv, ScanFails PROVE RecoveryIInv'
<1>1. /\ OnScan /\ scanAt = "reads" /\ scanAt' = "over"
      /\ UNCHANGED <<position, leftover, found, gap, batch>>
      /\ scanPosts' = scanPosts \o Post("error", <<>>)
  BY DEF ScanFails
<1>2. /\ "error" \in {"done", "error"} /\ <<>> \in Seq(Candidates) /\ Kept(<<>>)
      /\ "error" # "done"
  BY DEF Kept
<1>3. /\ scanPosts \in ScanPosts /\ Kept(batch) /\ batch \in Seq(Candidates)
      /\ Parted(scanPosts, candidates, batch) /\ Single(batch)
      /\ \A i \in DOMAIN scanPosts : Kept(scanPosts[i].list) /\ scanPosts[i].kind = "batch"
  BY <1>1, ScanLeaves DEF Parted
<1>4. /\ Parted(scanPosts, candidates, batch') /\ Single(batch') /\ Kept(batch')
      /\ batch' \in Seq(Candidates)
  BY <1>1, <1>3
<1>. QED
  BY <1>1, <1>2, <1>3, <1>4, LastPostKeeps

LEMMA FinishKeeps == ASSUME RecoveryIInv, FinishScan PROVE RecoveryIInv'
<1> DEFINE posts == scanPosts \o (IF batch = <<>> THEN <<>> ELSE Post("batch", batch))
<1>1. /\ OnScan /\ scanAt = "reads" /\ scanAt' = "over" /\ batch' = <<>>
      /\ UNCHANGED <<position, leftover, found, gap>>
      /\ scanPosts' = posts \o Post("done", found)
  BY DEF FinishScan
<1>2. /\ scanPosts \in ScanPosts /\ Kept(batch) /\ batch \in Seq(Candidates) /\ found \in Seq(Candidates)
      /\ Parted(scanPosts, candidates, batch) /\ Single(batch)
      /\ \A i \in DOMAIN scanPosts : Kept(scanPosts[i].list) /\ scanPosts[i].kind = "batch"
  BY <1>1, ScanLeaves DEF Parted
<1>3. /\ <<>> \in Seq(Candidates) /\ Kept(<<>>) /\ Single(<<>>) /\ Apart(batch, <<>>)
      /\ "done" \in {"done", "error"} /\ "batch" \in {"batch", "done", "error"} /\ Kept(found)
  BY DEF Kept, Single, Apart
<1>4. /\ posts \in ScanPosts /\ Parted(posts, candidates, <<>>)
      /\ \A i \in DOMAIN posts : Kept(posts[i].list) /\ posts[i].kind = "batch"
  <2>1. CASE batch = <<>>
    <3>1. posts = scanPosts
      BY <1>2, <2>1 DEF ScanPosts
    <3>. QED
      BY <1>2, <2>1, <3>1
  <2>2. CASE batch # <<>>
    <3>1. posts = scanPosts \o Post("batch", batch)
      BY <2>2
    <3> HIDE DEF posts
    <3>2. OneMore(posts, scanPosts, "batch", batch)
      BY <1>2, <1>3, <3>1, PostedLast
    <3>3. \A k \in DOMAIN batch : \E i \in DOMAIN batch : batch[k] = batch[i]
      OBVIOUS
    <3>4. \A k \in DOMAIN <<>> : \E i \in DOMAIN batch : <<>>[k] = batch[i]
      OBVIOUS
    <3>5. Parted(scanPosts \o Post("batch", batch), candidates, <<>>)
      BY ONLY <1>2, <1>3, <3>3, <3>4, BatchPosted
    <3>6. \A i \in DOMAIN posts : Kept(posts[i].list) /\ posts[i].kind = "batch"
      BY <1>2, <3>2 DEF OneMore
    <3>. QED
      BY <3>1, <3>2, <3>5, <3>6 DEF OneMore
  <2>. QED
    BY <2>1, <2>2
<1> HIDE DEF posts
<1>5. /\ Parted(posts, candidates, batch') /\ Single(batch') /\ Kept(batch')
      /\ batch' \in Seq(Candidates)
  BY <1>1, <1>3, <1>4
<1>. QED
  BY <1>1, <1>2, <1>3, <1>4, <1>5, LastPostKeeps

LEMMA EndKeeps == ASSUME RecoveryIInv, EndScanThread PROVE RecoveryIInv'
<1> USE DEF RecoveryIInv
<1>1. /\ UNCHANGED <<device, bad, scanning, recovering, rows, picked, candidates, recoverPosts,
                     recoverAt, work, copies, scans, scanStop, position, leftover, found, batch,
                     gap, scanPosts>>
      /\ scanAt = "over" /\ scanAt' = "none"
  BY DEF EndScanThread, OnScan
<1>2. RecoveryTypeOK'
  BY <1>1, TypesOf, TypesMake
<1>3. PostTypeOK' /\ RowsAreHeld' /\ CopyIsHeard'
  BY <1>1 DEF PostTypeOK, RowsAreHeld, CopyIsHeard
<1>4. RecoveryWaitsAreFounded'
  BY <1>1 DEF RecoveryWaitsAreFounded, StreamHolds
<1>5. StreamHolds'
  <2>1. /\ Kept(batch)' /\ Single(batch)' /\ (Kept(candidates) => Kept(candidates)')
        /\ Parted(scanPosts, candidates, batch)' = Parted(scanPosts, candidates, batch)
    BY <1>1 DEF StreamHolds, Kept, Single, Parted
  <2>2. \A i \in DOMAIN scanPosts :
           /\ Kept(scanPosts[i].list)' /\ IsLast(i)' = IsLast(i) /\ scanPosts'[i] = scanPosts[i]
    BY <1>1 DEF StreamHolds, Kept, IsLast
  <2>. QED
    BY <1>1, <2>1, <2>2 DEF StreamHolds
<1>6. HeadersAreReal' /\ LeftoverHolds' /\ NoneBefore' /\ FoundInOrder' /\ CopiesHold'
  BY <1>1, ReadingKept, CopiesKept
<1>. QED
  BY <1>2, <1>3, <1>4, <1>5, <1>6

\* The parts of LeftoverHolds after a chunk.
LEMMA LeftoverMakes ==
  ASSUME NEW p \in Nat, position' = p, NEW m \in 0 .. p, p = m * Chunk, UNCHANGED device,
         Len(leftover') <= p,
         p <= Len(device) /\ ~gap' =>
             \A i \in DOMAIN leftover' : leftover'[i] = device[p - Len(leftover') + i],
         0 < p /\ p <= Len(device) => ~Readable(position)' \/ (~gap' /\ leftover' # <<>>)
  PROVE  LeftoverHolds'
<1>1. \E n \in 0 .. position' : position' = n * Chunk
  OBVIOUS
<1>2. Len(leftover') <= position' /\ device' = device /\ position' = p
  OBVIOUS
<1>3. position' <= Len(device') /\ ~gap' =>
          \A i \in DOMAIN leftover' : leftover'[i] = device'[position' - Len(leftover') + i]
  BY <1>2
<1>4. 0 < position' /\ position' <= Len(device') /\ Readable(position)' =>
          ~gap' /\ leftover' # <<>>
  BY <1>2
<1>. QED
  BY ONLY <1>1, <1>2, <1>3, <1>4 DEF LeftoverHolds

\* The cells of a chunk that cannot be read: no header in it is to be found.
LEMMA SkipKeeps == ASSUME RecoveryIInv, SkipChunk PROVE RecoveryIInv'
<1> USE DEF RecoveryIInv
<1>1. /\ OnScan /\ scanAt = "reads" /\ ~AtEnd /\ Unreadable
      /\ position' = position + Chunk /\ gap' = (leftover # <<>>)
      /\ UNCHANGED <<scanAt, leftover, found, batch, scanPosts>>
  BY DEF SkipChunk
<1>2. /\ UNCHANGED <<device, bad, scanning, recovering, rows, picked, candidates, recoverPosts,
                     recoverAt, work, copies, scans, scanStop>>
      /\ CopyIsHeard' /\ RowsAreHeld'
  BY <1>1, ScanLeaves
<1>3. PICK m \in 0 .. position : position = m * Chunk
  BY DEF LeftoverHolds
<1>4. /\ m \in Nat /\ position \in Nat /\ Chunk \in Nat /\ Chunk >= 1 /\ Len(leftover) <= position
      /\ Len(leftover) \in Nat /\ position' = (m + 1) * Chunk /\ m + 1 \in 0 .. position'
      /\ position' \in Nat /\ position < position'
  <2>1. /\ m \in Nat /\ position \in Nat /\ Chunk \in Nat /\ Chunk >= 1
        /\ Len(leftover) <= position /\ Len(leftover) \in Nat
    BY TypesOf DEF LeftoverHolds, PostTypeOK
  <2>2. (m + 1) * Chunk = m * Chunk + Chunk
    BY ONLY <2>1
  <2>. QED
    BY ONLY <1>1, <1>3, <2>1, <2>2
<1>5. position \div Chunk = m /\ m + 1 \in bad
  <2>1. m * Chunk <= position /\ position < m * Chunk + Chunk
    BY ONLY <1>3, <1>4
  <2>. QED
    BY <1>1, <1>4, <2>1, InChunk DEF Unreadable
<1>6. ASSUME NEW x \in Nat, position < x, x <= position' PROVE ~Readable(x)
  <2>1. x - 1 \in Nat /\ m * Chunk <= x - 1 /\ x - 1 < m * Chunk + Chunk
    BY ONLY <1>1, <1>3, <1>4, <1>6
  <2>2. (x - 1) \div Chunk = m
    BY <1>4, <2>1, InChunk
  <2>. QED
    BY <1>5, <2>2 DEF Readable
<1>7. \A x : Readable(x)' <=> Readable(x)
  BY <1>2 DEF Readable
<1>8. LeftoverHolds'
  <2>1. ~Readable(position)'
    <3>1. ~Readable(position')
      BY ONLY <1>4, <1>6
    <3>. QED
      BY <1>2, <3>1 DEF Readable
  <2>2. gap' => ~(position' <= Len(device) /\ ~gap')
    OBVIOUS
  <2>3. ~gap' => DOMAIN leftover' = {}
    <3>1. DOMAIN <<>> = {}
      OBVIOUS
    <3>2. ~gap' => leftover' = <<>>
      BY ONLY <1>1
    <3>. QED
      BY ONLY <3>1, <3>2
  <2>4. m + 1 \in 0 .. position' /\ position' = (m + 1) * Chunk /\ position' \in Nat
        /\ Len(leftover') <= position' /\ device' = device
    BY ONLY <1>1, <1>2, <1>4
  <2>. QED
    BY ONLY <2>1, <2>2, <2>3, <2>4, LeftoverMakes
<1>9. NoneBefore'
  <2>1. ASSUME NEW i \in DOMAIN device, HeaderAt(device, i), i + 1 <= position', Readable(i),
               Readable(i + 1)
        PROVE  i + 1 <= position
    <3>1. i \in Nat /\ i + 1 \in Nat
      <4>1. device \in Seq(Cells)
        BY DEF PostTypeOK, Cells
      <4>. QED
        BY <4>1
    <3>. QED
      BY ONLY <1>4, <1>6, <2>1, <3>1
  <2>. QED
    BY <1>1, <1>2, <1>7, <2>1 DEF NoneBefore, HeaderAt
<1>10. RecoveryTypeOK' /\ PostTypeOK' /\ RecoveryWaitsAreFounded' /\ HeadersAreReal' /\ FoundInOrder'
  <2>1. RecoveryTypeOK'
    BY <1>1, <1>2, <1>4, TypesOf, TypesMake
  <2>2. PostTypeOK'
    BY <1>1, <1>2 DEF PostTypeOK
  <2>3. RecoveryWaitsAreFounded' /\ HeadersAreReal' /\ FoundInOrder'
    BY <1>1, <1>2 DEF RecoveryWaitsAreFounded, HeadersAreReal, FoundInOrder, HeaderAt
  <2>. QED
    BY <2>1, <2>2, <2>3
<1>11. StreamHolds' /\ CopiesHold'
  BY <1>1, <1>2, StreamKept, CopiesKept
<1>. QED
  BY <1>2, <1>8, <1>9, <1>10, <1>11

\* A list of the last of another, as many as there are up to n.
LastOf(t, s, n, X) ==
    /\ t \in Seq(X) /\ Len(t) <= n
    /\ Len(s) > n => /\ Len(t) = n
                     /\ \A i \in 1 .. n : t[i] = s[Len(s) - n + i]

LEMMA LastHolds ==
  ASSUME NEW X, NEW s \in Seq(X), NEW n \in Nat
  PROVE  LastOf(Last(s, n), s, n, X)
<1>1. Len(s) \in Nat /\ \A i \in 1 .. Len(s) : s[i] \in X
  OBVIOUS
<1>2. CASE Len(s) > n
  <2>1. PICK a \in Nat : a = Len(s) - n + 1 /\ a >= 1
    <3>1. Len(s) - n + 1 \in Nat /\ Len(s) - n + 1 >= 1
      BY ONLY <1>1, <1>2, n \in Nat
    <3>. QED
      BY ONLY <3>1
  <2>2. Last(s, n) = SubSeq(s, a, Len(s))
    BY <1>2, <2>1 DEF Last
  <2>3. \A i \in a .. Len(s) : i \in 1 .. Len(s)
    BY ONLY <1>1, <2>1
  <2>4. /\ SubSeq(s, a, Len(s)) \in Seq(X) /\ Len(SubSeq(s, a, Len(s))) = n
        /\ \A i \in 1 .. n : SubSeq(s, a, Len(s))[i] = s[a + i - 1]
    BY <1>1, <2>1, <2>3
  <2>5. \A i \in 1 .. n : a + i - 1 = Len(s) - n + i
    BY ONLY <1>1, <2>1, n \in Nat
  <2>. QED
    BY ONLY <2>2, <2>4, <2>5, n \in Nat DEF LastOf
<1>3. CASE ~(Len(s) > n)
  <2>1. Last(s, n) = SubSeq(s, 1, Len(s)) /\ SubSeq(s, 1, Len(s)) = s
    BY <1>3 DEF Last
  <2>. QED
    <3>2. Len(s) <= n /\ ~(Len(s) > n)
      BY ONLY <1>1, <1>3, n \in Nat
    <3>3. Last(s, n) = s
      BY ONLY <2>1
    <3>. QED
      BY ONLY <3>2, <3>3, s \in Seq(X) DEF LastOf
<1>. QED
  BY <1>2, <1>3

\* The chunk at the position is read: what it adds is behind all found before.
LEMMA ReadKeeps == ASSUME RecoveryIInv, ReadChunk PROVE RecoveryIInv'
<1> USE DEF RecoveryIInv
<1> PICK buf : buf = leftover \o SubSeq(device, position + 1, ChunkEnd)
  OBVIOUS
<1> PICK hits : hits = Hits(buf)
  OBVIOUS
<1> PICK pending : pending = batch \o hits
  OBVIOUS
<1>1. PICK n \in {0} \cup (Len(batch) + 1 .. Len(pending)) :
         /\ batch' = SubSeq(pending, n + 1, Len(pending))
         /\ scanPosts' = scanPosts \o
               (IF n = 0 THEN <<>> ELSE Post("batch", SubSeq(pending, 1, n)))
  BY DEF ReadChunk
<1>2. /\ OnScan /\ scanAt = "reads" /\ scanAt' = "reads" /\ ~AtEnd /\ gap' = FALSE
      /\ position' = position + Chunk /\ found' = found \o hits
      /\ leftover' = IF Windows /\ Len(buf) <= Overlap THEN <<>> ELSE Last(buf, Overlap)
  BY DEF ReadChunk
<1>3. /\ UNCHANGED <<device, bad, scanning, recovering, rows, picked, candidates, recoverPosts,
                     recoverAt, work, copies, scans, scanStop>>
      /\ scanning /\ scanning \in BOOLEAN /\ scanPosts \in ScanPosts
      /\ found \in Seq(Candidates) /\ batch \in Seq(Candidates) /\ candidates \in Seq(Candidates)
      /\ Kept(batch) /\ Kept(candidates) /\ Parted(scanPosts, candidates, batch)
      /\ \A i \in DOMAIN scanPosts : Kept(scanPosts[i].list) /\ scanPosts[i].kind = "batch"
      /\ CopyIsHeard' /\ RowsAreHeld'
  BY <1>2, ScanLeaves
<1>4. /\ hits \in Seq(Candidates)
      /\ \A k \in DOMAIN hits : /\ hits[k].id = Len(found) + k - 1 /\ hits[k].scan = scans
                                /\ hits[k].glued \/ HeaderAt(device, hits[k].start + 1)
      /\ \A i \in 1 .. Len(device) :
            /\ HeaderAt(device, i) /\ i + 1 > position /\ i + 1 <= ChunkEnd
            /\ i = position => ~gap /\ leftover # <<>>
            => \E k \in DOMAIN hits : hits[k].start <= i - 1 /\ i - 1 < hits[k].behind
  BY <1>2, HitsHold
<1>5. Both(found', found, hits) /\ Both(pending, batch, hits)
  BY <1>2, <1>3, <1>4, JoinedHolds
<1>6. /\ DOMAIN found = 1 .. Len(found) /\ Len(found) \in Nat /\ DOMAIN hits \subseteq Int
      /\ \A k \in DOMAIN hits : k >= 1
  BY <1>3, <1>4
<1>7. \A k \in DOMAIN found : found[k].id = k - 1
  BY DEF FoundInOrder
<1>8. ASSUME NEW list, Kept(list) PROVE Apart(list, hits)
  <2>1. ASSUME NEW i \in DOMAIN list, NEW k \in DOMAIN hits PROVE list[i].id # hits[k].id
    <3>1. PICK j \in DOMAIN found : list[i] = found[j]
      BY <1>8 DEF Kept
    <3>2. list[i].id = j - 1 /\ j <= Len(found) /\ hits[k].id = Len(found) + k - 1 /\ k >= 1
      BY <1>4, <1>6, <1>7, <3>1
    <3>. QED
      BY ONLY <1>6, <3>2, k \in DOMAIN hits, j \in DOMAIN found
  <2>. QED
    BY <2>1 DEF Apart
<1>9. Parted(scanPosts, candidates, pending) /\ Single(pending) /\ pending \in Seq(Candidates)
  <2>1. Single(hits)
    BY ONLY <1>4, <1>6 DEF Single
  <2>2. Single(pending) /\ Apart(candidates, pending)
    <3>1. Apart(batch, hits) /\ Apart(candidates, hits)
      BY <1>3, <1>8
    <3>2. Single(batch) /\ Apart(candidates, batch)
      BY <1>3 DEF Parted
    <3>. QED
      BY ONLY <1>3, <1>4, <2>1, <3>1, <3>2, pending = batch \o hits, JoinedApart
  <2>3. ASSUME NEW i \in DOMAIN scanPosts PROVE Apart(scanPosts[i].list, pending)
    <3>1. Apart(scanPosts[i].list, hits) /\ Apart(scanPosts[i].list, batch)
      BY <1>3, <1>8 DEF Parted
    <3>. QED
      BY ONLY <1>3, <1>4, <3>1, pending = batch \o hits, JoinedApart
  <2>4. Parted(scanPosts, candidates, pending)
    BY <1>3, <2>2, <2>3 DEF Parted
  <2>5. pending \in Seq(Candidates)
    BY <1>5 DEF Both
  <2>. QED
    BY <2>2, <2>4, <2>5
<1>10. \A list : Kept(list) => \A k \in DOMAIN list : \E i \in DOMAIN found' : list[k] = found'[i]
  BY ONLY <1>5 DEF Kept, Both
<1>11. \A k \in DOMAIN pending : \E i \in DOMAIN found' : pending[k] = found'[i]
  <2>1. \A k \in DOMAIN hits : \E i \in DOMAIN found' : hits[k] = found'[i]
    BY ONLY <1>5 DEF Both
  <2>2. \A k \in DOMAIN batch : \E i \in DOMAIN found' : batch[k] = found'[i]
    BY ONLY <1>3, <1>10
  <2>3. \A k \in DOMAIN pending : \/ k \in DOMAIN batch /\ pending[k] = batch[k]
                                  \/ \E j \in DOMAIN hits : pending[k] = hits[j]
    BY ONLY <1>5 DEF Both
  <2>. QED
    BY ONLY <2>1, <2>2, <2>3
<1>12. /\ n \in 0 .. Len(pending) /\ Len(pending) \in Nat
  <2>1. Len(pending) \in Nat /\ Len(batch) \in Nat
    BY ONLY <1>3, <1>9
  <2>. QED
    BY ONLY <2>1, n \in {0} \cup (Len(batch) + 1 .. Len(pending))
<1>13. /\ batch' \in Seq(Candidates) /\ Single(batch') /\ scanPosts' \in ScanPosts
       /\ Parted(scanPosts', candidates, batch')
       /\ \A k \in DOMAIN batch' : \E i \in DOMAIN found' : batch'[k] = found'[i]
       /\ \A i \in DOMAIN scanPosts' :
             /\ scanPosts'[i].kind = "batch"
             /\ \A k \in DOMAIN scanPosts'[i].list :
                   \E l \in DOMAIN found' : scanPosts'[i].list[k] = found'[l]
  <2>1. PICK front, back : /\ front = SubSeq(pending, 1, n)
                           /\ back = SubSeq(pending, n + 1, Len(pending))
    OBVIOUS
  <2>2. Parts(pending, n, front, back)
    BY <1>9, <1>12, <2>1, PartsOfAList
  <2>3. CASE n = 0
    <3>1. SubSeq(pending, 0 + 1, Len(pending)) = pending
      <4>1. \A s \in Seq(Candidates) : SubSeq(s, 1, Len(s)) = s /\ 0 + 1 = 1
        OBVIOUS
      <4>. QED
        BY ONLY <1>9, <4>1
    <3>2. scanPosts \o <<>> = scanPosts
      BY <1>3 DEF ScanPosts
    <3>3. batch' = pending /\ scanPosts' = scanPosts
      BY <1>1, <2>3, <3>1, <3>2
    <3>4. \A i \in DOMAIN scanPosts :
             /\ scanPosts[i].kind = "batch"
             /\ \A k \in DOMAIN scanPosts[i].list :
                   \E l \in DOMAIN found' : scanPosts[i].list[k] = found'[l]
      BY ONLY <1>3, <1>10
    <3>. QED
      BY ONLY <1>3, <1>9, <1>11, <3>3, <3>4
  <2>4. CASE n # 0
    <3>1. scanPosts' = scanPosts \o Post("batch", front) /\ batch' = back
      BY <1>1, <2>1, <2>4
    <3>2. "batch" \in {"batch", "done", "error"}
      OBVIOUS
    <3>3. OneMore(scanPosts', scanPosts, "batch", front)
      BY <1>3, <2>2, <3>1, <3>2, PostedLast DEF Parts
    <3>4. Parted(scanPosts', candidates, back)
      <4>1. /\ \A k \in DOMAIN front : \E i \in DOMAIN pending : front[k] = pending[i]
            /\ \A k \in DOMAIN back : \E i \in DOMAIN pending : back[k] = pending[i]
        BY ONLY <2>2 DEF Parts
      <4>. QED
        BY ONLY <1>3, <1>9, <2>2, <3>1, <4>1, BatchPosted DEF Parts
    <3>5. /\ \A k \in DOMAIN back : \E i \in DOMAIN found' : back[k] = found'[i]
          /\ \A k \in DOMAIN front : \E i \in DOMAIN found' : front[k] = found'[i]
      BY ONLY <1>11, <2>2 DEF Parts
    <3>6. ASSUME NEW i \in DOMAIN scanPosts'
          PROVE  /\ scanPosts'[i].kind = "batch"
                 /\ \A k \in DOMAIN scanPosts'[i].list :
                       \E l \in DOMAIN found' : scanPosts'[i].list[k] = found'[l]
      <4>1. CASE i \in DOMAIN scanPosts
        BY ONLY <1>3, <1>10, <3>3, <4>1 DEF OneMore
      <4>2. CASE i = Len(scanPosts) + 1
        BY ONLY <3>3, <3>5, <4>2 DEF OneMore
      <4>. QED
        BY <3>3, <4>1, <4>2 DEF OneMore
    <3>. QED
      BY ONLY <2>2, <3>1, <3>3, <3>4, <3>5, <3>6 DEF OneMore, Parts
  <2>. QED
    BY <2>3, <2>4
<1>14. StreamHolds'
  <2>1. /\ Kept(batch)' /\ Single(batch)' /\ Kept(candidates)'
        /\ Parted(scanPosts, candidates, batch)'
    <3>1. candidates' = candidates /\ Kept(candidates)
      BY <1>3
    <3>2. \A k \in DOMAIN candidates : \E i \in DOMAIN found' : candidates[k] = found'[i]
      BY ONLY <1>10, <3>1
    <3>3. Kept(candidates)'
      BY ONLY <3>1, <3>2 DEF Kept
    <3>4. Kept(batch)' /\ Single(batch)'
      BY ONLY <1>13 DEF Kept, Single
    <3>5. Parted(scanPosts, candidates, batch)'
      BY ONLY <1>13, <3>1
    <3>. QED
      BY ONLY <3>3, <3>4, <3>5
  <2>2. \A i \in DOMAIN scanPosts' : Kept(scanPosts[i].list)' /\ scanPosts'[i].kind = "batch"
    BY <1>13 DEF Kept
  <2>. QED
    BY <1>2, <1>3, <2>1, <2>2 DEF StreamHolds
<1>15. /\ buf \in Seq(Cells) /\ Len(leftover) \in Nat /\ Len(device) \in Nat /\ position \in Nat
       /\ Len(buf) \in Nat /\ device \in Seq(Cells)
       /\ ChunkEnd \in position + 1 .. position + Chunk /\ ChunkEnd <= Len(device)
       /\ position + Chunk <= Len(device) => ChunkEnd = position + Chunk
       /\ Len(buf) = Len(leftover) + (ChunkEnd - position)
       /\ \A i \in position + 1 .. ChunkEnd : buf[Len(leftover) + (i - position)] = device[i]
  <2>1. /\ buf \in Seq(Cells) /\ Len(leftover) \in Nat /\ Len(device) \in Nat
        /\ device \in Seq(Cells)
        /\ ChunkEnd \in position + 1 .. position + Chunk /\ ChunkEnd <= Len(device)
        /\ position + Chunk <= Len(device) => ChunkEnd = position + Chunk
        /\ Len(buf) = Len(leftover) + (ChunkEnd - position)
        /\ \A i \in position + 1 .. ChunkEnd : buf[Len(leftover) + (i - position)] = device[i]
    BY <1>2, BufferHolds
  <2>2. Len(buf) \in Nat
    BY ONLY <2>1
  <2>. QED
    BY <2>1, <2>2, TypesOf
<1>16. /\ leftover' \in Seq(Cells) /\ Len(leftover') <= Overlap
       /\ position + Chunk <= Len(device) =>
             /\ Len(leftover') = Overlap
             /\ \A i \in 1 .. Overlap : leftover'[i] = device[position + Chunk - Overlap + i]
  <2>1. /\ Last(buf, Overlap) \in Seq(Cells) /\ Len(Last(buf, Overlap)) <= Overlap
        /\ Len(buf) > Overlap =>
              /\ Len(Last(buf, Overlap)) = Overlap
              /\ \A i \in 1 .. Overlap : Last(buf, Overlap)[i] = buf[Len(buf) - Overlap + i]
    <3>1. Overlap \in Nat
      BY ONLY RecoveryBounds
    <3>2. LastOf(Last(buf, Overlap), buf, Overlap, Cells)
      BY <1>15, <3>1, LastHolds
    <3>. QED
      BY ONLY <3>2 DEF LastOf
  <2>2. CASE Windows /\ Len(buf) <= Overlap
    <3>1. <<>> \in Seq(Cells) /\ Len(<<>>) = 0 /\ leftover' = <<>>
      BY <1>2, <2>2
    <3>2. ~(position + Chunk <= Len(device))
      BY ONLY <1>15, <2>2, RecoveryBounds
    <3>. QED
      BY ONLY <3>1, <3>2, RecoveryBounds
  <2>3. CASE ~(Windows /\ Len(buf) <= Overlap)
    <3>1. leftover' = Last(buf, Overlap)
      BY <1>2, <2>3
    <3>2. ASSUME position + Chunk <= Len(device)
          PROVE  /\ Len(leftover') = Overlap
                 /\ \A i \in 1 .. Overlap : leftover'[i] = device[position + Chunk - Overlap + i]
      <4>1. Len(buf) = Len(leftover) + Chunk /\ Len(buf) > Overlap /\ ChunkEnd = position + Chunk
        BY ONLY <1>15, <3>2, RecoveryBounds
      <4>2. ASSUME NEW i \in 1 .. Overlap
            PROVE  buf[Len(buf) - Overlap + i] = device[position + Chunk - Overlap + i]
        <5>1. PICK j \in Int : j = position + Chunk - Overlap + i
          BY <1>15
        <5>2. j \in position + 1 .. ChunkEnd /\ Len(leftover) + (j - position) = Len(buf) - Overlap + i
          BY ONLY <1>15, <4>1, <5>1, RecoveryBounds, i \in 1 .. Overlap
        <5>3. buf[Len(leftover) + (j - position)] = device[j]
          BY ONLY <1>15, <5>2
        <5>. QED
          BY ONLY <5>1, <5>2, <5>3
      <4>. QED
        BY ONLY <2>1, <3>1, <4>1, <4>2
    <3>. QED
      BY ONLY <2>1, <3>1, <3>2
  <2>. QED
    BY <2>2, <2>3
<1>17. LeftoverHolds'
  <2>1. PICK m \in 0 .. position : position = m * Chunk
    BY DEF LeftoverHolds
  <2>0. position \in Nat /\ Chunk \in Nat /\ Chunk >= 1 /\ Overlap \in Nat /\ Overlap < Chunk
        /\ m \in Nat /\ m <= position
    <3>1. position \in Nat
      BY <1>15
    <3>. QED
      BY ONLY <3>1, RecoveryBounds, m \in 0 .. position
  <2>2. position + Chunk = (m + 1) * Chunk /\ m + 1 \in 0 .. position + Chunk
    <3>1. (m + 1) * Chunk = m * Chunk + Chunk
      BY ONLY <2>0
    <3>2. position = m * Chunk
      BY <2>1
    <3>3. m + 1 \in 0 .. position + Chunk
      BY ONLY <2>0
    <3>. QED
      BY ONLY <3>1, <3>2, <3>3
  <2>3. /\ Len(leftover') <= position + Chunk /\ Len(leftover') \in Nat
        /\ DOMAIN leftover' = 1 .. Len(leftover')
    <3>1. leftover' \in Seq(Cells)
      BY <1>16
    <3>2. Len(leftover') \in Nat /\ DOMAIN leftover' = 1 .. Len(leftover')
      BY ONLY <3>1
    <3>3. Len(leftover') <= Overlap
      BY <1>16
    <3>. QED
      BY ONLY <2>0, <3>2, <3>3
  <2>4. ASSUME position + Chunk <= Len(device)
        PROVE  /\ leftover' # <<>>
               /\ \A i \in DOMAIN leftover' :
                     leftover'[i] = device[position + Chunk - Len(leftover') + i]
    <3>1. Len(leftover') = Overlap /\ Overlap >= 1
      BY ONLY <1>16, <2>4, RecoveryBounds
    <3>2. leftover' # <<>>
      BY <3>1
    <3>. QED
      BY ONLY <1>16, <2>3, <2>4, <3>1, <3>2
  <2>5. device' = device /\ position' = position + Chunk /\ ~gap' /\ position + Chunk \in Nat
    BY <1>2, <1>3, <2>0
  <2>. QED
    <3>1. PICK p \in Nat : p = position + Chunk
      BY <2>5
    <3>2. m + 1 \in 0 .. p /\ p = (m + 1) * Chunk /\ Len(leftover') <= p /\ position' = p
      BY ONLY <2>2, <2>3, <2>5, <3>1
    <3>3. p <= Len(device) /\ ~gap' =>
              \A i \in DOMAIN leftover' : leftover'[i] = device[p - Len(leftover') + i]
      <4>1. ASSUME p <= Len(device), NEW i \in DOMAIN leftover'
            PROVE  leftover'[i] = device[p - Len(leftover') + i]
        <5>1. leftover'[i] = device[position + Chunk - Len(leftover') + i]
          BY <2>4, <3>1, <4>1
        <5>2. position + Chunk - Len(leftover') + i = p - Len(leftover') + i
          BY ONLY <2>0, <2>3, <3>1, i \in DOMAIN leftover'
        <5>. QED
          BY ONLY <5>1, <5>2
      <4>. QED
        BY <4>1
    <3>4. 0 < p /\ p <= Len(device) => ~Readable(position)' \/ (~gap' /\ leftover' # <<>>)
      BY ONLY <2>4, <2>5, <3>1
    <3>. QED
      BY ONLY <2>5, <3>2, <3>3, <3>4, p \in Nat, LeftoverMakes
<1>18. HeadersAreReal' /\ FoundInOrder'
  <2>1. ASSUME NEW k \in DOMAIN found'
        PROVE  /\ found'[k].id = k - 1
               /\ found'[k].glued \/ HeaderAt(device, found'[k].start + 1)
    <3>1. /\ \/ k \in DOMAIN found /\ found'[k] = found[k]
             \/ k > Len(found) /\ k - Len(found) \in DOMAIN hits /\ found'[k] = hits[k - Len(found)]
          /\ k \in Int
      <4>1. \/ k \in DOMAIN found /\ found'[k] = found[k]
            \/ k > Len(found) /\ k - Len(found) \in DOMAIN hits /\ found'[k] = hits[k - Len(found)]
        <5>1. InTurn(found \o hits, found, hits) /\ found' = found \o hits
          BY <1>2, <1>3, <1>4, Joined
        <5>. QED
          BY ONLY <5>1, k \in DOMAIN found' DEF InTurn
      <4>2. found' \in Seq(Candidates)
        BY <1>5 DEF Both
      <4>. QED
        BY ONLY <4>1, <4>2, k \in DOMAIN found'
    <3>2. CASE k \in DOMAIN found /\ found'[k] = found[k]
      BY <1>7, <3>2 DEF HeadersAreReal
    <3>3. CASE k > Len(found) /\ k - Len(found) \in DOMAIN hits /\ found'[k] = hits[k - Len(found)]
      BY ONLY <1>4, <1>6, <3>1, <3>3
    <3>. QED
      BY <3>1, <3>2, <3>3
  <2>. QED
    BY <1>3, <2>1 DEF HeadersAreReal, FoundInOrder, HeaderAt
<1>19. CopiesHold'
  <2>1. \A k \in DOMAIN found' : found'[k].scan = scans
    <3>1. \A k \in DOMAIN found : found[k].scan = scans
      BY DEF CopiesHold
    <3>. QED
      BY ONLY <1>4, <1>5, <3>1 DEF Both
  <2>. QED
    BY <1>3, <2>1 DEF CopiesHold
<1>20. NoneBefore'
  <2>1. ASSUME NEW i \in DOMAIN device, HeaderAt(device, i), i + 1 <= position + Chunk,
               Readable(i), Readable(i + 1)
        PROVE  \E k \in DOMAIN found' : found'[k].start <= i - 1 /\ i - 1 < found'[k].behind
    <3>1. i \in 1 .. Len(device) /\ i + 1 <= Len(device)
      <4>1. i \in 1 .. Len(device) /\ i < Len(device)
        BY <1>15, <2>1 DEF HeaderAt
      <4>. QED
        BY ONLY <1>15, <4>1
    <3>2. CASE i + 1 <= position
      <4>1. \E k \in DOMAIN found : found[k].start <= i - 1 /\ i - 1 < found[k].behind
        BY <2>1, <3>2 DEF NoneBefore
      <4>. QED
        BY ONLY <1>5, <4>1 DEF Both
    <3>3. CASE i + 1 > position
      <4>1. i + 1 <= ChunkEnd
        BY ONLY <1>15, <2>1, <3>1, <3>3, RecoveryBounds DEF ChunkEnd
      <4>2. i = position => ~gap /\ leftover # <<>>
        BY <1>15, <2>1, <3>1 DEF LeftoverHolds
      <4>3. \E k \in DOMAIN hits : hits[k].start <= i - 1 /\ i - 1 < hits[k].behind
        BY ONLY <1>4, <2>1, <3>1, <3>3, <4>1, <4>2
      <4>. QED
        BY ONLY <1>5, <4>3 DEF Both
    <3>. QED
      BY ONLY <1>15, <3>1, <3>2, <3>3
  <2>2. \A x : Readable(x)' <=> Readable(x)
    BY <1>3 DEF Readable
  <2>. QED
    BY <1>2, <1>3, <2>1, <2>2 DEF NoneBefore, HeaderAt
<1>21. RecoveryTypeOK' /\ PostTypeOK' /\ RecoveryWaitsAreFounded'
  <2>1. found' \in Seq(Candidates) /\ position' \in Nat
    BY <1>2, <1>5, <1>15 DEF Both
  <2>2. RecoveryTypeOK'
    BY <1>2, <1>3, <1>13, <1>16, <2>1, TypesOf, TypesMake
  <2>3. PostTypeOK'
    BY <1>3, <1>13, <1>16 DEF PostTypeOK, ScanPosts, Cells
  <2>4. RecoveryWaitsAreFounded'
    BY <1>2, <1>3 DEF RecoveryWaitsAreFounded
  <2>. QED
    BY <2>2, <2>3, <2>4
<1>. QED
  BY <1>3, <1>14, <1>17, <1>18, <1>19, <1>20, <1>21

LEMMA ScanKeeps == ASSUME RecoveryIInv, Scan PROVE RecoveryIInv'
BY FailKeeps, SkipKeeps, ReadKeeps, FinishKeeps, EndKeeps DEF Scan

LEMMA RecoveryStill == ASSUME RecoveryIInv, UNCHANGED recoveryVars PROVE RecoveryIInv'
<1> USE DEF RecoveryIInv
<1>1. UNCHANGED <<device, bad, scanning, recovering, rows, picked, candidates, scanPosts,
                  recoverPosts, scanAt, position, leftover, found, batch, scanStop, gap,
                  recoverAt, work, copies, scans>>
  BY DEF recoveryVars
<1>2. RecoveryTypeOK'
  BY <1>1, TypesOf, TypesMake
<1>3. PostTypeOK' /\ RowsAreHeld' /\ RecoveryWaitsAreFounded' /\ CopyIsHeard'
  BY <1>1 DEF PostTypeOK, RowsAreHeld, RecoveryWaitsAreFounded, CopyIsHeard
<1>4. /\ HeadersAreReal' /\ LeftoverHolds' /\ NoneBefore' /\ FoundInOrder'
      /\ StreamHolds' /\ CopiesHold'
  BY <1>1, ReadingKept, StreamKept, CopiesKept
<1>. QED
  BY <1>2, <1>3, <1>4

LEMMA RecoveryStarts == ASSUME RecoveryInit PROVE RecoveryIInv
<1> USE DEF RecoveryInit
<1>1. <<>> \in Seq(Candidates) /\ <<>> \in Seq(Cells) /\ <<>> \in ScanPosts
      /\ Len(<<>>) = 0 /\ DOMAIN <<>> = {}
      /\ <<>> \in Seq({"error", "finished"})
  BY DEF ScanPosts
<1>2. RecoveryTypeOK
  <2>1. {rows, candidates, found, batch, work} \subseteq Seq(Candidates)
    BY <1>1
  <2>2. {scanning, recovering, scanStop, gap} \subseteq BOOLEAN
    OBVIOUS
  <2>3. /\ picked \subseteq IdsOf(rows) /\ copies \subseteq Candidates /\ position \in Nat
        /\ Len(leftover) <= Overlap
    BY <1>1
  <2>. QED
    BY <2>1, <2>2, <2>3 DEF RecoveryTypeOK
<1>3. PostTypeOK
  BY <1>1 DEF PostTypeOK, ScanPosts, Cells
<1>4. LeftoverHolds
  <2>1. 0 \in 0 .. 0 /\ 0 = 0 * Chunk
    OBVIOUS
  <2>. QED
    BY <1>1, <2>1 DEF LeftoverHolds
<1>5. NoneBefore
  <2>1. \A i \in DOMAIN device : ~(i + 1 <= 0)
    <3>1. device \in Seq(Cells)
      BY DEF Cells
    <3>. QED
      BY <3>1
  <2>. QED
    BY <2>1 DEF NoneBefore
<1>6. /\ HeadersAreReal /\ RowsAreHeld /\ RecoveryWaitsAreFounded /\ FoundInOrder /\ CopyIsHeard
      /\ CopiesHold
  BY <1>1 DEF HeadersAreReal, RowsAreHeld, RecoveryWaitsAreFounded, FoundInOrder, CopyIsHeard,
              CopiesHold
<1>7. StreamHolds
  BY <1>1 DEF StreamHolds, Kept, Single
<1>. QED
  BY <1>2, <1>3, <1>4, <1>5, <1>6, <1>7 DEF RecoveryIInv

LEMMA RecoveryMoves == RecoveryIInv /\ [RecoveryNext]_recoveryVars => RecoveryIInv'
<1> SUFFICES ASSUME RecoveryIInv, [RecoveryNext]_recoveryVars PROVE RecoveryIInv'
  OBVIOUS
<1>1. CASE UNCHANGED recoveryVars
  BY <1>1, RecoveryStill
<1>2. CASE RecoveryNext
  BY <1>2, ScanClickKeeps, PageKeeps, RecoverClickKeeps, ShowKeeps, ScanKeeps, CopyKeeps
     DEF RecoveryNext
<1>. QED
  BY <1>1, <1>2

\* What was before the position when the scan came to the end is the device.
LEMMA RecoveryIInvImplies == RecoveryIInv => RecoveryInv
<1> SUFFICES ASSUME RecoveryIInv PROVE RecoveryInv
  OBVIOUS
<1> USE DEF RecoveryIInv
<1>1. NoneIsMissed
  <2> SUFFICES ASSUME position >= Len(device), NEW i \in DOMAIN device, HeaderAt(device, i),
                      Readable(i), Readable(i + 1)
               PROVE  \E k \in DOMAIN found : found[k].start <= i - 1 /\ i - 1 < found[k].behind
    BY DEF NoneIsMissed
  <2>1. device \in Seq(Cells) /\ position \in Nat
    BY TypesOf DEF PostTypeOK, Cells
  <2>2. i \in Nat /\ Len(device) \in Nat /\ i < Len(device)
    BY <2>1 DEF HeaderAt
  <2>3. i + 1 <= position
    BY ONLY <2>1, <2>2, position >= Len(device)
  <2>. QED
    BY <2>3 DEF NoneBefore
<1>. QED
  BY <1>1 DEF RecoveryInv

\* A copy is taken away only by a candidate of the same id, which is itself
\* or one of a later scan.
LEMMA CopiesReplaced == RecoveryIInv /\ [RecoveryNext]_recoveryVars => LostToItsName
<1> SUFFICES ASSUME RecoveryIInv, [RecoveryNext]_recoveryVars,
                    NEW c \in copies, c \notin copies'
             PROVE  /\ recoverAt = "copies" /\ work # <<>> /\ Head(work).id = c.id
                    /\ Head(work) = c \/ Head(work).scan > c.scan
  BY DEF LostToItsName
<1>1. /\ recoverAt = "copies" /\ work # <<>>
      /\ {o \in copies : o.id # Head(work).id} \subseteq copies'
  <2>1. CASE UNCHANGED copies
    BY <2>1
  <2>2. CASE CopyOne
    BY <2>2 DEF CopyOne
  <2>3. UNCHANGED copies \/ CopyOne
    <3>1. CASE UNCHANGED recoveryVars
      BY <3>1 DEF recoveryVars
    <3>2. CASE ClickScan \/ ClickCancelScan \/ ClickNewScan \/ ClickRows \/ ClickRecover
      BY <3>2 DEF ClickScan, ClickCancelScan, ClickNewScan, ClickRows, ClickRecover
    <3>3. CASE ShowScan \/ ShowRecover
      BY <3>3 DEF ShowScan, ShowRecover
    <3>4. CASE Scan
      BY <3>4 DEF Scan, ScanFails, SkipChunk, ReadChunk, FinishScan, EndScanThread, OnScan
    <3>5. CASE Copy
      BY <3>5 DEF Copy, FinishCopying, EndCopyThread
    <3>. QED
      BY <3>1, <3>2, <3>3, <3>4, <3>5 DEF RecoveryNext
  <2>. QED
    BY <2>1, <2>2, <2>3
<1>2. work \in Seq(Candidates) /\ copies \subseteq Candidates
  BY TypesOf DEF RecoveryIInv
<1>3. Head(work) = work[1] /\ 1 \in DOMAIN work /\ work[1] \in Candidates
  BY <1>1, <1>2
<1>4. c.id = Head(work).id
  BY <1>1
<1>5. c.scan <= work[1].scan /\ (c.scan = work[1].scan => c = work[1])
  BY <1>3, <1>4 DEF RecoveryIInv, CopiesHold
<1>6. c.scan \in Nat /\ work[1].scan \in Nat
  BY <1>2, <1>3 DEF Candidates
<1>. QED
  BY <1>1, <1>3, <1>4, <1>5, <1>6

\* A scan of a device lists only headers, misses none that can be read, at no
\* border of two chunks; what the page lists the controller holds; a wait of
\* the page has a thread or a signal behind it (recovery_controller.py).
THEOREM RecoveryInvariant == RecoverySpec => []RecoveryInv
<1>1. RecoveryInit => RecoveryIInv
  BY RecoveryStarts
<1>. QED
  BY <1>1, RecoveryMoves, RecoveryIInvImplies, PTL DEF RecoverySpec

\* A recovered file is lost only while a candidate of its id is written, the
\* same one again or one of a later scan: within one scan no two candidates
\* have the same name, and a failed write destroys no other file
\* (recovery_controller.py).
THEOREM RecoveredFilesStay == RecoverySpec => CopiesStay
<1>1. RecoveryInit => RecoveryIInv
  BY RecoveryStarts
<1>2. RecoveryIInv /\ [RecoveryNext]_recoveryVars => [LostToItsName]_recoveryVars
  BY CopiesReplaced
<1>. QED
  BY <1>1, <1>2, RecoveryMoves, PTL DEF RecoverySpec, CopiesStay

------------------------------------------------------------------------------
(* The pages together.  A step of one leaves the variables of the others     *)
(* alone, so that each page behaves as its own specification says.           *)

HIDE RecoveryBounds
HIDE DEF pageRVars, scanVars, copyVars, mediumVars

LEMMA PagesStep ==
  [PagesNext]_pagesVars =>
      /\ [ExplainNext]_explainVars /\ [ShredderNext]_shredderVars
      /\ [RecoveryNext]_recoveryVars /\ [ChatNext]_chatVars
      /\ [SecurityNext]_securityVars /\ [HistoryNext]_historyVars
BY DEF PagesNext, pagesVars, OnEvents, OnShredder, OnRecovery, OnChat, OnSecurity, OnRecords

LEMMA PagesStart ==
  PagesInit => /\ ExplainIInv /\ ShredderIInv /\ RecoveryIInv /\ ChatIInv /\ SecurityIInv
               /\ HistoryInv
<1> SUFFICES ASSUME PagesInit
             PROVE  /\ ExplainIInv /\ ShredderIInv /\ RecoveryIInv /\ ChatIInv /\ SecurityIInv
                    /\ HistoryInv
  OBVIOUS
<1>1. ExplainInit /\ ShredderInit /\ RecoveryInit /\ ChatInit /\ SecurityRests /\ HistoryInit
  BY DEF PagesInit
<1>2. launching \in BOOLEAN
  BY Zenon DEF PagesInit
<1>. QED
  BY <1>1, <1>2, ExplainInitInv, ShredderInitInv, RecoveryStarts, ChatInitInv, SecurityInitInv,
     HistoryInitInv

\* The conjunction of the pages' inductive invariants.
PagesIInv ==
    /\ ExplainIInv /\ ShredderIInv /\ RecoveryIInv /\ ChatIInv /\ SecurityIInv /\ HistoryInv

LEMMA PagesIInvStep == PagesIInv /\ [PagesNext]_pagesVars => PagesIInv'
  BY PagesStep, ExplainStepInv, ShredderStepInv, RecoveryMoves, ChatStepInv, SecurityStepInv,
     HistoryStepInv DEF PagesIInv

\* Composed on one desktop, no page takes a step that lets a request through
\* an open breaker or loses a recovered file to another of its scan.
THEOREM PagesStepsHold == PagesSpec => PagesSteps
<1>1. PagesInit => PagesIInv
  BY PagesStart DEF PagesIInv
<1>2. PagesIInv /\ [PagesNext]_pagesVars => [DrainsOnly /\ LostToItsName]_pagesVars
  <2> SUFFICES ASSUME PagesIInv, [PagesNext]_pagesVars
               PROVE  DrainsOnly /\ LostToItsName
    OBVIOUS
  <2>1. [DrainsOnly]_explainVars /\ LostToItsName
    BY PagesStep, BreakerStep, CopiesReplaced DEF PagesIInv
  <2>2. UNCHANGED explainVars => DrainsOnly
    BY DEF explainVars, askVars, groqVars, DrainsOnly, InFlight
  <2>. QED
    BY <2>1, <2>2
<1>. QED
  BY <1>1, <1>2, PagesIInvStep, PTL DEF PagesSpec, PagesSteps
==============================================================================
