---------------------------- MODULE FileRecovery ----------------------------
(***************************************************************************)
(* File recovery (filefunction/recovery_controller.py and the recovery tab *)
(* of FileFunction.qml): a thread that reads a raw device chunk by chunk   *)
(* and lists what begins with a known header, and a thread that copies the *)
(* candidates chosen to files.                                             *)
(*                                                                         *)
(* The device is a sequence of cells; a header is the two cells "a" "b", a *)
(* footer the cell "z".  One signature stands for the dictionary the code  *)
(* goes through; its size limits are longer than a buffer.  Windows is a   *)
(* constant: there an unreadable chunk is an empty one, which is the end   *)
(* of the volume, and an unreadable candidate is an exception or nothing.  *)
(* Left out: several volumes, and that an mp4 begins 4 bytes before its    *)
(* header (in the Windows thread).                                         *)
(***************************************************************************)
EXTENDS Naturals, Sequences

CONSTANTS
    Devices,    \* contents a device may have
    Faults,     \* sets of chunks that may be unreadable together
    Chunk,      \* _LINUX_CHUNK_SIZE, SCAN_CHUNK
    Overlap,    \* _LINUX_OVERLAP, OVERLAP_SIZE
    MaxChunks,  \* _LINUX_MAX_CHUNKS
    Windows,    \* the platform
    MaxScans,   \* bound
    MaxPosts    \* bound: signals of a copying thread not delivered at a click

ASSUME RecoveryBounds ==
    /\ Chunk \in Nat /\ Overlap \in 1 .. Chunk - 1
    /\ Windows \in BOOLEAN /\ MaxScans \in Nat /\ MaxPosts \in Nat
    /\ Faults \subseteq SUBSET Nat
    /\ \A d \in Devices : d \in Seq({"a", "b", "x", "z"})

ASSUME ReadDepth == MaxChunks \in Nat

VARIABLES
    device, bad,    \* its cells, and the chunks that cannot be read
    \* the page
    scanning, recovering, rows, picked,
    \* the controller
    candidates,     \* _candidates
    scanPosts, recoverPosts,        \* signals posted to the UI thread
    \* the scanning thread
    scanAt,         \* "none", "reads", "over"
    position, leftover, found, batch, scanStop,
    gap,            \* a chunk was skipped between the leftover and the next
    \* the recovering thread
    recoverAt,      \* "none", "copies", "over"
    work,           \* candidates still to copy
    \* the disk, and history
    copies,         \* the candidates whose copy is on the disk, one per id
    scans           \* scans started

pageRVars == <<scanning, recovering, rows, picked>>
scanVars  == <<scanAt, position, leftover, found, batch, scanStop, gap>>
copyVars  == <<recoverAt, work, copies>>
mediumVars == <<device, bad>>
recoveryVars == <<mediumVars, pageRVars, candidates, scanPosts, recoverPosts,
                  scanVars, copyVars, scans>>

HeaderAt(s, i) == i < Len(s) /\ s[i] = "a" /\ s[i + 1] = "b"

(* _find_end: behind the first footer after the header, else the end. *)
FindEnd(s, i) ==
    LET footers == {j \in i + 2 .. Len(s) : s[j] = "z"}
    IN IF footers = {} THEN Len(s) + 1
       ELSE 1 + CHOOSE j \in footers : \A k \in footers : j <= k

(* The search of one buffer: <<first, behind>> of what it finds, in order;  *)
(* it goes on behind the end of what was found.                             *)
Search(s) ==
    LET from[i \in 1 .. Len(s) + 1] ==
          IF i > Len(s) THEN <<>>
          ELSE IF HeaderAt(s, i) THEN <<<<i, FindEnd(s, i)>>>> \o from[FindEnd(s, i)]
               ELSE from[i + 1]
    IN from[1]

Last(s, n) == SubSeq(s, IF Len(s) > n THEN Len(s) - n + 1 ELSE 1, Len(s))

RecoveryInit ==
    /\ device \in Devices
    /\ bad \in Faults
    /\ scanning = FALSE /\ recovering = FALSE /\ rows = <<>> /\ picked = {}
    /\ candidates = <<>> /\ scanPosts = <<>> /\ recoverPosts = <<>>
    /\ scanAt = "none" /\ position = 0 /\ leftover = <<>> /\ found = <<>>
    /\ batch = <<>> /\ scanStop = FALSE /\ gap = FALSE
    /\ recoverAt = "none" /\ work = <<>>
    /\ copies = {} /\ scans = 0

IdsOf(list) == {list[i].id : i \in DOMAIN list}

(* The candidates of a list whose ids are among some, in order. *)
Selected(list, ids) ==
    LET from[i \in 1 .. Len(list) + 1] ==
          IF i > Len(list) THEN <<>>
          ELSE IF list[i].id \in ids THEN <<list[i]>> \o from[i + 1]
               ELSE from[i + 1]
    IN from[1]

------------------------------------------------------------------------------
(* The page and the controller, on the UI thread. *)

ClearPage == rows' = <<>> /\ picked' = {} /\ recovering' = FALSE

(* The page is cleared and startRecoveryScan called; while the thread before *)
(* it runs, it answers with an error.                                        *)
ClickScan ==
    /\ ~scanning /\ ~recovering /\ ClearPage
    /\ IF scanAt # "none" THEN UNCHANGED <<scanning, candidates, scanVars, scans>>
       ELSE /\ scans < MaxScans /\ scans' = scans + 1
            /\ scanning' = TRUE /\ candidates' = <<>> /\ scanAt' = "reads"
            /\ position' = 0 /\ leftover' = <<>> /\ found' = <<>> /\ batch' = <<>>
            /\ scanStop' = FALSE /\ gap' = FALSE
    /\ UNCHANGED <<mediumVars, scanPosts, recoverPosts, copyVars>>

ClickCancelScan ==
    /\ scanning
    /\ scanStop' = (scanStop \/ scanAt # "none")
    /\ UNCHANGED <<mediumVars, pageRVars, candidates, scanPosts, recoverPosts,
                   scanAt, position, leftover, found, batch, gap, copyVars, scans>>

(* "New Scan": the page forgets, threads and the controller do not. *)
ClickNewScan ==
    /\ ~scanning /\ rows # <<>> /\ ClearPage
    /\ UNCHANGED <<mediumVars, scanning, candidates, scanPosts, recoverPosts,
                   scanVars, copyVars, scans>>

ClickRows ==
    /\ rows # <<>>
    /\ picked' \in SUBSET IdsOf(rows)
    /\ UNCHANGED <<mediumVars, scanning, recovering, rows, candidates, scanPosts,
                   recoverPosts, scanVars, copyVars, scans>>

(* recoverSelected.  Both of its errors come before the click's handler ends. *)
ClickRecover ==
    /\ picked # {} /\ ~recovering /\ ~scanning
    /\ Len(recoverPosts) < MaxPosts
    /\ LET selected == Selected(candidates, picked)
       IN IF recoverAt # "none" \/ selected = <<>>
          THEN UNCHANGED <<recovering, recoverAt, work>>
          ELSE recovering' = TRUE /\ recoverAt' = "copies" /\ work' = selected
    /\ UNCHANGED <<mediumVars, scanning, rows, picked, candidates, scanPosts,
                   recoverPosts, scanVars, copies, scans>>

(* _on_candidate_batch, _on_scan_done, and the page's handlers. *)
ShowScan ==
    /\ scanPosts # <<>> /\ scanPosts' = Tail(scanPosts)
    /\ LET post == Head(scanPosts) IN
       /\ candidates' = IF post.kind = "batch" THEN candidates \o post.list
                        ELSE IF post.kind = "done" THEN post.list ELSE candidates
       /\ rows' = rows \o (IF post.kind = "batch" THEN post.list ELSE <<>>)
       /\ scanning' = (scanning /\ post.kind = "batch")
    /\ UNCHANGED <<mediumVars, recovering, picked, recoverPosts, scanVars, copyVars,
                   scans>>

(* Finished, or the error of one candidate: the page takes it for the end. *)
ShowRecover ==
    /\ recoverPosts # <<>> /\ recoverPosts' = Tail(recoverPosts)
    /\ recovering' = FALSE
    /\ UNCHANGED <<mediumVars, scanning, rows, picked, candidates, scanPosts,
                   scanVars, copyVars, scans>>

------------------------------------------------------------------------------
(* The scanning thread. *)

OnScan == UNCHANGED <<mediumVars, pageRVars, candidates, recoverPosts, copyVars,
                      scans, scanStop>>

Post(kind, list) == <<[kind |-> kind, list |-> list]>>

(* No administrator, no device, or it does not open. *)
ScanFails ==
    /\ scanAt = "reads" /\ position = 0 /\ scanAt' = "over"
    /\ scanPosts' = scanPosts \o Post("error", <<>>)
    /\ OnScan /\ UNCHANGED <<position, leftover, found, batch, gap>>

Unreadable == position \div Chunk + 1 \in bad

(* The device is read, or as much of it as is ever read: on Linux a number *)
(* of chunks, the skipped ones counted.                                    *)
AtEnd ==
    \/ position >= Len(device)
    \/ IF Windows THEN Unreadable ELSE position >= MaxChunks * Chunk

(* On Linux an unreadable chunk is skipped; what was left over of the chunk *)
(* before it stays, and will be joined to the one behind it.                *)
SkipChunk ==
    /\ scanAt = "reads" /\ ~scanStop /\ ~AtEnd /\ Unreadable
    /\ position' = position + Chunk /\ gap' = (leftover # <<>>)
    /\ OnScan /\ UNCHANGED <<scanAt, leftover, found, batch, scanPosts>>

(* A mutant: each buffer counts its candidates anew. *)
HitsRenumbered(buf) ==
    [k \in DOMAIN Search(buf) |->
       LET hit == Search(buf)[k] start == position + hit[1] - 1 - Len(leftover)
       IN [id |-> k - 1, start |-> start, behind |-> start + hit[2] - hit[1],
           scan |-> scans, glued |-> gap /\ hit[1] <= Len(leftover)]]

(* A mutant: what was left over is not counted in an offset. *)
HitsUnshifted(buf) ==
    [k \in DOMAIN Search(buf) |->
       LET hit == Search(buf)[k] start == position + hit[1] - 1
       IN [id |-> Len(found) + k - 1, start |-> start, behind |-> start + hit[2] - hit[1],
           scan |-> scans, glued |-> gap /\ hit[1] <= Len(leftover)]]

(* The candidates of a buffer, at their offsets on the device. *)
Hits(buf) ==
    [k \in DOMAIN Search(buf) |->
       LET hit == Search(buf)[k] start == position + hit[1] - 1 - Len(leftover)
       IN [id |-> Len(found) + k - 1, start |-> start, behind |-> start + hit[2] - hit[1],
           scan |-> scans, glued |-> gap /\ hit[1] <= Len(leftover)]]

ChunkEnd == IF position + Chunk < Len(device) THEN position + Chunk ELSE Len(device)

(* A batch is posted at a candidate if 0.4 s have passed since the last. *)
ReadChunk ==
    /\ scanAt = "reads" /\ ~scanStop /\ ~AtEnd /\ ~Unreadable
    /\ LET buf == leftover \o SubSeq(device, position + 1, ChunkEnd)
           hits == Hits(buf)
           pending == batch \o hits
       IN /\ found' = found \o hits
          /\ \E n \in {0} \cup (Len(batch) + 1 .. Len(pending)) :
                /\ batch' = SubSeq(pending, n + 1, Len(pending))
                /\ scanPosts' = scanPosts \o
                      (IF n = 0 THEN <<>> ELSE Post("batch", SubSeq(pending, 1, n)))
          /\ leftover' = IF Windows /\ Len(buf) <= Overlap THEN <<>> ELSE Last(buf, Overlap)
    /\ position' = position + Chunk /\ gap' = FALSE
    /\ OnScan /\ UNCHANGED scanAt

(* The end of the device, or cancelled: what is pending goes out first. *)
FinishScan ==
    /\ scanAt = "reads" /\ (scanStop \/ AtEnd) /\ scanAt' = "over"
    /\ scanPosts' = scanPosts \o (IF batch = <<>> THEN <<>> ELSE Post("batch", batch))
                              \o Post("done", found)
    /\ batch' = <<>>
    /\ OnScan /\ UNCHANGED <<position, leftover, found, gap>>

EndScanThread ==
    /\ scanAt = "over" /\ scanAt' = "none"
    /\ OnScan /\ UNCHANGED <<position, leftover, found, batch, gap, scanPosts>>

Scan == ScanFails \/ SkipChunk \/ ReadChunk \/ FinishScan \/ EndScanThread

------------------------------------------------------------------------------
(* The recovering thread. *)

OnCopy == UNCHANGED <<mediumVars, pageRVars, candidates, scanPosts, scanVars, scans>>

Touches(c) == \E o \in c.start .. c.behind - 1 : o \div Chunk + 1 \in bad

(* candidate_<id> is written over whatever has that name.  A write that    *)
(* fails may have emptied the file first; a candidate that cannot be read  *)
(* leaves the file alone, in silence or, on Windows, with an error.        *)
CopyOne ==
    /\ recoverAt = "copies" /\ work # <<>> /\ work' = Tail(work)
    /\ LET others == {c \in copies : c.id # Head(work).id}
           fails  == recoverPosts' = Append(recoverPosts, "error")
       IN \/ /\ ~Touches(Head(work)) /\ UNCHANGED recoverPosts
             /\ copies' = others \cup {Head(work)}
          \/ ~Touches(Head(work)) /\ copies' \in {copies, others} /\ fails
          \/ UNCHANGED copies /\ (UNCHANGED recoverPosts \/ (Windows /\ fails))
    /\ OnCopy /\ UNCHANGED recoverAt

(* The last is done, or a folder cannot be made. *)
FinishCopying ==
    /\ recoverAt = "copies" /\ recoverAt' = "over" /\ work' = <<>>
    /\ \/ work = <<>> /\ recoverPosts' = Append(recoverPosts, "finished")
       \/ work # <<>> /\ recoverPosts' = Append(recoverPosts, "error")
    /\ OnCopy /\ UNCHANGED copies

EndCopyThread ==
    /\ recoverAt = "over" /\ recoverAt' = "none"
    /\ OnCopy /\ UNCHANGED <<work, copies, recoverPosts>>

Copy == CopyOne \/ FinishCopying \/ EndCopyThread

RecoveryNext ==
    \/ ClickScan \/ ClickCancelScan \/ ClickNewScan \/ ClickRows \/ ClickRecover
    \/ ShowScan \/ ShowRecover \/ Scan \/ Copy

(* Threads run, posted signals are delivered. *)
RecoveryFairness ==
    /\ WF_recoveryVars(Scan) /\ WF_recoveryVars(Copy)
    /\ WF_recoveryVars(ShowScan) /\ WF_recoveryVars(ShowRecover)

RecoverySpec == RecoveryInit /\ [][RecoveryNext]_recoveryVars /\ RecoveryFairness

------------------------------------------------------------------------------
(* Properties. *)

Candidates == [id : Nat, start : Nat, behind : Nat, scan : Nat, glued : BOOLEAN]

RecoveryTypeOK ==
    /\ {scanning, recovering, scanStop, gap} \subseteq BOOLEAN
    /\ {rows, candidates, found, batch, work} \subseteq Seq(Candidates)
    /\ picked \subseteq IdsOf(rows) /\ copies \subseteq Candidates
    /\ scanAt \in {"none", "reads", "over"} /\ recoverAt \in {"none", "copies", "over"}
    /\ position \in Nat /\ Len(leftover) <= Overlap

(* A candidate begins where the device holds a header, unless it was found in *)
(* what was left over of a chunk and joined across one that was skipped.      *)
HeadersAreReal ==
    \A i \in DOMAIN found :
        found[i].glued \/ HeaderAt(device, found[i].start + 1)

(* A scan that came to the end of the device has missed no header, at no    *)
(* border of two chunks: each begins a candidate or lies within one.        *)
Readable(i) == (i - 1) \div Chunk + 1 \notin bad
NoneIsMissed ==
    scanAt = "over" /\ position >= Len(device) =>
        \A i \in DOMAIN device :
            HeaderAt(device, i) /\ Readable(i) /\ Readable(i + 1) =>
                \E k \in DOMAIN found : found[k].start <= i - 1 /\ i - 1 < found[k].behind

(* What the page lists is what the controller holds, once it can be asked to *)
(* recover it: no row picked is unknown, or known as another candidate.      *)
RowsAreHeld ==
    /\ \A i \in DOMAIN rows : \E k \in DOMAIN candidates : candidates[k] = rows[i]
    /\ \A i, k \in DOMAIN candidates : candidates[i].id = candidates[k].id => i = k

(* While the page waits, a thread runs or its last signal is on the way. *)
RecoveryWaitsAreFounded ==
    /\ scanning => scanAt # "none" \/ scanPosts # <<>>
    /\ recovering => recoverAt # "none" \/ recoverPosts # <<>>

RecoveryInv ==
    /\ RecoveryTypeOK /\ HeadersAreReal /\ NoneIsMissed /\ RowsAreHeld
    /\ RecoveryWaitsAreFounded

(* A copy on the disk is lost only while a candidate of its id is written: *)
(* the same one again, which may fail, or one of a later scan, since ids   *)
(* begin at 0 with each scan.  No other candidate of its own scan takes    *)
(* its name, and no signal or click unmakes it.                            *)
LostToItsName ==
    \A c \in copies : c \notin copies' =>
        /\ recoverAt = "copies" /\ work # <<>> /\ Head(work).id = c.id
        /\ Head(work) = c \/ Head(work).scan > c.scan
CopiesStay == [][LostToItsName]_recoveryVars
==============================================================================
