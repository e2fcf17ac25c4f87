--------------------------- MODULE QuarantineVault ---------------------------
(***************************************************************************)
(* The quarantine vault, backend/engines/scanning/quarantine_manager.py.   *)
(*                                                                         *)
(* One process-wide vault object is called by several threads at once: the *)
(* real-time protection worker quarantines, the UI thread restores and     *)
(* deletes, the assistant does either.  No method takes a lock.  A call is *)
(* a sequence of file-system steps: the payload and key files of one id,   *)
(* the file being vaulted, and the one JSON ledger, which every operation  *)
(* reads, changes in memory, truncates and rewrites.  Each file-system     *)
(* step is an action here, so that calls interleave, fail and die between  *)
(* any two of them.                                                        *)
(***************************************************************************)
CONSTANTS
  Actors,    \* threads that may be inside a vault method
  Files,     \* paths of files that can be quarantined
  Contents,  \* what a file may hold
  Ids,       \* quarantine ids (UUIDs): one is spent by every call, the bound
  Faults,    \* which faults occur, a subset of AllFaults
  Absent,    \* no file at a path
  Damaged,   \* a file whose rewriting failed half-way
  NoId       \* an actor that is not inside a call

AllFaults == {"read", "write", "unlink", "ledger", "crash"}
Bytes == Contents \cup {Damaged}

ASSUME FaultsAssumption == Faults \subseteq AllFaults
ASSUME SentinelAssumption ==
  /\ Absent \notin Bytes
  /\ NoId \notin Ids

VARIABLES
  disk,       \* [Files -> Bytes \cup {Absent}], outside the vault
  payload,    \* <id>.quarantine
  key,        \* <id>.key
  origin,     \* the path and bytes an id was minted for (what its entry says)
  ledger,     \* the statuses a read of vault_ledger.json yields now
  truncated,  \* the ledger file was opened for writing, nothing written since
  pc,         \* where each actor is
  cur,        \* the id each actor works on
  goal,       \* the status the actor's ledger rewrite will record
  snap,       \* the ledger an actor loaded and has not saved yet
  fate,       \* history: what became of the bytes of an id
  told        \* history: ids whose quarantine returned success

vars == <<disk, payload, key, origin, ledger, truncated, pc, cur, goal, snap,
          fate, told>>

Status == {"none", "quarantined", "restored", "deleted"}
Ledger == [Ids -> Status]
EmptyLedger == [i \in Ids |-> "none"]
FileState == {"absent", "torn", "whole"}

\* unborn -> copying -> vaulted (original removed) or kept (it could not be)
\* -> released (bytes written back, or deletion asked for and begun)
Fate == {"unborn", "copying", "vaulted", "kept", "released"}
Quarantining == {"payload", "key", "unlink"}
Releasing == {"read", "writeback", "clean", "purge"}
Recording == {"load", "truncate", "save"}
PC == {"idle"} \cup Quarantining \cup Releasing \cup Recording

Origin == [path : Files, bytes : Bytes]
Nowhere == [path |-> Absent, bytes |-> Absent]

Init ==
  /\ disk \in [Files -> Contents \cup {Absent}]
  /\ payload = [i \in Ids |-> "absent"]
  /\ key = [i \in Ids |-> "absent"]
  /\ origin = [i \in Ids |-> Nowhere]
  /\ ledger = EmptyLedger
  /\ truncated = FALSE
  /\ pc = [a \in Actors |-> "idle"]
  /\ cur = [a \in Actors |-> NoId]
  /\ goal = [a \in Actors |-> "none"]
  /\ snap = [a \in Actors |-> EmptyLedger]
  /\ fate = [i \in Ids |-> "unborn"]
  /\ told = {}

-----------------------------------------------------------------------------
(* What every step leaves alone unless it says otherwise. *)
files == <<payload, key>>
ledgerFile == <<ledger, truncated>>
call == <<cur, goal>>
history == <<fate, told>>

Goto(a, label) == pc' = [pc EXCEPT ![a] = label]

Return(a) ==
  /\ pc' = [pc EXCEPT ![a] = "idle"]
  /\ cur' = [cur EXCEPT ![a] = NoId]
  /\ goal' = [goal EXCEPT ![a] = "none"]

Enter(a, i, status, label) ==
  /\ pc[a] = "idle"
  /\ pc' = [pc EXCEPT ![a] = label]
  /\ cur' = [cur EXCEPT ![a] = i]
  /\ goal' = [goal EXCEPT ![a] = status]

(* Unlinking the payload, then the key; what remains when that fails is a   *)
(* key alone or both files.                                                 *)
Unlinked(i) ==
  /\ payload' = [payload EXCEPT ![i] = "absent"]
  /\ key' = [key EXCEPT ![i] = "absent"]

UnlinkFails(i) ==
  /\ "unlink" \in Faults
  /\ payload' \in {payload, [payload EXCEPT ![i] = "absent"]}
  /\ UNCHANGED key

-----------------------------------------------------------------------------
(* Slips: wrong versions of definitions below, each the code with one guard *)
(* or order lost.  No action uses them; a property that none of them can    *)
(* break would say nothing about the code.                                  *)

\* A failed key write is logged and the call goes on to unlink the original.
WriteFailsSlip(a) ==
  /\ "write" \in Faults
  /\ pc[a] = "key"
  /\ Goto(a, "unlink")
  /\ UNCHANGED <<disk, files, origin, ledgerFile, call, snap, history>>

\* The vault is cleaned as soon as it is read, before the write-back.
ReadPayloadSlip(a) ==
  /\ pc[a] = "read"
  /\ Unlinked(cur[a])
  /\ Goto(a, "writeback")
  /\ UNCHANGED <<disk, origin, ledgerFile, call, snap, history>>

\* restore_file no longer looks at the entry's status.
BeginRestoreSlip(a, i) ==
  /\ ledger[i] # "none"
  /\ Enter(a, i, "restored", "read")
  /\ UNCHANGED <<disk, files, origin, ledgerFile, snap, history>>

\* A deletion goes by the id alone, without asking the ledger.
BeginDeleteSlip(a, i) ==
  /\ fate[i] # "unborn"
  /\ Enter(a, i, "deleted", "purge")
  /\ UNCHANGED <<disk, files, origin, ledgerFile, snap, history>>

\* An append starts a new ledger instead of extending the loaded one.
NewLedgerAlone(a) ==
  IF goal[a] = "quarantined" THEN [EmptyLedger EXCEPT ![cur[a]] = goal[a]]
  ELSE [snap[a] EXCEPT ![cur[a]] = goal[a]]

\* A deletion drops the entry instead of keeping it for the audit.
NewLedgerForgets(a) ==
  [snap[a] EXCEPT ![cur[a]] = IF goal[a] = "deleted" THEN "none" ELSE goal[a]]

\* An update loses the new status.
NewLedgerStale(a) ==
  IF goal[a] = "quarantined" THEN [snap[a] EXCEPT ![cur[a]] = goal[a]]
  ELSE snap[a]

-----------------------------------------------------------------------------
(* quarantine_file: the checks and the gates on the caller's metadata have  *)
(* passed (a refused call changes nothing); the bytes are read and an id is *)
(* minted for them.                                                         *)
BeginQuarantine(a, f, i) ==
  /\ fate[i] = "unborn"
  /\ disk[f] # Absent
  /\ Enter(a, i, "quarantined", "payload")
  /\ origin' = [origin EXCEPT ![i] = [path |-> f, bytes |-> disk[f]]]
  /\ fate' = [fate EXCEPT ![i] = "copying"]
  /\ UNCHANGED <<disk, files, ledgerFile, snap, told>>

WritePayload(a) ==
  /\ pc[a] = "payload"
  /\ payload' = [payload EXCEPT ![cur[a]] = "whole"]
  /\ Goto(a, "key")
  /\ UNCHANGED <<disk, key, origin, ledgerFile, call, snap, history>>

WriteKey(a) ==
  /\ pc[a] = "key"
  /\ key' = [key EXCEPT ![cur[a]] = "whole"]
  /\ Goto(a, "unlink")
  /\ UNCHANGED <<disk, payload, origin, ledgerFile, call, snap, history>>

(* Either write may fail: the call returns and cleans nothing up. *)
WriteFails(a) ==
  /\ "write" \in Faults
  /\ \/ /\ pc[a] = "payload"
        /\ \E left \in {"absent", "torn"} :
              payload' = [payload EXCEPT ![cur[a]] = left]
        /\ UNCHANGED key
     \/ /\ pc[a] = "key"
        /\ \E left \in {"absent", "torn"} :
              key' = [key EXCEPT ![cur[a]] = left]
        /\ UNCHANGED payload
  /\ Return(a)
  /\ UNCHANGED <<disk, origin, ledgerFile, snap, history>>

(* unlink, or the move to <id>.quarantine.bak when unlink is refused; both  *)
(* may fail, which is only logged.  A missing file counts as failing.       *)
DeleteOriginal(a) ==
  LET f == origin[cur[a]].path IN
  /\ pc[a] = "unlink"
  /\ disk[f] # Absent
  /\ disk' = [disk EXCEPT ![f] = Absent]
  /\ fate' = [fate EXCEPT ![cur[a]] = "vaulted"]
  /\ Goto(a, "load")
  /\ UNCHANGED <<files, origin, ledgerFile, call, snap, told>>

KeepOriginal(a) ==
  /\ pc[a] = "unlink"
  /\ "unlink" \in Faults \/ disk[origin[cur[a]].path] = Absent
  /\ fate' = [fate EXCEPT ![cur[a]] = "kept"]
  /\ Goto(a, "load")
  /\ UNCHANGED <<disk, files, origin, ledgerFile, call, snap, told>>

-----------------------------------------------------------------------------
(* restore_file: only an entry listed as quarantined gets past the checks.  *)
BeginRestore(a, i) ==
  /\ ledger[i] = "quarantined"
  /\ Enter(a, i, "restored", "read")
  /\ UNCHANGED <<disk, files, origin, ledgerFile, snap, history>>

(* Both files must be there.  A listed id has no torn file (ListedIsWhole), *)
(* so what is decrypted is what was encrypted.                              *)
ReadPayload(a) ==
  /\ pc[a] = "read"
  /\ payload[cur[a]] # "absent"
  /\ key[cur[a]] # "absent"
  /\ Goto(a, "writeback")
  /\ UNCHANGED <<disk, files, origin, ledgerFile, call, snap, history>>

ReadFails(a) ==
  /\ pc[a] = "read"
  /\ \/ "read" \in Faults
     \/ payload[cur[a]] = "absent"
     \/ key[cur[a]] = "absent"
  /\ Return(a)
  /\ UNCHANGED <<disk, files, origin, ledgerFile, snap, history>>

(* The original path is overwritten, whatever it holds by now. *)
WriteBack(a) ==
  LET o == origin[cur[a]] IN
  /\ pc[a] = "writeback"
  /\ disk' = [disk EXCEPT ![o.path] = o.bytes]
  /\ fate' = [fate EXCEPT ![cur[a]] = "released"]
  /\ Goto(a, "clean")
  /\ UNCHANGED <<files, origin, ledgerFile, call, snap, told>>

WriteBackFails(a) ==
  LET f == origin[cur[a]].path IN
  /\ "write" \in Faults
  /\ pc[a] = "writeback"
  /\ disk' \in {disk, [disk EXCEPT ![f] = Damaged]}
  /\ Return(a)
  /\ UNCHANGED <<files, origin, ledgerFile, snap, history>>

CleanVault(a) ==
  /\ pc[a] = "clean"
  /\ Unlinked(cur[a]) \/ UnlinkFails(cur[a])
  /\ Goto(a, "load")
  /\ UNCHANGED <<disk, origin, ledgerFile, call, snap, history>>

-----------------------------------------------------------------------------
(* delete_permanently. *)
BeginDelete(a, i) ==
  /\ ledger[i] = "quarantined"
  /\ Enter(a, i, "deleted", "purge")
  /\ UNCHANGED <<disk, files, origin, ledgerFile, snap, history>>

Purge(a) ==
  /\ pc[a] = "purge"
  /\ fate' = [fate EXCEPT ![cur[a]] = "released"]
  /\ Unlinked(cur[a])
  /\ Goto(a, "load")
  /\ UNCHANGED <<disk, origin, ledgerFile, call, snap, told>>

(* The error is returned and the entry stays listed. *)
PurgeFails(a) ==
  /\ pc[a] = "purge"
  /\ UnlinkFails(cur[a])
  /\ fate' = IF payload' = payload THEN fate
             ELSE [fate EXCEPT ![cur[a]] = "released"]
  /\ Return(a)
  /\ UNCHANGED <<disk, origin, ledgerFile, snap, told>>

-----------------------------------------------------------------------------
(* _append_entry and _update_entry: load, change in memory, save.  A ledger *)
(* that cannot be read is taken for an empty one.                           *)
LoadLedger(a) ==
  /\ pc[a] = "load"
  /\ \/ snap' = [snap EXCEPT ![a] = ledger]
     \/ "read" \in Faults /\ snap' = [snap EXCEPT ![a] = EmptyLedger]
  /\ Goto(a, "truncate")
  /\ UNCHANGED <<disk, files, origin, ledgerFile, call, history>>

(* Opening the ledger for writing empties it: until the text is written a   *)
(* reader gets a JSON error, and _load_ledger answers with no entries.      *)
TruncateLedger(a) ==
  /\ pc[a] = "truncate"
  /\ ledger' = EmptyLedger
  /\ truncated' = TRUE
  /\ Goto(a, "save")
  /\ UNCHANGED <<disk, files, origin, call, snap, history>>

(* An append adds the entry; an update changes an entry it finds. *)
NewLedger(a) ==
  IF goal[a] = "quarantined" \/ snap[a][cur[a]] # "none"
  THEN [snap[a] EXCEPT ![cur[a]] = goal[a]]
  ELSE snap[a]

Report(a) ==
  /\ snap' = [snap EXCEPT ![a] = EmptyLedger]
  /\ told' = IF goal[a] = "quarantined" THEN told \cup {cur[a]} ELSE told
  /\ Return(a)

(* The text is written at offset 0.  If another actor's text went in since  *)
(* the file was truncated, the longer tail may survive and spoil the JSON.  *)
SaveLedger(a) ==
  /\ pc[a] = "save"
  /\ \/ ledger' = NewLedger(a)
     \/ ~truncated /\ ledger' = EmptyLedger
  /\ truncated' = FALSE
  /\ Report(a)
  /\ UNCHANGED <<disk, files, origin, fate>>

(* _save_ledger logs an OSError and swallows it: the caller reports success *)
(* with the old ledger (open failed) or an unreadable one (write failed).   *)
SaveFails(a) ==
  /\ "ledger" \in Faults
  /\ \/ pc[a] = "truncate" /\ UNCHANGED ledgerFile
     \/ pc[a] = "save" /\ ledger' = EmptyLedger /\ truncated' = FALSE
  /\ Report(a)
  /\ UNCHANGED <<disk, files, origin, fate>>

-----------------------------------------------------------------------------
(* The process dies and is started again: calls are forgotten, files stay.  *)
Crash ==
  /\ "crash" \in Faults
  /\ pc # [a \in Actors |-> "idle"]
  /\ pc' = [a \in Actors |-> "idle"]
  /\ cur' = [a \in Actors |-> NoId]
  /\ goal' = [a \in Actors |-> "none"]
  /\ snap' = [a \in Actors |-> EmptyLedger]
  /\ UNCHANGED <<disk, files, origin, ledgerFile, history>>

(* Other programs create files: downloads, installers, malware dropping. *)
Arrive(f, b) ==
  /\ disk[f] = Absent
  /\ disk' = [disk EXCEPT ![f] = b]
  /\ UNCHANGED <<files, origin, ledgerFile, pc, call, snap, history>>

-----------------------------------------------------------------------------
Quarantine(a) ==
  \/ \E f \in Files, i \in Ids : BeginQuarantine(a, f, i)
  \/ WritePayload(a) \/ WriteKey(a) \/ WriteFails(a)
  \/ DeleteOriginal(a) \/ KeepOriginal(a)

Restore(a) ==
  \/ \E i \in Ids : BeginRestore(a, i)
  \/ ReadPayload(a) \/ ReadFails(a)
  \/ WriteBack(a) \/ WriteBackFails(a) \/ CleanVault(a)

Delete(a) ==
  \/ \E i \in Ids : BeginDelete(a, i)
  \/ Purge(a) \/ PurgeFails(a)

Record(a) == LoadLedger(a) \/ TruncateLedger(a) \/ SaveLedger(a) \/ SaveFails(a)

Next ==
  \/ \E a \in Actors : Quarantine(a) \/ Restore(a) \/ Delete(a) \/ Record(a)
  \/ Crash
  \/ \E f \in Files, b \in Contents : Arrive(f, b)

Spec == Init /\ [][Next]_vars

-----------------------------------------------------------------------------
TypeOK ==
  /\ disk \in [Files -> Bytes \cup {Absent}]
  /\ payload \in [Ids -> FileState]
  /\ key \in [Ids -> FileState]
  /\ origin \in [Ids -> Origin \cup {Nowhere}]
  /\ ledger \in Ledger
  /\ truncated \in BOOLEAN
  /\ pc \in [Actors -> PC]
  /\ cur \in [Actors -> Ids \cup {NoId}]
  /\ goal \in [Actors -> Status]
  /\ snap \in [Actors -> Ledger]
  /\ fate \in [Ids -> Fate]
  /\ told \subseteq Ids

Whole(i) == payload[i] = "whole" /\ key[i] = "whole"

(* The bytes of a vaulted file survive: whatever the calls in flight do,    *)
(* fail at or die in, an id whose original was removed keeps both of its    *)
(* vault files until the bytes are back on disk or the analyst has asked    *)
(* for their deletion (quarantine_file writes before it unlinks,            *)
(* restore_file writes back before it cleans up).                           *)
VaultedBytesSurvive == \A i \in Ids : fate[i] = "vaulted" => Whole(i)

(* What the ledger lists can be restored: an entry some read of the ledger  *)
(* yields as quarantined has its payload and key, unless its bytes were     *)
(* already released by a call that has not recorded that yet.               *)
ListedIsWhole ==
  \A i \in Ids : ledger[i] = "quarantined" /\ fate[i] # "released" => Whole(i)

-----------------------------------------------------------------------------
(* The inductive invariant behind the last two.  An id being copied is      *)
(* known to its own call only: no ledger, no loaded copy of one and no      *)
(* other call names it.                                                     *)
Settled == {"vaulted", "kept", "released"}

CallsAreSound ==
  \A a \in Actors :
    /\ pc[a] # "idle" => cur[a] \in Ids
    /\ pc[a] \in Quarantining => fate[cur[a]] = "copying"
    /\ pc[a] \in Releasing \cup Recording => fate[cur[a]] \in Settled
    /\ pc[a] \in {"key", "unlink"} => payload[cur[a]] = "whole"
    /\ pc[a] = "unlink" => key[cur[a]] = "whole"
    /\ pc[a] = "clean" => fate[cur[a]] = "released"

OneCopier ==
  \A a, b \in Actors :
    pc[a] \in Quarantining /\ pc[b] \in Quarantining /\ cur[a] = cur[b]
      => a = b

OnlySettledAreKnown ==
  \A i \in Ids :
    /\ ledger[i] # "none" => fate[i] \in Settled
    /\ \A a \in Actors : snap[a][i] # "none" => fate[i] \in Settled

HeldIsWhole == \A i \in Ids : fate[i] \in {"vaulted", "kept"} => Whole(i)

VaultInv ==
  /\ TypeOK
  /\ CallsAreSound
  /\ OneCopier
  /\ OnlySettledAreKnown
  /\ HeldIsWhole

-----------------------------------------------------------------------------
AllIdle == \A a \in Actors : pc[a] = "idle"

(* Between calls the ledger lists every file the vault holds: a payload     *)
(* without its entry can be neither restored nor deleted, since both        *)
(* methods start from the entry.                                            *)
HeldIsListed ==
  AllIdle => \A i \in Ids : fate[i] \in {"vaulted", "kept"}
                              => ledger[i] = "quarantined"

(* A quarantine that reported success is in the audit trail from then on.   *)
SuccessIsRecorded == AllIdle => \A i \in told : ledger[i] # "none"

(* Between calls, an entry that can be restored has not been restored or    *)
(* deleted before: a second restore_file would overwrite whatever is at the *)
(* original path by then.                                                   *)
NoSecondRestore ==
  AllIdle => \A i \in Ids :
    ledger[i] = "quarantined" /\ Whole(i) => fate[i] # "released"

(* Between calls, the ledger is a true audit trail in both respects. *)
LedgerIsTrue == SuccessIsRecorded /\ NoSecondRestore

(* Both are lost when calls overlap.  When they never do (nothing in the    *)
(* code sees to that), the one call under way accounts for every id the     *)
(* ledger is not true of yet.                                               *)
OneCall == \A a, b \in Actors : pc[a] # "idle" /\ pc[b] # "idle" => a = b

Held(i) == fate[i] \in {"vaulted", "kept"}
Readable(i) == payload[i] # "absent" /\ key[i] # "absent"

Appending(i) ==
  \E a \in Actors : cur[a] = i /\ pc[a] \in Recording /\ goal[a] = "quarantined"

LettingGo(i) ==
  \E a \in Actors : /\ cur[a] = i
                    /\ pc[a] \in {"clean"} \cup Recording
                    /\ goal[a] # "quarantined"

CallHasItsFile ==
  \A a \in Actors :
    /\ pc[a] \in Quarantining =>
         disk[origin[cur[a]].path] = origin[cur[a]].bytes
    /\ pc[a] \in {"read", "writeback"} => ledger[cur[a]] = "quarantined"
    /\ pc[a] = "writeback" => Held(cur[a])

GoalFits ==
  \A a \in Actors :
    /\ pc[a] # "idle" => goal[a] # "none"
    /\ pc[a] \in Quarantining => goal[a] = "quarantined"
    /\ pc[a] \in Releasing => goal[a] # "quarantined"
    /\ pc[a] \in Recording =>
         IF goal[a] = "quarantined" THEN Held(cur[a])
         ELSE fate[cur[a]] = "released"

BornHasOrigin == \A i \in Ids : fate[i] # "unborn" => origin[i] \in Origin

(* An id let go of is not offered again, in the file or in a loaded copy,   *)
(* unless its files are gone.                                               *)
LetGoIsKnown ==
  \A i \in Ids : fate[i] = "released" /\ Readable(i) =>
    \/ LettingGo(i)
    \/ /\ ledger[i] # "quarantined"
       /\ \A a \in Actors : pc[a] \in {"truncate", "save"}
                             => snap[a][i] # "quarantined"

SerialInv == CallHasItsFile /\ GoalFits /\ BornHasOrigin /\ LetGoIsKnown

(* Whoever is rewriting the ledger holds all of it in memory. *)
Complete(entries) ==
  /\ \A i \in Ids : Held(i) => Appending(i) \/ entries[i] = "quarantined"
  /\ \A i \in told : entries[i] # "none"

LedgerInv ==
  /\ \A a \in Actors : pc[a] = "save" => truncated
  /\ (\A a \in Actors : pc[a] # "save") => Complete(ledger)
  /\ \A a \in Actors : pc[a] \in {"truncate", "save"} => Complete(snap[a])

(* One call at a time, the vault keeps its promise about bytes: the removal *)
(* of the original is the moment an id takes the file, the write-back or    *)
(* the purge the moment it lets go.                                         *)
Contract == INSTANCE QuarantineContract WITH
  held <- [i \in Ids |-> IF fate[i] \in {"vaulted", "kept"} THEN origin[i]
                         ELSE Nowhere],
  spent <- {i \in Ids : fate[i] = "released"}

KeepsContract == Contract!Spec
===============================================================================
