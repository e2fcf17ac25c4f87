------------------------ MODULE QuarantineVault_proofs ------------------------
(***************************************************************************)
(* Proofs about QuarantineVault, for any number of threads, files and ids, *)
(* and every set of faults.                                                *)
(***************************************************************************)
EXTENDS QuarantineVault, TLAPS

USE FaultsAssumption, SentinelAssumption

LEMMA InitType == Init => TypeOK
<1> SUFFICES ASSUME Init PROVE TypeOK
  OBVIOUS
<1> USE DEF Init, EmptyLedger, Ledger, Status
<1>1. disk \in [Files -> Bytes \cup {Absent}]
  BY DEF Bytes
<1>2. /\ payload \in [Ids -> FileState]
      /\ key \in [Ids -> FileState]
      /\ origin \in [Ids -> Origin \cup {Nowhere}]
      /\ fate \in [Ids -> Fate]
  BY DEF FileState, Fate
<1>3. /\ ledger \in Ledger
      /\ truncated \in BOOLEAN
      /\ told \subseteq Ids
  OBVIOUS
<1>4. /\ pc \in [Actors -> PC]
      /\ cur \in [Actors -> Ids \cup {NoId}]
      /\ goal \in [Actors -> Status]
  BY DEF PC
<1>5. EmptyLedger \in Ledger
  OBVIOUS
<1>6. snap \in [Actors -> Ledger]
  BY <1>5
<1>. QED
  BY <1>1, <1>2, <1>3, <1>4, <1>6 DEF TypeOK

LEMMA StepType == TypeOK /\ CallsAreSound /\ [Next]_vars => TypeOK'
<1> SUFFICES ASSUME TypeOK, CallsAreSound, [Next]_vars PROVE TypeOK'
  OBVIOUS
<1> USE DEF TypeOK, CallsAreSound, Ledger, Status, FileState, Fate, PC, Quarantining, Releasing, Recording, Bytes, files, ledgerFile, call, history, Goto, Return, Enter
<1>1. ASSUME NEW a \in Actors, NEW f \in Files, NEW i \in Ids, BeginQuarantine(a, f, i) PROVE TypeOK'
  BY <1>1 DEF BeginQuarantine, Origin, Nowhere
<1>2. ASSUME NEW a \in Actors, NEW i \in Ids, BeginRestore(a, i) PROVE TypeOK'
  BY <1>2 DEF BeginRestore
<1>3. ASSUME NEW a \in Actors, NEW i \in Ids, BeginDelete(a, i) PROVE TypeOK'
  BY <1>3 DEF BeginDelete
<1>4. ASSUME NEW a \in Actors, WritePayload(a) PROVE TypeOK'
  BY <1>4 DEF WritePayload
<1>5. ASSUME NEW a \in Actors, WriteKey(a) PROVE TypeOK'
  BY <1>5 DEF WriteKey
<1>6. ASSUME NEW a \in Actors, WriteFails(a) PROVE TypeOK'
  <2>1. /\ payload' \in [Ids -> FileState]
        /\ key' \in [Ids -> FileState]
    <3>1. cur[a] \in Ids
      BY <1>6 DEF WriteFails
    <3>2. CASE pc[a] = "payload"
      <4>1. PICK left \in {"absent", "torn"} :
              payload' = [payload EXCEPT ![cur[a]] = left]
        BY <1>6, <3>2 DEF WriteFails
      <4>2. key' = key
        BY <1>6, <3>2 DEF WriteFails
      <4>. QED
        BY <4>1, <4>2
    <3>3. CASE pc[a] = "key"
      <4>1. PICK left \in {"absent", "torn"} :
              key' = [key EXCEPT ![cur[a]] = left]
        BY <1>6, <3>3 DEF WriteFails
      <4>2. payload' = payload
        BY <1>6, <3>3 DEF WriteFails
      <4>. QED
        BY <4>1, <4>2
    <3>. QED
      BY <1>6, <3>2, <3>3 DEF WriteFails
  <2>2. /\ pc' \in [Actors -> PC]
        /\ cur' \in [Actors -> Ids \cup {NoId}]
        /\ goal' \in [Actors -> Status]
    BY <1>6 DEF WriteFails
  <2>. QED
    BY <1>6, <2>1, <2>2 DEF WriteFails
<1>7. ASSUME NEW a \in Actors, DeleteOriginal(a) PROVE TypeOK'
  BY <1>7 DEF DeleteOriginal
<1>8. ASSUME NEW a \in Actors, KeepOriginal(a) PROVE TypeOK'
  BY <1>8 DEF KeepOriginal
<1>9. ASSUME NEW a \in Actors, ReadPayload(a) PROVE TypeOK'
  BY <1>9 DEF ReadPayload
<1>10. ASSUME NEW a \in Actors, ReadFails(a) PROVE TypeOK'
  BY <1>10 DEF ReadFails
<1>11. ASSUME NEW a \in Actors, WriteBack(a) PROVE TypeOK'
  <2>1. cur[a] \in Ids
    BY <1>11 DEF WriteBack
  <2>2. origin[cur[a]].bytes \in Bytes \cup {Absent}
    BY <2>1 DEF Origin, Nowhere
  <2>3. disk' \in [Files -> Bytes \cup {Absent}]
    BY <1>11, <2>2 DEF WriteBack
  <2>. QED
    BY <1>11, <2>1, <2>3 DEF WriteBack
<1>12. ASSUME NEW a \in Actors, WriteBackFails(a) PROVE TypeOK'
  BY <1>12 DEF WriteBackFails
<1>13. ASSUME NEW a \in Actors, CleanVault(a) PROVE TypeOK'
  BY <1>13 DEF CleanVault, Unlinked, UnlinkFails
<1>14. ASSUME NEW a \in Actors, Purge(a) PROVE TypeOK'
  BY <1>14 DEF Purge, Unlinked
<1>15. ASSUME NEW a \in Actors, PurgeFails(a) PROVE TypeOK'
  BY <1>15 DEF PurgeFails, UnlinkFails
<1>16. ASSUME NEW a \in Actors, LoadLedger(a) PROVE TypeOK'
  <2>1. snap' \in [Actors -> Ledger]
    BY <1>16 DEF LoadLedger, EmptyLedger
  <2>. QED
    BY <1>16, <2>1 DEF LoadLedger
<1>17. ASSUME NEW a \in Actors, TruncateLedger(a) PROVE TypeOK'
  BY <1>17 DEF TruncateLedger, EmptyLedger
<1>18. ASSUME NEW a \in Actors, SaveLedger(a) PROVE TypeOK'
  <2>1. cur[a] \in Ids
    BY <1>18 DEF SaveLedger
  <2>2. NewLedger(a) \in Ledger /\ EmptyLedger \in Ledger
    BY <2>1 DEF NewLedger, EmptyLedger
  <2>3. told' \subseteq Ids /\ ledger' \in Ledger
    BY <1>18, <2>1, <2>2 DEF SaveLedger, Report
  <2>4. snap' \in [Actors -> Ledger]
    BY <1>18, <2>2 DEF SaveLedger, Report
  <2>. QED
    BY <1>18, <2>3, <2>4 DEF SaveLedger, Report
<1>19. ASSUME NEW a \in Actors, SaveFails(a) PROVE TypeOK'
  BY <1>19 DEF SaveFails, Report, EmptyLedger
<1>20. CASE Crash
  BY <1>20 DEF Crash, EmptyLedger
<1>21. ASSUME NEW f \in Files, NEW b \in Contents, Arrive(f, b) PROVE TypeOK'
  BY <1>21 DEF Arrive
<1>22. CASE UNCHANGED vars
  BY <1>22 DEF vars
<1>. QED
  BY <1>1, <1>2, <1>3, <1>4, <1>5, <1>6, <1>7, <1>8, <1>9, <1>10, <1>11, <1>12, <1>13, <1>14, <1>15, <1>16, <1>17, <1>18, <1>19, <1>20, <1>21, <1>22 DEF Next, Quarantine, Restore, Delete, Record

(* The rest of the inductive invariant, one lemma per part. *)
LEMMA StepCallsAreSound == VaultInv /\ [Next]_vars => CallsAreSound'
<1> SUFFICES ASSUME VaultInv, [Next]_vars PROVE CallsAreSound'
  OBVIOUS
<1> USE DEF VaultInv, TypeOK, PC, Fate, FileState, Ledger, CallsAreSound, OneCopier, OnlySettledAreKnown, Quarantining, Releasing, Recording, Settled, files, ledgerFile, call, history, Goto, Return, Enter
<1>1. ASSUME NEW a \in Actors, NEW f \in Files, NEW i \in Ids, BeginQuarantine(a, f, i) PROVE CallsAreSound'
  BY <1>1 DEF BeginQuarantine
<1>2. ASSUME NEW a \in Actors, NEW i \in Ids, BeginRestore(a, i) PROVE CallsAreSound'
  BY <1>2 DEF BeginRestore
<1>3. ASSUME NEW a \in Actors, NEW i \in Ids, BeginDelete(a, i) PROVE CallsAreSound'
  BY <1>3 DEF BeginDelete
<1>4. ASSUME NEW a \in Actors, WritePayload(a) PROVE CallsAreSound'
  BY <1>4 DEF WritePayload
<1>5. ASSUME NEW a \in Actors, WriteKey(a) PROVE CallsAreSound'
  BY <1>5 DEF WriteKey
<1>6. ASSUME NEW a \in Actors, WriteFails(a) PROVE CallsAreSound'
  BY <1>6 DEF WriteFails
<1>7. ASSUME NEW a \in Actors, DeleteOriginal(a) PROVE CallsAreSound'
  BY <1>7 DEF DeleteOriginal
<1>8. ASSUME NEW a \in Actors, KeepOriginal(a) PROVE CallsAreSound'
  BY <1>8 DEF KeepOriginal
<1>9. ASSUME NEW a \in Actors, ReadPayload(a) PROVE CallsAreSound'
  BY <1>9 DEF ReadPayload
<1>10. ASSUME NEW a \in Actors, ReadFails(a) PROVE CallsAreSound'
  BY <1>10 DEF ReadFails
<1>11. ASSUME NEW a \in Actors, WriteBack(a) PROVE CallsAreSound'
  <2>1. pc[a] = "writeback" /\ cur[a] \in Ids /\ fate[cur[a]] \in Settled
    BY <1>11 DEF WriteBack
  <2>2. /\ pc' = [pc EXCEPT ![a] = "clean"]
        /\ fate' = [fate EXCEPT ![cur[a]] = "released"]
        /\ UNCHANGED <<payload, key, cur>>
    BY <1>11 DEF WriteBack
  <2>. QED
    BY <2>1, <2>2
<1>12. ASSUME NEW a \in Actors, WriteBackFails(a) PROVE CallsAreSound'
  BY <1>12 DEF WriteBackFails
<1>13. ASSUME NEW a \in Actors, CleanVault(a) PROVE CallsAreSound'
  BY <1>13 DEF CleanVault, Unlinked, UnlinkFails
<1>14. ASSUME NEW a \in Actors, Purge(a) PROVE CallsAreSound'
  BY <1>14 DEF Purge, Unlinked
<1>15. ASSUME NEW a \in Actors, PurgeFails(a) PROVE CallsAreSound'
  <2>1. pc[a] = "purge" /\ cur[a] \in Ids /\ fate[cur[a]] \in Settled
    BY <1>15 DEF PurgeFails
  <2>2. /\ pc' = [pc EXCEPT ![a] = "idle"] /\ cur' = [cur EXCEPT ![a] = NoId]
        /\ key' = key
        /\ payload' \in {payload, [payload EXCEPT ![cur[a]] = "absent"]}
        /\ fate' \in {fate, [fate EXCEPT ![cur[a]] = "released"]}
    BY <1>15 DEF PurgeFails, UnlinkFails
  <2>3. /\ \A j \in Ids : fate[j] = "copying"
                         => fate'[j] = "copying" /\ payload'[j] = payload[j]
        /\ \A j \in Ids : fate[j] \in Settled => fate'[j] \in Settled
        /\ \A j \in Ids : fate[j] = "released" => fate'[j] = "released"
    BY <2>1, <2>2
  <2>. QED
    BY <2>1, <2>2, <2>3
<1>16. ASSUME NEW a \in Actors, LoadLedger(a) PROVE CallsAreSound'
  BY <1>16 DEF LoadLedger
<1>17. ASSUME NEW a \in Actors, TruncateLedger(a) PROVE CallsAreSound'
  BY <1>17 DEF TruncateLedger, EmptyLedger
<1>18. ASSUME NEW a \in Actors, SaveLedger(a) PROVE CallsAreSound'
  BY <1>18 DEF SaveLedger, NewLedger, Report, EmptyLedger
<1>19. ASSUME NEW a \in Actors, SaveFails(a) PROVE CallsAreSound'
  BY <1>19 DEF SaveFails, Report, EmptyLedger
<1>20. CASE Crash
  BY <1>20 DEF Crash, EmptyLedger
<1>21. ASSUME NEW f \in Files, NEW b \in Contents, Arrive(f, b) PROVE CallsAreSound'
  BY <1>21 DEF Arrive
<1>22. CASE UNCHANGED vars
  BY <1>22 DEF vars
<1>. QED
  BY <1>1, <1>2, <1>3, <1>4, <1>5, <1>6, <1>7, <1>8, <1>9, <1>10, <1>11, <1>12, <1>13, <1>14, <1>15, <1>16, <1>17, <1>18, <1>19, <1>20, <1>21, <1>22 DEF Next, Quarantine, Restore, Delete, Record

LEMMA StepOneCopier == VaultInv /\ [Next]_vars => OneCopier'
<1> SUFFICES ASSUME VaultInv, [Next]_vars PROVE OneCopier'
  OBVIOUS
<1> USE DEF VaultInv, TypeOK, PC, Fate, FileState, Ledger, OneCopier, CallsAreSound, Quarantining, files, ledgerFile, call, history, Goto, Return, Enter
<1>1. ASSUME NEW a \in Actors, NEW f \in Files, NEW i \in Ids, BeginQuarantine(a, f, i) PROVE OneCopier'
  BY <1>1 DEF BeginQuarantine
<1>2. ASSUME NEW a \in Actors, NEW i \in Ids, BeginRestore(a, i) PROVE OneCopier'
  BY <1>2 DEF BeginRestore
<1>3. ASSUME NEW a \in Actors, NEW i \in Ids, BeginDelete(a, i) PROVE OneCopier'
  BY <1>3 DEF BeginDelete
<1>4. ASSUME NEW a \in Actors, WritePayload(a) PROVE OneCopier'
  BY <1>4 DEF WritePayload
<1>5. ASSUME NEW a \in Actors, WriteKey(a) PROVE OneCopier'
  BY <1>5 DEF WriteKey
<1>6. ASSUME NEW a \in Actors, WriteFails(a) PROVE OneCopier'
  BY <1>6 DEF WriteFails
<1>7. ASSUME NEW a \in Actors, DeleteOriginal(a) PROVE OneCopier'
  BY <1>7 DEF DeleteOriginal
<1>8. ASSUME NEW a \in Actors, KeepOriginal(a) PROVE OneCopier'
  BY <1>8 DEF KeepOriginal
<1>9. ASSUME NEW a \in Actors, ReadPayload(a) PROVE OneCopier'
  BY <1>9 DEF ReadPayload
<1>10. ASSUME NEW a \in Actors, ReadFails(a) PROVE OneCopier'
  BY <1>10 DEF ReadFails
<1>11. ASSUME NEW a \in Actors, WriteBack(a) PROVE OneCopier'
  BY <1>11 DEF WriteBack
<1>12. ASSUME NEW a \in Actors, WriteBackFails(a) PROVE OneCopier'
  BY <1>12 DEF WriteBackFails
<1>13. ASSUME NEW a \in Actors, CleanVault(a) PROVE OneCopier'
  BY <1>13 DEF CleanVault, Unlinked, UnlinkFails
<1>14. ASSUME NEW a \in Actors, Purge(a) PROVE OneCopier'
  BY <1>14 DEF Purge, Unlinked
<1>15. ASSUME NEW a \in Actors, PurgeFails(a) PROVE OneCopier'
  BY <1>15 DEF PurgeFails, UnlinkFails
<1>16. ASSUME NEW a \in Actors, LoadLedger(a) PROVE OneCopier'
  BY <1>16 DEF LoadLedger
<1>17. ASSUME NEW a \in Actors, TruncateLedger(a) PROVE OneCopier'
  BY <1>17 DEF TruncateLedger, EmptyLedger
<1>18. ASSUME NEW a \in Actors, SaveLedger(a) PROVE OneCopier'
  BY <1>18 DEF SaveLedger, NewLedger, Report, EmptyLedger
<1>19. ASSUME NEW a \in Actors, SaveFails(a) PROVE OneCopier'
  BY <1>19 DEF SaveFails, Report, EmptyLedger
<1>20. CASE Crash
  BY <1>20 DEF Crash, EmptyLedger
<1>21. ASSUME NEW f \in Files, NEW b \in Contents, Arrive(f, b) PROVE OneCopier'
  BY <1>21 DEF Arrive
<1>22. CASE UNCHANGED vars
  BY <1>22 DEF vars
<1>. QED
  BY <1>1, <1>2, <1>3, <1>4, <1>5, <1>6, <1>7, <1>8, <1>9, <1>10, <1>11, <1>12, <1>13, <1>14, <1>15, <1>16, <1>17, <1>18, <1>19, <1>20, <1>21, <1>22 DEF Next, Quarantine, Restore, Delete, Record

LEMMA StepOnlySettledAreKnown == VaultInv /\ [Next]_vars => OnlySettledAreKnown'
<1> SUFFICES ASSUME VaultInv, [Next]_vars PROVE OnlySettledAreKnown'
  OBVIOUS
<1> USE DEF VaultInv, TypeOK, PC, Fate, FileState, Ledger, OnlySettledAreKnown, CallsAreSound, Settled, Quarantining, Releasing, Recording, files, ledgerFile, call, history, Goto, Return, Enter
<1>1. ASSUME NEW a \in Actors, NEW f \in Files, NEW i \in Ids, BeginQuarantine(a, f, i) PROVE OnlySettledAreKnown'
  BY <1>1 DEF BeginQuarantine
<1>2. ASSUME NEW a \in Actors, NEW i \in Ids, BeginRestore(a, i) PROVE OnlySettledAreKnown'
  BY <1>2 DEF BeginRestore
<1>3. ASSUME NEW a \in Actors, NEW i \in Ids, BeginDelete(a, i) PROVE OnlySettledAreKnown'
  BY <1>3 DEF BeginDelete
<1>4. ASSUME NEW a \in Actors, WritePayload(a) PROVE OnlySettledAreKnown'
  BY <1>4 DEF WritePayload
<1>5. ASSUME NEW a \in Actors, WriteKey(a) PROVE OnlySettledAreKnown'
  BY <1>5 DEF WriteKey
<1>6. ASSUME NEW a \in Actors, WriteFails(a) PROVE OnlySettledAreKnown'
  BY <1>6 DEF WriteFails
<1>7. ASSUME NEW a \in Actors, DeleteOriginal(a) PROVE OnlySettledAreKnown'
  BY <1>7 DEF DeleteOriginal
<1>8. ASSUME NEW a \in Actors, KeepOriginal(a) PROVE OnlySettledAreKnown'
  BY <1>8 DEF KeepOriginal
<1>9. ASSUME NEW a \in Actors, ReadPayload(a) PROVE OnlySettledAreKnown'
  BY <1>9 DEF ReadPayload
<1>10. ASSUME NEW a \in Actors, ReadFails(a) PROVE OnlySettledAreKnown'
  BY <1>10 DEF ReadFails
<1>11. ASSUME NEW a \in Actors, WriteBack(a) PROVE OnlySettledAreKnown'
  BY <1>11 DEF WriteBack
<1>12. ASSUME NEW a \in Actors, WriteBackFails(a) PROVE OnlySettledAreKnown'
  BY <1>12 DEF WriteBackFails
<1>13. ASSUME NEW a \in Actors, CleanVault(a) PROVE OnlySettledAreKnown'
  BY <1>13 DEF CleanVault, Unlinked, UnlinkFails
<1>14. ASSUME NEW a \in Actors, Purge(a) PROVE OnlySettledAreKnown'
  BY <1>14 DEF Purge, Unlinked
<1>15. ASSUME NEW a \in Actors, PurgeFails(a) PROVE OnlySettledAreKnown'
  BY <1>15 DEF PurgeFails, UnlinkFails
<1>16. ASSUME NEW a \in Actors, LoadLedger(a) PROVE OnlySettledAreKnown'
  BY <1>16 DEF LoadLedger, EmptyLedger
<1>17. ASSUME NEW a \in Actors, TruncateLedger(a) PROVE OnlySettledAreKnown'
  BY <1>17 DEF TruncateLedger, EmptyLedger
<1>18. ASSUME NEW a \in Actors, SaveLedger(a) PROVE OnlySettledAreKnown'
  BY <1>18 DEF SaveLedger, NewLedger, Report, EmptyLedger
<1>19. ASSUME NEW a \in Actors, SaveFails(a) PROVE OnlySettledAreKnown'
  BY <1>19 DEF SaveFails, Report, EmptyLedger
<1>20. CASE Crash
  BY <1>20 DEF Crash, EmptyLedger
<1>21. ASSUME NEW f \in Files, NEW b \in Contents, Arrive(f, b) PROVE OnlySettledAreKnown'
  BY <1>21 DEF Arrive
<1>22. CASE UNCHANGED vars
  BY <1>22 DEF vars
<1>. QED
  BY <1>1, <1>2, <1>3, <1>4, <1>5, <1>6, <1>7, <1>8, <1>9, <1>10, <1>11, <1>12, <1>13, <1>14, <1>15, <1>16, <1>17, <1>18, <1>19, <1>20, <1>21, <1>22 DEF Next, Quarantine, Restore, Delete, Record

LEMMA StepHeldIsWhole == VaultInv /\ [Next]_vars => HeldIsWhole'
<1> SUFFICES ASSUME VaultInv, [Next]_vars PROVE HeldIsWhole'
  OBVIOUS
<1> USE DEF VaultInv, TypeOK, PC, Fate, FileState, Ledger, HeldIsWhole, Whole, CallsAreSound, OnlySettledAreKnown, Quarantining, Releasing, Recording, Settled, files, ledgerFile, call, history, Goto, Return, Enter
<1>1. ASSUME NEW a \in Actors, NEW f \in Files, NEW i \in Ids, BeginQuarantine(a, f, i) PROVE HeldIsWhole'
  BY <1>1 DEF BeginQuarantine
<1>2. ASSUME NEW a \in Actors, NEW i \in Ids, BeginRestore(a, i) PROVE HeldIsWhole'
  BY <1>2 DEF BeginRestore
<1>3. ASSUME NEW a \in Actors, NEW i \in Ids, BeginDelete(a, i) PROVE HeldIsWhole'
  BY <1>3 DEF BeginDelete
<1>4. ASSUME NEW a \in Actors, WritePayload(a) PROVE HeldIsWhole'
  BY <1>4 DEF WritePayload
<1>5. ASSUME NEW a \in Actors, WriteKey(a) PROVE HeldIsWhole'
  BY <1>5 DEF WriteKey
<1>6. ASSUME NEW a \in Actors, WriteFails(a) PROVE HeldIsWhole'
  BY <1>6 DEF WriteFails
<1>7. ASSUME NEW a \in Actors, DeleteOriginal(a) PROVE HeldIsWhole'
  BY <1>7 DEF DeleteOriginal
<1>8. ASSUME NEW a \in Actors, KeepOriginal(a) PROVE HeldIsWhole'
  BY <1>8 DEF KeepOriginal
<1>9. ASSUME NEW a \in Actors, ReadPayload(a) PROVE HeldIsWhole'
  BY <1>9 DEF ReadPayload
<1>10. ASSUME NEW a \in Actors, ReadFails(a) PROVE HeldIsWhole'
  BY <1>10 DEF ReadFails
<1>11. ASSUME NEW a \in Actors, WriteBack(a) PROVE HeldIsWhole'
  BY <1>11 DEF WriteBack
<1>12. ASSUME NEW a \in Actors, WriteBackFails(a) PROVE HeldIsWhole'
  BY <1>12 DEF WriteBackFails
<1>13. ASSUME NEW a \in Actors, CleanVault(a) PROVE HeldIsWhole'
  BY <1>13 DEF CleanVault, Unlinked, UnlinkFails
<1>14. ASSUME NEW a \in Actors, Purge(a) PROVE HeldIsWhole'
  BY <1>14 DEF Purge, Unlinked
<1>15. ASSUME NEW a \in Actors, PurgeFails(a) PROVE HeldIsWhole'
  BY <1>15 DEF PurgeFails, UnlinkFails
<1>16. ASSUME NEW a \in Actors, LoadLedger(a) PROVE HeldIsWhole'
  BY <1>16 DEF LoadLedger
<1>17. ASSUME NEW a \in Actors, TruncateLedger(a) PROVE HeldIsWhole'
  BY <1>17 DEF TruncateLedger, EmptyLedger
<1>18. ASSUME NEW a \in Actors, SaveLedger(a) PROVE HeldIsWhole'
  BY <1>18 DEF SaveLedger, NewLedger, Report, EmptyLedger
<1>19. ASSUME NEW a \in Actors, SaveFails(a) PROVE HeldIsWhole'
  BY <1>19 DEF SaveFails, Report, EmptyLedger
<1>20. CASE Crash
  BY <1>20 DEF Crash, EmptyLedger
<1>21. ASSUME NEW f \in Files, NEW b \in Contents, Arrive(f, b) PROVE HeldIsWhole'
  BY <1>21 DEF Arrive
<1>22. CASE UNCHANGED vars
  BY <1>22 DEF vars
<1>. QED
  BY <1>1, <1>2, <1>3, <1>4, <1>5, <1>6, <1>7, <1>8, <1>9, <1>10, <1>11, <1>12, <1>13, <1>14, <1>15, <1>16, <1>17, <1>18, <1>19, <1>20, <1>21, <1>22 DEF Next, Quarantine, Restore, Delete, Record

LEMMA InitVaultInv == Init => VaultInv
<1> SUFFICES ASSUME Init PROVE VaultInv
  OBVIOUS
<1>1. TypeOK
  BY InitType
<1>2. CallsAreSound /\ OneCopier
  BY DEF Init, CallsAreSound, OneCopier, Quarantining, Releasing, Recording
<1>3. OnlySettledAreKnown
  BY DEF Init, OnlySettledAreKnown, EmptyLedger
<1>4. HeldIsWhole
  BY DEF Init, HeldIsWhole
<1>. QED
  BY <1>1, <1>2, <1>3, <1>4 DEF VaultInv

\* VaultInv is inductive: it holds in every reachable state.
THEOREM VaultInvariant == Spec => []VaultInv
<1>1. VaultInv /\ [Next]_vars => VaultInv'
  BY StepType, StepCallsAreSound, StepOneCopier, StepOnlySettledAreKnown,
     StepHeldIsWhole DEF VaultInv
<1>. QED
  BY InitVaultInv, <1>1, PTL DEF Spec

\* Type correctness of every variable of the vault.
THEOREM TypeCorrect == Spec => []TypeOK
<1>1. VaultInv => TypeOK
  BY DEF VaultInv
<1>. QED
  BY VaultInvariant, <1>1, PTL

\* No interleaving, failure or crash of quarantine_file, restore_file and
\* delete_permanently loses the bytes of a file whose original was removed.
THEOREM BytesSurvive == Spec => []VaultedBytesSurvive
<1>1. VaultInv => VaultedBytesSurvive
  BY DEF VaultInv, HeldIsWhole, VaultedBytesSurvive
<1>. QED
  BY VaultInvariant, <1>1, PTL

\* What _load_ledger yields as quarantined can be restored, for as long as
\* no call has let go of its bytes.
THEOREM ListedCanBeRestored == Spec => []ListedIsWhole
<1>1. VaultInv => ListedIsWhole
  BY DEF VaultInv, HeldIsWhole, OnlySettledAreKnown, Settled, ListedIsWhole
<1>. QED
  BY VaultInvariant, <1>1, PTL


LEMMA StepCallHasItsFile ==
  ASSUME "ledger" \notin Faults, "crash" \notin Faults
  PROVE  VaultInv /\ SerialInv /\ OneCall /\ OneCall' /\ [Next]_vars => CallHasItsFile'
<1> SUFFICES ASSUME VaultInv, SerialInv, OneCall, OneCall', [Next]_vars PROVE CallHasItsFile'
  OBVIOUS
<1> USE DEF VaultInv, TypeOK, Ledger, CallsAreSound, OneCall, SerialInv, EmptyLedger, Quarantining, Releasing, Recording, PC, Settled, files, ledgerFile, call, history, Goto, Return, Enter, CallHasItsFile, Held, Origin
<1>1. ASSUME NEW a \in Actors, NEW f \in Files, NEW i \in Ids, BeginQuarantine(a, f, i) PROVE CallHasItsFile'
  BY <1>1 DEF BeginQuarantine
<1>2. ASSUME NEW a \in Actors, NEW i \in Ids, BeginRestore(a, i) PROVE CallHasItsFile'
  BY <1>2 DEF BeginRestore
<1>3. ASSUME NEW a \in Actors, NEW i \in Ids, BeginDelete(a, i) PROVE CallHasItsFile'
  BY <1>3 DEF BeginDelete
<1>4. ASSUME NEW a \in Actors, WritePayload(a) PROVE CallHasItsFile'
  BY <1>4 DEF WritePayload
<1>5. ASSUME NEW a \in Actors, WriteKey(a) PROVE CallHasItsFile'
  BY <1>5 DEF WriteKey
<1>6. ASSUME NEW a \in Actors, WriteFails(a) PROVE CallHasItsFile'
  BY <1>6 DEF WriteFails
<1>7. ASSUME NEW a \in Actors, DeleteOriginal(a) PROVE CallHasItsFile'
  BY <1>7 DEF DeleteOriginal
<1>8. ASSUME NEW a \in Actors, KeepOriginal(a) PROVE CallHasItsFile'
  BY <1>8 DEF KeepOriginal
<1>9. ASSUME NEW a \in Actors, ReadPayload(a) PROVE CallHasItsFile'
  <2>1. pc[a] = "read" /\ cur[a] \in Ids /\ fate[cur[a]] \in Settled
        /\ ledger[cur[a]] = "quarantined" /\ Readable(cur[a])
    BY <1>9 DEF ReadPayload, Readable
  <2>2. ~LettingGo(cur[a])
    BY <2>1 DEF LettingGo
  <2>3. Held(cur[a])
    BY <2>1, <2>2 DEF LetGoIsKnown
  <2>. QED
    BY <1>9, <2>3 DEF ReadPayload
<1>10. ASSUME NEW a \in Actors, ReadFails(a) PROVE CallHasItsFile'
  BY <1>10 DEF ReadFails
<1>11. ASSUME NEW a \in Actors, WriteBack(a) PROVE CallHasItsFile'
  BY <1>11 DEF WriteBack
<1>12. ASSUME NEW a \in Actors, WriteBackFails(a) PROVE CallHasItsFile'
  BY <1>12 DEF WriteBackFails
<1>13. ASSUME NEW a \in Actors, CleanVault(a) PROVE CallHasItsFile'
  BY <1>13 DEF CleanVault, Unlinked, UnlinkFails
<1>14. ASSUME NEW a \in Actors, Purge(a) PROVE CallHasItsFile'
  BY <1>14 DEF Purge, Unlinked
<1>15. ASSUME NEW a \in Actors, PurgeFails(a) PROVE CallHasItsFile'
  <2>1. pc[a] = "purge" /\ \A b \in Actors : pc'[b] = "idle"
    BY <1>15 DEF PurgeFails
  <2>. QED
    BY <2>1
<1>16. ASSUME NEW a \in Actors, LoadLedger(a) PROVE CallHasItsFile'
  BY <1>16 DEF LoadLedger
<1>17. ASSUME NEW a \in Actors, TruncateLedger(a) PROVE CallHasItsFile'
  BY <1>17 DEF TruncateLedger
<1>18. ASSUME NEW a \in Actors, SaveLedger(a) PROVE CallHasItsFile'
  BY <1>18 DEF SaveLedger, NewLedger, Report
<1>19. ASSUME NEW a \in Actors, SaveFails(a) PROVE CallHasItsFile'
  BY <1>19 DEF SaveFails, Report
<1>20. CASE Crash
  BY <1>20 DEF Crash
<1>21. ASSUME NEW f \in Files, NEW b \in Contents, Arrive(f, b) PROVE CallHasItsFile'
  <2>1. ASSUME NEW a \in Actors, pc[a] \in Quarantining
        PROVE  disk[origin[cur[a]].path] # Absent
    <3>1. cur[a] \in Ids /\ fate[cur[a]] # "unborn"
      BY <2>1
    <3>2. origin[cur[a]].bytes \in Bytes
      BY <3>1 DEF BornHasOrigin
    <3>. QED
      BY <2>1, <3>2
  <2>. QED
    BY <1>21, <2>1 DEF Arrive
<1>22. CASE UNCHANGED vars
  BY <1>22 DEF vars
<1>. QED
  BY <1>1, <1>2, <1>3, <1>4, <1>5, <1>6, <1>7, <1>8, <1>9, <1>10, <1>11, <1>12, <1>13, <1>14, <1>15, <1>16, <1>17, <1>18, <1>19, <1>20, <1>21, <1>22 DEF Next, Quarantine, Restore, Delete, Record

LEMMA StepGoalFits ==
  ASSUME "ledger" \notin Faults, "crash" \notin Faults
  PROVE  VaultInv /\ SerialInv /\ OneCall /\ OneCall' /\ [Next]_vars => GoalFits'
<1> SUFFICES ASSUME VaultInv, SerialInv, OneCall, OneCall', [Next]_vars PROVE GoalFits'
  OBVIOUS
<1> USE DEF VaultInv, TypeOK, Ledger, CallsAreSound, OneCall, SerialInv, EmptyLedger, Quarantining, Releasing, Recording, PC, Settled, files, ledgerFile, call, history, Goto, Return, Enter, GoalFits, CallHasItsFile, Held
<1>1. ASSUME NEW a \in Actors, NEW f \in Files, NEW i \in Ids, BeginQuarantine(a, f, i) PROVE GoalFits'
  BY <1>1 DEF BeginQuarantine
<1>2. ASSUME NEW a \in Actors, NEW i \in Ids, BeginRestore(a, i) PROVE GoalFits'
  BY <1>2 DEF BeginRestore
<1>3. ASSUME NEW a \in Actors, NEW i \in Ids, BeginDelete(a, i) PROVE GoalFits'
  BY <1>3 DEF BeginDelete
<1>4. ASSUME NEW a \in Actors, WritePayload(a) PROVE GoalFits'
  BY <1>4 DEF WritePayload
<1>5. ASSUME NEW a \in Actors, WriteKey(a) PROVE GoalFits'
  BY <1>5 DEF WriteKey
<1>6. ASSUME NEW a \in Actors, WriteFails(a) PROVE GoalFits'
  BY <1>6 DEF WriteFails
<1>7. ASSUME NEW a \in Actors, DeleteOriginal(a) PROVE GoalFits'
  BY <1>7 DEF DeleteOriginal
<1>8. ASSUME NEW a \in Actors, KeepOriginal(a) PROVE GoalFits'
  BY <1>8 DEF KeepOriginal
<1>9. ASSUME NEW a \in Actors, ReadPayload(a) PROVE GoalFits'
  BY <1>9 DEF ReadPayload
<1>10. ASSUME NEW a \in Actors, ReadFails(a) PROVE GoalFits'
  BY <1>10 DEF ReadFails
<1>11. ASSUME NEW a \in Actors, WriteBack(a) PROVE GoalFits'
  BY <1>11 DEF WriteBack
<1>12. ASSUME NEW a \in Actors, WriteBackFails(a) PROVE GoalFits'
  BY <1>12 DEF WriteBackFails
<1>13. ASSUME NEW a \in Actors, CleanVault(a) PROVE GoalFits'
  BY <1>13 DEF CleanVault, Unlinked, UnlinkFails
<1>14. ASSUME NEW a \in Actors, Purge(a) PROVE GoalFits'
  BY <1>14 DEF Purge, Unlinked
<1>15. ASSUME NEW a \in Actors, PurgeFails(a) PROVE GoalFits'
  BY <1>15 DEF PurgeFails, UnlinkFails
<1>16. ASSUME NEW a \in Actors, LoadLedger(a) PROVE GoalFits'
  BY <1>16 DEF LoadLedger
<1>17. ASSUME NEW a \in Actors, TruncateLedger(a) PROVE GoalFits'
  BY <1>17 DEF TruncateLedger
<1>18. ASSUME NEW a \in Actors, SaveLedger(a) PROVE GoalFits'
  BY <1>18 DEF SaveLedger, NewLedger, Report
<1>19. ASSUME NEW a \in Actors, SaveFails(a) PROVE GoalFits'
  BY <1>19 DEF SaveFails, Report
<1>20. CASE Crash
  BY <1>20 DEF Crash
<1>21. ASSUME NEW f \in Files, NEW b \in Contents, Arrive(f, b) PROVE GoalFits'
  BY <1>21 DEF Arrive
<1>22. CASE UNCHANGED vars
  BY <1>22 DEF vars
<1>. QED
  BY <1>1, <1>2, <1>3, <1>4, <1>5, <1>6, <1>7, <1>8, <1>9, <1>10, <1>11, <1>12, <1>13, <1>14, <1>15, <1>16, <1>17, <1>18, <1>19, <1>20, <1>21, <1>22 DEF Next, Quarantine, Restore, Delete, Record

LEMMA StepBornHasOrigin ==
  ASSUME "ledger" \notin Faults, "crash" \notin Faults
  PROVE  VaultInv /\ SerialInv /\ OneCall /\ OneCall' /\ [Next]_vars => BornHasOrigin'
<1> SUFFICES ASSUME VaultInv, SerialInv, OneCall, OneCall', [Next]_vars PROVE BornHasOrigin'
  OBVIOUS
<1> USE DEF VaultInv, TypeOK, Ledger, CallsAreSound, SerialInv, EmptyLedger, Quarantining, Releasing, Recording, PC, Settled, files, ledgerFile, call, history, Goto, Return, Enter, BornHasOrigin, Origin, Fate, Bytes
<1>1. ASSUME NEW a \in Actors, NEW f \in Files, NEW i \in Ids, BeginQuarantine(a, f, i) PROVE BornHasOrigin'
  BY <1>1 DEF BeginQuarantine
<1>2. ASSUME NEW a \in Actors, NEW i \in Ids, BeginRestore(a, i) PROVE BornHasOrigin'
  BY <1>2 DEF BeginRestore
<1>3. ASSUME NEW a \in Actors, NEW i \in Ids, BeginDelete(a, i) PROVE BornHasOrigin'
  BY <1>3 DEF BeginDelete
<1>4. ASSUME NEW a \in Actors, WritePayload(a) PROVE BornHasOrigin'
  BY <1>4 DEF WritePayload
<1>5. ASSUME NEW a \in Actors, WriteKey(a) PROVE BornHasOrigin'
  BY <1>5 DEF WriteKey
<1>6. ASSUME NEW a \in Actors, WriteFails(a) PROVE BornHasOrigin'
  BY <1>6 DEF WriteFails
<1>7. ASSUME NEW a \in Actors, DeleteOriginal(a) PROVE BornHasOrigin'
  BY <1>7 DEF DeleteOriginal
<1>8. ASSUME NEW a \in Actors, KeepOriginal(a) PROVE BornHasOrigin'
  BY <1>8 DEF KeepOriginal
<1>9. ASSUME NEW a \in Actors, ReadPayload(a) PROVE BornHasOrigin'
  BY <1>9 DEF ReadPayload
<1>10. ASSUME NEW a \in Actors, ReadFails(a) PROVE BornHasOrigin'
  BY <1>10 DEF ReadFails
<1>11. ASSUME NEW a \in Actors, WriteBack(a) PROVE BornHasOrigin'
  BY <1>11 DEF WriteBack
<1>12. ASSUME NEW a \in Actors, WriteBackFails(a) PROVE BornHasOrigin'
  BY <1>12 DEF WriteBackFails
<1>13. ASSUME NEW a \in Actors, CleanVault(a) PROVE BornHasOrigin'
  BY <1>13 DEF CleanVault, Unlinked, UnlinkFails
<1>14. ASSUME NEW a \in Actors, Purge(a) PROVE BornHasOrigin'
  <2>1. cur[a] \in Ids /\ fate[cur[a]] # "unborn"
    BY <1>14 DEF Purge
  <2>. QED
    BY <1>14, <2>1 DEF Purge
<1>15. ASSUME NEW a \in Actors, PurgeFails(a) PROVE BornHasOrigin'
  BY <1>15 DEF PurgeFails, UnlinkFails
<1>16. ASSUME NEW a \in Actors, LoadLedger(a) PROVE BornHasOrigin'
  BY <1>16 DEF LoadLedger
<1>17. ASSUME NEW a \in Actors, TruncateLedger(a) PROVE BornHasOrigin'
  BY <1>17 DEF TruncateLedger
<1>18. ASSUME NEW a \in Actors, SaveLedger(a) PROVE BornHasOrigin'
  BY <1>18 DEF SaveLedger, NewLedger, Report
<1>19. ASSUME NEW a \in Actors, SaveFails(a) PROVE BornHasOrigin'
  BY <1>19 DEF SaveFails, Report
<1>20. CASE Crash
  BY <1>20 DEF Crash
<1>21. ASSUME NEW f \in Files, NEW b \in Contents, Arrive(f, b) PROVE BornHasOrigin'
  BY <1>21 DEF Arrive
<1>22. CASE UNCHANGED vars
  BY <1>22 DEF vars
<1>. QED
  BY <1>1, <1>2, <1>3, <1>4, <1>5, <1>6, <1>7, <1>8, <1>9, <1>10, <1>11, <1>12, <1>13, <1>14, <1>15, <1>16, <1>17, <1>18, <1>19, <1>20, <1>21, <1>22 DEF Next, Quarantine, Restore, Delete, Record

LEMMA StepLetGoIsKnown ==
  ASSUME "ledger" \notin Faults, "crash" \notin Faults
  PROVE  VaultInv /\ SerialInv /\ OneCall /\ OneCall' /\ [Next]_vars => LetGoIsKnown'
<1> SUFFICES ASSUME VaultInv, SerialInv, OneCall, OneCall', [Next]_vars PROVE LetGoIsKnown'
  OBVIOUS
<1> USE DEF VaultInv, TypeOK, Ledger, CallsAreSound, SerialInv, EmptyLedger, Quarantining, Releasing, Recording, PC, Settled, files, ledgerFile, call, history, Goto, Return, Enter, Held, LetGoIsKnown, Readable, LettingGo
<1>1. ASSUME NEW a \in Actors, NEW f \in Files, NEW i \in Ids, BeginQuarantine(a, f, i) PROVE LetGoIsKnown'
  <2>1. \A b \in Actors : pc[b] = "idle"
    BY <1>1 DEF BeginQuarantine, OneCall
  <2>2. \A j \in Ids : fate'[j] = "released" /\ Readable(j)'
                       => ledger'[j] # "quarantined"
    BY <1>1, <2>1 DEF BeginQuarantine, Fate
  <2>3. \A b \in Actors : pc'[b] \notin {"truncate", "save"}
    BY <1>1, <2>1 DEF BeginQuarantine
  <2>. QED
    BY <2>2, <2>3
<1>2. ASSUME NEW a \in Actors, NEW i \in Ids, BeginRestore(a, i) PROVE LetGoIsKnown'
  BY <1>2 DEF BeginRestore
<1>3. ASSUME NEW a \in Actors, NEW i \in Ids, BeginDelete(a, i) PROVE LetGoIsKnown'
  BY <1>3 DEF BeginDelete
<1>4. ASSUME NEW a \in Actors, WritePayload(a) PROVE LetGoIsKnown'
  BY <1>4 DEF WritePayload
<1>5. ASSUME NEW a \in Actors, WriteKey(a) PROVE LetGoIsKnown'
  BY <1>5 DEF WriteKey
<1>6. ASSUME NEW a \in Actors, WriteFails(a) PROVE LetGoIsKnown'
  BY <1>6 DEF WriteFails
<1>7. ASSUME NEW a \in Actors, DeleteOriginal(a) PROVE LetGoIsKnown'
  BY <1>7 DEF DeleteOriginal, GoalFits
<1>8. ASSUME NEW a \in Actors, KeepOriginal(a) PROVE LetGoIsKnown'
  BY <1>8 DEF KeepOriginal, GoalFits
<1>9. ASSUME NEW a \in Actors, ReadPayload(a) PROVE LetGoIsKnown'
  BY <1>9 DEF ReadPayload
<1>10. ASSUME NEW a \in Actors, ReadFails(a) PROVE LetGoIsKnown'
  BY <1>10 DEF ReadFails
<1>11. ASSUME NEW a \in Actors, WriteBack(a) PROVE LetGoIsKnown'
  BY <1>11 DEF WriteBack, GoalFits
<1>12. ASSUME NEW a \in Actors, WriteBackFails(a) PROVE LetGoIsKnown'
  BY <1>12 DEF WriteBackFails
<1>13. ASSUME NEW a \in Actors, CleanVault(a) PROVE LetGoIsKnown'
  BY <1>13 DEF CleanVault, Unlinked, UnlinkFails, GoalFits
<1>14. ASSUME NEW a \in Actors, Purge(a) PROVE LetGoIsKnown'
  BY <1>14 DEF Purge, Unlinked, GoalFits
<1>15. ASSUME NEW a \in Actors, PurgeFails(a) PROVE LetGoIsKnown'
  BY <1>15 DEF PurgeFails, UnlinkFails, GoalFits
<1>16. ASSUME NEW a \in Actors, LoadLedger(a) PROVE LetGoIsKnown'
  BY <1>16 DEF LoadLedger, GoalFits
<1>17. ASSUME NEW a \in Actors, TruncateLedger(a) PROVE LetGoIsKnown'
  BY <1>17 DEF TruncateLedger
<1>18. ASSUME NEW a \in Actors, SaveLedger(a) PROVE LetGoIsKnown'
  <2>1. ASSUME NEW i \in Ids, fate[i] = "released", Readable(i)
        PROVE  NewLedger(a)[i] # "quarantined"
    <3>1. pc[a] = "save" /\ cur[a] \in Ids
      BY <1>18 DEF SaveLedger
    <3>2. CASE cur[a] = i
      BY <2>1, <3>1, <3>2 DEF NewLedger, GoalFits
    <3>3. CASE cur[a] # i
      <4>1. \A b \in Actors : cur[b] = i => pc[b] = "idle"
        BY <3>1, <3>3 DEF OneCall
      <4>2. snap[a][i] # "quarantined"
        BY <2>1, <3>1, <4>1
      <4>. QED
        BY <3>1, <3>3, <4>2 DEF NewLedger
    <3>. QED
      BY <3>2, <3>3
  <2>2. pc[a] = "save" /\ \A b \in Actors : b # a => pc[b] = "idle"
    BY <1>18 DEF SaveLedger, OneCall
  <2>3. \A b \in Actors : pc'[b] = "idle"
    BY <1>18, <2>2 DEF SaveLedger, Report
  <2>. QED
    BY <1>18, <2>1, <2>3 DEF SaveLedger
<1>19. ASSUME NEW a \in Actors, SaveFails(a) PROVE LetGoIsKnown'
  BY <1>19 DEF SaveFails, Report
<1>20. CASE Crash
  BY <1>20 DEF Crash
<1>21. ASSUME NEW f \in Files, NEW b \in Contents, Arrive(f, b) PROVE LetGoIsKnown'
  BY <1>21 DEF Arrive
<1>22. CASE UNCHANGED vars
  BY <1>22 DEF vars
<1>. QED
  BY <1>1, <1>2, <1>3, <1>4, <1>5, <1>6, <1>7, <1>8, <1>9, <1>10, <1>11, <1>12, <1>13, <1>14, <1>15, <1>16, <1>17, <1>18, <1>19, <1>20, <1>21, <1>22 DEF Next, Quarantine, Restore, Delete, Record

LEMMA StepLedgerInv ==
  ASSUME "ledger" \notin Faults, "crash" \notin Faults, "read" \notin Faults
  PROVE  VaultInv /\ SerialInv /\ LedgerInv /\ OneCall /\ OneCall' /\ [Next]_vars => LedgerInv'
<1> SUFFICES ASSUME VaultInv, SerialInv, LedgerInv, OneCall, OneCall', [Next]_vars PROVE LedgerInv'
  OBVIOUS
<1> USE DEF VaultInv, TypeOK, Ledger, CallsAreSound, SerialInv, EmptyLedger, Quarantining, Releasing, Recording, PC, Settled, files, ledgerFile, call, history, Goto, Return, Enter, LedgerInv, Complete, Held, Appending, Fate
<1>1. ASSUME NEW a \in Actors, NEW f \in Files, NEW i \in Ids, BeginQuarantine(a, f, i) PROVE LedgerInv'
  BY <1>1 DEF BeginQuarantine
<1>2. ASSUME NEW a \in Actors, NEW i \in Ids, BeginRestore(a, i) PROVE LedgerInv'
  BY <1>2 DEF BeginRestore
<1>3. ASSUME NEW a \in Actors, NEW i \in Ids, BeginDelete(a, i) PROVE LedgerInv'
  BY <1>3 DEF BeginDelete
<1>4. ASSUME NEW a \in Actors, WritePayload(a) PROVE LedgerInv'
  BY <1>4 DEF WritePayload
<1>5. ASSUME NEW a \in Actors, WriteKey(a) PROVE LedgerInv'
  BY <1>5 DEF WriteKey
<1>6. ASSUME NEW a \in Actors, WriteFails(a) PROVE LedgerInv'
  BY <1>6 DEF WriteFails
<1>7. ASSUME NEW a \in Actors, DeleteOriginal(a) PROVE LedgerInv'
  BY <1>7 DEF DeleteOriginal, GoalFits
<1>8. ASSUME NEW a \in Actors, KeepOriginal(a) PROVE LedgerInv'
  BY <1>8 DEF KeepOriginal, GoalFits
<1>9. ASSUME NEW a \in Actors, ReadPayload(a) PROVE LedgerInv'
  BY <1>9 DEF ReadPayload
<1>10. ASSUME NEW a \in Actors, ReadFails(a) PROVE LedgerInv'
  BY <1>10 DEF ReadFails
<1>11. ASSUME NEW a \in Actors, WriteBack(a) PROVE LedgerInv'
  BY <1>11 DEF WriteBack, GoalFits
<1>12. ASSUME NEW a \in Actors, WriteBackFails(a) PROVE LedgerInv'
  <2>1. /\ pc[a] = "writeback" /\ pc' = [pc EXCEPT ![a] = "idle"]
        /\ cur' = [cur EXCEPT ![a] = NoId] /\ goal' = [goal EXCEPT ![a] = "none"]
        /\ UNCHANGED <<fate, told, ledger, truncated, snap>>
    BY <1>12 DEF WriteBackFails
  <2>2. \A i \in Ids : Appending(i) => Appending(i)'
    BY <2>1
  <2>. QED
    BY <2>1, <2>2
<1>13. ASSUME NEW a \in Actors, CleanVault(a) PROVE LedgerInv'
  BY <1>13 DEF CleanVault, Unlinked, UnlinkFails, GoalFits
<1>14. ASSUME NEW a \in Actors, Purge(a) PROVE LedgerInv'
  BY <1>14 DEF Purge, Unlinked, GoalFits
<1>15. ASSUME NEW a \in Actors, PurgeFails(a) PROVE LedgerInv'
  BY <1>15 DEF PurgeFails, UnlinkFails, GoalFits
<1>16. ASSUME NEW a \in Actors, LoadLedger(a) PROVE LedgerInv'
  <2>1. pc[a] = "load" /\ \A b \in Actors : b # a => pc[b] = "idle"
    BY <1>16 DEF LoadLedger, OneCall
  <2>2. Complete(ledger)
    BY <2>1
  <2>3. /\ fate' = fate /\ told' = told /\ cur' = cur /\ goal' = goal
        /\ ledger' = ledger /\ snap'[a] = ledger
        /\ pc' = [pc EXCEPT ![a] = "truncate"]
    BY <1>16 DEF LoadLedger
  <2>4. Complete(ledger)' /\ Complete(snap[a])'
    BY <2>1, <2>2, <2>3
  <2>. QED
    BY <2>1, <2>3, <2>4
<1>17. ASSUME NEW a \in Actors, TruncateLedger(a) PROVE LedgerInv'
  BY <1>17 DEF TruncateLedger
<1>18. ASSUME NEW a \in Actors, SaveLedger(a) PROVE LedgerInv'
  <2>1. /\ pc[a] = "save" /\ cur[a] \in Ids
        /\ \A b \in Actors : b # a => pc[b] = "idle"
        /\ truncated /\ Complete(snap[a]) /\ snap[a] \in Ledger
    BY <1>18 DEF SaveLedger, OneCall
  <2>2. /\ ledger' = NewLedger(a) /\ fate' = fate
        /\ told' = IF goal[a] = "quarantined" THEN told \cup {cur[a]} ELSE told
        /\ \A b \in Actors : pc'[b] = "idle"
    BY <1>18, <2>1 DEF SaveLedger, Report
  <2>3. ASSUME NEW i \in Ids, Held(i) PROVE NewLedger(a)[i] = "quarantined"
    <3>1. CASE cur[a] = i
      BY <2>1, <2>3, <3>1 DEF NewLedger, GoalFits
    <3>2. CASE cur[a] # i
      <4>1. \A b \in Actors : cur[b] = i => pc[b] = "idle"
        BY <2>1, <3>2
      <4>2. snap[a][i] = "quarantined"
        BY <2>1, <2>3, <4>1
      <4>. QED
        BY <2>1, <3>2, <4>2 DEF NewLedger
    <3>. QED
      BY <3>1, <3>2
  <2>4. ASSUME NEW i \in told' PROVE NewLedger(a)[i] # "none"
    <3>1. CASE i = cur[a]
      <4>1. goal[a] # "none" /\ (goal[a] = "quarantined" \/ snap[a][i] # "none")
        BY <2>1, <2>2, <2>4, <3>1 DEF GoalFits
      <4>. QED
        BY <2>1, <3>1, <4>1 DEF NewLedger
    <3>2. CASE i # cur[a]
      <4>1. i \in Ids /\ snap[a][i] # "none"
        BY <2>1, <2>2, <2>4, <3>2
      <4>. QED
        BY <2>1, <3>2, <4>1 DEF NewLedger
    <3>. QED
      BY <3>1, <3>2
  <2>. QED
    BY <2>2, <2>3, <2>4
<1>19. ASSUME NEW a \in Actors, SaveFails(a) PROVE LedgerInv'
  BY <1>19 DEF SaveFails, Report
<1>20. CASE Crash
  BY <1>20 DEF Crash
<1>21. ASSUME NEW f \in Files, NEW b \in Contents, Arrive(f, b) PROVE LedgerInv'
  BY <1>21 DEF Arrive
<1>22. CASE UNCHANGED vars
  BY <1>22 DEF vars
<1>. QED
  BY <1>1, <1>2, <1>3, <1>4, <1>5, <1>6, <1>7, <1>8, <1>9, <1>10, <1>11, <1>12, <1>13, <1>14, <1>15, <1>16, <1>17, <1>18, <1>19, <1>20, <1>21, <1>22 DEF Next, Quarantine, Restore, Delete, Record

LEMMA InitSerial == Init => SerialInv /\ LedgerInv
<1> SUFFICES ASSUME Init PROVE SerialInv /\ LedgerInv
  OBVIOUS
<1>1. CallHasItsFile /\ GoalFits
  BY DEF Init, CallHasItsFile, GoalFits, Quarantining, Releasing, Recording
<1>2. BornHasOrigin /\ LetGoIsKnown
  BY DEF Init, BornHasOrigin, LetGoIsKnown
<1>3. LedgerInv
  BY DEF Init, LedgerInv, Complete, Held
<1>. QED
  BY <1>1, <1>2, <1>3 DEF SerialInv

LEMMA StepSerialInv ==
  ASSUME "ledger" \notin Faults, "crash" \notin Faults
  PROVE  VaultInv /\ SerialInv /\ OneCall /\ OneCall' /\ [Next]_vars => SerialInv'
BY StepCallHasItsFile, StepGoalFits, StepBornHasOrigin, StepLetGoIsKnown DEF SerialInv

\* When calls never overlap and the ledger can be written, SerialInv holds.
LEMMA SerialInvariant ==
  ASSUME "ledger" \notin Faults, "crash" \notin Faults
  PROVE  Spec /\ []OneCall => []SerialInv
BY InitSerial, StepSerialInv, VaultInvariant, PTL DEF Spec

\* Between calls, an entry offered for restoring was not restored or deleted
\* before, as long as quarantine_file, restore_file and delete_permanently
\* never overlap and neither a crash nor a failed ledger write comes between a
\* release and its record.
THEOREM RestoredOnlyOnce ==
  ASSUME "ledger" \notin Faults, "crash" \notin Faults
  PROVE  Spec /\ []OneCall => []NoSecondRestore
<1>1. VaultInv /\ SerialInv => NoSecondRestore
  <2> SUFFICES ASSUME SerialInv, AllIdle, NEW i \in Ids,
                      ledger[i] = "quarantined", Whole(i), fate[i] = "released"
               PROVE  FALSE
    BY DEF NoSecondRestore
  <2>1. LettingGo(i)
    BY DEF SerialInv, LetGoIsKnown, Readable, Whole
  <2>. QED
    BY <2>1 DEF LettingGo, AllIdle, Recording
<1>. QED
  BY SerialInvariant, VaultInvariant, <1>1, PTL

\* The same for what the ledger lacks: a ledger that can be read and written
\* by one call at a time is complete whenever nobody is rewriting it.
LEMMA LedgerInvariant ==
  ASSUME "ledger" \notin Faults, "crash" \notin Faults, "read" \notin Faults
  PROVE  Spec /\ []OneCall => []LedgerInv
BY InitSerial, StepLedgerInv, SerialInvariant, VaultInvariant, PTL DEF Spec

\* _append_entry leaves no vaulted file without its entry: between calls that
\* do not overlap, everything the vault holds can be restored or deleted.
THEOREM EverythingHeldIsListed ==
  ASSUME "ledger" \notin Faults, "crash" \notin Faults, "read" \notin Faults
  PROVE  Spec /\ []OneCall => []HeldIsListed
<1>1. LedgerInv => HeldIsListed
  <2> SUFFICES ASSUME LedgerInv, AllIdle, NEW i \in Ids, Held(i)
               PROVE  ledger[i] = "quarantined"
    BY DEF HeldIsListed, Held
  <2>1. ~Appending(i)
    BY DEF Appending, AllIdle, Recording
  <2>. QED
    BY <2>1 DEF LedgerInv, Complete, AllIdle
<1>. QED
  BY LedgerInvariant, <1>1, PTL

\* The ledger is a true audit trail of calls that do not overlap: what
\* reported success is on record, and nothing is offered a second time.
THEOREM LedgerTellsTheTruth ==
  ASSUME "ledger" \notin Faults, "crash" \notin Faults, "read" \notin Faults
  PROVE  Spec /\ []OneCall => []LedgerIsTrue
<1>1. LedgerInv => SuccessIsRecorded
  BY DEF LedgerInv, Complete, SuccessIsRecorded, AllIdle
<1>2. SuccessIsRecorded /\ NoSecondRestore => LedgerIsTrue
  BY DEF LedgerIsTrue
<1>. QED
  BY LedgerInvariant, RestoredOnlyOnce, <1>1, <1>2, PTL

(***************************************************************************)
(* The refinement: what the contract sees of a state, and of each step.    *)
(***************************************************************************)
HeldBy == [i \in Ids |-> IF Held(i) THEN origin[i] ELSE Nowhere]
Spent == {i \in Ids : fate[i] = "released"}

\* A step that settles, releases or disturbs no id.
LEMMA NothingMoves ==
  ASSUME VaultInv, disk' = disk, fate' = fate, origin' = origin
  PROVE  UNCHANGED Contract!vars
BY DEF Contract!vars

\* The moment the original goes, or turns out to stay, the id holds it.
LEMMA HoldStep ==
  ASSUME VaultInv, SerialInv, NEW a \in Actors, pc[a] = "unlink",
         NEW i \in Ids, i = cur[a], NEW f \in Files, f = origin[i].path,
         fate' \in {[fate EXCEPT ![i] = "vaulted"], [fate EXCEPT ![i] = "kept"]},
         origin' = origin, disk[f] # Absent
  PROVE  Contract!Hold(f, i)
<1>1. fate[i] = "copying" /\ fate \in [Ids -> Fate]
  BY DEF VaultInv, TypeOK, CallsAreSound, Quarantining
<1>2. origin[i] \in Origin /\ disk[f] = origin[i].bytes
  BY <1>1 DEF SerialInv, BornHasOrigin, CallHasItsFile, Quarantining
<1>3. origin[i] = [path |-> f, bytes |-> disk[f]]
  BY <1>2 DEF Origin
<1>4. HeldBy' = [HeldBy EXCEPT ![i] = [path |-> f, bytes |-> disk[f]]]
  BY <1>1, <1>3 DEF HeldBy, Held
<1>5. Spent' = Spent /\ i \notin Spent /\ HeldBy[i] = Nowhere
  BY <1>1 DEF Spent, HeldBy, Held
<1>. QED
  BY <1>1, <1>2, <1>4, <1>5
     DEF Contract!Hold, Contract!Free, Contract!Nothing, HeldBy, Spent, Held, Nowhere, Origin

\* A held id that is let go of.
LEMMA ReleaseStep ==
  ASSUME VaultInv, SerialInv, NEW i \in Ids, Held(i),
         fate' = [fate EXCEPT ![i] = "released"], origin' = origin
  PROVE  Contract!Release(i)
<1>1. fate \in [Ids -> Fate] /\ origin[i] \in Origin
  BY DEF VaultInv, TypeOK, SerialInv, BornHasOrigin, Held
<1>2. HeldBy' = [HeldBy EXCEPT ![i] = Nowhere] /\ Spent' = Spent \cup {i}
  BY <1>1 DEF HeldBy, Spent, Held
<1>3. HeldBy[i] = origin[i] /\ origin[i] # Nowhere
  BY <1>1 DEF HeldBy, Origin, Nowhere, Bytes
<1>. QED
  BY <1>2, <1>3 DEF Contract!Release, Contract!Nothing, HeldBy, Spent, Held, Nowhere

\* Letting go of an id, again or for the first time, without touching a file.
LEMMA DestroyStep ==
  ASSUME VaultInv, SerialInv, NEW i \in Ids, fate[i] \in Settled,
         fate' = [fate EXCEPT ![i] = "released"], origin' = origin, disk' = disk
  PROVE  Contract!Next \/ UNCHANGED Contract!vars
<1>1. CASE Held(i)
  BY <1>1, ReleaseStep DEF Contract!Destroy, Contract!Next
<1>2. CASE ~Held(i)
  <2>1. fate' = fate
    BY <1>2 DEF VaultInv, TypeOK, Settled, Held
  <2>. QED
    BY <2>1, NothingMoves
<1>. QED
  BY <1>1, <1>2

LEMMA ContractInit == Init => Contract!Init
BY DEF Init, Contract!Init, Contract!Nothing, Nowhere

LEMMA ContractStep ==
  VaultInv /\ SerialInv /\ [Next]_vars => [Contract!Next]_Contract!vars
<1> SUFFICES ASSUME VaultInv, SerialInv, [Next]_vars
             PROVE  Contract!Next \/ UNCHANGED Contract!vars
  OBVIOUS
<1> DEFINE Goal == Contract!Next \/ UNCHANGED Contract!vars
<1> HIDE DEF Goal
<1>0. UNCHANGED Contract!vars => Goal
  BY DEF Goal
<1>1. ASSUME NEW a \in Actors, NEW f \in Files, NEW i \in Ids,
             BeginQuarantine(a, f, i)
      PROVE  Goal
  <2>1. /\ fate[i] = "unborn" /\ fate' = [fate EXCEPT ![i] = "copying"]
        /\ \A j \in Ids : j # i => origin'[j] = origin[j] /\ fate'[j] = fate[j]
        /\ fate'[i] = "copying" /\ disk' = disk
    BY <1>1 DEF BeginQuarantine, VaultInv, TypeOK
  <2>2. HeldBy' = HeldBy /\ Spent' = Spent
    BY <2>1 DEF HeldBy, Spent, Held
  <2>. QED
    BY <1>0, <2>1, <2>2 DEF Contract!vars, HeldBy, Spent, Held
<1>2. ASSUME NEW a \in Actors, NEW i \in Ids, BeginRestore(a, i) \/ BeginDelete(a, i)
      PROVE  Goal
  BY <1>0, <1>2, NothingMoves DEF BeginRestore, BeginDelete, history
<1>3. ASSUME NEW a \in Actors,
             WritePayload(a) \/ WriteKey(a) \/ WriteFails(a)
      PROVE  Goal
  BY <1>0, <1>3, NothingMoves DEF WritePayload, WriteKey, WriteFails, history
<1>4. ASSUME NEW a \in Actors, DeleteOriginal(a) PROVE Goal
  <2>1. PICK i \in Ids : i = cur[a] /\ fate[i] = "copying"
    BY <1>4 DEF DeleteOriginal, VaultInv, CallsAreSound, Quarantining
  <2>2. PICK f \in Files : f = origin[i].path
    BY <2>1 DEF SerialInv, BornHasOrigin, Origin
  <2>3. Contract!Hold(f, i)
    BY <1>4, <2>1, <2>2, HoldStep DEF DeleteOriginal
  <2>4. Contract!Take(f, i)
    BY <1>4, <2>1, <2>2, <2>3 DEF DeleteOriginal, Contract!Take
  <2>. QED
    BY <2>4 DEF Contract!Next, Goal
<1>5. ASSUME NEW a \in Actors, KeepOriginal(a) PROVE Goal
  <2>1. PICK i \in Ids : i = cur[a] /\ fate[i] = "copying"
    BY <1>5 DEF KeepOriginal, VaultInv, CallsAreSound, Quarantining
  <2>2. PICK f \in Files : f = origin[i].path
    BY <2>1 DEF SerialInv, BornHasOrigin, Origin
  <2>3. disk[f] # Absent
    <3>1. disk[f] = origin[i].bytes
      BY <1>5, <2>1, <2>2 DEF KeepOriginal, SerialInv, CallHasItsFile, Quarantining
    <3>2. origin[i].bytes \in Bytes
      BY <2>1 DEF SerialInv, BornHasOrigin, Origin
    <3>. QED
      BY <3>1, <3>2
  <2>4. Contract!Hold(f, i)
    BY <1>5, <2>1, <2>2, <2>3, HoldStep DEF KeepOriginal
  <2>5. Contract!Copy(f, i)
    BY <1>5, <2>4 DEF KeepOriginal, Contract!Copy
  <2>. QED
    BY <2>5 DEF Contract!Next, Goal
<1>6. ASSUME NEW a \in Actors, ReadPayload(a) \/ ReadFails(a) \/ CleanVault(a)
      PROVE  Goal
  BY <1>0, <1>6, NothingMoves DEF ReadPayload, ReadFails, CleanVault, history
<1>7. ASSUME NEW a \in Actors, WriteBack(a) PROVE Goal
  <2>1. PICK i \in Ids : i = cur[a] /\ Held(i)
    BY <1>7 DEF WriteBack, VaultInv, CallsAreSound, SerialInv, CallHasItsFile
  <2>2. Contract!Release(i)
    BY <1>7, <2>1, ReleaseStep DEF WriteBack
  <2>3. Contract!GiveBack(i)
    BY <1>7, <2>1, <2>2 DEF WriteBack, Contract!GiveBack, Held
  <2>. QED
    BY <2>3 DEF Contract!Next, Goal
<1>8. ASSUME NEW a \in Actors, WriteBackFails(a) PROVE Goal
  <2>1. PICK i \in Ids : i = cur[a] /\ Held(i)
    BY <1>8 DEF WriteBackFails, VaultInv, CallsAreSound, SerialInv, CallHasItsFile
  <2>2. origin' = origin /\ fate' = fate
    BY <1>8 DEF WriteBackFails, history
  <2>3. CASE disk' = disk
    BY <1>0, <2>2, <2>3, NothingMoves
  <2>4. CASE disk' = [disk EXCEPT ![origin[i].path] = Damaged]
    <3>1. origin[i] \in Origin
      BY <2>1 DEF SerialInv, BornHasOrigin, Held
    <3>2. HeldBy[i] = origin[i] /\ origin[i] # Nowhere
      BY <2>1, <3>1 DEF HeldBy, Origin, Nowhere, Bytes
    <3>3. HeldBy' = HeldBy /\ Spent' = Spent
      BY <2>2 DEF HeldBy, Spent, Held
    <3>4. Contract!Spoil(i)
      BY <2>4, <3>2, <3>3
         DEF Contract!Spoil, Contract!Nothing, HeldBy, Spent, Held, Nowhere
    <3>. QED
      BY <3>4 DEF Contract!Next, Goal
  <2>. QED
    BY <1>8, <2>1, <2>3, <2>4 DEF WriteBackFails
<1>9. ASSUME NEW a \in Actors, Purge(a) PROVE Goal
  <2>1. PICK i \in Ids : i = cur[a] /\ fate[i] \in Settled
    BY <1>9 DEF Purge, VaultInv, CallsAreSound, Releasing
  <2>. QED
    BY <1>9, <2>1, DestroyStep DEF Purge, Goal
<1>10. ASSUME NEW a \in Actors, PurgeFails(a) PROVE Goal
  <2>1. PICK i \in Ids : i = cur[a] /\ fate[i] \in Settled
    BY <1>10 DEF PurgeFails, VaultInv, CallsAreSound, Releasing
  <2>2. CASE fate' = fate
    BY <1>0, <1>10, <2>2, NothingMoves DEF PurgeFails
  <2>3. CASE fate' = [fate EXCEPT ![i] = "released"]
    BY <1>10, <2>1, <2>3, DestroyStep DEF PurgeFails, Goal
  <2>. QED
    BY <1>10, <2>1, <2>2, <2>3 DEF PurgeFails
<1>11. ASSUME NEW a \in Actors, Record(a) PROVE Goal
  BY <1>0, <1>11, NothingMoves
     DEF Record, LoadLedger, TruncateLedger, SaveLedger, SaveFails, history
<1>12. ASSUME Crash PROVE Goal
  BY <1>0, <1>12, NothingMoves DEF Crash, history
<1>13. ASSUME NEW f \in Files, NEW b \in Contents, Arrive(f, b) PROVE Goal
  <2>1. HeldBy' = HeldBy /\ Spent' = Spent
    BY <1>13 DEF Arrive, history, HeldBy, Spent, Held
  <2>2. Contract!Arrive(f, b)
    BY <1>13, <2>1 DEF Arrive, Contract!Arrive, HeldBy, Spent, Held
  <2>. QED
    BY <2>2 DEF Contract!Next, Goal
<1>14. ASSUME UNCHANGED vars PROVE Goal
  BY <1>0, <1>14, NothingMoves DEF vars
<1>15. Goal
  BY <1>1, <1>2, <1>3, <1>4, <1>5, <1>6, <1>7, <1>8, <1>9, <1>10, <1>11,
     <1>12, <1>13, <1>14 DEF Next, Quarantine, Restore, Delete
<1>. QED
  BY <1>15 DEF Goal

\* One call at a time, the steps of the vault implement the promise made
\* about bytes: each file is taken from its path exactly as it was read, is
\* held under its id, and leaves once, put back or destroyed.
THEOREM VaultKeepsContract ==
  ASSUME "ledger" \notin Faults, "crash" \notin Faults
  PROVE  Spec /\ []OneCall => KeepsContract
BY ContractInit, ContractStep, SerialInvariant, VaultInvariant, PTL
   DEF Spec, KeepsContract, Contract!Spec

=============================================================================
