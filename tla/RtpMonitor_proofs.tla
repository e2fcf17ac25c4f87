--------------------------- MODULE RtpMonitor_proofs ---------------------------
(***************************************************************************)
(* Proofs about RtpMonitor, for any pids, paths and versions, on either    *)
(* platform.                                                               *)
(***************************************************************************)
EXTENDS RtpMonitor, SequenceTheorems, TLAPS

USE VersionsAssumption, PathsAssumption, WorldAssumption, SentinelAssumption

LEMMA ScanDecides ==
  ASSUME NEW v \in Versions
  PROVE  /\ Judge(v) \in Verdict /\ Failed(v) \in Verdict
         /\ Judge(v).of = v /\ ~Judge(v).raced
         /\ Failed(v).of = v /\ ~Failed(v).raced
         /\ Judge(v).code = "block" => v \in Bad
         /\ Failed(v).code # "block"
<1>1. CASE v \in Bad
  <2>1. Judge(v) = [code |-> "block", of |-> v, raced |-> FALSE]
    BY <1>1 DEF Judge
  <2>. QED
    BY <1>1, <2>1 DEF Failed, Verdict
<1>2. CASE v \notin Bad
  <2>1. Judge(v) = [code |-> "allow", of |-> v, raced |-> FALSE]
    BY <1>2 DEF Judge
  <2>. QED
    BY <1>2, <2>1 DEF Failed, Verdict
<1>. QED
  BY <1>1, <1>2

LEMMA InitMonitor == Init => MonitorInv
<1> SUFFICES ASSUME Init PROVE MonitorInv
  OBVIOUS
<1>1. TypeOK
  BY DEF Init, TypeOK, Labels
<1>2. WorkIsHeld /\ BlocksAreBad /\ VerdictIsCurrent
  BY DEF Init, WorkIsHeld, BlocksAreBad, VerdictIsCurrent, Handling
<1>. QED
  BY <1>1, <1>2 DEF MonitorInv

LEMMA StepType == MonitorInv /\ [Next]_vars => TypeOK'
<1> SUFFICES ASSUME MonitorInv, [Next]_vars PROVE TypeOK'
  OBVIOUS
<1> USE DEF MonitorInv, TypeOK, WorkIsHeld, world, listing, work, births, Labels, Handling, Resume, Target, Verdict, Entry
<1>1. ASSUME NEW p \in Pids, Exit(p) PROVE TypeOK'
  BY <1>1 DEF Exit
<1>2. ASSUME NEW p \in Pids, NEW x \in Paths, Spawn(p, x) PROVE TypeOK'
  <2>1. [pid |-> p, path |-> x] \in [pid : Pids, path : Paths]
    OBVIOUS
  <2>2. events' \in Seq([pid : Pids, path : Paths])
    BY <1>2, <2>1, AppendProperties DEF Spawn
  <2>3. proc' \in [Pids -> Paths \cup {Gone}] /\ born' \subseteq Pids
    BY <1>2 DEF Spawn
  <2>. QED
    BY <1>2, <2>2, <2>3 DEF Spawn
<1>3. ASSUME NEW x \in Trustable, Trust(x) PROVE TypeOK'
  BY <1>3 DEF Trust
<1>4. ASSUME NEW x \in Paths, NEW v \in Versions, Swap(x, v) PROVE TypeOK'
  BY <1>4 DEF Swap
<1>5. ASSUME NextEvent PROVE TypeOK'
  <2>1. /\ Head(events) \in [pid : Pids, path : Paths]
        /\ Tail(events) \in Seq([pid : Pids, path : Paths])
    BY <1>5, HeadTailProperties DEF NextEvent
  <2>2. CASE UNCHANGED <<pc, work>>
    BY <1>5, <2>1, <2>2 DEF NextEvent
  <2>3. CASE TakeEvent(Head(events).pid, Head(events).path)
    <3>1. target' \in Target /\ pc' = "check" /\ UNCHANGED <<mark, verdict>>
      BY <2>1, <2>3 DEF TakeEvent, Take
    <3>. QED
      BY <1>5, <2>1, <2>3, <3>1 DEF NextEvent
  <2>. QED
    BY <1>5, <2>2, <2>3 DEF NextEvent
<1>6. ASSUME PollStart PROVE TypeOK'
  BY <1>6 DEF PollStart, Live
<1>7. ASSUME PollEnd PROVE TypeOK'
  BY <1>7 DEF PollEnd
<1>8. ASSUME PollBreaks PROVE TypeOK'
  BY <1>8 DEF PollBreaks
<1>9. ASSUME NEW p \in Pids, LookOld(p) PROVE TypeOK'
  BY <1>9 DEF LookOld
<1>10. ASSUME NEW p \in Pids, LookNew(p) PROVE TypeOK'
  <2>1. proc[p] \in Paths
    BY <1>10 DEF LookNew
  <2>2. CASE UNCHANGED <<pc, work>>
    BY <1>10, <2>2 DEF LookNew
  <2>3. CASE disk[proc[p]] # Missing /\ Take(p, proc[p])
    <3>1. target' \in Target /\ pc' = "check" /\ UNCHANGED <<mark, verdict>>
      BY <2>1, <2>3 DEF Take
    <3>. QED
      BY <1>10, <2>1, <2>3, <3>1 DEF LookNew
  <2>. QED
    BY <1>10, <2>2, <2>3 DEF LookNew
<1>11. ASSUME CacheHit PROVE TypeOK'
  BY <1>11 DEF CacheHit, Matches, Decide
<1>12. ASSUME CacheMiss PROVE TypeOK'
  BY <1>12 DEF CacheMiss, Matches
<1>13. ASSUME Scan PROVE TypeOK'
  <2>1. disk[target.path] \in Versions
    BY <1>13 DEF Scan
  <2>2. verdict' \in Verdict
    BY <1>13, <2>1, ScanDecides DEF Scan
  <2>3. pc' = "stamp" /\ UNCHANGED <<world, listing, target, mark, cache, births, betrayed>>
    BY <1>13 DEF Scan
  <2>. QED
    BY <1>13, <2>2, <2>3
<1>14. ASSUME ScanRaises PROVE TypeOK'
  BY <1>14 DEF ScanRaises, Failed
<1>15. ASSUME Stamp PROVE TypeOK'
  BY <1>15 DEF Stamp, Decide
<1>16. ASSUME LogOnly PROVE TypeOK'
  BY <1>16 DEF LogOnly
<1>17. ASSUME Kill PROVE TypeOK'
  BY <1>17 DEF Kill
<1>18. ASSUME KillFails PROVE TypeOK'
  BY <1>18 DEF KillFails
<1>19. ASSUME Quarantine PROVE TypeOK'
  BY <1>19 DEF Quarantine
<1>20. ASSUME QuarantineFails PROVE TypeOK'
  BY <1>20 DEF QuarantineFails
<1>21. CASE UNCHANGED vars
  BY <1>21 DEF vars
<1>. QED
  BY <1>1, <1>2, <1>3, <1>4, <1>5, <1>6, <1>7, <1>8, <1>9, <1>10, <1>11, <1>12, <1>13, <1>14, <1>15, <1>16, <1>17, <1>18, <1>19, <1>20, <1>21 DEF Next, World, Worker

LEMMA StepWork == MonitorInv /\ [Next]_vars => WorkIsHeld'
<1> SUFFICES ASSUME MonitorInv, [Next]_vars PROVE WorkIsHeld'
  OBVIOUS
<1> USE DEF MonitorInv, TypeOK, WorkIsHeld, world, listing, work, births, Labels, Handling, Resume, Target, Verdict, Entry
<1>1. ASSUME NEW p \in Pids, Exit(p) PROVE WorkIsHeld'
  BY <1>1 DEF Exit
<1>2. ASSUME NEW p \in Pids, NEW x \in Paths, Spawn(p, x) PROVE WorkIsHeld'
  BY <1>2 DEF Spawn
<1>3. ASSUME NEW x \in Trustable, Trust(x) PROVE WorkIsHeld'
  BY <1>3 DEF Trust
<1>4. ASSUME NEW x \in Paths, NEW v \in Versions, Swap(x, v) PROVE WorkIsHeld'
  BY <1>4 DEF Swap
<1>5. ASSUME NextEvent PROVE WorkIsHeld'
  <2>1. /\ Head(events) \in [pid : Pids, path : Paths]
        /\ Tail(events) \in Seq([pid : Pids, path : Paths])
    BY <1>5, HeadTailProperties DEF NextEvent
  <2>2. CASE UNCHANGED <<pc, work>>
    BY <1>5, <2>1, <2>2 DEF NextEvent
  <2>3. CASE TakeEvent(Head(events).pid, Head(events).path)
    <3>1. target' \in Target /\ pc' = "check" /\ UNCHANGED <<mark, verdict>>
      BY <2>1, <2>3 DEF TakeEvent, Take
    <3>. QED
      BY <1>5, <2>1, <2>3, <3>1 DEF NextEvent, TakeEvent, Take
  <2>. QED
    BY <1>5, <2>2, <2>3 DEF NextEvent
<1>6. ASSUME PollStart PROVE WorkIsHeld'
  BY <1>6 DEF PollStart, Live
<1>7. ASSUME PollEnd PROVE WorkIsHeld'
  BY <1>7 DEF PollEnd
<1>8. ASSUME PollBreaks PROVE WorkIsHeld'
  BY <1>8 DEF PollBreaks
<1>9. ASSUME NEW p \in Pids, LookOld(p) PROVE WorkIsHeld'
  BY <1>9 DEF LookOld
<1>10. ASSUME NEW p \in Pids, LookNew(p) PROVE WorkIsHeld'
  <2>1. proc[p] \in Paths
    BY <1>10 DEF LookNew
  <2>2. CASE UNCHANGED <<pc, work>>
    BY <1>10, <2>2 DEF LookNew
  <2>3. CASE disk[proc[p]] # Missing /\ Take(p, proc[p])
    <3>1. target' \in Target /\ pc' = "check" /\ UNCHANGED <<mark, verdict>>
      BY <2>1, <2>3 DEF Take
    <3>. QED
      BY <1>10, <2>1, <2>3, <3>1 DEF LookNew, Take
  <2>. QED
    BY <1>10, <2>2, <2>3 DEF LookNew
<1>11. ASSUME CacheHit PROVE WorkIsHeld'
  BY <1>11 DEF CacheHit, Matches, Decide
<1>12. ASSUME CacheMiss PROVE WorkIsHeld'
  BY <1>12 DEF CacheMiss, Matches
<1>13. ASSUME Scan PROVE WorkIsHeld'
  <2>1. disk[target.path] \in Versions
    BY <1>13 DEF Scan
  <2>2. verdict' \in Verdict
    BY <1>13, <2>1, ScanDecides DEF Scan
  <2>3. pc' = "stamp" /\ UNCHANGED <<world, listing, target, mark, cache, births, betrayed>>
    BY <1>13 DEF Scan
  <2>4. target' \in Target /\ disk'[target'.path] # Missing
    BY <1>13, <2>3 DEF Scan
  <2>. HIDE DEF Target, Verdict, MonitorInv
  <2>. QED
    BY <2>2, <2>3, <2>4
<1>14. ASSUME ScanRaises PROVE WorkIsHeld'
  BY <1>14 DEF ScanRaises, Failed
<1>15. ASSUME Stamp PROVE WorkIsHeld'
  BY <1>15 DEF Stamp, Decide
<1>16. ASSUME LogOnly PROVE WorkIsHeld'
  BY <1>16 DEF LogOnly
<1>17. ASSUME Kill PROVE WorkIsHeld'
  BY <1>17 DEF Kill
<1>18. ASSUME KillFails PROVE WorkIsHeld'
  BY <1>18 DEF KillFails
<1>19. ASSUME Quarantine PROVE WorkIsHeld'
  BY <1>19 DEF Quarantine
<1>20. ASSUME QuarantineFails PROVE WorkIsHeld'
  BY <1>20 DEF QuarantineFails
<1>21. CASE UNCHANGED vars
  BY <1>21 DEF vars
<1>. QED
  BY <1>1, <1>2, <1>3, <1>4, <1>5, <1>6, <1>7, <1>8, <1>9, <1>10, <1>11, <1>12, <1>13, <1>14, <1>15, <1>16, <1>17, <1>18, <1>19, <1>20, <1>21 DEF Next, World, Worker

LEMMA StepBlocks == MonitorInv /\ [Next]_vars => BlocksAreBad'
<1> SUFFICES ASSUME MonitorInv, [Next]_vars PROVE BlocksAreBad'
  OBVIOUS
<1> USE DEF MonitorInv, TypeOK, WorkIsHeld, world, listing, work, births, Labels, Handling, Resume, Target, Verdict, Entry, BlocksAreBad
<1>1. ASSUME NEW p \in Pids, Exit(p) PROVE BlocksAreBad'
  BY <1>1 DEF Exit
<1>2. ASSUME NEW p \in Pids, NEW x \in Paths, Spawn(p, x) PROVE BlocksAreBad'
  BY <1>2 DEF Spawn
<1>3. ASSUME NEW x \in Trustable, Trust(x) PROVE BlocksAreBad'
  BY <1>3 DEF Trust
<1>4. ASSUME NEW x \in Paths, NEW v \in Versions, Swap(x, v) PROVE BlocksAreBad'
  BY <1>4 DEF Swap
<1>5. ASSUME NextEvent PROVE BlocksAreBad'
  BY <1>5 DEF NextEvent, TakeEvent, Take
<1>6. ASSUME PollStart PROVE BlocksAreBad'
  BY <1>6 DEF PollStart, Live
<1>7. ASSUME PollEnd PROVE BlocksAreBad'
  BY <1>7 DEF PollEnd
<1>8. ASSUME PollBreaks PROVE BlocksAreBad'
  BY <1>8 DEF PollBreaks
<1>9. ASSUME NEW p \in Pids, LookOld(p) PROVE BlocksAreBad'
  BY <1>9 DEF LookOld
<1>10. ASSUME NEW p \in Pids, LookNew(p) PROVE BlocksAreBad'
  BY <1>10 DEF LookNew, Take
<1>11. ASSUME CacheHit PROVE BlocksAreBad'
  BY <1>11 DEF CacheHit, Matches, Decide
<1>12. ASSUME CacheMiss PROVE BlocksAreBad'
  BY <1>12 DEF CacheMiss, Matches
<1>13. ASSUME Scan PROVE BlocksAreBad'
  BY <1>13 DEF Scan, Judge, Failed
<1>14. ASSUME ScanRaises PROVE BlocksAreBad'
  BY <1>14 DEF ScanRaises, Failed
<1>15. ASSUME Stamp PROVE BlocksAreBad'
  <2>1. verdict \in Verdict /\ (verdict.code = "block" => verdict.of \in Bad)
    BY <1>15 DEF Stamp
  <2>2. ASSUME NEW x \in Paths, cache'[x] # NoEntry, cache'[x].decision.code = "block"
        PROVE cache'[x].decision.of \in Bad
    <3>1. CASE x = target.path
      BY <1>15, <2>1, <2>2, <3>1 DEF Stamp
    <3>2. CASE x # target.path
      BY <1>15, <2>2, <3>2 DEF Stamp
    <3>. QED
      BY <3>1, <3>2
  <2>3. pc' \in {"stamp", "act", "vault"} => verdict' = verdict
    BY <1>15 DEF Stamp, Decide
  <2>. QED
    BY <2>1, <2>2, <2>3
<1>16. ASSUME LogOnly PROVE BlocksAreBad'
  BY <1>16 DEF LogOnly
<1>17. ASSUME Kill PROVE BlocksAreBad'
  BY <1>17 DEF Kill
<1>18. ASSUME KillFails PROVE BlocksAreBad'
  BY <1>18 DEF KillFails
<1>19. ASSUME Quarantine PROVE BlocksAreBad'
  BY <1>19 DEF Quarantine
<1>20. ASSUME QuarantineFails PROVE BlocksAreBad'
  BY <1>20 DEF QuarantineFails
<1>21. CASE UNCHANGED vars
  BY <1>21 DEF vars
<1>. QED
  BY <1>1, <1>2, <1>3, <1>4, <1>5, <1>6, <1>7, <1>8, <1>9, <1>10, <1>11, <1>12, <1>13, <1>14, <1>15, <1>16, <1>17, <1>18, <1>19, <1>20, <1>21 DEF Next, World, Worker

LEMMA StepCurrent == MonitorInv /\ [Next]_vars => VerdictIsCurrent'
<1> SUFFICES ASSUME MonitorInv, [Next]_vars PROVE VerdictIsCurrent'
  OBVIOUS
<1> USE DEF MonitorInv, TypeOK, WorkIsHeld, world, listing, work, births, Labels, Handling, Resume, Target, Verdict, Entry, VerdictIsCurrent
<1>1. ASSUME NEW p \in Pids, Exit(p) PROVE VerdictIsCurrent'
  BY <1>1 DEF Exit
<1>2. ASSUME NEW p \in Pids, NEW x \in Paths, Spawn(p, x) PROVE VerdictIsCurrent'
  BY <1>2 DEF Spawn
<1>3. ASSUME NEW x \in Trustable, Trust(x) PROVE VerdictIsCurrent'
  BY <1>3 DEF Trust
<1>4. ASSUME NEW x \in Paths, NEW v \in Versions, Swap(x, v) PROVE VerdictIsCurrent'
  BY <1>4 DEF Swap
<1>5. ASSUME NextEvent PROVE VerdictIsCurrent'
  BY <1>5 DEF NextEvent, TakeEvent, Take
<1>6. ASSUME PollStart PROVE VerdictIsCurrent'
  BY <1>6 DEF PollStart, Live
<1>7. ASSUME PollEnd PROVE VerdictIsCurrent'
  BY <1>7 DEF PollEnd
<1>8. ASSUME PollBreaks PROVE VerdictIsCurrent'
  BY <1>8 DEF PollBreaks
<1>9. ASSUME NEW p \in Pids, LookOld(p) PROVE VerdictIsCurrent'
  BY <1>9 DEF LookOld
<1>10. ASSUME NEW p \in Pids, LookNew(p) PROVE VerdictIsCurrent'
  BY <1>10 DEF LookNew, Take
<1>11. ASSUME CacheHit PROVE VerdictIsCurrent'
  BY <1>11 DEF CacheHit, Matches, Decide
<1>12. ASSUME CacheMiss PROVE VerdictIsCurrent'
  BY <1>12 DEF CacheMiss, Matches
<1>13. ASSUME Scan PROVE VerdictIsCurrent'
  BY <1>13 DEF Scan, Judge, Failed
<1>14. ASSUME ScanRaises PROVE VerdictIsCurrent'
  BY <1>14 DEF ScanRaises, Failed
<1>15. ASSUME Stamp PROVE VerdictIsCurrent'
  BY <1>15 DEF Stamp, Decide
<1>16. ASSUME LogOnly PROVE VerdictIsCurrent'
  BY <1>16 DEF LogOnly
<1>17. ASSUME Kill PROVE VerdictIsCurrent'
  BY <1>17 DEF Kill
<1>18. ASSUME KillFails PROVE VerdictIsCurrent'
  BY <1>18 DEF KillFails
<1>19. ASSUME Quarantine PROVE VerdictIsCurrent'
  BY <1>19 DEF Quarantine
<1>20. ASSUME QuarantineFails PROVE VerdictIsCurrent'
  BY <1>20 DEF QuarantineFails
<1>21. CASE UNCHANGED vars
  BY <1>21 DEF vars
<1>. QED
  BY <1>1, <1>2, <1>3, <1>4, <1>5, <1>6, <1>7, <1>8, <1>9, <1>10, <1>11, <1>12, <1>13, <1>14, <1>15, <1>16, <1>17, <1>18, <1>19, <1>20, <1>21 DEF Next, World, Worker

\* MonitorInv is inductive.
THEOREM MonitorInvariant == Spec => []MonitorInv
<1>1. MonitorInv /\ [Next]_vars => MonitorInv'
  BY StepType, StepWork, StepBlocks, StepCurrent DEF MonitorInv
<1>. QED
  BY InitMonitor, <1>1, PTL DEF Spec

(* Who ends a process and moves on is Kill, who removes a file Quarantine.  *)
LEMMA OnlyKillKills ==
  ASSUME [Next]_vars, NEW p \in Pids, Killed(p) PROVE Kill /\ p = target.pid
<1>1. Kill
  BY DEF Next, World, Worker, Killed, vars, world, listing, work, births,
     Exit, Spawn, Trust, Swap, NextEvent, PollStart, PollEnd, PollBreaks,
     LookOld, LookNew, CacheHit, CacheMiss, Scan, ScanRaises, Stamp, LogOnly,
     KillFails, Quarantine, QuarantineFails
<1>. QED
  BY <1>1 DEF Kill, Killed

LEMMA OnlyQuarantineRemoves ==
  ASSUME TypeOK, [Next]_vars, NEW x \in Paths, disk[x] # Missing, disk'[x] = Missing
  PROVE  Quarantine /\ x = target.path
<1>1. \A y \in Paths, v \in Versions : ~Swap(y, v)
  BY SentinelAssumption DEF TypeOK, Swap
<1>2. Quarantine
  BY <1>1 DEF Next, World, Worker, vars, world, listing, work, births,
     Exit, Spawn, Trust, NextEvent, PollStart, PollEnd, PollBreaks, LookOld,
     LookNew, CacheHit, CacheMiss, Scan, ScanRaises, Stamp, LogOnly, Kill,
     KillFails, QuarantineFails
<1>. QED
  BY <1>2 DEF Quarantine

\* On both platforms, whatever pids are used again and whatever files are
\* replaced, a killed process runs the path that was judged (or hides its
\* path from a fresh verdict), and a version of that path was judged bad.
THEOREM KillsJustified == Spec => KillsAreJustified
<1> DEFINE Justified ==
      \A p \in Pids : Killed(p) =>
        /\ verdict.of \in Bad
        /\ \/ proc[p] = target.path
           \/ proc[p] \in Opaque /\ ~Cached
<1>1. MonitorInv /\ [Next]_vars => Justified
  <2> SUFFICES ASSUME MonitorInv, [Next]_vars, NEW p \in Pids, Killed(p)
               PROVE  /\ verdict.of \in Bad
                      /\ \/ proc[p] = target.path
                         \/ proc[p] \in Opaque /\ ~Cached
    OBVIOUS
  <2>1. Kill /\ p = target.pid
    BY OnlyKillKills
  <2>2. verdict.of \in Bad
    BY <2>1 DEF Kill, MonitorInv, WorkIsHeld, BlocksAreBad
  <2>. QED
    BY <2>1, <2>2 DEF Kill
<1>. QED
  BY MonitorInvariant, <1>1, PTL DEF Spec, KillsAreJustified

LEMMA StepTrust ==
  ASSUME Platform = "windows", MonitorInv, TrustIsHeard, [Next]_vars
  PROVE  TrustIsHeard'
<1> USE DEF MonitorInv, TypeOK, WorkIsHeld, TrustIsHeard, world, listing, work, births, Handling, Resume
<1>1. ASSUME NEW p \in Pids, Exit(p) PROVE TrustIsHeard'
  BY <1>1 DEF Exit
<1>2. ASSUME NEW p \in Pids, NEW x \in Paths, Spawn(p, x) PROVE TrustIsHeard'
  BY <1>2 DEF Spawn
<1>3. ASSUME NEW x \in Trustable, Trust(x) PROVE TrustIsHeard'
  BY <1>3 DEF Trust
<1>4. ASSUME NEW x \in Paths, NEW v \in Versions, Swap(x, v) PROVE TrustIsHeard'
  BY <1>4 DEF Swap
<1>5. ASSUME NextEvent PROVE TrustIsHeard'
  BY <1>5 DEF NextEvent, TakeEvent, Take
<1>6. ASSUME PollStart PROVE TrustIsHeard'
  BY <1>6 DEF PollStart, Live
<1>7. ASSUME PollEnd PROVE TrustIsHeard'
  BY <1>7 DEF PollEnd
<1>8. ASSUME PollBreaks PROVE TrustIsHeard'
  BY <1>8 DEF PollBreaks
<1>9. ASSUME NEW p \in Pids, LookOld(p) PROVE TrustIsHeard'
  BY <1>9 DEF LookOld
<1>10. ASSUME NEW p \in Pids, LookNew(p) PROVE TrustIsHeard'
  BY <1>10 DEF LookNew, Take
<1>11. ASSUME CacheHit PROVE TrustIsHeard'
  BY <1>11 DEF CacheHit, Decide
<1>12. ASSUME CacheMiss PROVE TrustIsHeard'
  BY <1>12 DEF CacheMiss
<1>13. ASSUME Scan PROVE TrustIsHeard'
  BY <1>13 DEF Scan
<1>14. ASSUME ScanRaises PROVE TrustIsHeard'
  BY <1>14 DEF ScanRaises, Failed
<1>15. ASSUME Stamp PROVE TrustIsHeard'
  BY <1>15 DEF Stamp, Decide
<1>16. ASSUME LogOnly PROVE TrustIsHeard'
  BY <1>16 DEF LogOnly
<1>17. ASSUME Kill PROVE TrustIsHeard'
  BY <1>17 DEF Kill
<1>18. ASSUME KillFails PROVE TrustIsHeard'
  BY <1>18 DEF KillFails
<1>19. ASSUME Quarantine PROVE TrustIsHeard'
  BY <1>19 DEF Quarantine
<1>20. ASSUME QuarantineFails PROVE TrustIsHeard'
  BY <1>20 DEF QuarantineFails
<1>21. CASE UNCHANGED vars
  BY <1>21 DEF vars
<1>. QED
  BY <1>1, <1>2, <1>3, <1>4, <1>5, <1>6, <1>7, <1>8, <1>9, <1>10, <1>11, <1>12, <1>13, <1>14, <1>15, <1>16, <1>17, <1>18, <1>19, <1>20, <1>21 DEF Next, World, Worker

\* On Windows at most one process is killed for a path as long as the user
\* trusts it, whenever the trust comes and however many events wait.
THEOREM OneKillAtMost ==
  ASSUME Platform = "windows" PROVE Spec => OneKillOutlivesTrust
<1> DEFINE Heard == \A p \in Pids : Killed(p) => target.path \notin betrayed
<1>1. Init => TrustIsHeard
  BY DEF Init, TrustIsHeard, Handling
<1>2. MonitorInv /\ TrustIsHeard /\ [Next]_vars => TrustIsHeard'
  BY StepTrust
<1>3. TrustIsHeard /\ [Next]_vars => Heard
  BY OnlyKillKills DEF Kill, TrustIsHeard, Handling
<1>. QED
  BY MonitorInvariant, <1>1, <1>2, <1>3, PTL DEF Spec, OneKillOutlivesTrust

\* The only moment at which replacing a file can spoil the scan cache is the
\* one between the scan and the fingerprint.
THEOREM CacheTruthful ==
  ASSUME "stamp" \notin SwapAt PROVE Spec => []CacheIsTruthful
<1>1. MonitorInv => CacheIsTruthful
  BY DEF MonitorInv, VerdictIsCurrent, CacheIsTruthful, Matches
<1>. QED
  BY MonitorInvariant, <1>1, PTL

\* What goes to quarantine is what was judged, cached verdict or not, unless
\* the file was replaced behind that verdict; wherever files are replaced.
THEOREM VaultTakesJudged == Spec => VaultTakesTheJudged
<1> DEFINE Judged == \A x \in Paths : disk[x] # Missing /\ disk'[x] = Missing =>
                       verdict.raced \/ disk[x] = verdict.of
<1>1. MonitorInv /\ [Next]_vars => Judged
  <2> SUFFICES ASSUME MonitorInv, [Next]_vars, NEW x \in Paths,
                      disk[x] # Missing, disk'[x] = Missing, ~verdict.raced
               PROVE  disk[x] = verdict.of
    OBVIOUS
  <2>1. Quarantine /\ x = target.path
    BY OnlyQuarantineRemoves DEF MonitorInv
  <2>. QED
    BY <2>1 DEF Quarantine, MonitorInv, VerdictIsCurrent
<1>. QED
  BY MonitorInvariant, <1>1, PTL DEF Spec, VaultTakesTheJudged

LEMMA StepUnseen ==
  ASSUME ~QuickReuse
  PROVE  MonitorInv /\ UnseenAreListed /\ [Next]_vars => UnseenAreListed'
<1> SUFFICES ASSUME MonitorInv, UnseenAreListed, [Next]_vars PROVE UnseenAreListed'
  OBVIOUS
<1> USE DEF MonitorInv, TypeOK, UnseenAreListed, world, listing, work, births, Resume
<1>1. ASSUME NEW p \in Pids, Exit(p) PROVE UnseenAreListed'
  BY <1>1 DEF Exit
<1>2. ASSUME NEW p \in Pids, NEW x \in Paths, Spawn(p, x) PROVE UnseenAreListed'
  BY <1>2 DEF Spawn
<1>3. ASSUME NEW x \in Trustable, Trust(x) PROVE UnseenAreListed'
  BY <1>3 DEF Trust
<1>4. ASSUME NEW x \in Paths, NEW v \in Versions, Swap(x, v) PROVE UnseenAreListed'
  BY <1>4 DEF Swap
<1>5. ASSUME NextEvent PROVE UnseenAreListed'
  BY <1>5 DEF NextEvent, TakeEvent, Take
<1>6. ASSUME PollStart PROVE UnseenAreListed'
  BY <1>6 DEF PollStart, Live
<1>7. ASSUME PollEnd PROVE UnseenAreListed'
  BY <1>7 DEF PollEnd
<1>8. ASSUME PollBreaks PROVE UnseenAreListed'
  BY <1>8 DEF PollBreaks
<1>9. ASSUME NEW p \in Pids, LookOld(p) PROVE UnseenAreListed'
  BY <1>9 DEF LookOld
<1>10. ASSUME NEW p \in Pids, LookNew(p) PROVE UnseenAreListed'
  BY <1>10 DEF LookNew, Take
<1>11. ASSUME CacheHit PROVE UnseenAreListed'
  BY <1>11 DEF CacheHit, Decide
<1>12. ASSUME CacheMiss PROVE UnseenAreListed'
  BY <1>12 DEF CacheMiss
<1>13. ASSUME Scan PROVE UnseenAreListed'
  BY <1>13 DEF Scan
<1>14. ASSUME ScanRaises PROVE UnseenAreListed'
  BY <1>14 DEF ScanRaises, Failed
<1>15. ASSUME Stamp PROVE UnseenAreListed'
  BY <1>15 DEF Stamp, Decide
<1>16. ASSUME LogOnly PROVE UnseenAreListed'
  BY <1>16 DEF LogOnly
<1>17. ASSUME Kill PROVE UnseenAreListed'
  BY <1>17 DEF Kill
<1>18. ASSUME KillFails PROVE UnseenAreListed'
  BY <1>18 DEF KillFails
<1>19. ASSUME Quarantine PROVE UnseenAreListed'
  BY <1>19 DEF Quarantine
<1>20. ASSUME QuarantineFails PROVE UnseenAreListed'
  BY <1>20 DEF QuarantineFails
<1>21. CASE UNCHANGED vars
  BY <1>21 DEF vars
<1>. QED
  BY <1>1, <1>2, <1>3, <1>4, <1>5, <1>6, <1>7, <1>8, <1>9, <1>10, <1>11, <1>12, <1>13, <1>14, <1>15, <1>16, <1>17, <1>18, <1>19, <1>20, <1>21 DEF Next, World, Worker

\* Where no pid is used again before the next listing is done, a listing of
\* the Linux monitor misses nobody: seen_pids, its additions and its pruning
\* lose no process, whatever starts, exits, is killed or breaks off meanwhile.
THEOREM ListingsMissNobody ==
  ASSUME ~QuickReuse PROVE Spec => []PollsAreComplete
<1>1. Init => UnseenAreListed
  BY DEF Init, UnseenAreListed
<1>2. UnseenAreListed => PollsAreComplete
  BY DEF UnseenAreListed, PollsAreComplete
<1>. QED
  BY MonitorInvariant, StepUnseen, <1>1, <1>2, PTL DEF Spec

=============================================================================
