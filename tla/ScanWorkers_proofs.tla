-------------------------- MODULE ScanWorkers_proofs --------------------------
(***************************************************************************)
(* What keeps the bridge's registry and the watchdog in step, for any      *)
(* number of workers, ids and threads and any thresholds: proofs about     *)
(* ScanWorkers.                                                            *)
(***************************************************************************)
EXTENDS ScanWorkers, TLAPS

(* A worker that was never started is known to nobody.                      *)
NewIsUnknown ==
  \A j \in Jobs : stage[j] = "new" =>
    /\ wid[j] = NoId /\ j \notin active \cup cancelled /\ told[j] = "no"
    /\ \A e \in Pending : e[2] # j

Started(j) == wid[j] \in Ids

(* The answer of a task that is over is queued once, for a worker that is   *)
(* still held.                                                              *)
AnswersAreDue ==
  /\ \A k \in DOMAIN posted : posted[k][1] \in Endings =>
       stage[posted[k][2]] = "over" /\ posted[k][2] \in active
  /\ \A k, h \in DOMAIN posted :
       /\ posted[k][1] \in Endings /\ posted[h][1] \in Endings
       /\ posted[k][2] = posted[h][2]
       => k = h

(* A held worker has not answered; if its task is over, its answer is on    *)
(* the way, unless it was cancelled.                                        *)
HeldIsOpen ==
  \A j \in active :
    /\ Started(j)
    /\ told[j] \in {"no", "cancelled"}
    /\ j \in cancelled => told[j] = "cancelled"
    /\ stage[j] = "over" => \/ told[j] = "cancelled"
                            \/ \E e \in Pending : e[1] \in Endings /\ e[2] = j

(* The watchdog's clock is not ahead of the silence of a URL scan.          *)
ClockIsRight ==
  \A j \in active : Url(j) /\ told[j] # "cancelled" =>
    \/ age[wid[j]] <= quiet[j]
    \/ quiet[j] > UrlThreshold
    \/ age[wid[j]] <= UrlThreshold /\ <<"heartbeat", j>> \in Pending

IInv ==
  /\ ScanInv
  /\ FreezeHasCause
  /\ BusyIsTruthful
  /\ frozen = NoJob => /\ NewIsUnknown
                       /\ AnswersAreDue
                       /\ HeldIsOpen
                       /\ ClockIsRight

Events == ({"heartbeat"} \cup Endings) \X Jobs

-----------------------------------------------------------------------------
(* The queue of posted signals, when one is added and when one is taken.    *)
LEMMA AppendedToQueue ==
  ASSUME NEW q \in Seq(Events), NEW e \in Events
  PROVE  /\ Append(q, e) \in Seq(Events)
         /\ DOMAIN Append(q, e) = DOMAIN q \cup {Len(q) + 1}
         /\ Len(q) + 1 \notin DOMAIN q
         /\ Append(q, e)[Len(q) + 1] = e
         /\ \A k \in DOMAIN q : Append(q, e)[k] = q[k]
OBVIOUS

LEMMA TakenFromQueue ==
  ASSUME NEW q \in Seq(Events), q # <<>>
  PROVE  /\ Tail(q) \in Seq(Events)
         /\ 1 \in DOMAIN q /\ Head(q) = q[1] /\ Head(q) \in Events
         /\ \A k \in DOMAIN Tail(q) : k + 1 \in DOMAIN q /\ k + 1 # 1
                                        /\ Tail(q)[k] = q[k + 1]
         /\ \A k \in DOMAIN q : k = 1 \/ (k - 1 \in DOMAIN Tail(q)
                                            /\ Tail(q)[k - 1] = q[k])
OBVIOUS

(* Type correctness, action by action.                                      *)
LEMMA TypeStep ==
  ASSUME TypeOK, [Next]_vars
  PROVE  TypeOK'
<1> USE JobsAssumption
<1>1. ASSUME NEW j \in Jobs, NEW i \in Ids, Start(j, i), busy' \in BOOLEAN
      PROVE  TypeOK'
  BY <1>1 DEF Start, TypeOK, Stages
<1>2. ASSUME CancelUrl PROVE TypeOK'
  BY <1>2 DEF CancelUrl, TypeOK, registry
<1>3. ASSUME NEW j \in Jobs, PoolRuns(j) PROVE TypeOK'
  BY <1>3 DEF PoolRuns, TypeOK, registry, Stages
<1>4. ASSUME NEW j \in Jobs, Heartbeat(j) PROVE TypeOK'
  <2>1. posted' \in Seq(Events)
    BY <1>4, AppendedToQueue DEF Heartbeat, TypeOK, Events
  <2>2. quiet' \in [Jobs -> Nat]
    BY <1>4 DEF Heartbeat, TypeOK
  <2> QED BY <1>4, <2>1, <2>2 DEF Heartbeat, TypeOK, registry, Events
<1>5. ASSUME NEW j \in Jobs, TaskEnds(j) PROVE TypeOK'
  <2>1. Ending(j) \subseteq Events
    BY DEF Ending, Events, Endings
  <2>2. posted \in Seq(Events)
    BY DEF TypeOK, Events
  <2>3. posted' \in Seq(Events)
    <3>1. CASE UNCHANGED posted
      BY <2>2, <3>1
    <3>2. ASSUME NEW e \in Ending(j), posted' = Append(posted, e)
          PROVE  posted' \in Seq(Events)
      BY <2>1, <2>2, <3>2, AppendedToQueue
    <3> QED BY <1>5, <3>1, <3>2 DEF TaskEnds
  <2> QED BY <1>5, <2>3 DEF TaskEnds, TypeOK, registry, Events, Stages
<1>6. ASSUME DeliverHeartbeat PROVE TypeOK'
  <2>1. posted' \in Seq(Events)
    BY <1>6, TakenFromQueue DEF DeliverHeartbeat, TypeOK, Events
  <2>2. age' \in [Ids -> Nat]
    BY <1>6 DEF DeliverHeartbeat, TypeOK
  <2> QED BY <1>6, <2>1, <2>2 DEF DeliverHeartbeat, TypeOK, Events
<1>7. ASSUME DeliverEnding PROVE TypeOK'
  <2>1. posted' \in Seq(Events) /\ Head(posted) \in Events
    BY <1>7, TakenFromQueue DEF DeliverEnding, TypeOK, Events
  <2>2. Tell(Head(posted)) \subseteq {"result", "error", "lost"}
    BY DEF Tell
  <2>3. told' \in [Jobs -> {"no", "cancelled", "result", "error", "lost"}]
    BY <1>7, <2>2 DEF DeliverEnding, TypeOK
  <2>4. active' \subseteq Jobs /\ watched' \subseteq Ids
        /\ age' \in [Ids -> Nat]
    <3>1. CASE UNCHANGED registry
      BY <3>1 DEF TypeOK, registry
    <3>2. CASE Release(wid[Head(posted)[2]])
      BY <3>2 DEF TypeOK, Release
    <3> QED BY <1>7, <3>1, <3>2 DEF DeliverEnding, registry
  <2>5. busy' \in BOOLEAN /\ quiet' \in [Jobs -> Nat]
    BY <1>7 DEF DeliverEnding, TypeOK
  <2> QED BY <1>7, <2>1, <2>3, <2>4, <2>5 DEF DeliverEnding, TypeOK, Events
<1>8. ASSUME Stall PROVE TypeOK'
  BY <1>8 DEF Stall, TypeOK
<1>9. ASSUME Tick PROVE TypeOK'
  BY SMTT(30), <1>9 DEF Tick, TypeOK
<1>10. ASSUME UNCHANGED vars PROVE TypeOK'
  BY <1>10 DEF vars, TypeOK
<1> QED
  BY <1>1, <1>2, <1>3, <1>4, <1>5, <1>6, <1>7, <1>8, <1>9, <1>10
  DEF Next, Step, StartUrl, StartNmap, Ids, TypeOK


-----------------------------------------------------------------------------
(* The inductive step, action by action.                                    *)

(* A new URL scan's id is held by nobody, nor is it in the queue.           *)
LEMMA StartUrlStep ==
  ASSUME IInv, TypeOK', frozen = NoJob, NEW j \in Jobs, NEW u \in Urls, StartUrl(j, u)
  PROVE  IInv'
<1> USE JobsAssumption
<1>f. frozen' = NoJob
  BY DEF StartUrl, Start, Ids, Stages, HeldIds, Url
<1>p. Pending' = Pending /\ posted' = posted
  BY DEF Pending, StartUrl, Start, Ids, Stages, HeldIds, Url
<1>1. RegistryAgrees'
  BY SMTT(30), <1>f, <1>p DEF IInv, ScanInv, TypeOK, RegistryAgrees, HeldIds, Started, NewIsUnknown, StartUrl, Start, Ids, Stages, Url
<1>2. BusyIsTruthful'
  BY <1>f, <1>p DEF IInv, ScanInv, TypeOK, BusyIsTruthful, Url, HeldIsOpen, NewIsUnknown, StartUrl, Start, Ids, Stages, HeldIds
<1>3. NewIsUnknown'
  BY <1>f, <1>p DEF IInv, ScanInv, TypeOK, NewIsUnknown, HeldIsOpen, StartUrl, Start, Ids, Stages, HeldIds, Url
<1>4. AnswersAreDue'
  BY <1>f, <1>p DEF IInv, ScanInv, TypeOK, AnswersAreDue, NewIsUnknown, StartUrl, Start, Ids, Stages, HeldIds, Url
<1>5. HeldIsOpen'
  BY <1>f, <1>p DEF IInv, ScanInv, TypeOK, HeldIsOpen, Started, NewIsUnknown, StartUrl, Start, Ids, Stages, HeldIds, Url
<1>6. ClockIsRight'
  BY <1>f, <1>p DEF IInv, ScanInv, TypeOK, ClockIsRight, HeldIsOpen, Url, Started, NewIsUnknown, StartUrl, Start, Ids, Stages, HeldIds
<1> QED BY <1>f, <1>1, <1>2, <1>3, <1>4, <1>5, <1>6 DEF IInv, ScanInv, FreezeHasCause

(* A new nmap scan's id was never used.                                     *)
LEMMA StartNmapStep ==
  ASSUME IInv, TypeOK', frozen = NoJob, NEW j \in Jobs, NEW n \in Nmaps, StartNmap(j, n)
  PROVE  IInv'
<1> USE JobsAssumption
<1>f. frozen' = NoJob
  BY DEF StartNmap, Start, Ids, Stages, HeldIds, Url
<1>p. Pending' = Pending /\ posted' = posted
  BY DEF Pending, StartNmap, Start, Ids, Stages, HeldIds, Url
<1>1. RegistryAgrees'
  BY SMTT(30), <1>f, <1>p DEF IInv, ScanInv, TypeOK, RegistryAgrees, HeldIds, Started, NewIsUnknown, StartNmap, Start, Ids, Stages, Url
<1>2. BusyIsTruthful'
  BY <1>f, <1>p DEF IInv, ScanInv, TypeOK, BusyIsTruthful, Url, HeldIsOpen, NewIsUnknown, StartNmap, Start, Ids, Stages, HeldIds
<1>3. NewIsUnknown'
  BY <1>f, <1>p DEF IInv, ScanInv, TypeOK, NewIsUnknown, HeldIsOpen, StartNmap, Start, Ids, Stages, HeldIds, Url
<1>4. AnswersAreDue'
  BY <1>f, <1>p DEF IInv, ScanInv, TypeOK, AnswersAreDue, NewIsUnknown, StartNmap, Start, Ids, Stages, HeldIds, Url
<1>5. HeldIsOpen'
  BY <1>f, <1>p DEF IInv, ScanInv, TypeOK, HeldIsOpen, Started, NewIsUnknown, StartNmap, Start, Ids, Stages, HeldIds, Url
<1>6. ClockIsRight'
  BY <1>f, <1>p DEF IInv, ScanInv, TypeOK, ClockIsRight, HeldIsOpen, Url, Started, NewIsUnknown, StartNmap, Start, Ids, Stages, HeldIds
<1> QED BY <1>f, <1>1, <1>2, <1>3, <1>4, <1>5, <1>6 DEF IInv, ScanInv, FreezeHasCause

(* Cancelling only marks a held worker.                                     *)
LEMMA CancelUrlStep ==
  ASSUME IInv, TypeOK', frozen = NoJob, CancelUrl
  PROVE  IInv'
<1> USE JobsAssumption
<1>f. frozen' = NoJob
  BY DEF CancelUrl, FirstUrl, registry, Url
<1>p. Pending' = Pending /\ posted' = posted
  BY DEF Pending, CancelUrl, FirstUrl, registry, Url
<1>1. RegistryAgrees'
  BY <1>f, <1>p DEF IInv, ScanInv, TypeOK, RegistryAgrees, HeldIds, Started, NewIsUnknown, CancelUrl, FirstUrl, registry, Url
<1>2. BusyIsTruthful'
  BY <1>f, <1>p DEF IInv, ScanInv, TypeOK, BusyIsTruthful, Url, HeldIsOpen, NewIsUnknown, CancelUrl, FirstUrl, registry
<1>3. NewIsUnknown'
  <2>1. PICK j \in active : /\ cancelled' = cancelled \cup {j}
                             /\ told' = [told EXCEPT ![j] = "cancelled"]
    BY DEF CancelUrl
  <2>2. NewIsUnknown /\ told \in [Jobs -> {"no", "cancelled", "result", "error", "lost"}]
    BY DEF IInv, ScanInv, TypeOK
  <2> QED BY <1>p, <2>1, <2>2 DEF NewIsUnknown, CancelUrl, registry
<1>4. AnswersAreDue'
  BY <1>f, <1>p DEF IInv, ScanInv, TypeOK, AnswersAreDue, NewIsUnknown, CancelUrl, FirstUrl, registry, Url
<1>5. HeldIsOpen'
  BY <1>f, <1>p DEF IInv, ScanInv, TypeOK, HeldIsOpen, Started, NewIsUnknown, CancelUrl, FirstUrl, registry, Url
<1>6. ClockIsRight'
  BY <1>f, <1>p DEF IInv, ScanInv, TypeOK, ClockIsRight, HeldIsOpen, Url, Started, NewIsUnknown, CancelUrl, FirstUrl, registry
<1> QED BY <1>f, <1>1, <1>2, <1>3, <1>4, <1>5, <1>6 DEF IInv, ScanInv, FreezeHasCause

(* A thread takes a task.                                                   *)
LEMMA PoolRunsStep ==
  ASSUME IInv, TypeOK', frozen = NoJob, NEW j \in Jobs, PoolRuns(j)
  PROVE  IInv'
<1> USE JobsAssumption
<1>f. frozen' = NoJob
  BY DEF PoolRuns, registry, Stages, HeldIds, Url
<1>p. Pending' = Pending /\ posted' = posted
  BY DEF Pending, PoolRuns, registry, Stages, HeldIds, Url
<1>1. RegistryAgrees'
  BY <1>f, <1>p DEF IInv, ScanInv, TypeOK, RegistryAgrees, HeldIds, Started, NewIsUnknown, PoolRuns, registry, Stages, Url
<1>2. BusyIsTruthful'
  BY <1>f, <1>p DEF IInv, ScanInv, TypeOK, BusyIsTruthful, Url, HeldIsOpen, NewIsUnknown, PoolRuns, registry, Stages, HeldIds
<1>3. NewIsUnknown'
  BY <1>f, <1>p DEF IInv, ScanInv, TypeOK, NewIsUnknown, HeldIsOpen, PoolRuns, registry, Stages, HeldIds, Url
<1>4. AnswersAreDue'
  BY <1>f, <1>p DEF IInv, ScanInv, TypeOK, AnswersAreDue, NewIsUnknown, PoolRuns, registry, Stages, HeldIds, Url
<1>5. HeldIsOpen'
  BY <1>f, <1>p DEF IInv, ScanInv, TypeOK, HeldIsOpen, Started, NewIsUnknown, PoolRuns, registry, Stages, HeldIds, Url
<1>6. ClockIsRight'
  BY <1>f, <1>p DEF IInv, ScanInv, TypeOK, ClockIsRight, HeldIsOpen, Url, Started, NewIsUnknown, PoolRuns, registry, Stages, HeldIds
<1> QED BY <1>f, <1>1, <1>2, <1>3, <1>4, <1>5, <1>6 DEF IInv, ScanInv, FreezeHasCause

(* A heartbeat is queued while the clock has not run ahead.                 *)
LEMMA HeartbeatStep ==
  ASSUME IInv, TypeOK', frozen = NoJob, NEW j \in Jobs, Heartbeat(j)
  PROVE  IInv'
<1> USE JobsAssumption
<1>f. frozen' = NoJob /\ <<"heartbeat", j>> \in Events
  BY DEF Heartbeat, Events
<1>p. /\ posted \in Seq(Events)
      /\ posted' = Append(posted, <<"heartbeat", j>>)
  BY DEF Heartbeat, IInv, ScanInv, TypeOK, Events
<1>q. /\ DOMAIN posted' = DOMAIN posted \cup {Len(posted) + 1}
      /\ Len(posted) + 1 \notin DOMAIN posted
      /\ posted'[Len(posted) + 1] = <<"heartbeat", j>>
      /\ \A k \in DOMAIN posted : posted'[k] = posted[k]
  BY <1>f, <1>p, AppendedToQueue
<1>r. Pending' = Pending \cup {<<"heartbeat", j>>}
  BY <1>q DEF Pending
<1>1. RegistryAgrees'
  BY <1>f DEF IInv, ScanInv, TypeOK, RegistryAgrees, HeldIds, Heartbeat, registry
<1>2. BusyIsTruthful'
  BY <1>f DEF IInv, BusyIsTruthful, Url, Heartbeat, registry
<1>3. NewIsUnknown'
  BY <1>r DEF IInv, NewIsUnknown, Heartbeat, registry
<1>4. AnswersAreDue'
  <2>1. "heartbeat" \notin Endings
    BY DEF Endings
  <2> QED BY SMTT(30), <1>q, <2>1 DEF IInv, AnswersAreDue, Heartbeat, registry
<1>5. HeldIsOpen'
  BY <1>r DEF IInv, HeldIsOpen, Started, Heartbeat, registry, Ids
<1>6. ClockIsRight'
  <2> SUFFICES ASSUME NEW k \in active, Url(k), told[k] # "cancelled"
               PROVE  \/ age[wid[k]] <= quiet'[k]
                      \/ quiet'[k] > UrlThreshold
                      \/ /\ age[wid[k]] <= UrlThreshold
                         /\ <<"heartbeat", k>> \in Pending'
    BY DEF ClockIsRight, Heartbeat, registry, Url
  <2>1. /\ quiet \in [Jobs -> Nat] /\ k \in Jobs /\ wid[k] \in Ids
        /\ age[wid[k]] \in Nat /\ UrlThreshold \in Nat
    BY DEF IInv, ScanInv, TypeOK, Url, Ids
  <2>2. \/ age[wid[k]] <= quiet[k]
        \/ quiet[k] > UrlThreshold
        \/ age[wid[k]] <= UrlThreshold /\ <<"heartbeat", k>> \in Pending
    BY DEF IInv, ClockIsRight
  <2>3. CASE k # j
    BY <1>r, <2>1, <2>2, <2>3 DEF Heartbeat
  <2>4. CASE k = j
    BY <1>r, <2>1, <2>2, <2>4 DEF Heartbeat
  <2> QED BY <2>3, <2>4
<1> QED BY <1>f, <1>1, <1>2, <1>3, <1>4, <1>5, <1>6
        DEF IInv, ScanInv, FreezeHasCause

(* A task that ends queues its answer, unless it was cancelled.             *)
LEMMA TaskEndsStep ==
  ASSUME IInv, TypeOK', frozen = NoJob, NEW j \in Jobs, TaskEnds(j)
  PROVE  IInv'
<1> USE JobsAssumption
<1>f. frozen' = NoJob /\ stage[j] = "running" /\ j \in active
  BY DEF TaskEnds, IInv, ScanInv, RegistryAgrees
<1>1. RegistryAgrees'
  BY <1>f DEF IInv, ScanInv, TypeOK, RegistryAgrees, HeldIds, TaskEnds, registry
<1>2. BusyIsTruthful'
  BY <1>f DEF IInv, BusyIsTruthful, Url, TaskEnds, registry
<1>a. AnswersAreDue /\ NewIsUnknown /\ HeldIsOpen /\ ClockIsRight
  BY DEF IInv
<1>b. /\ stage \in [Jobs -> Stages] /\ posted \in Seq(Events)
      /\ stage' = [stage EXCEPT ![j] = "over"]
  BY DEF IInv, ScanInv, TypeOK, Events, TaskEnds
<1>c. \A k \in DOMAIN posted : posted[k][2] = j => posted[k][1] \notin Endings
  BY <1>a, <1>f DEF AnswersAreDue
<1>3. CASE UNCHANGED posted /\ j \in cancelled
  <2>1. Pending' = Pending
    BY <1>3 DEF Pending
  <2>2. NewIsUnknown'
    BY <1>a, <1>b, <2>1 DEF NewIsUnknown, TaskEnds, registry
  <2>3. AnswersAreDue'
    BY <1>3, <1>a, <1>b, <1>c DEF AnswersAreDue, TaskEnds, registry, IInv, ScanInv, TypeOK
  <2>4. HeldIsOpen'
    BY <1>3, <1>a, <1>b, <2>1 DEF HeldIsOpen, Started, TaskEnds, registry, Ids
  <2>5. ClockIsRight'
    BY <1>a, <2>1 DEF ClockIsRight, Url, TaskEnds, registry
  <2> QED BY <1>f, <1>1, <1>2, <2>2, <2>3, <2>4, <2>5
          DEF IInv, ScanInv, FreezeHasCause
<1>4. ASSUME NEW e \in Ending(j), posted' = Append(posted, e) PROVE IInv'
  <2>1. e \in Events /\ e[1] \in Endings /\ e[2] = j
    BY DEF Ending, Events, Endings
  <2>2. /\ DOMAIN posted' = DOMAIN posted \cup {Len(posted) + 1}
        /\ Len(posted) + 1 \notin DOMAIN posted
        /\ posted'[Len(posted) + 1] = e
        /\ \A k \in DOMAIN posted : posted'[k] = posted[k]
    BY <1>4, <1>b, <2>1, AppendedToQueue
  <2>3. Pending' = Pending \cup {e}
    BY <2>2 DEF Pending
  <2>4. NewIsUnknown'
    BY <1>a, <1>b, <2>1, <2>3 DEF NewIsUnknown, TaskEnds, registry
  <2>5. AnswersAreDue'
    <3>1. \A k \in DOMAIN posted : posted[k] \in Events
      BY <1>b
    <3>2. \A k \in DOMAIN posted' : posted'[k][1] \in Endings =>
            stage'[posted'[k][2]] = "over" /\ posted'[k][2] \in active'
      BY <1>a, <1>b, <1>f, <2>1, <2>2, <3>1
      DEF AnswersAreDue, TaskEnds, registry, Events
    <3>3. \A k, h \in DOMAIN posted' :
            /\ posted'[k][1] \in Endings /\ posted'[h][1] \in Endings
            /\ posted'[k][2] = posted'[h][2]
            => k = h
      BY <1>a, <1>c, <2>1, <2>2 DEF AnswersAreDue
    <3> QED BY <3>2, <3>3 DEF AnswersAreDue
  <2>6. HeldIsOpen'
    BY <1>a, <1>b, <2>1, <2>3 DEF HeldIsOpen, Started, TaskEnds, registry, Ids
  <2>7. ClockIsRight'
    BY <1>a, <2>3 DEF ClockIsRight, Url, TaskEnds, registry
  <2> QED BY <1>f, <1>1, <1>2, <2>4, <2>5, <2>6, <2>7
          DEF IInv, ScanInv, FreezeHasCause
<1> QED BY <1>3, <1>4 DEF TaskEnds

(* A heartbeat that is delivered sets the clock of a held worker to zero.   *)
LEMMA DeliverHeartbeatStep ==
  ASSUME IInv, TypeOK', frozen = NoJob, DeliverHeartbeat
  PROVE  IInv'
<1> USE JobsAssumption
<1>f. frozen' = NoJob
  BY DEF DeliverHeartbeat
<1>a. /\ RegistryAgrees /\ AnswersAreDue /\ NewIsUnknown /\ HeldIsOpen
      /\ ClockIsRight /\ watched = HeldIds /\ TypeOK
  BY DEF IInv, ScanInv, RegistryAgrees
<1>b. /\ posted \in Seq(Events) /\ posted # <<>>
      /\ posted' = Tail(posted) /\ Head(posted)[1] = "heartbeat"
      /\ "heartbeat" \notin Endings
  BY <1>a DEF TypeOK, Events, DeliverHeartbeat, Endings
<1>c. /\ \A k \in DOMAIN posted' : k + 1 \in DOMAIN posted
                                  /\ posted'[k] = posted[k + 1]
      /\ \A k \in DOMAIN posted : k = 1 \/ (k - 1 \in DOMAIN posted'
                                            /\ posted'[k - 1] = posted[k])
      /\ Head(posted) = posted[1]
      /\ DOMAIN posted' \subseteq Nat
  BY <1>b, TakenFromQueue
<1>d. Pending' \subseteq Pending /\ Pending \subseteq Pending' \cup {Head(posted)}
  BY <1>c DEF Pending
<1>1. RegistryAgrees'
  BY <1>a, <1>f DEF RegistryAgrees, HeldIds, DeliverHeartbeat
<1>2. BusyIsTruthful'
  BY <1>f DEF IInv, BusyIsTruthful, Url, DeliverHeartbeat
<1>3. NewIsUnknown'
  BY <1>a, <1>d DEF NewIsUnknown, DeliverHeartbeat
<1>4. AnswersAreDue'
  BY <1>a, <1>c DEF AnswersAreDue, DeliverHeartbeat
<1>5. HeldIsOpen'
  BY <1>a, <1>b, <1>d DEF HeldIsOpen, Started, DeliverHeartbeat, Ids
<1>6. ClockIsRight'
  <2> SUFFICES ASSUME NEW k \in active, Url(k), told[k] # "cancelled"
               PROVE  \/ age'[wid[k]] <= quiet[k]
                      \/ quiet[k] > UrlThreshold
                      \/ /\ age'[wid[k]] <= UrlThreshold
                         /\ <<"heartbeat", k>> \in Pending'
    BY DEF ClockIsRight, DeliverHeartbeat, Url
  <2>1. /\ quiet[k] \in Nat /\ wid[k] \in Ids /\ age \in [Ids -> Nat]
        /\ UrlThreshold \in Nat /\ wid[k] \in watched
    BY <1>a DEF TypeOK, Url, Ids, HeldIds
  <2>2. age'[wid[k]] = 0 \/ age'[wid[k]] = age[wid[k]]
    BY <2>1 DEF DeliverHeartbeat
  <2>3. CASE Head(posted) = <<"heartbeat", k>>
    <3>1. age'[wid[k]] = 0
      BY <2>1, <2>3 DEF DeliverHeartbeat
    <3> QED BY <2>1, <3>1
  <2>4. CASE Head(posted) # <<"heartbeat", k>>
    BY <1>a, <1>d, <2>1, <2>2, <2>4 DEF ClockIsRight
  <2> QED BY <2>3, <2>4
<1> QED BY <1>f, <1>1, <1>2, <1>3, <1>4, <1>5, <1>6
        DEF IInv, ScanInv, FreezeHasCause

(* An answer that is delivered is that of a held worker, which it releases. *)
LEMMA DeliverEndingStep ==
  ASSUME IInv, TypeOK', frozen = NoJob, DeliverEnding
  PROVE  /\ IInv'
         /\ \A j \in Jobs : told'[j] # told[j] => j \in active
<1> USE JobsAssumption
<1> DEFINE h == Head(posted)[2]
<1>f. frozen' = NoJob
  BY DEF DeliverEnding
<1>a. /\ RegistryAgrees /\ AnswersAreDue /\ NewIsUnknown /\ HeldIsOpen
      /\ ClockIsRight /\ watched = HeldIds /\ TypeOK /\ BusyIsTruthful
  BY DEF IInv, ScanInv, RegistryAgrees
<1>b. /\ posted \in Seq(Events) /\ posted # <<>>
      /\ posted' = Tail(posted) /\ Head(posted)[1] \in Endings
  BY <1>a DEF TypeOK, Events, DeliverEnding
<1>c. /\ \A k \in DOMAIN posted' : k + 1 \in DOMAIN posted /\ k + 1 # 1
                                  /\ posted'[k] = posted[k + 1]
      /\ \A k \in DOMAIN posted : k = 1 \/ (k - 1 \in DOMAIN posted'
                                            /\ posted'[k - 1] = posted[k])
      /\ 1 \in DOMAIN posted /\ Head(posted) = posted[1]
      /\ DOMAIN posted' \subseteq Nat
  BY <1>b, TakenFromQueue
<1>d. Pending' \subseteq Pending /\ Pending \subseteq Pending' \cup {Head(posted)}
  BY <1>c DEF Pending
<1>e. h \in active /\ h \in Jobs /\ stage[h] = "over" /\ wid[h] \in Ids
  <2>1. stage[h] = "over" /\ h \in active
    BY <1>a, <1>b, <1>c DEF AnswersAreDue
  <2>2. wid[h] \in Ids
    BY <1>a, <2>1 DEF HeldIsOpen, Started
  <2> QED BY <1>a, <2>1, <2>2 DEF TypeOK
<1>g. /\ \E t \in Tell(Head(posted)) : told' = [told EXCEPT ![h] = t]
      /\ busy' = (busy /\ ~Url(h))
      /\ Release(wid[h])
      /\ quiet' = [quiet EXCEPT ![h] = 0]
      /\ UNCHANGED <<stage, wid, cancelled>>
  BY <1>e DEF DeliverEnding, HeldIds
<1>h. /\ active' = active \ {h}
      /\ watched' = watched \ {wid[h]}
      /\ \A k \in active' : wid[k] # wid[h]
  BY <1>a, <1>e, <1>g DEF RegistryAgrees, Release
<1>i. \A k \in Jobs : k # h => told'[k] = told[k] /\ quiet'[k] = quiet[k]
  BY <1>a, <1>g DEF TypeOK
<1>1. RegistryAgrees'
  <2>1. watched' = HeldIds'
    BY <1>a, <1>g, <1>h DEF HeldIds
  <2> QED BY <1>a, <1>e, <1>g, <1>h, <2>1 DEF RegistryAgrees
<1>2. BusyIsTruthful'
  BY <1>a, <1>g, <1>h, <1>f DEF BusyIsTruthful, Url
<1>3. NewIsUnknown'
  BY <1>a, <1>d, <1>e, <1>g, <1>h, <1>i DEF NewIsUnknown
<1>4. AnswersAreDue'
  <2>1. \A k \in DOMAIN posted' :
          posted'[k][1] \in Endings => posted'[k][2] # h
    BY <1>a, <1>b, <1>c DEF AnswersAreDue
  <2> QED BY <1>a, <1>c, <1>g, <1>h, <2>1 DEF AnswersAreDue
<1>5. HeldIsOpen'
  BY SMTT(30), <1>a, <1>d, <1>g, <1>h, <1>i DEF HeldIsOpen, Started, TypeOK, Ids
<1>6. ClockIsRight'
  <2> SUFFICES ASSUME NEW k \in active', Url(k), told[k] # "cancelled"
               PROVE  \/ age'[wid[k]] <= quiet'[k]
                      \/ quiet'[k] > UrlThreshold
                      \/ /\ age'[wid[k]] <= UrlThreshold
                         /\ <<"heartbeat", k>> \in Pending'
    BY <1>g, <1>h, <1>i, <1>a DEF ClockIsRight, Url, TypeOK
  <2>1. /\ k \in active /\ k # h /\ k \in Jobs /\ wid[k] \in Ids
        /\ age'[wid[k]] = age[wid[k]] /\ quiet'[k] = quiet[k]
    BY <1>a, <1>g, <1>h, <1>i DEF Release, TypeOK, Url, Ids
  <2>2. Head(posted) # <<"heartbeat", k>>
    BY <1>b DEF Endings
  <2> QED BY <1>a, <1>d, <2>1, <2>2 DEF ClockIsRight
<1>7. \A j \in Jobs : told'[j] # told[j] => j \in active
  BY <1>e, <1>i
<1> QED BY <1>f, <1>1, <1>2, <1>3, <1>4, <1>5, <1>6, <1>7
        DEF IInv, ScanInv, FreezeHasCause

(* The watchdog finds a held worker overdue, and the freeze has a cause.    *)
LEMMA StallStep ==
  ASSUME IInv, TypeOK', frozen = NoJob, Stall
  PROVE  IInv'
<1> USE JobsAssumption
<1>a. /\ RegistryAgrees /\ HeldIsOpen /\ ClockIsRight /\ watched = HeldIds
      /\ TypeOK
  BY DEF IInv, ScanInv, RegistryAgrees
<1>1. PICK i \in Overdue : /\ active' = {j \in active : wid[j] # i}
                           /\ frozen' \in {j \in active : wid[j] = i}
  BY <1>a DEF Stall, Overdue
<1>2. frozen' \in active /\ wid[frozen'] = i /\ frozen' # NoJob
  BY <1>1, <1>a DEF TypeOK
<1>3. RegistryAgrees'
  BY <1>a, <1>1, <1>2 DEF RegistryAgrees, Stall
<1>4. FreezeHasCause'
  <2>1. /\ age[i] > Threshold(i) /\ i \in Ids /\ frozen' \in Jobs
        /\ age[i] \in Nat /\ quiet[frozen'] \in Nat /\ UrlThreshold \in Nat
    BY <1>a, <1>1, <1>2 DEF Overdue, TypeOK
  <2>2. CASE i \in Nmaps
    BY <1>2, <2>2 DEF FreezeHasCause, Stall
  <2>3. CASE i \in Urls
    <3>1. age[i] > UrlThreshold
      BY <2>1, <2>3 DEF Threshold
    <3>2. PICK k \in active : frozen' = k /\ wid[k] = i
      BY <1>2
    <3>3. Url(k)
      BY <2>3, <3>2 DEF Url
    <3>4. \/ told[k] = "cancelled"
          \/ age[i] <= quiet[k]
          \/ quiet[k] > UrlThreshold
          \/ age[i] <= UrlThreshold
      BY <1>a, <3>2, <3>3 DEF ClockIsRight
    <3>5. told[frozen'] = "cancelled" \/ quiet[frozen'] > UrlThreshold
      BY <2>1, <3>1, <3>2, <3>4
    <3> QED BY <3>5 DEF FreezeHasCause, Stall
  <2> QED BY <2>1, <2>2, <2>3 DEF Ids
<1> QED BY <1>2, <1>3, <1>4 DEF IInv, ScanInv, BusyIsTruthful

(* Time passes for every held worker that still has to answer.              *)
LEMMA TickStep ==
  ASSUME IInv, TypeOK', frozen = NoJob, Tick
  PROVE  IInv'
<1> USE JobsAssumption
<1>f. frozen' = NoJob /\ Pending = {} /\ Pending' = {} /\ DOMAIN posted' = {}
  BY DEF Tick, Pending
<1>a. /\ RegistryAgrees /\ AnswersAreDue /\ NewIsUnknown /\ HeldIsOpen
      /\ ClockIsRight /\ watched = HeldIds /\ TypeOK /\ BusyIsTruthful
  BY DEF IInv, ScanInv, RegistryAgrees
<1>1. RegistryAgrees'
  BY <1>a, <1>f DEF RegistryAgrees, HeldIds, Tick
<1>2. BusyIsTruthful'
  BY <1>a, <1>f DEF BusyIsTruthful, Url, Tick
<1>3. NewIsUnknown'
  BY <1>a, <1>f DEF NewIsUnknown, Tick
<1>4. AnswersAreDue'
  BY <1>f DEF AnswersAreDue
<1>5. HeldIsOpen'
  BY <1>a, <1>f DEF HeldIsOpen, Started, Tick, Ids
<1>6. ClockIsRight'
  <2> SUFFICES ASSUME NEW k \in active, Url(k), told[k] # "cancelled"
               PROVE  \/ age'[wid[k]] <= quiet'[k]
                      \/ quiet'[k] > UrlThreshold
    BY DEF ClockIsRight, Tick, Url
  <2>1. /\ k \in Jobs /\ wid[k] \in Ids /\ wid[k] \in watched
        /\ age[wid[k]] \in Nat /\ quiet[k] \in Nat /\ UrlThreshold \in Nat
    BY <1>a DEF TypeOK, Url, Ids, HeldIds
  <2>2. stage[k] \in {"queued", "running"}
    BY <1>a, <1>f, <2>1 DEF HeldIsOpen, NewIsUnknown, TypeOK, Stages
  <2>3. age'[wid[k]] = age[wid[k]] + 1
    BY <2>1 DEF Tick
  <2>4. quiet'[k] = IF quiet[k] <= UrlThreshold THEN quiet[k] + 1 ELSE quiet[k]
    BY <2>1, <2>2 DEF Tick
  <2>5. age[wid[k]] <= quiet[k] \/ quiet[k] > UrlThreshold
    BY <1>a, <1>f DEF ClockIsRight
  <2> QED BY <2>1, <2>3, <2>4, <2>5
<1> QED BY <1>f, <1>1, <1>2, <1>3, <1>4, <1>5, <1>6
        DEF IInv, ScanInv, FreezeHasCause

-----------------------------------------------------------------------------
(* The bridge's registry and the watchdog agree, a freeze has a cause and   *)
(* the page is locked only for a scan under way, whatever the number of     *)
(* workers and threads and whatever the thresholds and timeouts.            *)
LEMMA Invariance == Spec => []IInv
<1>1. Init => IInv
  <2> SUFFICES ASSUME Init PROVE IInv
    OBVIOUS
  <2>1. /\ DOMAIN posted = {} /\ Pending = {} /\ HeldIds = {}
        /\ posted \in Seq(({"heartbeat"} \cup Endings) \X Jobs)
    BY DEF Init, Pending, HeldIds
  <2>2. TypeOK
    BY <2>1 DEF Init, TypeOK, Stages
  <2>3. RegistryAgrees /\ FreezeHasCause /\ BusyIsTruthful
    BY <2>1 DEF Init, RegistryAgrees, FreezeHasCause, BusyIsTruthful
  <2>4. NewIsUnknown /\ AnswersAreDue /\ HeldIsOpen /\ ClockIsRight
    BY <2>1 DEF Init, NewIsUnknown, AnswersAreDue, HeldIsOpen, ClockIsRight
  <2> QED BY <2>2, <2>3, <2>4 DEF IInv, ScanInv
<1>2. IInv /\ [Next]_vars => IInv'
  <2> SUFFICES ASSUME IInv, [Next]_vars PROVE IInv'
    OBVIOUS
  <2>1. TypeOK'
    BY TypeStep DEF IInv, ScanInv
  <2>2. CASE Next
    BY <2>1, <2>2, StartUrlStep, StartNmapStep, CancelUrlStep, PoolRunsStep,
       HeartbeatStep, TaskEndsStep, DeliverHeartbeatStep, DeliverEndingStep,
       StallStep, TickStep
    DEF Next, Step
  <2>3. CASE UNCHANGED vars
    BY <2>3
    DEF vars, IInv, ScanInv, TypeOK, RegistryAgrees, FreezeHasCause,
        BusyIsTruthful, NewIsUnknown, AnswersAreDue, HeldIsOpen, ClockIsRight,
        HeldIds, Pending, Started, Url
  <2> QED BY <2>2, <2>3
<1> QED BY <1>1, <1>2, PTL DEF Spec

(* ScanInv: _active_workers and the watchdog's _workers hold the same ids,  *)
(* one worker each, and every worker that is not over.                      *)
THEOREM RegistryInvariant == Spec => []ScanInv
BY Invariance, PTL DEF IInv

(* FreezeHasCause: without nmap scans, cancelled URL scans and silences     *)
(* beyond the threshold the watchdog never blocks the UI thread.            *)
THEOREM FreezesHaveCauses == Spec => []FreezeHasCause
BY Invariance, PTL DEF IInv

(* BusyIsTruthful: _url_scan_in_progress never outlives the wanted scan.    *)
THEOREM BusyTruthful == Spec => []BusyIsTruthful
BY Invariance, PTL DEF IInv

(* AnswersTheirOwn: on_success and on_error speak to the page once, for the *)
(* worker registered under their id.                                        *)
THEOREM AnswersAreTheirOwn == Spec => AnswersTheirOwn
<1> DEFINE P == \A j \in Jobs : told'[j] # told[j] =>
                  told[j] \in {"no", "cancelled"} /\ j \in active
<1>1. IInv /\ [Next]_vars => [P]_vars
  <2> SUFFICES ASSUME IInv, Next PROVE P
    BY DEF vars
  <2>1. HeldIsOpen /\ told \in [Jobs -> {"no", "cancelled", "result", "error", "lost"}]
    BY DEF IInv, ScanInv, TypeOK, Next
  <2>2. \A j \in Jobs : told'[j] # told[j] => j \in active
    <3>1. CASE DeliverEnding
      BY <3>1, TypeStep, DeliverEndingStep DEF Next, IInv, ScanInv
    <3>2. CASE CancelUrl
      BY <3>2, <2>1 DEF CancelUrl
    <3>3. CASE told' = told
      BY <3>3
    <3> QED BY <3>1, <3>2, <3>3
            DEF Next, Step, StartUrl, StartNmap, Start, PoolRuns, Heartbeat,
                TaskEnds, DeliverHeartbeat, Stall, Tick
  <2> QED BY <2>1, <2>2 DEF HeldIsOpen
<1> QED BY <1>1, Invariance, PTL DEF Spec, AnswersTheirOwn
===============================================================================
