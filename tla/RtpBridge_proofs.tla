--------------------------- MODULE RtpBridge_proofs ---------------------------
(***************************************************************************)
(* Proofs about RtpBridge, for any number of workers and of posted events, *)
(* whether or not clicks overtake them, threads are late, or protection is *)
(* switched off while its worker is starting.                              *)
(***************************************************************************)
EXTENDS RtpBridge, SequenceTheorems, TLAPS

USE BridgeAssumption

LEMMA InitBridge == Init => BridgeInv
<1> SUFFICES ASSUME Init PROVE BridgeInv
  OBVIOUS
<1>1. posted = <<>> /\ <<>> \in Seq(Posted) /\ DOMAIN posted = {}
  BY DEF Init
<1>. QED
  BY <1>1 DEF Init, BridgeInv, TypeOK, WaitIsHeard, QueueIsInOrder, OffIsOff,
     Stages, Process, Waiting, Alive

LEMMA PostedOf ==
  ASSUME TypeOK, NEW i \in DOMAIN posted
  PROVE  posted[i] \in Posted /\ posted[i].of \in Workers /\ i \in Nat
<1>1. posted[i] \in Posted /\ i \in Nat
  BY DEF TypeOK
<1>. QED
  BY <1>1 DEF Posted

(* What a worker, or the bridge, adds to the queue. *)
LEMMA Posting ==
  ASSUME TypeOK, NEW w \in Workers, NEW what \in {"started", "error", "delete"},
         Post(what, w)
  PROVE  /\ posted' \in Seq(Posted)
         /\ Len(posted') = Len(posted) + 1
         /\ \A i \in DOMAIN posted' :
              \/ i \in DOMAIN posted /\ posted'[i] = posted[i]
              \/ i = Len(posted) + 1 /\ posted'[i] = [what |-> what, of |-> w]
         /\ \A i \in DOMAIN posted : i < Len(posted) + 1
<1>1. [what |-> what, of |-> w] \in Posted /\ posted \in Seq(Posted)
  BY DEF Posted, TypeOK
<1>. QED
  BY <1>1, AppendProperties DEF Post

(* What the event loop takes from the queue. *)
LEMMA Taking ==
  ASSUME TypeOK, posted # <<>>, posted' = Tail(posted)
  PROVE  /\ Head(posted) \in Posted
         /\ Head(posted) = posted[1] /\ 1 \in DOMAIN posted
         /\ posted' \in Seq(Posted)
         /\ \A i \in DOMAIN posted' :
              i \in Nat /\ i + 1 \in DOMAIN posted /\ i + 1 > 1
                /\ posted'[i] = posted[i + 1]
<1>1. posted \in Seq(Posted)
  BY DEF TypeOK
<1>. QED
  BY <1>1, HeadTailProperties

(* The end of the process leaves nothing to be wrong about.                 *)
LEMMA DeathIsClean ==
  ASSUME NEW how \in {"exited", "aborted"}, Dies(how),
         saved' \in BOOLEAN, asked' \in BOOLEAN
  PROVE  BridgeInv'
<1>1. posted' = <<>> /\ posted' \in Seq(Posted) /\ DOMAIN posted' = {}
  BY DEF Dies
<1>2. /\ ui' = how /\ enabled' = FALSE /\ deaf' = {} /\ late' = {}
      /\ \A w \in Workers : thread'[w] = "new"
  BY DEF Dies
<1>3. TypeOK'
  BY <1>1 DEF Dies, TypeOK, Stages
<1>4. WaitIsHeard' /\ OffIsOff'
  BY <1>2 DEF WaitIsHeard, OffIsOff, Waiting, Process, Alive
<1>5. QueueIsInOrder'
  BY <1>1 DEF QueueIsInOrder
<1>. QED
  BY <1>3, <1>4, <1>5 DEF BridgeInv

LEMMA StepBridge == ASSUME BridgeInv, [Next]_vars PROVE BridgeInv'
<1> USE DEF BridgeInv, bridge, causes
<1>1. ASSUME NEW w \in Workers, ClickOn(w) PROVE BridgeInv'
  <2>1. TypeOK'
    BY <1>1 DEF ClickOn, TurnOn, TypeOK, Stages
  <2>2. WaitIsHeard'
    BY <1>1 DEF ClickOn, TurnOn, MayClick, WaitIsHeard, Waiting, TypeOK
  <2>3. QueueIsInOrder'
    <3>1. \A i \in DOMAIN posted :
            posted[i].of \in Workers /\ posted[i].of # w
              /\ thread'[posted[i].of] = thread[posted[i].of]
      BY <1>1, PostedOf DEF ClickOn, TurnOn, Fresh, TypeOK
    <3>2. posted' = posted /\ worker' = w /\ deaf' = deaf /\ late' = late
      BY <1>1 DEF ClickOn, TurnOn
    <3>. QED
      BY <3>1, <3>2 DEF QueueIsInOrder, Stray
  <2>4. OffIsOff'
    BY <1>1 DEF ClickOn, TurnOn, MayClick, OffIsOff, Process, Alive, Stray, TypeOK
  <2>. QED
    BY <2>1, <2>2, <2>3, <2>4
<1>2. ASSUME NEW next \in {"stopping", "quitting"}, StopBegin(next)
      PROVE BridgeInv'
  <2>1. worker \in Workers /\ thread[worker] # "new"
    BY <1>2 DEF StopBegin, WaitIsHeard
  <2>2. TypeOK'
    BY <1>2 DEF StopBegin, TypeOK
  <2>3. WaitIsHeard'
    BY <1>2, <2>1 DEF StopBegin, WaitIsHeard, Waiting, TypeOK
  <2>4. QueueIsInOrder' /\ OffIsOff'
    BY <1>2 DEF StopBegin, MayClick, QueueIsInOrder, OffIsOff, Process, Alive, Stray
  <2>. QED
    BY <2>2, <2>3, <2>4
<1>3. ASSUME StopEnd PROVE BridgeInv'
  <2>1. /\ worker \in Workers /\ thread[worker] # "new"
        /\ thread[worker] = "finished" \/ worker \in Stray
    BY <1>3 DEF StopEnd, TimesOut, WaitIsHeard, Stray
  <2>2. CASE ui = "quitting" /\ Dies("exited")
    <3>1. saved' \in BOOLEAN /\ asked' \in BOOLEAN
      BY <1>3 DEF StopEnd, TypeOK
    <3>. QED
      BY <2>2, <3>1, DeathIsClean
  <2>3. ASSUME ui = "stopping", ui' = "loop", Post("delete", worker),
               worker' = NoWorker,
               UNCHANGED <<enabled, capability, thread, running, blamed, causes>>
        PROVE  BridgeInv'
    <3>1. /\ posted' \in Seq(Posted)
          /\ \A i \in DOMAIN posted' :
               \/ i \in DOMAIN posted /\ posted'[i] = posted[i]
               \/ i = Len(posted) + 1 /\ posted'[i] = [what |-> "delete", of |-> worker]
          /\ \A i \in DOMAIN posted : i < Len(posted) + 1
      BY <2>1, <2>3, Posting
    <3>2. TypeOK'
      BY <1>3, <2>3, <3>1 DEF StopEnd, TypeOK
    <3>3. WaitIsHeard'
      BY <1>3, <2>3 DEF WaitIsHeard, Waiting
    <3>4. QueueIsInOrder'
      <4>1. ASSUME NEW i \in DOMAIN posted', posted'[i].what = "delete"
            PROVE  /\ posted'[i].of # worker'
                   /\ thread'[posted'[i].of] # "new"
                   /\ thread'[posted'[i].of] = "finished" \/ posted'[i].of \in Stray'
                   /\ \A j \in DOMAIN posted' : j # i /\ posted'[j].of = posted'[i].of
                                              => posted'[j].what # "delete"
        <5>1. worker' = NoWorker /\ thread' = thread /\ Stray' = Stray
          BY <2>3 DEF Stray
        <5>2. CASE i \in DOMAIN posted /\ posted'[i] = posted[i]
          <6>1. /\ posted[i].of \in Workers /\ posted[i].of # worker
                /\ thread[posted[i].of] # "new"
                /\ thread[posted[i].of] = "finished" \/ posted[i].of \in Stray
                /\ \A j \in DOMAIN posted : j # i /\ posted[j].of = posted[i].of
                                          => posted[j].what # "delete"
            BY <4>1, <5>2, PostedOf DEF QueueIsInOrder
          <6>2. ASSUME NEW j \in DOMAIN posted', j # i, posted'[j].of = posted'[i].of
                PROVE  posted'[j].what # "delete"
            BY <3>1, <5>2, <6>1, <6>2
          <6>. QED
            BY <5>1, <5>2, <6>1, <6>2
        <5>3. CASE i = Len(posted) + 1 /\ posted'[i] = [what |-> "delete", of |-> worker]
          <6>1. ASSUME NEW j \in DOMAIN posted', j # i, posted'[j].of = posted'[i].of
                PROVE  posted'[j].what # "delete"
            <7>1. j \in DOMAIN posted /\ posted'[j] = posted[j]
              BY <3>1, <5>3, <6>1
            <7>. QED
              BY <5>3, <6>1, <7>1 DEF QueueIsInOrder
          <6>. QED
            BY <2>1, <5>1, <5>3, <6>1
        <5>. QED
          BY <3>1, <5>2, <5>3
      <4>2. ASSUME NEW i \in DOMAIN posted', posted'[i].what = "error"
            PROVE  thread'[posted'[i].of] \notin {"starting", "monitoring"}
        BY <2>3, <3>1, <4>2 DEF QueueIsInOrder
      <4>. QED
        BY <4>1, <4>2 DEF QueueIsInOrder
    <3>5. OffIsOff'
      BY <2>1, <2>3 DEF OffIsOff, Process, Alive, WaitIsHeard, Stray
    <3>. QED
      BY <3>2, <3>3, <3>4, <3>5
  <2>. QED
    BY <1>3, <2>2, <2>3 DEF StopEnd
<1>4. ASSUME Quit PROVE BridgeInv'
  <2>1. Dies("exited") /\ saved' \in BOOLEAN /\ asked' \in BOOLEAN
    BY <1>4 DEF Quit, TypeOK
  <2>. QED
    BY <2>1, DeathIsClean
<1>5. ASSUME Launch PROVE BridgeInv'
  <2>1. /\ ui' = "loop" /\ Alive = {}
        /\ UNCHANGED <<asked, posted, blamed, causes>>
    BY <1>5 DEF Launch, OffIsOff
  <2>2. ASSUME NEW w \in Workers, TurnOn(w) PROVE BridgeInv'
    <3>1. TypeOK'
      BY <2>1, <2>2 DEF TurnOn, TypeOK, Stages
    <3>2. WaitIsHeard'
      BY <2>1, <2>2 DEF TurnOn, WaitIsHeard, Waiting, TypeOK
    <3>3. QueueIsInOrder'
      <4>1. \A i \in DOMAIN posted :
              posted[i].of \in Workers /\ posted[i].of # w
                /\ thread'[posted[i].of] = thread[posted[i].of]
        BY <2>2, PostedOf DEF TurnOn, Fresh, TypeOK
      <4>2. worker' = w
        BY <2>2 DEF TurnOn
      <4>. QED
        BY <2>1, <4>1, <4>2 DEF QueueIsInOrder, Stray
    <3>4. OffIsOff'
      BY <2>1, <2>2 DEF TurnOn, OffIsOff, Process, Alive, Stray, TypeOK
    <3>. QED
      BY <3>1, <3>2, <3>3, <3>4
  <2>3. CASE UNCHANGED <<bridge, saved, thread, running>>
    BY <1>5, <2>1, <2>3 DEF Launch, TypeOK, WaitIsHeard, Waiting, QueueIsInOrder,
       OffIsOff, Process, Alive, Stray
  <2>. QED
    BY <1>5, <2>2, <2>3 DEF Launch
<1>6. ASSUME Deliver PROVE BridgeInv'
  <2> DEFINE e == Head(posted)
  <2>1. ASSUME posted' = Tail(posted)
        PROVE  /\ posted' \in Seq(Posted)
               /\ \A i \in DOMAIN posted' :
                    i \in Nat /\ i + 1 \in DOMAIN posted /\ i + 1 > 1
                      /\ posted'[i] = posted[i + 1]
    BY <1>6, <2>1, Taking DEF Deliver
  <2>2. e \in Posted /\ e = posted[1] /\ 1 \in DOMAIN posted
    BY <1>6, HeadTailProperties DEF Deliver, TypeOK
  <2>3. ASSUME posted' = Tail(posted), UNCHANGED <<thread, worker, causes>>
        PROVE  QueueIsInOrder'
    <3>1. /\ thread' = thread /\ worker' = worker /\ Stray' = Stray
          /\ \A i \in DOMAIN posted' :
               i \in Nat /\ i + 1 \in DOMAIN posted /\ posted'[i] = posted[i + 1]
      BY <2>1, <2>3 DEF Stray
    <3>2. ASSUME NEW i \in DOMAIN posted', posted'[i].what = "delete",
                 NEW j \in DOMAIN posted', j # i, posted'[j].of = posted'[i].of
          PROVE  posted'[j].what # "delete"
      <4>1. j + 1 # i + 1
        BY <3>1, <3>2
      <4>. QED
        BY <3>1, <3>2, <4>1 DEF QueueIsInOrder
    <3>. QED
      BY <3>1, <3>2 DEF QueueIsInOrder
  <2>4. CASE e.what = "started" /\ Started
    <3>1. TypeOK' /\ WaitIsHeard' /\ OffIsOff'
      BY <1>6, <2>1, <2>4 DEF Deliver, Started, TypeOK, WaitIsHeard, Waiting, OffIsOff,
         Process, Alive, Stray
    <3>. QED
      BY <2>3, <2>4, <3>1 DEF Started
  <2>5. CASE e.what = "error" /\ Error(e.of)
    <3>1. thread[e.of] \notin {"starting", "monitoring"} /\ e.of \in Workers
      BY <2>2, <2>5 DEF QueueIsInOrder, Posted
    <3>2. TypeOK' /\ WaitIsHeard'
      BY <1>6, <2>1, <2>5 DEF Deliver, Error, TypeOK, WaitIsHeard, Waiting
    <3>3. OffIsOff'
      BY <1>6, <2>5, <3>1 DEF Deliver, Error, OffIsOff, Process, Alive, Stray, TypeOK
    <3>. QED
      BY <2>3, <2>5, <3>2, <3>3 DEF Error
  <2>6. CASE e.what = "delete" /\ Delete(e.of)
    <3>1. /\ e.of \in Workers /\ e.of # worker
          /\ \A j \in DOMAIN posted : j # 1 /\ posted[j].of = e.of
                                    => posted[j].what # "delete"
      BY <2>2, <2>6 DEF QueueIsInOrder, Posted
    <3>2. CASE Dies("aborted")
      <4>1. saved' \in BOOLEAN /\ asked' \in BOOLEAN
        BY <1>6, <2>6 DEF Deliver, Delete, TypeOK
      <4>. QED
        BY <3>2, <4>1, DeathIsClean
    <3>3. ASSUME thread[e.of] = "finished",
                 thread' = [thread EXCEPT ![e.of] = "new"],
                 posted' = Tail(posted),
                 deaf' = deaf \ {e.of}, late' = late \ {e.of},
                 UNCHANGED <<ui, bridge, saved, asked, running, blamed>>
          PROVE  BridgeInv'
      <4>1. TypeOK' /\ WaitIsHeard'
        BY <2>1, <3>1, <3>3 DEF TypeOK, WaitIsHeard, Waiting, Stages
      <4>2. QueueIsInOrder'
        <5>1. \A v \in Workers : v # e.of =>
                thread'[v] = thread[v] /\ (v \in Stray => v \in Stray')
          BY <3>3 DEF TypeOK, Stray
        <5>2. ASSUME NEW i \in DOMAIN posted', posted'[i].what = "delete"
              PROVE  /\ posted'[i].of # worker'
                     /\ thread'[posted'[i].of] # "new"
                     /\ thread'[posted'[i].of] = "finished" \/ posted'[i].of \in Stray'
                     /\ \A j \in DOMAIN posted' : j # i /\ posted'[j].of = posted'[i].of
                                                => posted'[j].what # "delete"
          <6>1. /\ i + 1 \in DOMAIN posted /\ i + 1 # 1 /\ i \in Nat
                /\ posted'[i] = posted[i + 1]
            BY <2>1, <3>3
          <6>2. /\ posted[i + 1].of # worker
                /\ thread[posted[i + 1].of] # "new"
                /\ thread[posted[i + 1].of] = "finished" \/ posted[i + 1].of \in Stray
                /\ \A j \in DOMAIN posted : j # i + 1 /\ posted[j].of = posted[i + 1].of
                                          => posted[j].what # "delete"
            BY <5>2, <6>1 DEF QueueIsInOrder
          <6>3. posted[i + 1].of # e.of /\ posted[i + 1].of \in Workers
            BY <3>1, <5>2, <6>1, PostedOf
          <6>4. ASSUME NEW j \in DOMAIN posted', j # i, posted'[j].of = posted'[i].of
                PROVE  posted'[j].what # "delete"
            <7>1. /\ j + 1 \in DOMAIN posted /\ j \in Nat
                  /\ posted'[j] = posted[j + 1]
              BY <2>1, <3>3
            <7>2. j + 1 # i + 1
              BY <6>1, <6>4, <7>1
            <7>. QED
              BY <6>1, <6>2, <6>4, <7>1, <7>2
          <6>. QED
            BY <3>3, <5>1, <6>1, <6>2, <6>3, <6>4
        <5>3. ASSUME NEW i \in DOMAIN posted', posted'[i].what = "error"
              PROVE  thread'[posted'[i].of] \notin {"starting", "monitoring"}
          <6>1. i + 1 \in DOMAIN posted /\ posted'[i] = posted[i + 1]
            BY <2>1, <3>3
          <6>2. /\ posted[i + 1].of \in Workers
                /\ thread[posted[i + 1].of] \notin {"starting", "monitoring"}
            BY <5>3, <6>1, PostedOf DEF QueueIsInOrder
          <6>3. thread'[e.of] = "new"
            BY <3>1, <3>3 DEF TypeOK
          <6>. QED
            BY <5>1, <6>1, <6>2, <6>3
        <5>. QED
          BY <5>2, <5>3 DEF QueueIsInOrder
      <4>3. OffIsOff'
        BY <3>1, <3>3 DEF OffIsOff, Process, Alive, Stray, TypeOK
      <4>. QED
        BY <4>1, <4>2, <4>3
    <3>. QED
      BY <1>6, <2>6, <3>2, <3>3 DEF Deliver, Delete
  <2>. QED
    BY <1>6, <2>4, <2>5, <2>6 DEF Deliver
<1>7. ASSUME NEW w \in Workers,
             \/ Ready(w) \/ InitFails(w) \/ LoopEnds(w) \/ Fatal(w) \/ ThreadEnds(w)
      PROVE BridgeInv'
  <2>1. /\ Process /\ thread[w] \in {"starting", "monitoring", "ending"}
        /\ UNCHANGED <<ui, bridge, saved, asked, blamed, late>>
    BY <1>7 DEF Ready, InitFails, LoopEnds, Fatal, ThreadEnds, Goes
  <2>2. \A v \in Workers \ {w} : thread'[v] = thread[v] /\ running'[v] = running[v]
    BY <1>7 DEF Ready, InitFails, LoopEnds, Fatal, ThreadEnds, Goes, TypeOK
  <2>3. thread' \in [Workers -> Stages] /\ running' \in [Workers -> BOOLEAN]
    BY <1>7 DEF Ready, InitFails, LoopEnds, Fatal, ThreadEnds, Goes, TypeOK, Stages
  <2>4. /\ thread[w] = "starting" => thread'[w] \in {"monitoring", "ending"}
        /\ thread[w] = "monitoring" => thread'[w] = "ending"
        /\ thread[w] = "ending" => thread'[w] = "finished"
    BY <1>7 DEF Ready, InitFails, LoopEnds, Fatal, ThreadEnds, Goes, TypeOK
  <2>5. \/ posted' = posted
        \/ Post("started", w)
        \/ Post("error", w) /\ thread'[w] = "ending"
    BY <1>7 DEF Ready, InitFails, LoopEnds, Fatal, ThreadEnds, Goes, TypeOK
  <2>6. /\ posted' \in Seq(Posted)
        /\ \A i \in DOMAIN posted' :
             \/ i \in DOMAIN posted /\ posted'[i] = posted[i]
             \/ posted'[i] = [what |-> "started", of |-> w]
             \/ posted'[i] = [what |-> "error", of |-> w] /\ thread'[w] = "ending"
    BY <2>5, Posting DEF TypeOK
  <2>7. /\ deaf \subseteq deaf' /\ deaf' \subseteq Workers
        /\ Waiting /\ worker = w /\ thread'[w] = "monitoring" => w \in deaf'
    BY <1>7 DEF Ready, InitFails, LoopEnds, Fatal, ThreadEnds, Goes, TypeOK
  <2>8. TypeOK'
    BY <2>1, <2>3, <2>6, <2>7 DEF TypeOK
  <2>9. WaitIsHeard'
    <3>1. enabled' => worker' \in Workers /\ thread'[worker'] # "new"
      BY <2>1, <2>2, <2>4 DEF WaitIsHeard
    <3>2. ASSUME Waiting'
          PROVE  /\ ~enabled' /\ worker' \in Workers /\ thread'[worker'] # "new"
                 /\ thread'[worker'] = "monitoring" /\ running'[worker'] => worker' \in deaf'
      <4>1. Waiting /\ ~enabled /\ worker \in Workers /\ thread[worker] # "new"
        BY <2>1, <3>2 DEF WaitIsHeard, Waiting
      <4>2. CASE worker = w
        BY <2>1, <2>4, <2>7, <4>1, <4>2
      <4>3. CASE worker # w
        BY <2>1, <2>2, <2>7, <4>1, <4>3 DEF WaitIsHeard
      <4>. QED
        BY <4>2, <4>3
    <3>. QED
      BY <3>1, <3>2 DEF WaitIsHeard
  <2>10. QueueIsInOrder'
    <3>1. ASSUME NEW i \in DOMAIN posted', posted'[i].what = "delete"
          PROVE  /\ posted'[i].of # worker'
                 /\ thread'[posted'[i].of] # "new"
                 /\ thread'[posted'[i].of] = "finished" \/ posted'[i].of \in Stray'
                 /\ \A j \in DOMAIN posted' : j # i /\ posted'[j].of = posted'[i].of
                                            => posted'[j].what # "delete"
      <4>1. i \in DOMAIN posted /\ posted'[i] = posted[i]
        BY <2>6, <3>1
      <4>2. /\ posted[i].of \in Workers /\ posted[i].of # worker
            /\ thread[posted[i].of] # "new"
            /\ thread[posted[i].of] = "finished" \/ posted[i].of \in Stray
            /\ \A j \in DOMAIN posted : j # i /\ posted[j].of = posted[i].of
                                      => posted[j].what # "delete"
        BY <3>1, <4>1, PostedOf DEF QueueIsInOrder
      <4>3. /\ posted'[i].of # worker'
            /\ thread'[posted'[i].of] # "new"
            /\ thread'[posted'[i].of] = "finished" \/ posted'[i].of \in Stray'
        <5>1. Stray \subseteq Stray'
          BY <2>1, <2>7 DEF Stray
        <5>2. CASE posted[i].of = w
          BY <2>1, <2>4, <4>1, <4>2, <5>1, <5>2
        <5>3. CASE posted[i].of # w
          BY <2>1, <2>2, <4>1, <4>2, <5>1, <5>3
        <5>. QED
          BY <5>2, <5>3
      <4>4. ASSUME NEW j \in DOMAIN posted', j # i, posted'[j].of = posted'[i].of
            PROVE  posted'[j].what # "delete"
        <5>1. CASE j \in DOMAIN posted /\ posted'[j] = posted[j]
          BY <4>1, <4>2, <4>4, <5>1
        <5>2. CASE posted'[j].what \in {"started", "error"}
          BY <5>2
        <5>. QED
          BY <2>6, <5>1, <5>2
      <4>. QED
        BY <4>3, <4>4
    <3>2. ASSUME NEW i \in DOMAIN posted', posted'[i].what = "error"
          PROVE  thread'[posted'[i].of] \notin {"starting", "monitoring"}
      <4>1. CASE i \in DOMAIN posted /\ posted'[i] = posted[i]
        <5>1. thread[posted[i].of] \notin {"starting", "monitoring"}
          BY <3>2, <4>1 DEF QueueIsInOrder
        <5>2. posted[i].of \in Workers
          BY <4>1, PostedOf
        <5>3. CASE posted[i].of = w
          BY <2>1, <2>4, <4>1, <5>1, <5>3
        <5>4. CASE posted[i].of # w
          BY <2>2, <4>1, <5>1, <5>2, <5>4
        <5>. QED
          BY <5>3, <5>4
      <4>. QED
        BY <2>6, <3>2, <4>1
    <3>. QED
      BY <3>1, <3>2 DEF QueueIsInOrder
  <2>11. OffIsOff'
    <3>1. Stray \subseteq Stray' /\ Alive' \subseteq Alive /\ Process'
      BY <2>1, <2>2, <2>4, <2>7 DEF Stray, Alive, Process
    <3>. QED
      BY <2>1, <3>1 DEF OffIsOff, Process
  <2>. QED
    BY <2>8, <2>9, <2>10, <2>11
<1>8. ASSUME NEW w \in Workers, Overdue(w) PROVE BridgeInv'
  <2>1. /\ late' = late \cup {w}
        /\ UNCHANGED <<ui, bridge, saved, asked, thread, running, posted, blamed, deaf>>
    BY <1>8 DEF Overdue
  <2>2. TypeOK' /\ WaitIsHeard'
    BY <2>1 DEF TypeOK, WaitIsHeard, Waiting
  <2>3. QueueIsInOrder'
    BY <2>1 DEF QueueIsInOrder, Stray
  <2>4. OffIsOff'
    BY <2>1 DEF OffIsOff, Process, Alive, Stray
  <2>. QED
    BY <2>2, <2>3, <2>4
<1>9. CASE UNCHANGED vars
  BY <1>9 DEF vars, TypeOK, WaitIsHeard, Waiting, QueueIsInOrder, OffIsOff, Process,
     Alive, Stray
<1>. QED
  BY <1>1, <1>2, <1>3, <1>4, <1>5, <1>6, <1>7, <1>8, <1>9 DEF Next

\* BridgeInv is inductive, whatever threads and clicks do.
THEOREM BridgeInvariant == Spec => []BridgeInv
<1>1. BridgeInv /\ [Next]_vars => BridgeInv'
  BY StepBridge
<1>. QED
  BY InitBridge, <1>1, PTL DEF Spec

\* The two ways for the bridge to bring down the process are the only ones:
\* a thread whose object is deleted while it runs overwrote the stop it was
\* given, or was late.
THEOREM AbortsHaveACause == Spec => AbortHasCause
<1> DEFINE Caused == ui' = "aborted" /\ ui # "aborted" => Head(posted).of \in Stray
<1>1. BridgeInv /\ [Next]_vars => Caused
  <2> SUFFICES ASSUME BridgeInv, [Next]_vars, ui' = "aborted", ui # "aborted"
               PROVE  Head(posted).of \in Stray
    OBVIOUS
  <2>1. /\ posted # <<>> /\ Head(posted).what = "delete"
        /\ thread[Head(posted).of] # "finished"
    BY DEF Next, vars, ClickOn, StopBegin, StopEnd, Quit, Launch, Ready, InitFails,
       LoopEnds, Fatal, ThreadEnds, Overdue, Goes, Deliver, Started, Error, Delete,
       Dies
  <2>2. Head(posted) = posted[1] /\ 1 \in DOMAIN posted
    BY <2>1, HeadTailProperties DEF BridgeInv, TypeOK
  <2>. QED
    BY <2>1, <2>2 DEF BridgeInv, QueueIsInOrder
<1>. QED
  BY BridgeInvariant, <1>1, PTL DEF Spec, AbortHasCause

\* The switch is truthful until an error is taken for another worker's, but
\* for threads that overwrote their stop or outlived the wait.
THEOREM SwitchTruthful == Spec => []SwitchIsTruthful
<1>1. BridgeInv => SwitchIsTruthful
  BY DEF BridgeInv, OffIsOff, SwitchIsTruthful, Process, Alive
<1>. QED
  BY BridgeInvariant, <1>1, PTL

(* The preference. *)
Kept ==
  /\ saved \in BOOLEAN /\ asked \in BOOLEAN
  /\ IF ui = "stopping" THEN ~asked ELSE saved = asked

\* Only the user changes the preference, whatever threads, failures, quits
\* and even aborts do.
THEOREM OnlyUserChangesPreference == Spec => []PreferenceIsKept
<1>1. Init => Kept
  BY DEF Init, Kept
<1>2. Kept /\ [Next]_vars => Kept'
  <2> SUFFICES ASSUME Kept, [Next]_vars
               PROVE Kept'
    OBVIOUS
  <2>1. ASSUME NEW w \in Workers, ClickOn(w)
        PROVE Kept'
    BY <2>1 DEF ClickOn, TurnOn, MayClick, Kept
  <2>2. ASSUME NEW next \in {"stopping", "quitting"}, StopBegin(next)
        PROVE Kept'
    BY <2>2 DEF StopBegin, MayClick, Kept
  <2>3. CASE StopEnd
    BY <2>3 DEF StopEnd, Waiting, Dies, Kept
  <2>4. CASE Quit \/ Launch
    BY <2>4 DEF Quit, Launch, TurnOn, Dies, MayClick, Process, Kept, bridge
  <2>5. CASE Deliver
    BY <2>5 DEF Deliver, Started, Error, Delete, Dies, Kept, bridge
  <2>6. ASSUME NEW w \in Workers,
               \/ Ready(w) \/ InitFails(w) \/ LoopEnds(w) \/ Fatal(w) \/ ThreadEnds(w)
               \/ Overdue(w)
        PROVE Kept'
    BY <2>6 DEF Ready, InitFails, LoopEnds, Fatal, ThreadEnds, Overdue, Goes, Kept
  <2>7. CASE UNCHANGED vars
    BY <2>7 DEF vars, Kept
  <2>. QED
    BY <2>1, <2>2, <2>3, <2>4, <2>5, <2>6, <2>7 DEF Next
<1>3. Kept => PreferenceIsKept
  BY DEF Kept, PreferenceIsKept
<1>. QED
  BY <1>1, <1>2, <1>3, PTL DEF Spec

=============================================================================
