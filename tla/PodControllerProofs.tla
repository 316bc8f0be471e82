------------------------ MODULE PodControllerProofs ------------------------
(***************************************************************************)
(* Proofs about PodController, for any number of pods, workers, revisions  *)
(* and waiting events.                                                     *)
(*                                                                         *)
(* OneWorkerPerPod is not inductive: a worker takes the head of the queue, *)
(* so one must know that a key in the queue is held by nobody (QueueInv)   *)
(* and that the keys the queue believes to be processing are those the     *)
(* workers hold (HoldInv).  ChangeNotLost needs, besides, that syncs of    *)
(* one pod happen in the order of its revisions (OrderInv), which only     *)
(* holds because one worker at a time has the pod.                         *)
(***************************************************************************)
EXTENDS PodController, TLAPS

\* The queue holds each key once, and none that a worker holds.
QueueInv ==
    /\ \A i \in DOMAIN queue : queue[i] \in dirty /\ queue[i] \notin processing
    /\ \A i, j \in DOMAIN queue : queue[i] = queue[j] => i = j

\* The keys marked as processing are the items of the busy workers.
HoldInv ==
    /\ \A w \in Workers : pc[w] \in Busy => item[w] \in processing
    /\ \A p \in processing : \E w \in Workers : pc[w] \in Busy /\ item[w] = p

\* A sync works with a revision no older than the last one synced and no newer
\* than the last one stored.
OrderInv ==
    /\ \A p \in Pods : store[p] \in {0, revision[p]} /\ synced[p] <= revision[p]
    /\ \A w \in Workers : pc[w] = "sync" =>
          synced[item[w]] <= seen[w] /\ seen[w] <= revision[item[w]]

\* A failed key was re-added, and a synced one forgotten, before Done.
SettledInv ==
    \A w \in Workers : pc[w] = "done" =>
        item[w] \notin backoff \/ item[w] \in dirty \cup waiting \/ shuttingDown

Exclusive == TypeOK /\ QueueInv /\ HoldInv /\ OneWorkerPerPod

Settled == SettledInv /\ BackoffCleared
-----------------------------------------------------------------------------
LEMMA AddType ==
  ASSUME queue \in Seq(Pods), dirty \subseteq Pods, NEW k \in Pods, Add(k)
  PROVE  queue' \in Seq(Pods) /\ dirty' \subseteq Pods
<1>1. CASE k \in dirty \/ shuttingDown
  BY <1>1 DEF Add
<1>2. CASE k \notin dirty /\ ~shuttingDown
  <2>1. Append(queue, k) \in Seq(Pods)
    OBVIOUS
  <2>. QED  BY <1>2, <2>1 DEF Add
<1>. QED  BY <1>1, <1>2

LEMMA TypeStep ==
  ASSUME TypeOK, [Next]_vars
  PROVE  TypeOK'
<1>. USE PodControllerAssumption
     DEF TypeOK, QueueTypeOK, Phases, ControlPoints, Busy,
         queueVars, storeVars, workerVars
<1>1. ASSUME NEW p \in Pods, StoreUpdate(p)
      PROVE  TypeOK'
  <2>1. [pod |-> p, rev |-> revision[p] + 1] \in Event
    BY <1>1 DEF Event
  <2>2. events' \in Seq(Event)
    BY <1>1, <2>1 DEF StoreUpdate, Notify
  <2>. QED  BY <1>1, <2>2 DEF StoreUpdate
<1>2. ASSUME NEW p \in Pods, StoreDelete(p)
      PROVE  TypeOK'
  BY <1>2 DEF StoreDelete
<1>3. ASSUME NEW p \in Pods, Resync(p)
      PROVE  TypeOK'
  <2>1. [pod |-> p, rev |-> store[p]] \in Event
    BY <1>3 DEF Event
  <2>2. events' \in Seq(Event)
    BY <1>3, <2>1 DEF Resync, Notify
  <2>. QED  BY <1>3, <2>2 DEF Resync
<1>4. ASSUME NEW p \in Pods, Readd(p)
      PROVE  TypeOK'
  <2>1. queue' \in Seq(Pods) /\ dirty' \subseteq Pods
    BY <1>4, AddType DEF Readd, DelayElapsed
  <2>. QED  BY <1>4, <2>1 DEF Readd, DelayElapsed
<1>5. CASE EnqueuePod
  <2>1. Head(events) \in Event /\ events' \in Seq(Event)
    BY <1>5 DEF EnqueuePod
  <2>2. queue' \in Seq(Pods) /\ dirty' \subseteq Pods
    BY <1>5, <2>1, AddType DEF EnqueuePod, Event
  <2>. QED  BY <1>5, <2>1, <2>2 DEF EnqueuePod
<1>6. CASE Cancel
  BY <1>6 DEF Cancel
<1>7. CASE StartWorkers
  BY <1>7 DEF StartWorkers
<1>8. CASE SyncFailed
  BY <1>8 DEF SyncFailed, ShutDown
<1>9. CASE Return
  BY <1>9 DEF Return, ShutDown
<1>10. CASE Exit
  BY <1>10 DEF Exit
<1>11. ASSUME NEW w \in Workers, BeginWorker(w)
      PROVE  TypeOK'
  BY <1>11 DEF BeginWorker, Goto
<1>12. ASSUME NEW w \in Workers, GetItem(w)
      PROVE  TypeOK'
  BY <1>12 DEF GetItem, Goto, Get
<1>13. ASSUME NEW w \in Workers, StopWorker(w)
      PROVE  TypeOK'
  BY <1>13 DEF StopWorker, Goto, Drained
<1>14. ASSUME NEW w \in Workers, Lookup(w)
      PROVE  TypeOK'
  BY <1>14 DEF Lookup, Goto
<1>15. ASSUME NEW w \in Workers, SyncOk(w)
      PROVE  TypeOK'
  BY <1>15 DEF SyncOk, Goto
<1>16. ASSUME NEW w \in Workers, SyncError(w)
      PROVE  TypeOK'
  BY <1>16 DEF SyncError, Goto
<1>17. ASSUME NEW w \in Workers, Requeue(w)
      PROVE  TypeOK'
  BY <1>17 DEF Requeue, Goto, AddRateLimited
<1>18. ASSUME NEW w \in Workers, ForgetItem(w)
      PROVE  TypeOK'
  BY <1>18 DEF ForgetItem, Goto, Forget
<1>19. ASSUME NEW w \in Workers, DoneItem(w)
      PROVE  TypeOK'
  BY <1>19 DEF DoneItem, Goto, Done
<1>20. CASE UNCHANGED vars
  BY <1>20 DEF vars, queueVars, storeVars, workerVars
<1>. HIDE PodControllerAssumption DEF TypeOK
<1>21. CASE InformerNext
  BY <1>1, <1>2, <1>3, <1>4, <1>5, <1>21 DEF InformerNext
<1>22. CASE RunNext
  BY <1>6, <1>7, <1>8, <1>9, <1>10, <1>22 DEF RunNext
<1>23. ASSUME NEW w \in Workers, WorkerNext(w)
       PROVE  TypeOK'
  BY <1>11, <1>12, <1>13, <1>14, <1>15, <1>16, <1>17, <1>18, <1>19, <1>23
     DEF WorkerNext
<1>. QED
  BY <1>20, <1>21, <1>22, <1>23 DEF Next

\* The queue, the store, the notifications and the workers keep their types.
THEOREM TypeCorrect == Spec => []TypeOK
<1>1. Init => TypeOK
  <2>1. << >> \in Seq(Event) /\ << >> \in Seq(Pods)
    OBVIOUS
  <2>2. "off" \in ControlPoints /\ "off" \notin Busy
    BY DEF ControlPoints, Busy
  <2>3. QueueInit => QueueTypeOK
    BY <2>1 DEF QueueInit, QueueTypeOK
  <2>4. ASSUME Init, NEW w \in Workers
        PROVE  /\ pc \in [Workers -> ControlPoints]
               /\ item[w] = NoPod /\ item[w] \notin Pods /\ pc[w] = "off"
               /\ pc[w] \notin Busy
    BY <2>2, <2>4, PodControllerAssumption DEF Init
  <2>5. ASSUME Init
        PROVE  /\ events \in Seq(Event)
               /\ revision \in [Pods -> Nat] /\ store \in [Pods -> Nat]
               /\ synced \in [Pods -> Nat] /\ seen \in [Workers -> Nat]
               /\ item \in [Workers -> Pods \cup {NoPod}]
               /\ pc \in [Workers -> ControlPoints]
    BY <2>1, <2>2, <2>5 DEF Init
  <2>. QED
    BY <2>3, <2>4, <2>5 DEF Init, TypeOK, Phases
<1>2. TypeOK /\ [Next]_vars => TypeOK'
  BY TypeStep
<1>. QED  BY <1>1, <1>2, PTL DEF Spec
-----------------------------------------------------------------------------
(* Mutual exclusion on pods *)

LEMMA AddKeepsQueueInv ==
  ASSUME queue \in Seq(Pods), QueueInv, NEW k \in Pods, Add(k),
         UNCHANGED processing
  PROVE  QueueInv'
<1>1. CASE UNCHANGED <<queue, dirty>>
  BY <1>1 DEF QueueInv
<1>2. CASE k \notin dirty /\ dirty' = dirty \cup {k} /\ k \in processing
           /\ UNCHANGED queue
  BY <1>2 DEF QueueInv
<1>3. CASE k \notin dirty /\ dirty' = dirty \cup {k} /\ k \notin processing
           /\ queue' = Append(queue, k)
  BY <1>3 DEF QueueInv
<1>. QED  BY <1>1, <1>2, <1>3 DEF Add

LEMMA GetKeepsQueueInv ==
  ASSUME queue \in Seq(Pods), QueueInv, Get
  PROVE  QueueInv' /\ Head(queue) \notin processing /\ Head(queue) \in Pods
<1>1. Len(queue) \in Nat \ {0} /\ Head(queue) = queue[1] /\ 1 \in DOMAIN queue
  BY DEF Get
<1>2. \A i \in DOMAIN queue' : i + 1 \in DOMAIN queue /\ queue'[i] = queue[i + 1]
  BY <1>1 DEF Get
<1>3. \A i \in DOMAIN queue' : queue'[i] # Head(queue)
  BY <1>1, <1>2 DEF QueueInv
<1>4. \A i, j \in DOMAIN queue' : queue'[i] = queue'[j] => i = j
  BY <1>1, <1>2 DEF QueueInv, Get
<1>. QED  BY <1>1, <1>2, <1>3, <1>4 DEF QueueInv, Get

LEMMA DoneKeepsQueueInv ==
  ASSUME queue \in Seq(Pods), QueueInv, NEW k \in processing, k \in Pods,
         Done(k), UNCHANGED dirty
  PROVE  QueueInv'
<1>1. CASE k \in dirty
  BY <1>1 DEF QueueInv, Done
<1>2. CASE k \notin dirty
  BY <1>2 DEF QueueInv, Done
<1>. QED  BY <1>1, <1>2

\* What a step that moves one busy worker on, with the key it holds, keeps.
LEMMA MoveOn ==
  ASSUME TypeOK, HoldInv, OneWorkerPerPod, UNCHANGED <<item, processing>>,
         NEW w \in Workers, pc[w] \in Busy,
         NEW point \in Busy, pc' = [pc EXCEPT ![w] = point]
  PROVE  HoldInv' /\ OneWorkerPerPod'
<1>1. \A v \in Workers : pc'[v] \in Busy <=> pc[v] \in Busy
  BY DEF TypeOK
<1>. QED  BY <1>1 DEF HoldInv, OneWorkerPerPod

\* What a step that moves idle workers among idle points keeps.
LEMMA StayIdle ==
  ASSUME TypeOK, HoldInv, OneWorkerPerPod, UNCHANGED <<item, processing>>,
         \A v \in Workers : pc'[v] \in Busy <=> pc[v] \in Busy
  PROVE  HoldInv' /\ OneWorkerPerPod'
BY DEF HoldInv, OneWorkerPerPod

LEMMA ExclusiveStep ==
  ASSUME Exclusive, [Next]_vars
  PROVE  Exclusive'
<1>. USE DEF Exclusive
<1>. TypeOK /\ TypeOK'
  BY TypeStep
<1>. queue \in Seq(Pods)
  BY DEF TypeOK, QueueTypeOK
<1>1. ASSUME UNCHANGED <<queue, dirty, processing, pc, item>>
      PROVE  Exclusive'
  BY <1>1 DEF QueueInv, HoldInv, OneWorkerPerPod
<1>2. ASSUME NEW p \in Pods, StoreUpdate(p) \/ StoreDelete(p) \/ Resync(p)
      PROVE  Exclusive'
  BY <1>1, <1>2
     DEF StoreUpdate, StoreDelete, Resync, Notify, queueVars, workerVars
<1>3. ASSUME NEW p \in Pods, Readd(p)
      PROVE  Exclusive'
  <2>1. Add(p) /\ UNCHANGED <<processing, pc, item>>
    BY <1>3 DEF Readd, DelayElapsed, workerVars
  <2>2. QueueInv'
    BY <2>1, AddKeepsQueueInv
  <2>. QED  BY <2>1, <2>2 DEF HoldInv, OneWorkerPerPod
<1>4. CASE EnqueuePod
  <2>1. UNCHANGED <<processing, pc, item>>
    BY <1>4 DEF EnqueuePod, workerVars
  <2>2. \/ UNCHANGED <<queue, dirty>>
        \/ Head(events).pod \in Pods /\ Add(Head(events).pod)
    <3>1. events \in Seq(Event) /\ events # << >>
      BY <1>4 DEF EnqueuePod, TypeOK
    <3>2. Head(events) \in Event
      BY <3>1
    <3>. QED  BY <1>4, <3>2 DEF EnqueuePod, Event
  <2>3. QueueInv'
    BY <2>1, <2>2, AddKeepsQueueInv DEF QueueInv
  <2>. QED  BY <2>1, <2>3 DEF HoldInv, OneWorkerPerPod
<1>5. CASE Cancel \/ SyncFailed \/ Return \/ Exit
  BY <1>1, <1>5
     DEF Cancel, SyncFailed, Return, Exit, ShutDown, queueVars, workerVars
<1>6. CASE StartWorkers
  <2>1. \A v \in Workers : pc'[v] \notin Busy /\ pc[v] \notin Busy
    BY <1>6 DEF StartWorkers, TypeOK, Busy
  <2>2. UNCHANGED <<queue, dirty, processing, item>>
    BY <1>6 DEF StartWorkers, queueVars
  <2>. QED  BY <2>1, <2>2, StayIdle DEF QueueInv
<1>7. ASSUME NEW w \in Workers, BeginWorker(w) \/ StopWorker(w)
      PROVE  Exclusive'
  <2>1. UNCHANGED <<queue, dirty, processing, item>>
    BY <1>7 DEF BeginWorker, StopWorker, queueVars
  <2>2. \A v \in Workers : pc'[v] \in Busy <=> pc[v] \in Busy
    BY <1>7 DEF BeginWorker, StopWorker, Goto, TypeOK, Busy
  <2>. QED  BY <2>1, <2>2, StayIdle DEF QueueInv
<1>8. ASSUME NEW w \in Workers, GetItem(w)
      PROVE  Exclusive'
  <2>1. QueueInv' /\ Head(queue) \notin processing /\ Head(queue) \in Pods
    BY <1>8, GetKeepsQueueInv DEF GetItem
  <2>2. /\ processing' = processing \cup {Head(queue)}
        /\ item'[w] = Head(queue) /\ pc'[w] \in Busy /\ pc[w] \notin Busy
        /\ \A v \in Workers \ {w} : item'[v] = item[v] /\ pc'[v] = pc[v]
    BY <1>8 DEF GetItem, Get, Goto, TypeOK, Busy
  <2>3. HoldInv'
    BY <2>2 DEF HoldInv
  <2>4. OneWorkerPerPod'
    BY <2>1, <2>2 DEF HoldInv, OneWorkerPerPod
  <2>. QED  BY <2>1, <2>3, <2>4
<1>9. ASSUME NEW w \in Workers,
             Lookup(w) \/ SyncOk(w) \/ SyncError(w) \/ Requeue(w) \/ ForgetItem(w)
      PROVE  Exclusive'
  <2>1. UNCHANGED <<queue, dirty, processing, item>>
    BY <1>9 DEF Lookup, SyncOk, SyncError, Requeue, ForgetItem, queueVars,
                AddRateLimited, Forget
  <2>2. pc[w] \in Busy /\ \E point \in Busy : pc' = [pc EXCEPT ![w] = point]
    BY <1>9 DEF Lookup, SyncOk, SyncError, Requeue, ForgetItem, Goto, Busy
  <2>3. HoldInv' /\ OneWorkerPerPod'
    BY <2>1, <2>2, MoveOn
  <2>. QED  BY <2>1, <2>3 DEF QueueInv
<1>10. ASSUME NEW w \in Workers, DoneItem(w)
       PROVE  Exclusive'
  <2>1. /\ processing' = processing \ {item[w]}
        /\ item[w] \in Pods /\ pc[w] \in Busy /\ pc'[w] \notin Busy
        /\ \A v \in Workers \ {w} : item'[v] = item[v] /\ pc'[v] = pc[v]
    BY <1>10 DEF DoneItem, Done, Goto, TypeOK, Busy
  <2>2. QueueInv'
    BY <1>10, <2>1, DoneKeepsQueueInv DEF DoneItem, HoldInv
  <2>3. HoldInv'
    BY <2>1 DEF HoldInv, OneWorkerPerPod
  <2>4. OneWorkerPerPod'
    BY <2>1 DEF OneWorkerPerPod
  <2>. QED  BY <2>2, <2>3, <2>4
<1>11. CASE UNCHANGED vars
  BY <1>1, <1>11 DEF vars, queueVars, workerVars
<1>. HIDE DEF Exclusive
<1>. QED
  BY <1>2, <1>3, <1>4, <1>5, <1>6, <1>7, <1>8, <1>9, <1>10, <1>11
     DEF Next, InformerNext, RunNext, WorkerNext

LEMMA ExclusiveInvariance == Spec => []Exclusive
<1>1. Init => QueueInv /\ HoldInv /\ OneWorkerPerPod
  BY DEF Init, QueueInit, QueueInv, HoldInv, OneWorkerPerPod, Busy
<1>2. Exclusive /\ [Next]_vars => Exclusive'
  BY ExclusiveStep
<1>. QED  BY <1>1, <1>2, TypeCorrect, PTL DEF Spec, Exclusive

\* However its events, retries and delays keep adding its key, a pod is never
\* in the hands of two workers at a time (controller.go, the workqueue field).
THEOREM PodsAreExclusive == Spec => []OneWorkerPerPod
BY ExclusiveInvariance, PTL DEF Exclusive
-----------------------------------------------------------------------------
(* No change is lost *)

LEMMA OrderStep ==
  ASSUME Exclusive, OrderInv, [Next]_vars
  PROVE  OrderInv'
<1>. TypeOK /\ TypeOK' /\ OneWorkerPerPod
  BY TypeStep DEF Exclusive
<1>1. ASSUME UNCHANGED <<revision, store, synced, pc, item, seen>>
      PROVE  OrderInv'
  BY <1>1 DEF OrderInv
<1>2. ASSUME NEW p \in Pods, StoreUpdate(p)
      PROVE  OrderInv'
  <2>1. /\ \A q \in Pods : revision'[q] \in Nat /\ revision[q] <= revision'[q]
        /\ store'[p] = revision'[p]
        /\ \A q \in Pods \ {p} : store'[q] = store[q] /\ revision'[q] = revision[q]
    BY <1>2 DEF StoreUpdate, TypeOK
  <2>2. UNCHANGED <<synced, pc, item, seen>>
    BY <1>2 DEF StoreUpdate, workerVars
  <2>3. \A w \in Workers : pc[w] = "sync" => item[w] \in Pods
    BY DEF TypeOK, Busy
  <2>4. ASSUME NEW q \in Pods
        PROVE  store'[q] \in {0, revision'[q]} /\ synced'[q] <= revision'[q]
    BY <2>1, <2>2 DEF OrderInv, TypeOK
  <2>5. ASSUME NEW w \in Workers, pc'[w] = "sync"
        PROVE  synced'[item'[w]] <= seen'[w] /\ seen'[w] <= revision'[item'[w]]
    <3>1. item[w] \in Pods /\ seen[w] \in Nat /\ revision[item[w]] \in Nat
      BY <2>2, <2>3, <2>5 DEF TypeOK
    <3>. QED  BY <2>1, <2>2, <2>5, <3>1 DEF OrderInv
  <2>. QED  BY <2>4, <2>5 DEF OrderInv
<1>3. ASSUME NEW p \in Pods, StoreDelete(p)
      PROVE  OrderInv'
  BY <1>3 DEF StoreDelete, workerVars, OrderInv, TypeOK
<1>4. ASSUME NEW p \in Pods, Resync(p) \/ Readd(p)
      PROVE  OrderInv'
  BY <1>1, <1>4 DEF Resync, Readd, storeVars, workerVars
<1>5. CASE EnqueuePod \/ Cancel \/ SyncFailed \/ Return \/ Exit
  BY <1>1, <1>5
     DEF EnqueuePod, Cancel, SyncFailed, Return, Exit, storeVars, workerVars
<1>6. ASSUME UNCHANGED <<revision, store, synced, seen>>,
             \A w \in Workers : pc'[w] = "sync" => pc[w] = "sync" /\ item'[w] = item[w]
      PROVE  OrderInv'
  BY <1>6 DEF OrderInv
<1>7. CASE StartWorkers
  BY <1>6, <1>7 DEF StartWorkers, storeVars
<1>8. ASSUME NEW w \in Workers,
             \/ BeginWorker(w) \/ GetItem(w) \/ StopWorker(w)
             \/ Requeue(w) \/ ForgetItem(w) \/ DoneItem(w)
      PROVE  OrderInv'
  BY <1>6, <1>8
     DEF BeginWorker, GetItem, StopWorker, Requeue, ForgetItem, DoneItem, Goto,
         storeVars, TypeOK
<1>9. ASSUME NEW w \in Workers, Lookup(w)
      PROVE  OrderInv'
  <2>1. item[w] \in Pods /\ pc[w] = "lookup" /\ UNCHANGED <<revision, store, synced, item>>
    BY <1>9 DEF Lookup, TypeOK, Busy, storeVars
  <2>2. \A v \in Workers \ {w} : pc'[v] = pc[v] /\ seen'[v] = seen[v]
    BY <1>9 DEF Lookup, Goto, TypeOK
  <2>3. pc'[w] = "sync" => /\ seen'[w] = store[item[w]]
                           /\ store[item[w]] \in Selected[item[w]]
    BY <1>9 DEF Lookup, Goto, TypeOK
  <2>4. pc'[w] = "sync" => store[item[w]] = revision[item[w]]
    BY <2>1, <2>3, PodControllerAssumption DEF OrderInv
  <2>5. revision[item[w]] \in Nat /\ synced[item[w]] \in Nat
    BY <2>1 DEF TypeOK
  <2>6. ASSUME NEW v \in Workers, pc'[v] = "sync"
        PROVE  synced'[item'[v]] <= seen'[v] /\ seen'[v] <= revision'[item'[v]]
    <3>1. CASE v = w
      BY <2>1, <2>3, <2>4, <2>5, <2>6, <3>1 DEF OrderInv
    <3>2. CASE v # w
      BY <2>1, <2>2, <2>6, <3>2 DEF OrderInv
    <3>. QED  BY <3>1, <3>2
  <2>. QED  BY <2>1, <2>6 DEF OrderInv
<1>10. ASSUME NEW w \in Workers, SyncOk(w)
       PROVE  OrderInv'
  <2>1. /\ item[w] \in Pods /\ pc[w] = "sync" /\ pc'[w] # "sync"
        /\ UNCHANGED <<revision, store, item>>
        /\ synced'[item[w]] = seen[w]
        /\ \A p \in Pods \ {item[w]} : synced'[p] = synced[p]
    BY <1>10 DEF SyncOk, Goto, TypeOK, Busy, storeVars
  <2>2. \A v \in Workers \ {w} : pc'[v] = pc[v] /\ seen'[v] = seen[v]
    BY <1>10 DEF SyncOk, Goto, TypeOK
  <2>3. \A v \in Workers \ {w} : pc[v] = "sync" => item[v] \in Pods \ {item[w]}
    BY <2>1 DEF OneWorkerPerPod, Busy, TypeOK
  <2>4. ASSUME NEW q \in Pods
        PROVE  store'[q] \in {0, revision'[q]} /\ synced'[q] <= revision'[q]
    BY <2>1 DEF OrderInv, TypeOK
  <2>5. ASSUME NEW v \in Workers, pc'[v] = "sync"
        PROVE  synced'[item'[v]] <= seen'[v] /\ seen'[v] <= revision'[item'[v]]
    BY <2>1, <2>2, <2>3, <2>5 DEF OrderInv
  <2>. QED  BY <2>4, <2>5 DEF OrderInv
<1>11. ASSUME NEW w \in Workers, SyncError(w)
       PROVE  OrderInv'
  BY <1>11 DEF SyncError, Goto, storeVars, OrderInv, TypeOK
<1>12. CASE UNCHANGED vars
  BY <1>1, <1>12 DEF vars, storeVars, workerVars
<1>. QED
  BY <1>2, <1>3, <1>4, <1>5, <1>7, <1>8, <1>9, <1>10, <1>11, <1>12
     DEF Next, InformerNext, RunNext, WorkerNext

\* A pod that was on its way still is, when nothing it depends on went away.
LEMMA StillOnItsWay ==
  ASSUME NEW p \in Pods, OnItsWay(p), UNCHANGED store,
         \A i \in DOMAIN events : \E j \in DOMAIN events' : events'[j] = events[i],
         dirty \cup waiting \subseteq dirty' \cup waiting',
         \A w \in Workers : pc[w] \in {"lookup", "requeue", "sync"} =>
            item'[w] = item[w] /\ pc'[w] = pc[w] /\ seen'[w] = seen[w]
  PROVE  OnItsWay(p)'
BY DEF OnItsWay

LEMMA ChangeNotLostStep ==
  ASSUME Exclusive, OrderInv, ChangeNotLost, [Next]_vars
  PROVE  ChangeNotLost'
<1>. TypeOK /\ TypeOK' /\ OneWorkerPerPod
  BY TypeStep DEF Exclusive
<1>. events \in Seq(Event)
  BY DEF TypeOK
<1>1. ASSUME UNCHANGED <<store, synced>>, shuttingDown => shuttingDown',
             \A i \in DOMAIN events : \E j \in DOMAIN events' : events'[j] = events[i],
             dirty \cup waiting \subseteq dirty' \cup waiting',
             \A w \in Workers : pc[w] \in {"lookup", "requeue", "sync"} =>
                item'[w] = item[w] /\ pc'[w] = pc[w] /\ seen'[w] = seen[w]
      PROVE  ChangeNotLost'
  BY <1>1, StillOnItsWay DEF ChangeNotLost
<1>2. ASSUME NEW p \in Pods, StoreUpdate(p)
      PROVE  ChangeNotLost'
  <2>1. /\ events' = Append(events, [pod |-> p, rev |-> revision[p] + 1])
        /\ store'[p] = revision[p] + 1
        /\ \A q \in Pods \ {p} : store'[q] = store[q]
        /\ UNCHANGED <<dirty, waiting, shuttingDown, pc, item, seen, synced>>
    BY <1>2 DEF StoreUpdate, Notify, queueVars, workerVars, TypeOK
  <2>2. \A i \in DOMAIN events : i \in DOMAIN events' /\ events'[i] = events[i]
    BY <2>1
  <2>3. OnItsWay(p)'
    <3>1. Len(events) + 1 \in DOMAIN events'
          /\ events'[Len(events) + 1] = [pod |-> p, rev |-> revision[p] + 1]
      BY <2>1
    <3>. QED  BY <2>1, <3>1 DEF OnItsWay
  <2>4. ASSUME NEW q \in Pods \ {p}, OnItsWay(q)
        PROVE  OnItsWay(q)'
    BY <2>1, <2>2, <2>4 DEF OnItsWay
  <2>. QED  BY <2>1, <2>3, <2>4 DEF ChangeNotLost
<1>3. ASSUME NEW p \in Pods, StoreDelete(p)
      PROVE  ChangeNotLost'
  <2>1. /\ store'[p] = 0 /\ \A q \in Pods \ {p} : store'[q] = store[q]
        /\ UNCHANGED <<events, dirty, waiting, shuttingDown, pc, item, seen, synced>>
    BY <1>3 DEF StoreDelete, queueVars, workerVars, TypeOK
  <2>2. store'[p] \notin Selected[p]
    BY <2>1, PodControllerAssumption
  <2>3. ASSUME NEW q \in Pods \ {p}, OnItsWay(q)
        PROVE  OnItsWay(q)'
    BY <2>1, <2>3 DEF OnItsWay
  <2>. QED  BY <2>1, <2>2, <2>3 DEF ChangeNotLost
<1>4. ASSUME NEW p \in Pods, Resync(p)
      PROVE  ChangeNotLost'
  <2>1. \A i \in DOMAIN events : i \in DOMAIN events' /\ events'[i] = events[i]
    BY <1>4 DEF Resync, Notify
  <2>. QED  BY <1>1, <1>4, <2>1 DEF Resync, queueVars, workerVars
<1>5. ASSUME NEW p \in Pods, Readd(p)
      PROVE  ChangeNotLost'
  <2>1. /\ waiting' = waiting \ {p} /\ dirty \subseteq dirty'
        /\ p \in dirty' \/ shuttingDown
        /\ UNCHANGED <<shuttingDown, store, events, synced, pc, item, seen>>
    BY <1>5 DEF Readd, DelayElapsed, Add, storeVars, workerVars
  <2>2. CASE shuttingDown
    BY <2>1, <2>2 DEF ChangeNotLost
  <2>3. CASE ~shuttingDown
    BY <1>1, <2>1, <2>3
  <2>. QED  BY <2>2, <2>3
<1>6. CASE EnqueuePod
  <2>1. /\ UNCHANGED <<waiting, shuttingDown, store, synced, pc, item, seen>>
        /\ events # << >> /\ events' = Tail(events)
    BY <1>6 DEF EnqueuePod, workerVars
  <2>2. Head(events) \in Event /\ Head(events) = events[1]
    BY <2>1
  <2>3. /\ dirty \subseteq dirty'
        /\ Head(events).rev \in Selected[Head(events).pod] =>
              Head(events).pod \in dirty' \/ shuttingDown
    BY <1>6 DEF EnqueuePod, Add
  <2>4. \A i \in DOMAIN events : i # 1 =>
           i - 1 \in DOMAIN events' /\ events'[i - 1] = events[i]
    BY <2>1
  <2>5. ASSUME NEW p \in Pods, OnItsWay(p), store[p] \in Selected[p]
        PROVE  OnItsWay(p)' \/ shuttingDown
    <3>1. CASE Head(events) = [pod |-> p, rev |-> store[p]]
      BY <2>3, <2>5, <3>1 DEF OnItsWay
    <3>2. CASE Head(events) # [pod |-> p, rev |-> store[p]]
      <4>1. ASSUME NEW i \in DOMAIN events, events[i] = [pod |-> p, rev |-> store[p]]
            PROVE  \E j \in DOMAIN events' : events'[j] = [pod |-> p, rev |-> store[p]]
        BY <2>2, <2>4, <3>2, <4>1
      <4>. QED  BY <2>1, <2>3, <2>5, <4>1 DEF OnItsWay
    <3>. QED  BY <3>1, <3>2
  <2>. QED  BY <2>1, <2>5 DEF ChangeNotLost
<1>7. CASE Cancel \/ Exit
  BY <1>1, <1>7 DEF Cancel, Exit, queueVars, storeVars, workerVars
<1>8. CASE SyncFailed \/ Return
  BY <1>8 DEF SyncFailed, Return, ShutDown, ChangeNotLost
<1>9. CASE StartWorkers
  BY <1>1, <1>9 DEF StartWorkers, queueVars, storeVars, TypeOK
<1>10. ASSUME NEW w \in Workers, BeginWorker(w) \/ StopWorker(w) \/ ForgetItem(w) \/ DoneItem(w)
       PROVE  ChangeNotLost'
  <2>1. /\ UNCHANGED <<dirty, waiting, shuttingDown, store, events, synced, seen>>
        /\ \A v \in Workers \ {w} : item'[v] = item[v] /\ pc'[v] = pc[v]
        /\ pc[w] \notin {"lookup", "requeue", "sync"}
    BY <1>10 DEF BeginWorker, StopWorker, ForgetItem, DoneItem, Goto, Forget, Done,
                 queueVars, storeVars, TypeOK
  <2>. QED  BY <1>1, <2>1
<1>11. ASSUME NEW w \in Workers, GetItem(w)
       PROVE  ChangeNotLost'
  <2>1. /\ dirty' = dirty \ {Head(queue)}
        /\ item'[w] = Head(queue) /\ pc'[w] = "lookup" /\ pc[w] = "get"
        /\ \A v \in Workers \ {w} : item'[v] = item[v] /\ pc'[v] = pc[v]
        /\ UNCHANGED <<waiting, shuttingDown, store, events, synced, seen>>
    BY <1>11 DEF GetItem, Get, Goto, TypeOK, storeVars
  <2>2. ASSUME NEW p \in Pods, OnItsWay(p)
        PROVE  OnItsWay(p)'
    <3>1. CASE p = Head(queue)
      BY <2>1, <3>1 DEF OnItsWay
    <3>2. CASE p # Head(queue)
      BY <2>1, <2>2, <3>2 DEF OnItsWay
    <3>. QED  BY <3>1, <3>2
  <2>. QED  BY <2>1, <2>2 DEF ChangeNotLost
<1>12. ASSUME NEW w \in Workers, Lookup(w)
       PROVE  ChangeNotLost'
  <2>1. /\ pc[w] = "lookup" /\ item[w] \in Pods
        /\ \A v \in Workers \ {w} : seen'[v] = seen[v] /\ pc'[v] = pc[v]
        /\ store[item[w]] \in Selected[item[w]] =>
              pc'[w] = "sync" /\ seen'[w] = store[item[w]]
        /\ UNCHANGED <<dirty, waiting, shuttingDown, store, events, synced, item>>
    BY <1>12 DEF Lookup, Goto, TypeOK, Busy, storeVars, queueVars
  <2>2. ASSUME NEW p \in Pods, OnItsWay(p), store[p] \in Selected[p]
        PROVE  OnItsWay(p)'
    <3>1. CASE p = item[w]
      BY <2>1, <2>2, <3>1 DEF OnItsWay
    <3>2. CASE p # item[w]
      BY <2>1, <2>2, <3>2 DEF OnItsWay
    <3>. QED  BY <3>1, <3>2
  <2>. QED  BY <2>1, <2>2 DEF ChangeNotLost
<1>13. ASSUME NEW w \in Workers, SyncOk(w)
       PROVE  ChangeNotLost'
  <2>1. /\ pc[w] = "sync" /\ item[w] \in Pods
        /\ \A v \in Workers \ {w} : seen'[v] = seen[v] /\ pc'[v] = pc[v]
        /\ synced'[item[w]] = seen[w]
        /\ \A p \in Pods \ {item[w]} : synced'[p] = synced[p]
        /\ UNCHANGED <<dirty, waiting, shuttingDown, store, events, item>>
    BY <1>13 DEF SyncOk, Goto, TypeOK, Busy, storeVars, queueVars
  <2>2. ASSUME NEW p \in Pods \ {item[w]}, OnItsWay(p)
        PROVE  OnItsWay(p)'
    BY <2>1, <2>2 DEF OnItsWay
  <2>3. ASSUME store[item[w]] \in Selected[item[w]], seen[w] # store[item[w]]
        PROVE  synced[item[w]] # store[item[w]]
    <3>1. store[item[w]] = revision[item[w]]
      BY <2>1, <2>3, PodControllerAssumption DEF OrderInv
    <3>2. synced[item[w]] <= seen[w] /\ seen[w] <= revision[item[w]]
      BY <2>1 DEF OrderInv
    <3>3. synced[item[w]] \in Nat /\ seen[w] \in Nat /\ revision[item[w]] \in Nat
      BY <2>1 DEF TypeOK
    <3>. QED  BY <2>3, <3>1, <3>2, <3>3
  <2>4. ASSUME OnItsWay(item[w]), seen[w] # store[item[w]]
        PROVE  OnItsWay(item[w])'
    <3>1. \A v \in Workers \ {w} :
             pc[v] \in {"lookup", "requeue", "sync"} => item[v] # item[w]
      BY <2>1 DEF OneWorkerPerPod, Busy
    <3>. QED  BY <2>1, <2>4, <3>1 DEF OnItsWay
  <2>. QED  BY <2>1, <2>2, <2>3, <2>4 DEF ChangeNotLost
<1>14. ASSUME NEW w \in Workers, SyncError(w)
       PROVE  ChangeNotLost'
  <2>1. /\ pc[w] = "sync" /\ pc'[w] = "requeue"
        /\ \A v \in Workers \ {w} : seen'[v] = seen[v] /\ pc'[v] = pc[v]
        /\ UNCHANGED <<dirty, waiting, shuttingDown, store, events, synced, item>>
    BY <1>14 DEF SyncError, Goto, TypeOK, storeVars, queueVars
  <2>2. ASSUME NEW p \in Pods, OnItsWay(p)
        PROVE  OnItsWay(p)'
    BY <2>1, <2>2 DEF OnItsWay
  <2>. QED  BY <2>1, <2>2 DEF ChangeNotLost
<1>15. ASSUME NEW w \in Workers, Requeue(w)
       PROVE  ChangeNotLost'
  <2>1. /\ pc[w] = "requeue"
        /\ item[w] \in waiting' \/ shuttingDown
        /\ waiting \subseteq waiting'
        /\ \A v \in Workers \ {w} : pc'[v] = pc[v]
        /\ UNCHANGED <<dirty, shuttingDown, store, events, synced, item, seen>>
    BY <1>15 DEF Requeue, AddRateLimited, Goto, TypeOK, storeVars
  <2>2. ASSUME NEW p \in Pods, OnItsWay(p)
        PROVE  OnItsWay(p)' \/ shuttingDown
    BY <2>1, <2>2 DEF OnItsWay
  <2>. QED  BY <2>1, <2>2 DEF ChangeNotLost
<1>16. CASE UNCHANGED vars
  BY <1>1, <1>16 DEF vars, queueVars, storeVars, workerVars
<1>. QED
  BY <1>2, <1>3, <1>4, <1>5, <1>6, <1>7, <1>8, <1>9, <1>10, <1>11, <1>12, <1>13,
     <1>14, <1>15, <1>16
     DEF Next, InformerNext, RunNext, WorkerNext

LEMMA OrderInvariance == Spec => []OrderInv
<1>1. Init => OrderInv
  BY DEF Init, OrderInv
<1>2. Exclusive /\ OrderInv /\ [Next]_vars => OrderInv'
  BY OrderStep
<1>. QED  BY <1>1, <1>2, ExclusiveInvariance, PTL DEF Spec

\* Until the current revision of a selected pod has been synced, something
\* that leads to its sync is pending (enqueuePod, processNextPod, sync).
THEOREM NoChangeIsLost == Spec => []ChangeNotLost
<1>1. Init => ChangeNotLost
  BY PodControllerAssumption DEF Init, ChangeNotLost
<1>2. Exclusive /\ OrderInv /\ ChangeNotLost /\ [Next]_vars => ChangeNotLost'
  BY ChangeNotLostStep
<1>. QED  BY <1>1, <1>2, ExclusiveInvariance, OrderInvariance, PTL DEF Spec
-----------------------------------------------------------------------------
(* No failure count outlives its key *)

LEMMA SettledStep ==
  ASSUME Exclusive, Settled, [Next]_vars
  PROVE  Settled'
<1>. TypeOK /\ TypeOK' /\ QueueInv /\ HoldInv /\ OneWorkerPerPod
  BY TypeStep DEF Exclusive
<1>1. ASSUME UNCHANGED <<processing, item>>, backoff' \subseteq backoff,
             shuttingDown => shuttingDown',
             dirty \cup waiting \subseteq dirty' \cup waiting' \/ shuttingDown',
             \A w \in Workers : pc'[w] = "done" => pc[w] = "done"
      PROVE  Settled'
  BY <1>1 DEF Settled, SettledInv, BackoffCleared
<1>2. ASSUME NEW p \in Pods, StoreUpdate(p) \/ StoreDelete(p) \/ Resync(p)
      PROVE  Settled'
  BY <1>1, <1>2 DEF StoreUpdate, StoreDelete, Resync, queueVars, workerVars
<1>3. ASSUME NEW p \in Pods, Readd(p)
      PROVE  Settled'
  BY <1>1, <1>3 DEF Readd, DelayElapsed, Add, workerVars
<1>4. CASE EnqueuePod
  BY <1>1, <1>4 DEF EnqueuePod, Add, workerVars
<1>5. CASE Cancel \/ SyncFailed \/ Return \/ Exit
  BY <1>1, <1>5 DEF Cancel, SyncFailed, Return, Exit, ShutDown, queueVars, workerVars
<1>6. CASE StartWorkers
  BY <1>1, <1>6 DEF StartWorkers, queueVars
<1>7. ASSUME NEW w \in Workers,
             \/ BeginWorker(w) \/ StopWorker(w) \/ Lookup(w)
             \/ SyncOk(w) \/ SyncError(w)
      PROVE  Settled'
  BY <1>1, <1>7
     DEF BeginWorker, StopWorker, Lookup, SyncOk, SyncError, Goto, queueVars, TypeOK
<1>8. ASSUME NEW w \in Workers, GetItem(w)
      PROVE  Settled'
  <2>1. Head(queue) \notin processing
    BY <1>8, GetKeepsQueueInv DEF GetItem, TypeOK, QueueTypeOK
  <2>2. /\ dirty' = dirty \ {Head(queue)}
        /\ processing' = processing \cup {Head(queue)}
        /\ pc'[w] = "lookup"
        /\ \A v \in Workers \ {w} : item'[v] = item[v] /\ pc'[v] = pc[v]
        /\ UNCHANGED <<backoff, waiting, shuttingDown>>
    BY <1>8 DEF GetItem, Get, Goto, TypeOK
  <2>3. \A v \in Workers : pc[v] = "done" => item[v] # Head(queue)
    BY <2>1 DEF HoldInv, Busy
  <2>4. SettledInv'
    BY <2>2, <2>3 DEF Settled, SettledInv
  <2>5. BackoffCleared'
    BY <2>2 DEF Settled, BackoffCleared
  <2>. QED  BY <2>4, <2>5 DEF Settled
<1>9. ASSUME NEW w \in Workers, Requeue(w)
      PROVE  Settled'
  <2>1. /\ backoff' = backoff \cup {item[w]}
        /\ item[w] \in waiting' \/ shuttingDown
        /\ waiting \subseteq waiting'
        /\ \A v \in Workers \ {w} : pc'[v] = pc[v]
        /\ UNCHANGED <<dirty, processing, shuttingDown, item>>
    BY <1>9 DEF Requeue, AddRateLimited, Goto, TypeOK
  <2>2. SettledInv'
    BY <2>1 DEF Settled, SettledInv
  <2>3. BackoffCleared'
    BY <2>1 DEF Settled, BackoffCleared
  <2>. QED  BY <2>2, <2>3 DEF Settled
<1>10. ASSUME NEW w \in Workers, ForgetItem(w)
       PROVE  Settled'
  <2>1. /\ backoff' = backoff \ {item[w]}
        /\ \A v \in Workers \ {w} : pc'[v] = pc[v]
        /\ UNCHANGED <<dirty, waiting, processing, shuttingDown, item>>
    BY <1>10 DEF ForgetItem, Forget, Goto, TypeOK
  <2>2. SettledInv'
    BY <2>1 DEF Settled, SettledInv
  <2>3. BackoffCleared'
    BY <2>1 DEF Settled, BackoffCleared
  <2>. QED  BY <2>2, <2>3 DEF Settled
<1>11. ASSUME NEW w \in Workers, DoneItem(w)
       PROVE  Settled'
  <2>1. /\ pc[w] = "done" /\ pc'[w] = "get"
        /\ processing' = processing \ {item[w]}
        /\ \A v \in Workers \ {w} : item'[v] = item[v] /\ pc'[v] = pc[v]
        /\ UNCHANGED <<dirty, waiting, backoff, shuttingDown>>
    BY <1>11 DEF DoneItem, Done, Goto, TypeOK
  <2>2. SettledInv'
    BY <2>1 DEF Settled, SettledInv
  <2>3. BackoffCleared'
    BY <2>1 DEF Settled, SettledInv, BackoffCleared
  <2>. QED  BY <2>2, <2>3 DEF Settled
<1>12. CASE UNCHANGED vars
  BY <1>1, <1>12 DEF vars, queueVars, workerVars
<1>. QED
  BY <1>2, <1>3, <1>4, <1>5, <1>6, <1>7, <1>8, <1>9, <1>10, <1>11, <1>12
     DEF Next, InformerNext, RunNext, WorkerNext

\* The rate limiter keeps a failure count only for keys that are still in the
\* queue, delayed or held (processNextPod's AddRateLimited and Forget).
THEOREM NoStaleBackoff == Spec => []BackoffCleared
<1>1. Init => Settled
  BY DEF Init, QueueInit, Settled, SettledInv, BackoffCleared
<1>2. Exclusive /\ Settled /\ [Next]_vars => Settled'
  BY SettledStep
<1>3. Spec => []Settled
  BY <1>1, <1>2, ExclusiveInvariance, PTL DEF Spec
<1>. QED  BY <1>3, PTL DEF Settled
=============================================================================
