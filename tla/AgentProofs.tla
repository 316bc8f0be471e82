---------------------------- MODULE AgentProofs ----------------------------
(***************************************************************************)
(* Proofs about Agent, for any number of pods, workers, listeners, owners  *)
(* and revisions.                                                          *)
(*                                                                         *)
(* Every step of the agent is a step of PodController or leaves its        *)
(* variables alone, so that what is proved of PodController holds of the   *)
(* agent.  With it, and with what relates the calls of sync to the workers *)
(* (CallInv), every step is also one of PodSync or leaves its variables    *)
(* alone: a key in the queue is held by nobody, so a pod that is taken is  *)
(* in no call, and a pod stays due from its notification, or from the      *)
(* failure of its sync, until a worker takes it.  So what is proved of     *)
(* PodSync holds of the agent too.                                         *)
(***************************************************************************)
EXTENDS Agent, PodControllerProofs

\* PodSync once more, with its theorems.
P == INSTANCE PodSyncProofs WITH pc <- at, life <- Life, due <- Due

LEMMA PodSyncAssumptions == P!PodSyncAssumption /\ P!NoEntryAssumption
BY AgentAssumption
   DEF Call!PodSyncAssumption, Call!NoEntryAssumption, P!PodSyncAssumption, P!NoEntryAssumption,
       Call!FaultKinds, P!FaultKinds, Call!Payload, P!Payload

-----------------------------------------------------------------------------
(* The agent implements PodController *)

LEMMA ControllerStep ==
  ASSUME AgentNext
  PROVE  [Next]_vars
<1>1. CASE Around
  BY <1>1 DEF Around, Next, RunNext, WorkerNext
<1>2. CASE Apart
  BY <1>2 DEF Apart
<1>3. ASSUME NEW w \in Workers, CallSync(w) \/ WorkerRuns(w)
      PROVE  [Next]_vars
  <2>1. CASE CallSync(w)
    BY <2>1 DEF CallSync, Next, WorkerNext
  <2>2. CASE AfterSync(w)
    BY <2>2 DEF AfterSync, Next, WorkerNext
  <2>3. CASE LookupPod(w)
    BY <2>3 DEF LookupPod, Next, WorkerNext
  <2>4. CASE GoOn(w)
    BY <2>4 DEF GoOn, Next, WorkerNext
  <2>5. CASE Answer(w)
    BY <2>5 DEF Answer
  <2>6. CASE SyncFails(w)
    BY <2>6 DEF SyncFails, Next, WorkerNext
  <2>. QED  BY <1>3, <2>1, <2>2, <2>3, <2>4, <2>5, <2>6 DEF WorkerRuns
<1>. QED  BY <1>1, <1>2, <1>3 DEF AgentNext

\* The agent is the controller: with the rest of sync in place of one step,
\* queue, informer and workers do what PodController says.
THEOREM ImplementsPodController == AgentSpec => Spec
<1>1. AgentInit => Init
  BY DEF AgentInit
<1>2. [AgentNext]_agentVars => [Next]_vars
  BY ControllerStep DEF agentVars
<1>. QED  BY <1>1, <1>2, PTL DEF AgentSpec, Spec

\* So, in the agent, one worker at a time has a pod, no change of a selected pod
\* is lost, and failure counts do not outlive their keys.
THEOREM AgentLosesNoChange == AgentSpec => [](OneWorkerPerPod /\ ChangeNotLost /\ BackoffCleared)
BY ImplementsPodController, PodsAreExclusive, NoChangeIsLost, NoStaleBackoff, PTL
-----------------------------------------------------------------------------
(* The calls of sync *)

\* The agent is not told to stop, no revision is beyond the bound, and the calls
\* of sync are those of the workers.
CallInv ==
    /\ ~shuttingDown
    /\ \A p \in Pods : store[p] \in {0, revision[p]} /\ revision[p] \in 0..MaxRevision
    /\ at \in [Workers -> Call!ControlPoints]
    /\ pod \in [Workers -> Pods \cup {NoPod}]
    /\ \A w \in Workers : pod[w] \in Pods <=> at[w] # "idle"
    /\ CallsOK

\* A step of w inside sync moves its frame, or ends it.
Moves(w) ==
    \/ /\ at' = [at EXCEPT ![w] = "idle"]
       /\ pod' = [pod EXCEPT ![w] = NoPod]
    \/ /\ \E c \in Call!ControlPoints \ {"idle"} : at' = [at EXCEPT ![w] = c]
       /\ pod' = pod

LEMMA CallMoves ==
  ASSUME NEW w \in Workers,
         \/ Call!FindOwner(w) \/ Call!NothingToDo(w) \/ Call!GetNamespace(w)
         \/ Call!HandleStep(w) \/ Call!GoliveStep(w)
  PROVE  Moves(w)
<1>. USE DEF Call!Goto, Call!Finish, Call!NextHandler, Moves, Call!ControlPoints, Call!Handling,
             Call!Pushing, Call!goliveVars, Call!clusterVars
<1>1. CASE Call!FindOwner(w) \/ Call!NothingToDo(w) \/ Call!GetNamespace(w)
  BY <1>1 DEF Call!FindOwner, Call!NothingToDo, Call!GetNamespace
<1>2. CASE Call!HandleStep(w)
  <2>1. CASE Call!Send(w)
    BY <2>1 DEF Call!Send
  <2>2. CASE Call!ExtractionFails(w) \/ Call!UpToDate(w)
    BY <2>2 DEF Call!ExtractionFails, Call!UpToDate
  <2>3. CASE Call!PostOk(w) \/ Call!PostRefused(w) \/ Call!PostFailed(w)
    BY <2>3 DEF Call!PostOk, Call!PostRefused, Call!PostFailed
  <2>. QED  BY <1>2, <2>1, <2>2, <2>3 DEF Call!HandleStep
<1>3. CASE Call!GoliveStep(w)
  BY <1>3 DEF Call!GoliveStep, Call!Accept, Call!Refuse, Call!LoseConnection, Call!Hang, Call!Abandon
<1>. QED  BY <1>1, <1>2, <1>3

LEMMA AroundKeepsCallInv ==
  ASSUME TypeOK, CallInv, Around
  PROVE  CallInv'
<1>1. UNCHANGED <<at, pod>>
  BY DEF Around, NoCall, callVars
<1>. USE PodControllerAssumption DEF CallInv
<1>2. ASSUME NEW p \in Pods, StoreUpdate(p)
      PROVE  CallInv'
  BY <1>1, <1>2 DEF StoreUpdate, queueVars, workerVars, TypeOK, CallsOK
<1>3. ASSUME NEW p \in Pods, StoreDelete(p)
      PROVE  CallInv'
  BY <1>1, <1>3 DEF StoreDelete, queueVars, workerVars, TypeOK, CallsOK
<1>4. ASSUME NEW p \in Pods, Resync(p) \/ Readd(p)
      PROVE  CallInv'
  BY <1>1, <1>4 DEF Resync, Readd, DelayElapsed, queueVars, workerVars, storeVars, CallsOK
<1>5. CASE EnqueuePod
  BY <1>1, <1>5 DEF EnqueuePod, workerVars, CallsOK
<1>6. CASE StartWorkers
  BY <1>1, <1>6 DEF StartWorkers, queueVars, storeVars, CallsOK, TypeOK
<1>7. ASSUME NEW w \in Workers, BeginWorker(w)
      PROVE  CallInv'
  BY <1>1, <1>7 DEF BeginWorker, Goto, queueVars, storeVars, CallsOK, TypeOK
<1>. QED  BY <1>2, <1>3, <1>4, <1>5, <1>6, <1>7 DEF Around, InformerNext

LEMMA CallInvStep ==
  ASSUME TypeOK, CallInv, [AgentNext]_agentVars
  PROVE  CallInv'
<1>1. ASSUME NEW w \in Workers, CallSync(w)
      PROVE  CallInv'
  BY <1>1
  DEF CallSync, GetItem, Get, Goto, storeVars, CallInv, CallsOK, TypeOK, QueueTypeOK,
      Call!ControlPoints
<1>2. ASSUME NEW w \in Workers, AfterSync(w)
      PROVE  CallInv'
  BY <1>2
  DEF AfterSync, Requeue, ForgetItem, DoneItem, Goto, storeVars, CallInv, CallsOK, TypeOK, callVars
<1>3. ASSUME NEW w \in Workers, LookupPod(w)
      PROVE  CallInv'
  <2>. USE <1>3 DEF LookupPod, Lookup, Goto, storeVars, queueVars, TypeOK
  <2>1. CASE pc'[w] = "sync"
    BY <2>1 DEF CallInv, CallsOK, callVars
  <2>2. CASE pc'[w] # "sync"
    <3>1. /\ pc' = [pc EXCEPT ![w] = "forget"] /\ item' = item
          /\ at' = [at EXCEPT ![w] = "idle"] /\ pod' = [pod EXCEPT ![w] = NoPod]
      BY <2>2 DEF Call!Finish, Call!Goto
    <3>2. UNCHANGED <<shuttingDown, store, revision>>
      OBVIOUS
    <3>. QED
      BY <3>1, <3>2, PodControllerAssumption DEF CallInv, CallsOK, Call!ControlPoints
  <2>. QED  BY <2>1, <2>2
<1>4. ASSUME NEW w \in Workers, GoOn(w)
      PROVE  CallInv'
  <2>1. Moves(w)
    BY <1>4, CallMoves DEF GoOn
  <2>2. UNCHANGED <<queueVars, storeVars, item>>
    BY <1>4 DEF GoOn, SyncOk, vars, workerVars
  <2>3. \/ at'[w] = "idle" /\ pc' = [pc EXCEPT ![w] = "forget"]
        \/ at'[w] # "idle" /\ pc' = pc
    BY <1>4 DEF GoOn, SyncOk, vars, workerVars, Goto, TypeOK
  <2>4. at' \in [Workers -> Call!ControlPoints] /\ pod' \in [Workers -> Pods \cup {NoPod}]
    BY <2>1 DEF Moves, CallInv, Call!ControlPoints
  <2>5. CallsOK'
    BY <1>4, <2>1, <2>2, <2>3 DEF GoOn, Moves, CallInv, CallsOK, TypeOK
  <2>6. \A v \in Workers : pod'[v] \in Pods <=> at'[v] # "idle"
    BY <1>4, <2>1, PodControllerAssumption DEF GoOn, Moves, CallInv, CallsOK, TypeOK
  <2>. QED
    BY <2>2, <2>4, <2>5, <2>6 DEF CallInv, queueVars, storeVars
<1>5. ASSUME NEW w \in Workers, Answer(w)
      PROVE  CallInv'
  <2>1. Moves(w) /\ at'[w] # "idle"
    BY <1>5, CallMoves
    DEF Answer, Call!GoliveStep, Call!Accept, Call!Refuse, Call!LoseConnection, Call!Hang, Call!Abandon,
        Call!Goto, CallInv
  <2>. QED
    BY <1>5, <2>1
    DEF Answer, Moves, CallInv, CallsOK, TypeOK, vars, queueVars, storeVars, workerVars
<1>6. ASSUME NEW w \in Workers, SyncFails(w)
      PROVE  CallInv'
  BY <1>6, PodControllerAssumption
  DEF SyncFails, SyncError, Goto, storeVars, queueVars, CallInv, CallsOK, TypeOK,
      Call!Finish, Call!Goto, Call!ControlPoints
<1>7. CASE Apart \/ UNCHANGED agentVars
  BY <1>7 DEF Apart, agentVars, callVars, vars, queueVars, storeVars, workerVars, CallInv, CallsOK
<1>. QED
  BY <1>1, <1>2, <1>3, <1>4, <1>5, <1>6, <1>7, AroundKeepsCallInv DEF AgentNext, WorkerRuns

LEMMA AgentInvariance == AgentSpec => [](Exclusive /\ CallInv)
<1>1. AgentInit => CallInv
  BY PodControllerAssumption
  DEF AgentInit, Init, QueueInit, Call!Init, CallInv, CallsOK, Call!ControlPoints
<1>2. TypeOK /\ CallInv /\ [AgentNext]_agentVars => CallInv'
  BY CallInvStep
<1>3. Exclusive => TypeOK
  BY DEF Exclusive
<1>. QED
  BY <1>1, <1>2, <1>3, ImplementsPodController, ExclusiveInvariance, PTL DEF AgentSpec
-----------------------------------------------------------------------------
(* The set of due pods *)

\* A notification will add the key of p.
Notified(p) == \E i \in DOMAIN events : events[i].pod = p /\ events[i].rev \in Selected[p]

\* A worker will, after a delay.
Failed(p) == \E w \in Workers : pc[w] = "requeue" /\ item[w] = p

LEMMA DueMembers ==
  ASSUME NEW p \in Pods
  PROVE  p \in Due <=> Notified(p) \/ p \in dirty \cup waiting \/ Failed(p)
BY DEF Due, Notified, Failed

LEMMA DueMembersNext ==
  ASSUME NEW p \in Pods
  PROVE  p \in Due' <=> Notified(p)' \/ p \in dirty' \cup waiting' \/ Failed(p)'
BY DEF Due, Notified, Failed

LEMMA DueIsPods == Due \subseteq Pods /\ Due' \subseteq Pods
BY DEF Due

\* Nothing but a notification of p, the key of p or a worker that holds p can
\* make p due, or no longer due.
LEMMA SameDue ==
  ASSUME \A p \in Pods :
             Notified(p)' \/ p \in dirty' \cup waiting' \/ Failed(p)'
             <=> Notified(p) \/ p \in dirty \cup waiting \/ Failed(p)
  PROVE  Due' = Due
BY DueMembers, DueMembersNext, DueIsPods

LEMMA NotifyNotifies ==
  ASSUME TypeOK, NEW p \in Pods, NEW r \in Nat, Notify(p, r), NEW q \in Pods
  PROVE  Notified(q)' <=> Notified(q) \/ (q = p /\ r \in Selected[p])
<1>. DEFINE e == [pod |-> p, rev |-> r]
<1>1. events \in Seq(Event) /\ e \in Event
  BY DEF TypeOK, Event
<1>2. events' = Append(events, e)
  BY DEF Notify
<1>3. /\ DOMAIN events = 1..Len(events) /\ Len(events) \in Nat
      /\ DOMAIN events' = 1..(Len(events) + 1)
      /\ events'[Len(events) + 1] = e
      /\ \A i \in 1..Len(events) : events'[i] = events[i]
  BY <1>1, <1>2
<1>4. Notified(q) => Notified(q)'
  BY <1>3 DEF Notified
<1>5. ASSUME q = p, r \in Selected[p]
      PROVE  Notified(q)'
  BY <1>3, <1>5 DEF Notified
<1>6. ASSUME Notified(q)'
      PROVE  Notified(q) \/ (q = p /\ r \in Selected[p])
  <2>1. PICK i \in DOMAIN events' : events'[i].pod = q /\ events'[i].rev \in Selected[q]
    BY <1>6 DEF Notified
  <2>2. CASE i = Len(events) + 1
    BY <1>3, <2>1, <2>2
  <2>3. CASE i \in 1..Len(events)
    BY <1>3, <2>1, <2>3 DEF Notified
  <2>. QED  BY <1>3, <2>2, <2>3
<1>. QED  BY <1>4, <1>5, <1>6

\* A pod in the store matches if a handler listens to it.
LEMMA Matches ==
  ASSUME TypeOK, CallInv, NEW p \in Pods
  PROVE  /\ Life[p] = "live" <=> store[p] # 0
         /\ store[p] \in Selected[p] <=> Life[p] = "live" /\ HandlersFor[p] # << >>
<1>1. Selected[p] = IF HandlersFor[p] # << >> THEN 1..MaxRevision ELSE {}
  BY AgentAssumption
<1>. QED  BY <1>1, PodControllerAssumption DEF CallInv, Life, TypeOK

-----------------------------------------------------------------------------
(* Each step is one of PodSync, or changes nothing there *)

LEMMA StoreUpdateStep ==
  ASSUME TypeOK, CallInv, NEW p \in Pods, StoreUpdate(p), UNCHANGED <<callVars, sharedVars>>
  PROVE  [Syncs!Next]_Syncs!vars
<1>1. Life' = [Life EXCEPT ![p] = "live"]
  <2>1. store' = [store EXCEPT ![p] = revision[p] + 1] /\ revision[p] + 1 # 0
    BY PodControllerAssumption DEF StoreUpdate, TypeOK
  <2>2. revision' = [revision EXCEPT ![p] = revision[p] + 1]
    BY DEF StoreUpdate
  <2>. QED  BY <2>1, <2>2 DEF Life, TypeOK
<1>2. revision[p] + 1 \in Selected[p] <=> HandlersFor[p] # << >>
  BY AgentAssumption, PodControllerAssumption DEF StoreUpdate, CallInv
<1>3. \A q \in Pods :
        /\ Notified(q)' <=> Notified(q) \/ (q = p /\ HandlersFor[p] # << >>)
        /\ q \in dirty' \cup waiting' <=> q \in dirty \cup waiting
        /\ Failed(q)' <=> Failed(q)
  BY <1>2, NotifyNotifies DEF StoreUpdate, TypeOK, queueVars, workerVars, Failed
<1>4. Due' = IF HandlersFor[p] # << >> THEN Due \cup {p} ELSE Due
  BY <1>3, DueMembers, DueMembersNext, DueIsPods
<1>5. CASE Life[p] # "live"
  BY <1>1, <1>4, <1>5
  DEF Syncs!Next, Syncs!PodAdded, Syncs!workerVars, Syncs!goliveVars, callVars, sharedVars
<1>6. CASE Life[p] = "live"
  <2>1. Life' = Life
    BY <1>1, <1>6 DEF Life
  <2>2. CASE HandlersFor[p] # << >>
    BY <1>4, <1>6, <2>1, <2>2
    DEF Syncs!Next, Syncs!PodUpdated, Syncs!Requeue, Syncs!clusterVars, Syncs!workerVars,
        Syncs!goliveVars, callVars, sharedVars
  <2>3. CASE HandlersFor[p] = << >>
    BY <1>4, <2>1, <2>3
    DEF Syncs!vars, Syncs!clusterVars, Syncs!workerVars, Syncs!goliveVars, callVars, sharedVars
  <2>. QED  BY <2>2, <2>3
<1>. QED  BY <1>5, <1>6

LEMMA StoreDeleteStep ==
  ASSUME TypeOK, CallInv, NEW p \in Pods, StoreDelete(p), UNCHANGED <<callVars, sharedVars>>
  PROVE  [Syncs!Next]_Syncs!vars
<1>1. Life[p] = "live"
  BY DEF StoreDelete, Life
<1>2. Life' = [Life EXCEPT ![p] = "gone"]
  <2>1. store' = [store EXCEPT ![p] = 0] /\ revision' = revision /\ revision[p] # 0
    BY DEF StoreDelete, TypeOK, CallInv
  <2>. QED  BY <2>1 DEF Life, TypeOK
<1>3. Due' = Due
  BY SameDue DEF StoreDelete, queueVars, workerVars, Notified, Failed
<1>. QED
  BY <1>1, <1>2, <1>3
  DEF Syncs!Next, Syncs!PodGone, Syncs!workerVars, Syncs!goliveVars, callVars, sharedVars

LEMMA ResyncStep ==
  ASSUME TypeOK, CallInv, NEW p \in Pods, Resync(p), UNCHANGED <<callVars, sharedVars>>
  PROVE  [Syncs!Next]_Syncs!vars
<1>1. Life' = Life
  BY DEF Resync, Life
<1>2. /\ Life[p] = "live"
      /\ store[p] \in Selected[p] <=> HandlersFor[p] # << >>
  BY Matches DEF Resync
<1>3. \A q \in Pods :
        /\ Notified(q)' <=> Notified(q) \/ (q = p /\ HandlersFor[p] # << >>)
        /\ q \in dirty' \cup waiting' <=> q \in dirty \cup waiting
        /\ Failed(q)' <=> Failed(q)
  BY <1>2, NotifyNotifies DEF Resync, TypeOK, queueVars, workerVars, Failed
<1>4. Due' = IF HandlersFor[p] # << >> THEN Due \cup {p} ELSE Due
  BY <1>3, DueMembers, DueMembersNext, DueIsPods
<1>5. CASE HandlersFor[p] # << >>
  BY <1>1, <1>2, <1>4, <1>5
  DEF Resync, Syncs!Next, Syncs!Resync, Syncs!Requeue, Syncs!clusterVars, Syncs!workerVars,
      Syncs!goliveVars, callVars, sharedVars
<1>6. CASE HandlersFor[p] = << >>
  BY <1>1, <1>4, <1>6
  DEF Syncs!vars, Syncs!clusterVars, Syncs!workerVars, Syncs!goliveVars, callVars, sharedVars
<1>. QED  BY <1>5, <1>6

\* Add makes its key dirty, as long as the queue is not told to stop.
LEMMA AddMakesDirty ==
  ASSUME CallInv, NEW k \in Pods, Add(k)
  PROVE  dirty' = dirty \cup {k}
BY DEF CallInv, Add

LEMMA EnqueueKeepsDue ==
  ASSUME TypeOK, CallInv, EnqueuePod
  PROVE  Due' = Due
<1>. DEFINE e == Head(events)
<1>1. /\ events \in Seq(Event) /\ Len(events) \in Nat \ {0}
      /\ e = events[1] /\ e \in Event /\ e.pod \in Pods
  <2>1. events \in Seq(Event) /\ events # << >>
    BY DEF EnqueuePod, TypeOK
  <2>2. Len(events) \in Nat \ {0} /\ e = events[1] /\ e \in Event
    BY <2>1
  <2>. QED  BY <2>1, <2>2 DEF Event
<1>2. /\ DOMAIN events = 1..Len(events)
      /\ DOMAIN events' = 1..(Len(events) - 1)
      /\ \A i \in 1..(Len(events) - 1) : events'[i] = events[i + 1]
  BY <1>1 DEF EnqueuePod
<1>3. \A q \in Pods :
        Notified(q) <=> Notified(q)' \/ (q = e.pod /\ e.rev \in Selected[q])
  <2>1. ASSUME NEW q \in Pods, Notified(q)
        PROVE  Notified(q)' \/ (q = e.pod /\ e.rev \in Selected[q])
    <3>1. PICK i \in DOMAIN events : events[i].pod = q /\ events[i].rev \in Selected[q]
      BY <2>1 DEF Notified
    <3>2. CASE i = 1
      BY <1>1, <3>1, <3>2
    <3>3. CASE i # 1
      <4>1. i - 1 \in DOMAIN events' /\ events'[i - 1] = events[i]
        BY <1>1, <1>2, <3>3
      <4>. QED  BY <3>1, <4>1 DEF Notified
    <3>. QED  BY <3>2, <3>3
  <2>2. ASSUME NEW q \in Pods, Notified(q)'
        PROVE  Notified(q)
    <3>1. PICK i \in DOMAIN events' : events'[i].pod = q /\ events'[i].rev \in Selected[q]
      BY <2>2 DEF Notified
    <3>2. i + 1 \in DOMAIN events /\ events[i + 1] = events'[i]
      BY <1>1, <1>2
    <3>. QED  BY <3>1, <3>2 DEF Notified
  <2>3. ASSUME NEW q \in Pods, q = e.pod, e.rev \in Selected[q]
        PROVE  Notified(q)
    BY <1>1, <1>2, <2>3 DEF Notified
  <2>. QED  BY <2>1, <2>2, <2>3
<1>4. dirty' = IF e.rev \in Selected[e.pod] THEN dirty \cup {e.pod} ELSE dirty
  BY <1>1, AddMakesDirty DEF EnqueuePod
<1>5. waiting' = waiting /\ \A q \in Pods : Failed(q)' <=> Failed(q)
  BY DEF EnqueuePod, workerVars, Failed
<1>. HIDE DEF e
<1>. QED  BY <1>3, <1>4, <1>5, SameDue

\* The steps of the informer and of the queue, and the starts of the workers.
LEMMA AroundStep ==
  ASSUME TypeOK, CallInv, Around
  PROVE  [Syncs!Next]_Syncs!vars
<1>1. UNCHANGED <<callVars, sharedVars>>
  BY DEF Around, NoCall
<1>2. ASSUME Life' = Life, Due' = Due
      PROVE  UNCHANGED Syncs!vars
  BY <1>1, <1>2
  DEF callVars, sharedVars, Syncs!vars, Syncs!clusterVars, Syncs!workerVars, Syncs!goliveVars
<1>3. ASSUME NEW p \in Pods, StoreUpdate(p) \/ StoreDelete(p) \/ Resync(p)
      PROVE  [Syncs!Next]_Syncs!vars
  BY <1>1, <1>3, StoreUpdateStep, StoreDeleteStep, ResyncStep
<1>4. ASSUME NEW p \in Pods, Readd(p)
      PROVE  UNCHANGED Syncs!vars
  <2>1. Life' = Life
    BY <1>4 DEF Readd, storeVars, Life
  <2>2. dirty' = dirty \cup {p} /\ waiting' = waiting \ {p} /\ p \in waiting
    BY <1>4, AddMakesDirty DEF Readd, DelayElapsed
  <2>3. \A q \in Pods : (Notified(q)' <=> Notified(q)) /\ (Failed(q)' <=> Failed(q))
    BY <1>4 DEF Readd, storeVars, workerVars, Notified, Failed
  <2>. QED  BY <1>2, <2>1, <2>2, <2>3, SameDue
<1>5. CASE EnqueuePod
  <2>1. Life' = Life
    BY <1>5 DEF EnqueuePod, Life
  <2>. QED  BY <1>2, <1>5, <2>1, EnqueueKeepsDue
<1>6. CASE StartWorkers \/ \E w \in Workers : BeginWorker(w)
  <2>1. Life' = Life
    BY <1>6 DEF StartWorkers, BeginWorker, storeVars, Life
  <2>2. \A p \in Pods : Failed(p)' <=> Failed(p)
    BY <1>6 DEF StartWorkers, BeginWorker, Goto, TypeOK, Failed
  <2>3. /\ UNCHANGED <<dirty, waiting>>
        /\ \A p \in Pods : Notified(p)' <=> Notified(p)
    BY <1>6 DEF StartWorkers, BeginWorker, queueVars, storeVars, Notified
  <2>. QED  BY <1>2, <2>1, <2>2, <2>3, SameDue
<1>. QED  BY <1>3, <1>4, <1>5, <1>6 DEF Around, InformerNext

\* The owners' informers and the cache do not know of the queue.
LEMMA ApartStep ==
  ASSUME Apart
  PROVE  [Syncs!Next]_Syncs!vars
<1>1. Due' = Due
  BY DEF Apart, vars, queueVars, storeVars, workerVars, Due
<1>2. ASSUME NEW o \in Owners, Call!OwnerChanged(o)
      PROVE  Syncs!Next
  BY <1>1, <1>2
  DEF Call!OwnerChanged, Call!workerVars, Call!goliveVars, Syncs!Next, Syncs!OwnerChanged,
      Syncs!workerVars, Syncs!goliveVars
<1>3. ASSUME NEW e \in Envs, Call!Expire(e)
      PROVE  Syncs!Next
  BY <1>1, <1>3
  DEF Call!Expire, Call!clusterVars, Call!workerVars, Call!goliveVars, Syncs!Next, Syncs!Expire,
      Syncs!clusterVars, Syncs!workerVars, Syncs!goliveVars
<1>4. ASSUME NEW e \in Envs, Call!LateArrival(e)
      PROVE  Syncs!Next
  BY <1>1, <1>4
  DEF Call!LateArrival, Call!clusterVars, Call!workerVars, Syncs!Next, Syncs!LateArrival,
      Syncs!clusterVars, Syncs!workerVars
<1>. QED  BY <1>2, <1>3, <1>4 DEF Apart

\* The key at the head of the queue is due, and no call of sync has it.
LEMMA CallSyncStep ==
  ASSUME Exclusive, CallInv, NEW w \in Workers, CallSync(w)
  PROVE  Syncs!Next
<1>. DEFINE p == Head(queue)
<1>1. /\ queue \in Seq(Pods) /\ queue # << >> /\ p = queue[1] /\ 1 \in DOMAIN queue
      /\ p \in Pods
  <2>1. queue \in Seq(Pods) /\ queue # << >>
    BY DEF CallSync, GetItem, Get, Exclusive, TypeOK, QueueTypeOK
  <2>. QED  BY <2>1
<1>2. p \in dirty /\ p \notin processing
  BY <1>1 DEF Exclusive, QueueInv
<1>. HIDE DEF p
<1>3. /\ pc[w] = "get" /\ dirty' = dirty \ {p} /\ waiting' = waiting
      /\ item' = [item EXCEPT ![w] = p] /\ pc' = [pc EXCEPT ![w] = "lookup"]
      /\ UNCHANGED storeVars
  BY DEF CallSync, GetItem, Get, Goto, p
<1>4. at[w] = "idle" /\ \A v \in Workers : pod[v] # p
  <2>1. ASSUME NEW v \in Workers, pod[v] = p
        PROVE  FALSE
    <3>1. CASE at[v] = "idle"
      BY <1>1, <2>1, <3>1 DEF CallInv, CallsOK
    <3>2. CASE at[v] # "idle"
      <4>1. pc[v] \in Busy /\ item[v] = p
        BY <2>1, <3>2 DEF CallInv, CallsOK, Busy
      <4>. QED  BY <1>2, <4>1 DEF Exclusive, HoldInv
    <3>. QED  BY <3>1, <3>2
  <2>. QED  BY <1>3, <2>1 DEF CallInv, CallsOK
<1>5. p \in Due /\ Due' \in {Due, Due \ {p}}
  <2>1. p \in Due
    BY <1>1, <1>2, DueMembers
  <2>2. \A q \in Pods :
          /\ Notified(q)' <=> Notified(q)
          /\ Failed(q)' <=> Failed(q)
    BY <1>3 DEF storeVars, Notified, Failed, Exclusive, TypeOK
  <2>3. \A q \in Pods : q # p => (q \in Due' <=> q \in Due)
    BY <1>3, <2>2, DueMembers, DueMembersNext
  <2>. QED  BY <2>1, <2>3, DueIsPods
<1>6. Life' = Life
  BY <1>3 DEF storeVars, Life
<1>7. at' = [at EXCEPT ![w] = "find"] /\ pod' = [pod EXCEPT ![w] = p]
  BY <1>3 DEF CallSync, Exclusive, TypeOK
<1>. QED
  BY <1>1, <1>4, <1>5, <1>6, <1>7
  DEF CallSync, sharedVars, Syncs!Next, Syncs!StartSync, Syncs!Goto, Syncs!clusterVars,
      Syncs!goliveVars

\* processNextPod adds a failed key again, and is done with the others.
LEMMA AfterSyncStep ==
  ASSUME TypeOK, CallInv, NEW w \in Workers, AfterSync(w)
  PROVE  UNCHANGED Syncs!vars
<1>1. UNCHANGED <<storeVars, callVars, sharedVars>>
  BY DEF AfterSync, Requeue, ForgetItem, DoneItem
<1>2. Life' = Life
  BY <1>1 DEF storeVars, Life
<1>3. \A p \in Pods : Notified(p)' <=> Notified(p)
  BY <1>1 DEF storeVars, Notified
<1>4. Due' = Due
  <2>1. CASE Requeue(w)
    <3>1. /\ item[w] \in Pods /\ dirty' = dirty /\ waiting' = waiting \cup {item[w]}
          /\ pc[w] = "requeue" /\ pc' = [pc EXCEPT ![w] = "done"] /\ item' = item
      BY <2>1 DEF Requeue, AddRateLimited, Goto, TypeOK, Busy, CallInv
    <3>2. \A p \in Pods : Failed(p) <=> Failed(p)' \/ p = item[w]
      BY <3>1 DEF Failed, TypeOK
    <3>. QED  BY <1>3, <3>1, <3>2, SameDue
  <2>2. CASE ForgetItem(w) \/ DoneItem(w)
    <3>1. UNCHANGED <<dirty, waiting>>
      BY <2>2 DEF ForgetItem, DoneItem
    <3>2. \A p \in Pods : Failed(p)' <=> Failed(p)
      BY <2>2 DEF ForgetItem, DoneItem, Goto, Failed, TypeOK
    <3>. QED  BY <1>3, <3>1, <3>2, SameDue
  <2>. QED  BY <2>1, <2>2 DEF AfterSync
<1>. QED
  BY <1>1, <1>2, <1>4
  DEF callVars, sharedVars, Syncs!vars, Syncs!clusterVars, Syncs!workerVars, Syncs!goliveVars

\* A step that leaves the queue and the store alone, and w in a control point
\* from which its key is not queued again, leaves the due pods alone.
LEMMA QueueUntouched ==
  ASSUME TypeOK, NEW w \in Workers, pc[w] # "requeue",
         \/ pc' = pc
         \/ pc' = [pc EXCEPT ![w] = "sync"]
         \/ pc' = [pc EXCEPT ![w] = "forget"],
         UNCHANGED <<queueVars, storeVars, item>>
  PROVE  Life' = Life /\ Due' = Due
<1>1. Life' = Life
  BY DEF storeVars, Life
<1>2. \A p \in Pods : (Notified(p)' <=> Notified(p)) /\ (Failed(p)' <=> Failed(p))
  BY DEF storeVars, Notified, Failed, TypeOK
<1>. QED  BY <1>1, <1>2, SameDue DEF queueVars

LEMMA LookupPodStep ==
  ASSUME TypeOK, CallInv, NEW w \in Workers, LookupPod(w)
  PROVE  [Syncs!Next]_Syncs!vars
<1>1. Life' = Life /\ Due' = Due
  BY QueueUntouched DEF LookupPod, Lookup, Goto
<1>2. CASE pc'[w] = "sync"
  BY <1>1, <1>2
  DEF LookupPod, callVars, sharedVars, Syncs!vars, Syncs!clusterVars, Syncs!workerVars,
      Syncs!goliveVars
<1>3. CASE pc'[w] # "sync"
  <2>1. pc[w] = "lookup" /\ store[item[w]] \notin Selected[item[w]]
    BY <1>3 DEF LookupPod, Lookup, Goto, TypeOK
  <2>2. at[w] = "find" /\ pod[w] = item[w] /\ item[w] \in Pods
    BY <2>1 DEF CallInv, CallsOK, TypeOK, Busy
  <2>3. Life[pod[w]] # "live" \/ HandlersFor[pod[w]] = << >>
    BY <2>1, <2>2, Matches
  <2>4. Syncs!NothingToDo(w)
    BY <1>1, <1>3, <2>2, <2>3
    DEF LookupPod, Call!Finish, Call!Goto, sharedVars, Syncs!NothingToDo, Syncs!Finish,
        Syncs!Goto, Syncs!clusterVars, Syncs!goliveVars
  <2>. QED  BY <2>4 DEF Syncs!Next, Syncs!WorkerStep, Syncs!SyncStep
<1>. QED  BY <1>2, <1>3

\* Inside a call the steps are those of PodSync, which leave the queue alone.
LEMMA GoOnStep ==
  ASSUME TypeOK, NEW w \in Workers, GoOn(w)
  PROVE  Syncs!Next
<1>1. Life' = Life /\ Due' = Due
  BY QueueUntouched DEF GoOn, SyncOk, Goto, vars, workerVars
<1>. USE <1>1
     DEF Call!Goto, Syncs!Goto, Call!Finish, Syncs!Finish, Call!NextHandler, Syncs!NextHandler,
         Call!Env, Syncs!Env, Call!PayloadOf, Syncs!PayloadOf,
         Call!clusterVars, Syncs!clusterVars, Call!goliveVars, Syncs!goliveVars
<1>2. Call!FindOwner(w) => Syncs!FindOwner(w)
  BY DEF Call!FindOwner, Syncs!FindOwner
<1>3. Call!NothingToDo(w) => Syncs!NothingToDo(w)
  BY DEF Call!NothingToDo, Syncs!NothingToDo
<1>4. Call!GetNamespace(w) => Syncs!GetNamespace(w)
  BY DEF Call!GetNamespace, Syncs!GetNamespace, Call!ToRun, Syncs!ToRun
<1>5. Call!HandleStep(w) => Syncs!HandleStep(w)
  BY DEF Call!HandleStep, Syncs!HandleStep, Call!ExtractionFails, Syncs!ExtractionFails,
         Call!UpToDate, Syncs!UpToDate, Call!Send, Syncs!Send, Call!PostOk, Syncs!PostOk,
         Call!PostRefused, Syncs!PostRefused, Call!PostFailed, Syncs!PostFailed
<1>. QED
  BY <1>2, <1>3, <1>4, <1>5 DEF GoOn, Syncs!Next, Syncs!WorkerStep, Syncs!SyncStep

LEMMA AnswerStep ==
  ASSUME TypeOK, NEW w \in Workers, Answer(w)
  PROVE  Syncs!Next
<1>1. Life' = Life /\ Due' = Due
  BY QueueUntouched DEF Answer, vars, workerVars
<1>2. Syncs!GoliveStep(w)
  BY <1>1
  DEF Answer, Call!GoliveStep, Syncs!GoliveStep, Call!Accept, Syncs!Accept, Call!Refuse,
      Syncs!Refuse, Call!LoseConnection, Syncs!LoseConnection, Call!Hang, Syncs!Hang, Call!Abandon,
      Syncs!Abandon, Call!Fault, Syncs!Fault, Call!Goto, Syncs!Goto, Call!Env, Syncs!Env, Call!PayloadOf, Syncs!PayloadOf,
      Call!clusterVars, Syncs!clusterVars, Call!goliveVars, Syncs!goliveVars
<1>. QED  BY <1>2 DEF Syncs!Next, Syncs!WorkerStep

\* The key of a sync that fails is due again from then on.
LEMMA SyncFailsStep ==
  ASSUME TypeOK, CallInv, NEW w \in Workers, SyncFails(w)
  PROVE  Syncs!Next
<1>1. /\ pc[w] = "sync" /\ pc' = [pc EXCEPT ![w] = "requeue"]
      /\ item[w] = pod[w] /\ pod[w] \in Pods
      /\ UNCHANGED <<queueVars, storeVars, item>>
  BY DEF SyncFails, SyncError, Goto, CallInv, CallsOK
<1>2. Life' = Life
  BY <1>1 DEF storeVars, Life
<1>3. \A p \in Pods :
        /\ Notified(p)' <=> Notified(p)
        /\ Failed(p)' <=> Failed(p) \/ p = pod[w]
  BY <1>1 DEF storeVars, Notified, Failed, TypeOK
<1>4. Due' = Due \cup {pod[w]}
  BY <1>1, <1>3, DueMembers, DueMembersNext, DueIsPods DEF queueVars
<1>5. Syncs!NamespaceError(w)
  BY <1>2, <1>4
  DEF SyncFails, Call!Finish, Call!Goto, sharedVars, Syncs!NamespaceError, Syncs!Finish,
      Syncs!Goto, Syncs!clusterVars, Syncs!goliveVars
<1>. QED  BY <1>5 DEF Syncs!Next, Syncs!WorkerStep, Syncs!SyncStep

\* Queue, notifications, delays and workers together do what PodSync takes for
\* granted: a due pod goes to one worker at a time, and is not forgotten.
THEOREM AgentImplementsPodSync == AgentSpec => ImplementsPodSync
<1>1. AgentInit => Syncs!Init
  <2>1. ASSUME AgentInit
        PROVE  Life = [p \in Pods |-> "new"] /\ Due = {}
    BY <2>1 DEF AgentInit, Init, QueueInit, Life, Due
  <2>. QED  BY <2>1 DEF AgentInit, Call!Init, Syncs!Init
<1>2. Exclusive /\ CallInv /\ [AgentNext]_agentVars => [Syncs!Next]_Syncs!vars
  <2>. SUFFICES ASSUME Exclusive, CallInv, [AgentNext]_agentVars
                PROVE  [Syncs!Next]_Syncs!vars
    OBVIOUS
  <2>1. TypeOK
    BY DEF Exclusive
  <2>2. CASE Around \/ Apart
    BY <2>1, <2>2, AroundStep, ApartStep
  <2>3. ASSUME NEW w \in Workers, CallSync(w) \/ WorkerRuns(w)
        PROVE  [Syncs!Next]_Syncs!vars
    BY <2>1, <2>3, CallSyncStep, LookupPodStep, GoOnStep, AnswerStep, SyncFailsStep, AfterSyncStep
    DEF WorkerRuns
  <2>4. CASE UNCHANGED agentVars
    BY <2>4
    DEF agentVars, vars, queueVars, storeVars, workerVars, callVars, sharedVars, Life, Due,
        Syncs!vars, Syncs!clusterVars, Syncs!workerVars, Syncs!goliveVars
  <2>. QED  BY <2>2, <2>3, <2>4 DEF AgentNext
<1>. QED
  BY <1>1, <1>2, AgentInvariance, PTL DEF AgentSpec, Syncs!Spec, ImplementsPodSync
-----------------------------------------------------------------------------
(* What PodSync promises, of the agent *)

LEMMA SpecsAgree == Syncs!Spec => P!Spec
<1>1. Syncs!Init => P!Init
  BY DEF Syncs!Init, P!Init
<1>2. [Syncs!Next]_Syncs!vars => [P!Next]_P!vars
  BY DEF Syncs!Next, P!Next, Syncs!vars, P!vars, Syncs!clusterVars, P!clusterVars, Syncs!workerVars,
         P!workerVars, Syncs!goliveVars, P!goliveVars, Syncs!PodAdded, P!PodAdded, Syncs!PodGone,
         P!PodGone, Syncs!PodUpdated, P!PodUpdated, Syncs!Resync, P!Resync, Syncs!Requeue,
         P!Requeue, Syncs!OwnerChanged, P!OwnerChanged, Syncs!OwnerListed, P!OwnerListed, Syncs!StartSync, P!StartSync,
         Syncs!WorkerStep, P!WorkerStep, Syncs!SyncStep, P!SyncStep, Syncs!HandleStep, P!HandleStep,
         Syncs!GoliveStep, P!GoliveStep, Syncs!FindOwner, P!FindOwner, Syncs!NothingToDo,
         P!NothingToDo, Syncs!GetNamespace, P!GetNamespace, Syncs!NamespaceError, P!NamespaceError,
         Syncs!ExtractionFails, P!ExtractionFails, Syncs!UpToDate, P!UpToDate, Syncs!Send, P!Send,
         Syncs!PostOk, P!PostOk, Syncs!PostRefused, P!PostRefused, Syncs!PostFailed, P!PostFailed,
         Syncs!Accept, P!Accept, Syncs!Refuse, P!Refuse, Syncs!LoseConnection, P!LoseConnection,
         Syncs!Hang, P!Hang, Syncs!Abandon, P!Abandon, Syncs!Expire, P!Expire, Syncs!LateArrival, P!LateArrival,
         Syncs!Restart, P!Restart, Syncs!Fault, P!Fault, Syncs!OnTheWay, P!OnTheWay, Syncs!Env,
         P!Env, Syncs!PayloadOf, P!PayloadOf, Syncs!ToRun, P!ToRun, Syncs!Goto, P!Goto,
         Syncs!Finish, P!Finish, Syncs!NextHandler, P!NextHandler
<1>. QED  BY <1>1, <1>2, PTL DEF Syncs!Spec, P!Spec

\* The frames of the calls keep their types and belong to the workers that hold
\* their keys, in every state of the agent.
THEOREM AgentTypeCorrect == AgentSpec => []AgentTypeOK
<1>1. P!Spec => []P!TypeOK
  BY P!TypeCorrect, PodSyncAssumptions
<1>2. P!TypeOK => Syncs!TypeOK
  BY DEF P!TypeOK, Syncs!TypeOK, P!WorkersOK, Syncs!WorkersOK, P!WorldOK, Syncs!WorldOK,
         P!ControlPoints, Syncs!ControlPoints, P!Handling, Syncs!Handling, P!Pushing,
         Syncs!Pushing, P!Payload, Syncs!Payload
<1>3. Exclusive /\ CallInv /\ Syncs!TypeOK => AgentTypeOK
  BY DEF Exclusive, CallInv, AgentTypeOK
<1>. QED
  BY <1>1, <1>2, <1>3, AgentInvariance, AgentImplementsPodSync, SpecsAgree, PTL
  DEF ImplementsPodSync

\* What the cache of the running agent remembers is backed by a push.
THEOREM AgentEntriesAreBacked == AgentSpec => []Syncs!EntryIsBacked
<1>1. P!Spec => []P!EntryIsBacked
  BY P!EntriesAreBacked, PodSyncAssumptions
<1>2. P!EntryIsBacked => Syncs!EntryIsBacked
  BY DEF P!EntryIsBacked, Syncs!EntryIsBacked, P!InFlight, Syncs!InFlight, P!PayloadOf,
         Syncs!PayloadOf, P!Pushing, Syncs!Pushing, P!Env, Syncs!Env
<1>. QED
  BY <1>1, <1>2, AgentImplementsPodSync, SpecsAgree, PTL DEF ImplementsPodSync

\* With the real queue, too, what the cache of the running agent remembers for
\* an environment with one source is what Golive shows, unless its push ended
\* without an answer or Golive has just applied a request that was given up.
THEOREM AgentCacheAgrees == AgentSpec => []Syncs!CachedIsPublished
<1>1. P!Spec => []P!CachedIsPublished
  BY P!CacheAgrees, PodSyncAssumptions
<1>2. P!CachedIsPublished => Syncs!CachedIsPublished
  BY DEF P!CachedIsPublished, Syncs!CachedIsPublished, P!InFlight, Syncs!InFlight, P!Pushing,
         Syncs!Pushing, P!Env, Syncs!Env, P!OneSource, Syncs!OneSource, P!Sources, Syncs!Sources,
         P!ToRun, Syncs!ToRun
<1>. QED
  BY <1>1, <1>2, AgentImplementsPodSync, SpecsAgree, PTL DEF ImplementsPodSync

\* And such an environment never goes back to an older version of its owner, but
\* for the requests that were given up.
THEOREM AgentNeverGoesBack == AgentSpec => Syncs!PublishedNeverGoesBack
<1>1. P!Spec => P!PublishedNeverGoesBack
  BY P!NeverGoesBack, PodSyncAssumptions
<1>2. P!PublishedNeverGoesBack => Syncs!PublishedNeverGoesBack
  BY DEF P!PublishedNeverGoesBack, Syncs!PublishedNeverGoesBack, P!OneSource, Syncs!OneSource,
         P!Sources, Syncs!Sources, P!ToRun, Syncs!ToRun, P!vars, Syncs!vars, P!clusterVars,
         Syncs!clusterVars, P!workerVars, Syncs!workerVars, P!goliveVars, Syncs!goliveVars
<1>. QED
  BY <1>1, <1>2, AgentImplementsPodSync, SpecsAgree, PTL DEF ImplementsPodSync
=============================================================================
