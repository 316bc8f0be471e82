--------------------------- MODULE PodSyncProofs ---------------------------
(***************************************************************************)
(* Proofs about PodSync, for any number of workers, pods, owners,          *)
(* listeners, environments and faults.                                     *)
(***************************************************************************)
EXTENDS PodSync, TLAPS

\* NextHandler leaves the worker idle, or at its next handler.
LEMMA NextHandlerType ==
  ASSUME TypeOK, NEW w \in Workers, pc[w] \in Handling, NextHandler(w)
  PROVE  /\ pc' \in [Workers -> ControlPoints]
         /\ pod' \in [Workers -> Pods \cup {NoPod}]
         /\ snap' \in [Workers -> Nat]
         /\ todo' \in [Workers -> Seq(Listeners)]
         /\ \A v \in Workers \ {w} :
               /\ pc'[v] = pc[v] /\ pod'[v] = pod[v]
               /\ snap'[v] = snap[v] /\ todo'[v] = todo[v]
         /\ \/ pc'[w] = "idle" /\ pod'[w] = NoPod /\ todo'[w] = << >>
            \/ /\ pc'[w] = "handle" /\ pod'[w] = pod[w] /\ snap'[w] = snap[w]
               /\ todo'[w] = Tail(todo[w]) /\ todo'[w] # << >>
<1>1. CASE Len(todo[w]) = 1 /\ Finish(w)
  BY <1>1 DEF Finish, Goto, TypeOK, WorkersOK, ControlPoints
<1>2. CASE /\ Len(todo[w]) > 1
           /\ todo' = [todo EXCEPT ![w] = Tail(todo[w])]
           /\ pc' = [pc EXCEPT ![w] = "handle"]
           /\ UNCHANGED <<pod, snap>>
  <2>1. todo[w] \in Seq(Listeners)
    BY DEF TypeOK, WorkersOK
  <2>2. todo[w] # << >>
    BY <1>2, <2>1
  <2>3. Tail(todo[w]) \in Seq(Listeners) /\ Len(Tail(todo[w])) = Len(todo[w]) - 1
    BY <2>1, <2>2
  <2>4. Len(Tail(todo[w])) # 0
    <3>1. Len(todo[w]) \in Nat /\ Len(todo[w]) > 1
      BY <1>2, <2>1
    <3>2. \A n \in Nat : n > 1 => n - 1 # 0
      OBVIOUS
    <3>. QED  BY <2>3, <3>1, <3>2, Zenon
  <2>5. Tail(todo[w]) # << >>
    <3>1. Len(<< >>) = 0
      OBVIOUS
    <3>. QED  BY <2>4, <3>1, Zenon
  <2>6. "handle" \in ControlPoints
    BY DEF ControlPoints, Handling
  <2>7. /\ pc \in [Workers -> ControlPoints] /\ todo \in [Workers -> Seq(Listeners)]
        /\ pod \in [Workers -> Pods \cup {NoPod}] /\ snap \in [Workers -> Nat]
    BY DEF TypeOK, WorkersOK
  <2>8. /\ pc' \in [Workers -> ControlPoints] /\ todo' \in [Workers -> Seq(Listeners)]
        /\ pc'[w] = "handle" /\ todo'[w] = Tail(todo[w])
        /\ \A v \in Workers \ {w} : pc'[v] = pc[v] /\ todo'[v] = todo[v]
    BY <1>2, <2>3, <2>6, <2>7
  <2>. QED  BY <1>2, <2>5, <2>7, <2>8
<1>. QED  BY <1>1, <1>2 DEF NextHandler, Goto

\* What a handling worker pushes, and where.
LEMMA PushType ==
  ASSUME TypeOK, NEW w \in Workers, pc[w] \in Handling
  PROVE  /\ pod[w] \in Pods /\ OwnerOf[pod[w]] \in Owners
         /\ Head(todo[w]) \in Listeners
         /\ Env(w) \in Envs \cup {NoEnv}
         /\ pc[w] \in Pushing => Env(w) \in Envs
         /\ PayloadOf(w) \in Payload
<1>1. pod[w] \in Pods /\ OwnerOf[pod[w]] \in Owners
  BY PodSyncAssumption DEF TypeOK, WorkersOK, Handling, Pushing
<1>2. todo[w] \in Seq(Listeners) /\ todo[w] # << >>
  BY DEF TypeOK, WorkersOK
<1>3. Head(todo[w]) \in Listeners
  BY <1>2
<1>4. Env(w) \in Envs \cup {NoEnv}
  BY <1>1, <1>3, PodSyncAssumption DEF Env
<1>5. snap[w] \in Nat
  BY DEF TypeOK, WorkersOK
<1>6. PayloadOf(w) \in Payload
  BY <1>1, <1>3, <1>5 DEF PayloadOf, Payload
<1>. QED  BY <1>1, <1>3, <1>4, <1>6 DEF TypeOK, WorkersOK, Env

LEMMA HandlersToRun ==
  ASSUME NEW p \in Pods, HandlersFor[p] # << >>
  PROVE  ToRun(p) \in Seq(Listeners) /\ ToRun(p) # << >>
<1>1. HandlersFor[p] \in Seq(Listeners)
  BY PodSyncAssumption
<1>2. Head(HandlersFor[p]) \in Listeners
  BY <1>1
<1>. QED  BY <1>1, <1>2 DEF ToRun

-----------------------------------------------------------------------------
LEMMA TypeStep ==
  ASSUME TypeOK, [Next]_vars
  PROVE  TypeOK'
<1>. WorkersOK /\ WorldOK
  BY DEF TypeOK
<1>. USE PodSyncAssumption
<1>1. ASSUME UNCHANGED workerVars
      PROVE  WorkersOK'
  BY <1>1 DEF workerVars, WorkersOK
<1>2. ASSUME NEW w \in Workers, pc[w] \in Handling, NextHandler(w)
      PROVE  WorkersOK'
  <2>1. \A v \in Workers \ {w} :
           /\ pc'[v] = pc[v] /\ pod'[v] = pod[v]
           /\ snap'[v] = snap[v] /\ todo'[v] = todo[v]
    BY <1>2, NextHandlerType
  <2>2. \/ pc'[w] = "idle" /\ pod'[w] = NoPod
        \/ pc'[w] = "handle" /\ pod'[w] = pod[w] /\ todo'[w] # << >>
    BY <1>2, NextHandlerType
  <2>3. pod[w] \in Pods
    BY <1>2 DEF WorkersOK, Handling, Pushing
  <2>4. /\ pod'[w] \in Pods <=> pc'[w] # "idle"
        /\ pc'[w] # "namespace" /\ pc'[w] \notin Pushing
        /\ pc'[w] \in Handling => todo'[w] # << >>
    BY <2>2, <2>3 DEF Handling, Pushing
  <2>5. /\ pc' \in [Workers -> ControlPoints] /\ snap' \in [Workers -> Nat]
        /\ pod' \in [Workers -> Pods \cup {NoPod}]
        /\ todo' \in [Workers -> Seq(Listeners)]
    BY <1>2, NextHandlerType
  <2>. QED  BY <2>1, <2>4, <2>5 DEF WorkersOK
<1>3. ASSUME NEW w \in Workers, pc[w] # "idle", Finish(w)
      PROVE  WorkersOK'
  BY <1>3 DEF Finish, Goto, WorkersOK, ControlPoints, Handling, Pushing
<1>4. ASSUME UNCHANGED <<clusterVars, due, entry, goliveVars>>
      PROVE  WorldOK'
  BY <1>4 DEF clusterVars, goliveVars, WorldOK
<1>5. ASSUME NEW p \in Pods, PodAdded(p) \/ PodGone(p) \/ PodUpdated(p) \/ Resync(p)
      PROVE  TypeOK'
  <2>1. WorldOK'
    BY <1>5 DEF PodAdded, PodGone, PodUpdated, Resync, Requeue, clusterVars, goliveVars, WorldOK
  <2>. QED  BY <1>1, <1>5, <2>1 DEF PodAdded, PodGone, PodUpdated, Resync, Requeue, TypeOK
<1>6. ASSUME NEW o \in Owners, OwnerChanged(o) \/ OwnerListed(o)
      PROVE  TypeOK'
  <2>1. WorldOK'
    <3>1. CASE OwnerChanged(o)
      BY <3>1 DEF OwnerChanged, goliveVars, WorldOK
    <3>2. CASE OwnerListed(o)
      BY <3>2 DEF OwnerListed, goliveVars, WorldOK
    <3>. QED  BY <1>6, <3>1, <3>2
  <2>. QED  BY <1>1, <1>6, <2>1 DEF OwnerChanged, OwnerListed, TypeOK
<1>7. ASSUME NEW w \in Workers, NEW p \in Pods, StartSync(w, p)
      PROVE  TypeOK'
  <2>1. WorldOK'
    BY <1>7 DEF StartSync, clusterVars, goliveVars, WorldOK
  <2>2. WorkersOK'
    BY <1>7 DEF StartSync, Goto, WorkersOK, ControlPoints, Handling, Pushing
  <2>. QED  BY <2>1, <2>2 DEF TypeOK
<1>8. ASSUME NEW w \in Workers, FindOwner(w)
      PROVE  TypeOK'
  <2>1. pod[w] \in Pods /\ OwnerOf[pod[w]] \in Owners
    BY <1>8 DEF FindOwner, WorkersOK
  <2>2. WorkersOK'
    BY <1>8, <2>1 DEF FindOwner, Goto, WorkersOK, WorldOK, ControlPoints, Handling, Pushing
  <2>. QED  BY <1>4, <1>8, <2>2 DEF FindOwner, TypeOK
<1>9. ASSUME NEW w \in Workers, NothingToDo(w)
      PROVE  TypeOK'
  BY <1>3, <1>4, <1>9 DEF NothingToDo, TypeOK
<1>10. ASSUME NEW w \in Workers, GetNamespace(w)
       PROVE  TypeOK'
  <2>1. pod[w] \in Pods /\ HandlersFor[pod[w]] # << >>
    BY <1>10 DEF GetNamespace, WorkersOK
  <2>2. ToRun(pod[w]) \in Seq(Listeners) /\ ToRun(pod[w]) # << >>
    BY <2>1, HandlersToRun
  <2>3. WorkersOK'
    BY <1>10, <2>1, <2>2 DEF GetNamespace, Goto, WorkersOK, ControlPoints, Handling, Pushing
  <2>. QED  BY <1>4, <1>10, <2>3 DEF GetNamespace, TypeOK
<1>11. ASSUME NEW w \in Workers, NamespaceError(w)
       PROVE  TypeOK'
  <2>1. pod[w] \in Pods
    BY <1>11 DEF NamespaceError, WorkersOK
  <2>2. WorldOK'
    BY <1>11, <2>1 DEF NamespaceError, clusterVars, goliveVars, WorldOK
  <2>. QED  BY <1>3, <1>11, <2>2 DEF NamespaceError, TypeOK
<1>12. ASSUME NEW w \in Workers, ExtractionFails(w) \/ UpToDate(w)
       PROVE  TypeOK'
  BY <1>2, <1>4, <1>12 DEF ExtractionFails, UpToDate, Handling, TypeOK
<1>13. ASSUME NEW w \in Workers, Send(w)
       PROVE  TypeOK'
  <2>1. pc[w] \in Handling
    BY <1>13 DEF Send, Handling
  <2>2. Env(w) \in Envs /\ PayloadOf(w) \in Payload
    BY <1>13, <2>1, PushType DEF Send
  <2>3. WorkersOK'
    BY <1>13, <2>2 DEF Send, Env, Goto, WorkersOK, ControlPoints, Handling, Pushing
  <2>4. WorldOK'
    BY <1>13, <2>2 DEF Send, clusterVars, goliveVars, WorldOK
  <2>. QED  BY <2>3, <2>4 DEF TypeOK
<1>14. ASSUME NEW w \in Workers, GoliveStep(w)
       PROVE  TypeOK'
  <2>1. pc[w] \in Handling /\ pc[w] \in Pushing
    BY <1>14 DEF GoliveStep, Accept, Refuse, LoseConnection, Hang, Abandon, Fault, Handling, Pushing
  <2>2. Env(w) \in Envs /\ PayloadOf(w) \in Payload
    BY <2>1, PushType
  <2>3. WorkersOK'
    BY <1>14, <2>1 DEF GoliveStep, Accept, Refuse, LoseConnection, Hang, Abandon, Fault, Goto, WorkersOK,
                       ControlPoints, Handling, Pushing
  <2>4. WorldOK'
    <3>1. CASE Accept(w)
      BY <2>2, <3>1 DEF Accept, clusterVars, WorldOK
    <3>2. CASE Refuse(w) \/ LoseConnection(w) \/ Hang(w)
      <4>1. /\ faults' = faults + 1
            /\ late' \in {late, [late EXCEPT ![Env(w)] = @ \cup {PayloadOf(w)}]}
            /\ UNCHANGED <<clusterVars, due, entry, published, accepted, lost, overtaken>>
        BY <3>2 DEF Refuse, LoseConnection, Hang, Abandon, Fault
      <4>2. late' \in [Envs -> SUBSET Payload]
        <5>1. late \in [Envs -> SUBSET Payload]
          BY DEF WorldOK
        <5>2. late[Env(w)] \cup {PayloadOf(w)} \in SUBSET Payload
          BY <2>2, <5>1
        <5>3. [late EXCEPT ![Env(w)] = @ \cup {PayloadOf(w)}] \in [Envs -> SUBSET Payload]
          BY <2>2, <5>1, <5>2
        <5>. QED  BY <4>1, <5>1, <5>3
      <4>. QED  BY <4>1, <4>2 DEF clusterVars, WorldOK
    <3>. QED  BY <1>14, <3>1, <3>2 DEF GoliveStep
  <2>. QED  BY <2>3, <2>4 DEF TypeOK
<1>15. ASSUME NEW w \in Workers, PostOk(w) \/ PostRefused(w) \/ PostFailed(w)
       PROVE  TypeOK'
  <2>1. pc[w] \in Handling /\ pc[w] \in Pushing /\ NextHandler(w)
    BY <1>15 DEF PostOk, PostRefused, PostFailed, Handling, Pushing
  <2>2. Env(w) \in Envs /\ PayloadOf(w) \in Payload
    BY <2>1, PushType
  <2>3. WorldOK'
    <3>1. CASE PostOk(w)
      BY <2>2, <3>1 DEF PostOk, clusterVars, WorldOK
    <3>2. CASE PostRefused(w)
      BY <2>2, <3>2 DEF PostRefused, clusterVars, WorldOK
    <3>3. CASE PostFailed(w)
      BY <2>2, <3>3 DEF PostFailed, clusterVars, WorldOK
    <3>. QED  BY <1>15, <3>1, <3>2, <3>3
  <2>. QED  BY <1>2, <2>1, <2>3 DEF TypeOK
<1>16. ASSUME NEW e \in Envs, Expire(e)
       PROVE  TypeOK'
  <2>1. WorldOK'
    BY <1>16 DEF Expire, clusterVars, goliveVars, WorldOK
  <2>. QED  BY <1>1, <1>16, <2>1 DEF Expire, TypeOK
<1>17. CASE UNCHANGED vars
  BY <1>1, <1>4, <1>17 DEF vars, TypeOK
<1>18. ASSUME Restart
       PROVE  TypeOK'
  <2>1. << >> \in Seq(Listeners)
    OBVIOUS
  <2>2. WorkersOK'
    BY <1>18, <2>1 DEF Restart, WorkersOK, ControlPoints, Handling, Pushing
  <2>3. \A e \in Envs : OnTheWay(e) \subseteq Payload
    BY PushType DEF OnTheWay, Handling, Pushing
  <2>4. WorldOK'
    BY <1>18, <2>3 DEF Restart, Fault, clusterVars, WorldOK
  <2>. QED  BY <2>2, <2>4 DEF TypeOK
<1>19. ASSUME NEW e \in Envs, LateArrival(e)
       PROVE  TypeOK'
  <2>1. WorldOK'
    BY <1>19 DEF LateArrival, clusterVars, WorldOK
  <2>. QED  BY <1>1, <1>19, <2>1 DEF LateArrival, TypeOK
<1>. HIDE PodSyncAssumption
<1>. QED
  BY <1>5, <1>6, <1>7, <1>8, <1>9, <1>10, <1>11, <1>12, <1>13, <1>14, <1>15,
     <1>16, <1>17, <1>18, <1>19
     DEF Next, WorkerStep, SyncStep, HandleStep

\* The state of the cluster, the workers, the cache and Golive keeps its type.
THEOREM TypeCorrect == Spec => []TypeOK
<1>1. Init => TypeOK
  <2>1. << >> \in Seq(Listeners)
    OBVIOUS
  <2>2. Init => WorkersOK
    BY <2>1, PodSyncAssumption DEF Init, WorkersOK, ControlPoints, Handling, Pushing
  <2>3. Init => WorldOK
    BY DEF Init, WorldOK
  <2>. QED  BY <2>2, <2>3 DEF TypeOK
<1>2. TypeOK /\ [Next]_vars => TypeOK'
  BY TypeStep
<1>. QED  BY <1>1, <1>2, PTL DEF Spec
-----------------------------------------------------------------------------
(* What the cache remembers is backed *)

SameWorker(v) ==
    pc'[v] = pc[v] /\ pod'[v] = pod[v] /\ snap'[v] = snap[v] /\ todo'[v] = todo[v]

\* Steps that touch neither the cache nor Golive nor a pushing worker.
Quiet ==
    /\ UNCHANGED <<entry, published, accepted, lost, overtaken>>
    /\ \A v \in Workers : pc[v] \in Pushing \/ pc'[v] \in Pushing => SameWorker(v)

\* A step of w that leaves the other workers alone.
OnlyWorker(w) == \A v \in Workers \ {w} : SameWorker(v)

LEMMA SameWorkerSamePush ==
  ASSUME NEW v \in Workers, SameWorker(v)
  PROVE  /\ Env(v)' = Env(v) /\ PayloadOf(v)' = PayloadOf(v)
         /\ \A e : InFlight(v, e)' <=> InFlight(v, e)
BY DEF SameWorker, Env, PayloadOf, InFlight

LEMMA HandlerReturns ==
  ASSUME TypeOK, NEW w \in Workers, pc[w] \in Handling, NextHandler(w)
  PROVE  OnlyWorker(w) /\ pc'[w] \in {"idle", "handle"} /\ pc'[w] \notin Pushing
BY NextHandlerType DEF OnlyWorker, SameWorker, Pushing

LEMMA QuietSteps ==
  ASSUME TypeOK,
         \/ \E p \in Pods : PodAdded(p) \/ PodGone(p) \/ PodUpdated(p) \/ Resync(p)
         \/ \E o \in Owners : OwnerChanged(o) \/ OwnerListed(o)
         \/ \E w \in Workers, p \in Pods : StartSync(w, p)
         \/ \E w \in Workers : SyncStep(w) \/ ExtractionFails(w) \/ UpToDate(w)
         \/ UNCHANGED vars
  PROVE  Quiet
<1>. USE DEF goliveVars, workerVars
<1>1. ASSUME UNCHANGED <<workerVars, entry, goliveVars>>
      PROVE  Quiet
  BY <1>1 DEF Quiet, SameWorker
<1>2. ASSUME NEW w \in Workers, OnlyWorker(w), UNCHANGED <<entry, goliveVars>>,
             pc[w] \notin Pushing, pc'[w] \notin Pushing
      PROVE  Quiet
  BY <1>2 DEF Quiet, OnlyWorker
<1>3. ASSUME NEW p \in Pods, PodAdded(p) \/ PodGone(p) \/ PodUpdated(p) \/ Resync(p)
      PROVE  Quiet
  BY <1>1, <1>3 DEF PodAdded, PodGone, PodUpdated, Resync, Requeue
<1>4. ASSUME NEW o \in Owners, OwnerChanged(o) \/ OwnerListed(o)
      PROVE  Quiet
  BY <1>1, <1>4 DEF OwnerChanged, OwnerListed
<1>5. ASSUME NEW w \in Workers, NEW p \in Pods, StartSync(w, p)
      PROVE  Quiet
  <2>1. OnlyWorker(w) /\ pc[w] \notin Pushing /\ pc'[w] \notin Pushing
    BY <1>5 DEF StartSync, Goto, OnlyWorker, SameWorker, Pushing, TypeOK, WorkersOK
  <2>. QED  BY <1>2, <1>5, <2>1 DEF StartSync
<1>6. ASSUME NEW w \in Workers, SyncStep(w)
      PROVE  Quiet
  <2>1. OnlyWorker(w) /\ pc[w] \notin Pushing /\ pc'[w] \notin Pushing
    BY <1>6 DEF SyncStep, FindOwner, NothingToDo, GetNamespace, NamespaceError,
                Finish, Goto, OnlyWorker, SameWorker, Pushing, TypeOK, WorkersOK
  <2>. QED
    BY <1>2, <1>6, <2>1
       DEF SyncStep, FindOwner, NothingToDo, GetNamespace, NamespaceError
<1>7. ASSUME NEW w \in Workers, ExtractionFails(w) \/ UpToDate(w)
      PROVE  Quiet
  <2>1. pc[w] = "handle" /\ pc[w] \in Handling /\ NextHandler(w)
    BY <1>7 DEF ExtractionFails, UpToDate, Handling
  <2>2. OnlyWorker(w) /\ pc[w] \notin Pushing /\ pc'[w] \notin Pushing
    BY <2>1, HandlerReturns DEF Pushing
  <2>. QED  BY <1>2, <1>7, <2>2 DEF ExtractionFails, UpToDate
<1>8. CASE UNCHANGED vars
  BY <1>1, <1>8 DEF vars
<1>. QED  BY <1>3, <1>4, <1>5, <1>6, <1>7, <1>8

\* The steps that do touch them, one worker at a time.
LEMMA PushSteps ==
  ASSUME TypeOK, NEW w \in Workers
  PROVE  /\ Send(w) => OnlyWorker(w) /\ pc'[w] = "wire" /\ pod'[w] = pod[w]
                       /\ snap'[w] = snap[w] /\ todo'[w] = todo[w]
                       /\ Env(w) \in Envs
         /\ GoliveStep(w) => OnlyWorker(w) /\ pod'[w] = pod[w]
                             /\ snap'[w] = snap[w] /\ todo'[w] = todo[w]
                             /\ Env(w) \in Envs
         /\ Accept(w) => pc'[w] = "accepted"
         /\ Refuse(w) => pc'[w] = "refused"
         /\ LoseConnection(w) => pc'[w] = "failed"
         /\ Hang(w) => pc'[w] = "hung"
         /\ PostOk(w) \/ PostRefused(w) \/ PostFailed(w) =>
               OnlyWorker(w) /\ pc'[w] \notin Pushing /\ Env(w) \in Envs
<1>. USE DEF OnlyWorker, SameWorker, Goto, TypeOK, WorkersOK
<1>1. ASSUME Send(w)
      PROVE  /\ OnlyWorker(w) /\ pc'[w] = "wire" /\ pod'[w] = pod[w]
             /\ snap'[w] = snap[w] /\ todo'[w] = todo[w]
             /\ Env(w) \in Envs
  <2>1. Env(w) \in Envs
    BY <1>1, PushType DEF Send, Handling
  <2>. QED  BY <1>1, <2>1 DEF Send
<1>2. ASSUME GoliveStep(w)
      PROVE  /\ OnlyWorker(w) /\ pod'[w] = pod[w]
             /\ snap'[w] = snap[w] /\ todo'[w] = todo[w]
             /\ Env(w) \in Envs
  <2>1. Env(w) \in Envs
    BY <1>2, PushType DEF GoliveStep, Accept, Refuse, LoseConnection, Hang, Abandon, Fault, Handling, Pushing
  <2>. QED  BY <1>2, <2>1 DEF GoliveStep, Accept, Refuse, LoseConnection, Hang, Abandon, Fault
<1>3. /\ Accept(w) => pc'[w] = "accepted"
      /\ Refuse(w) => pc'[w] = "refused"
      /\ LoseConnection(w) => pc'[w] = "failed"
      /\ Hang(w) => pc'[w] = "hung"
  BY DEF Accept, Refuse, LoseConnection, Hang, Abandon, Fault
<1>4. ASSUME PostOk(w) \/ PostRefused(w) \/ PostFailed(w)
      PROVE  OnlyWorker(w) /\ pc'[w] \notin Pushing /\ Env(w) \in Envs
  <2>1. pc[w] \in Handling /\ pc[w] \in Pushing /\ NextHandler(w)
    BY <1>4 DEF PostOk, PostRefused, PostFailed, Handling, Pushing
  <2>. HIDE DEF OnlyWorker, TypeOK
  <2>. QED  BY <2>1, HandlerReturns, PushType
<1>. QED  BY <1>1, <1>2, <1>3, <1>4

\* A worker that has Golive's answer sees its payload among the applied ones.
AnswersAreAccepted ==
    \A w \in Workers : pc[w] = "accepted" => PayloadOf(w) \in accepted[Env(w)]

Backed(e) ==
    \/ entry[e] \in accepted[e] \cup lost[e]
    \/ \E w \in Workers : InFlight(w, e) /\ PayloadOf(w) = entry[e]

LEMMA EntryIsBackedAsBacked ==
  EntryIsBacked <=> \A e \in Envs : entry[e] # NoEntry => Backed(e)
BY DEF EntryIsBacked, Backed

\* The push of an untouched worker keeps backing its entry.
LEMMA StillBacked ==
  ASSUME NEW e \in Envs, entry[e] # NoEntry => Backed(e),
         entry'[e] # NoEntry => entry'[e] = entry[e],
         accepted[e] \subseteq accepted'[e], lost[e] \subseteq lost'[e],
         \A v \in Workers : InFlight(v, e) /\ PayloadOf(v) = entry[e] => SameWorker(v)
  PROVE  entry'[e] # NoEntry => Backed(e)'
<1>. SUFFICES ASSUME entry'[e] # NoEntry
              PROVE  Backed(e)'
  OBVIOUS
<1>1. CASE entry[e] \in accepted[e] \cup lost[e]
  BY <1>1 DEF Backed
<1>2. ASSUME NEW v \in Workers, InFlight(v, e), PayloadOf(v) = entry[e]
      PROVE  Backed(e)'
  <2>1. InFlight(v, e)' /\ PayloadOf(v)' = entry'[e]
    BY <1>2, SameWorkerSamePush
  <2>. QED  BY <2>1 DEF Backed
<1>. QED  BY <1>1, <1>2 DEF Backed

BackedInv == TypeOK /\ AnswersAreAccepted /\ EntryIsBacked

LEMMA AnswersStep ==
  ASSUME BackedInv, [Next]_vars
  PROVE  AnswersAreAccepted'
<1>. SUFFICES ASSUME NEW v \in Workers, pc'[v] = "accepted"
              PROVE  PayloadOf(v)' \in accepted'[Env(v)']
  BY DEF AnswersAreAccepted
<1>. TypeOK /\ AnswersAreAccepted
  BY DEF BackedInv
<1>1. ASSUME SameWorker(v), \A e \in Envs : accepted[e] \subseteq accepted'[e]
      PROVE  PayloadOf(v)' \in accepted'[Env(v)']
  <2>1. pc[v] = "accepted" /\ pc[v] \in Handling
    BY <1>1 DEF SameWorker, Handling, Pushing
  <2>2. Env(v) \in Envs
    BY <2>1, PushType DEF Pushing
  <2>3. Env(v)' = Env(v) /\ PayloadOf(v)' = PayloadOf(v)
    BY <1>1, SameWorkerSamePush
  <2>. QED  BY <1>1, <2>1, <2>2, <2>3 DEF AnswersAreAccepted
<1>2. CASE Quiet
  BY <1>1, <1>2 DEF Quiet, Pushing
<1>3. ASSUME NEW w \in Workers, Accept(w)
      PROVE  PayloadOf(v)' \in accepted'[Env(v)']
  <2>1. /\ OnlyWorker(w) /\ Env(w) \in Envs /\ pod'[w] = pod[w]
        /\ snap'[w] = snap[w] /\ todo'[w] = todo[w]
    BY <1>3, PushSteps DEF GoliveStep
  <2>2. accepted' = [accepted EXCEPT ![Env(w)] = @ \cup {PayloadOf(w)}]
    BY <1>3 DEF Accept
  <2>3. accepted \in [Envs -> SUBSET Payload]
    BY DEF TypeOK, WorldOK
  <2>4. \A e \in Envs : accepted[e] \subseteq accepted'[e]
    BY <2>2, <2>3
  <2>5. CASE v = w
    <3>1. Env(w)' = Env(w) /\ PayloadOf(w)' = PayloadOf(w)
      BY <2>1 DEF Env, PayloadOf
    <3>2. PayloadOf(w) \in accepted'[Env(w)]
      BY <2>1, <2>2, <2>3
    <3>. QED  BY <2>5, <3>1, <3>2
  <2>6. CASE v # w
    BY <1>1, <2>1, <2>4, <2>6 DEF OnlyWorker
  <2>. QED  BY <2>5, <2>6
<1>4. ASSUME NEW w \in Workers,
             \/ Send(w) \/ Refuse(w) \/ LoseConnection(w) \/ Hang(w)
             \/ PostOk(w) \/ PostRefused(w) \/ PostFailed(w)
      PROVE  PayloadOf(v)' \in accepted'[Env(v)']
  <2>1. OnlyWorker(w) /\ pc'[w] # "accepted"
    BY <1>4, PushSteps DEF GoliveStep, Pushing
  <2>2. accepted' = accepted
    BY <1>4 DEF Send, Refuse, LoseConnection, Hang, Abandon, Fault, PostOk, PostRefused, PostFailed, goliveVars
  <2>. QED  BY <1>1, <2>1, <2>2 DEF OnlyWorker
<1>5. ASSUME NEW e \in Envs, Expire(e)
      PROVE  PayloadOf(v)' \in accepted'[Env(v)']
  BY <1>1, <1>5 DEF Expire, workerVars, goliveVars, SameWorker
<1>6. CASE Restart
  BY <1>6 DEF Restart
<1>7. ASSUME NEW e \in Envs, LateArrival(e)
      PROVE  PayloadOf(v)' \in accepted'[Env(v)']
  <2>1. SameWorker(v)
    BY <1>7 DEF LateArrival, workerVars, SameWorker
  <2>2. accepted \in [Envs -> SUBSET Payload]
    BY DEF TypeOK, WorldOK
  <2>3. \A x \in Envs : accepted[x] \subseteq accepted'[x]
    BY <1>7, <2>2 DEF LateArrival
  <2>. QED  BY <1>1, <2>1, <2>3
<1>. QED
  BY <1>2, <1>3, <1>4, <1>5, <1>6, <1>7, QuietSteps
     DEF Next, WorkerStep, HandleStep, GoliveStep

LEMMA BackedStep ==
  ASSUME BackedInv, [Next]_vars
  PROVE  EntryIsBacked'
<1>. SUFFICES ASSUME NEW e \in Envs
              PROVE  entry'[e] # NoEntry => Backed(e)'
  BY DEF EntryIsBacked, Backed
<1>. TypeOK /\ AnswersAreAccepted /\ (entry[e] # NoEntry => Backed(e))
  BY DEF BackedInv, EntryIsBacked, Backed
<1>. accepted \in [Envs -> SUBSET Payload] /\ lost \in [Envs -> SUBSET Payload]
  /\ entry \in [Envs -> Payload \cup {NoEntry}]
  BY DEF TypeOK, WorldOK
<1>1. CASE Quiet
  <2>1. \A v \in Workers : InFlight(v, e) => SameWorker(v)
    BY <1>1 DEF Quiet, InFlight
  <2>. QED  BY <1>1, <2>1, StillBacked DEF Quiet
<1>2. ASSUME NEW w \in Workers, Send(w)
      PROVE  entry'[e] # NoEntry => Backed(e)'
  <2>1. /\ OnlyWorker(w) /\ pc'[w] = "wire" /\ pod'[w] = pod[w]
        /\ snap'[w] = snap[w] /\ todo'[w] = todo[w] /\ Env(w) \in Envs
    BY <1>2, PushSteps
  <2>2. entry' = [entry EXCEPT ![Env(w)] = PayloadOf(w)]
    BY <1>2 DEF Send
  <2>3. CASE e = Env(w)
    <3>1. InFlight(w, e)' /\ PayloadOf(w)' = PayloadOf(w)
      BY <2>1, <2>3 DEF InFlight, Env, PayloadOf, Pushing
    <3>2. entry'[e] = PayloadOf(w)
      BY <2>2, <2>3
    <3>. QED  BY <3>1, <3>2 DEF Backed
  <2>4. CASE e # Env(w)
    <3>1. entry'[e] = entry[e] /\ accepted' = accepted /\ lost' = lost
      BY <1>2, <2>2, <2>4 DEF Send, goliveVars
    <3>2. \A v \in Workers : InFlight(v, e) => SameWorker(v)
      BY <2>1, <2>4 DEF InFlight, OnlyWorker
    <3>. QED  BY <3>1, <3>2, StillBacked
  <2>. QED  BY <2>3, <2>4
<1>3. ASSUME NEW w \in Workers, GoliveStep(w)
      PROVE  entry'[e] # NoEntry => Backed(e)'
  <2>1. /\ OnlyWorker(w) /\ pod'[w] = pod[w]
        /\ snap'[w] = snap[w] /\ todo'[w] = todo[w]
    BY <1>3, PushSteps
  <2>2. pc'[w] \in Pushing
    BY <1>3, PushSteps DEF GoliveStep, Pushing
  <2>3. entry' = entry /\ lost' = lost /\ accepted[e] \subseteq accepted'[e]
    BY <1>3 DEF GoliveStep, Accept, Refuse, LoseConnection, Hang, Abandon, Fault
  <2>4. CASE entry[e] \in accepted[e] \cup lost[e]
    BY <2>3, <2>4 DEF Backed
  <2>5. ASSUME NEW v \in Workers, InFlight(v, e), PayloadOf(v) = entry[e]
        PROVE  Backed(e)'
    <3>1. InFlight(v, e)' /\ PayloadOf(v)' = PayloadOf(v)
      <4>1. CASE v = w
        BY <2>1, <2>2, <2>5, <4>1 DEF InFlight, Env, PayloadOf
      <4>2. CASE v # w
        BY <2>1, <2>5, <4>2, SameWorkerSamePush DEF OnlyWorker
      <4>. QED  BY <4>1, <4>2
    <3>. QED  BY <2>3, <2>5, <3>1 DEF Backed
  <2>. QED  BY <2>3, <2>4, <2>5 DEF Backed
<1>4. ASSUME NEW w \in Workers, PostOk(w) \/ PostRefused(w) \/ PostFailed(w)
      PROVE  entry'[e] # NoEntry => Backed(e)'
  <2>1. OnlyWorker(w) /\ Env(w) \in Envs
    BY <1>4, PushSteps
  <2>2. CASE e # Env(w)
    <3>1. entry'[e] = entry[e] /\ accepted' = accepted /\ lost'[e] = lost[e]
      BY <1>4, <2>2 DEF PostOk, PostRefused, PostFailed
    <3>2. \A v \in Workers : InFlight(v, e) => SameWorker(v)
      BY <2>1, <2>2 DEF InFlight, OnlyWorker
    <3>. QED  BY <3>1, <3>2, StillBacked
  <2>3. CASE e = Env(w) /\ PostRefused(w)
    BY <2>3 DEF PostRefused
  <2>4. CASE e = Env(w) /\ PostFailed(w)
    <3>1. entry' = entry /\ accepted' = accepted /\ lost'[e] = lost[e] \cup {PayloadOf(w)}
      BY <2>4 DEF PostFailed
    <3>2. CASE entry[e] = PayloadOf(w)
      BY <3>1, <3>2 DEF Backed
    <3>3. CASE entry[e] # PayloadOf(w)
      <4>1. \A v \in Workers : InFlight(v, e) /\ PayloadOf(v) = entry[e] => SameWorker(v)
        BY <2>1, <3>3 DEF OnlyWorker
      <4>. QED  BY <3>1, <4>1, StillBacked
    <3>. QED  BY <3>2, <3>3
  <2>5. CASE e = Env(w) /\ PostOk(w)
    <3>1. entry' = entry /\ accepted' = accepted /\ lost'[e] = lost[e] \ {PayloadOf(w)}
      BY <2>5 DEF PostOk
    <3>2. CASE entry[e] = PayloadOf(w)
      <4>1. PayloadOf(w) \in accepted[e]
        BY <2>5 DEF PostOk, AnswersAreAccepted
      <4>. QED  BY <3>1, <3>2, <4>1 DEF Backed
    <3>3. CASE entry[e] # PayloadOf(w)
      <4>1. CASE entry[e] \in accepted[e] \cup lost[e]
        BY <3>1, <3>3, <4>1 DEF Backed
      <4>2. ASSUME NEW v \in Workers, InFlight(v, e), PayloadOf(v) = entry[e]
            PROVE  Backed(e)'
        <5>1. SameWorker(v)
          BY <2>1, <3>3, <4>2 DEF OnlyWorker
        <5>2. InFlight(v, e)' /\ PayloadOf(v)' = entry'[e]
          BY <3>1, <4>2, <5>1, SameWorkerSamePush
        <5>. QED  BY <5>2 DEF Backed
      <4>. QED  BY <3>1, <4>1, <4>2 DEF Backed
    <3>. QED  BY <3>2, <3>3
  <2>. QED  BY <1>4, <2>2, <2>3, <2>4, <2>5
<1>5. ASSUME NEW x \in Envs, Expire(x)
      PROVE  entry'[e] # NoEntry => Backed(e)'
  <2>1. /\ entry'[e] # NoEntry => entry'[e] = entry[e]
        /\ accepted' = accepted /\ lost' = lost
        /\ \A v \in Workers : SameWorker(v)
    BY <1>5 DEF Expire, workerVars, goliveVars, SameWorker
  <2>. QED  BY <2>1, StillBacked
<1>6. CASE Restart
  BY <1>6 DEF Restart
<1>7. ASSUME NEW x \in Envs, LateArrival(x)
      PROVE  entry'[e] # NoEntry => Backed(e)'
  <2>1. /\ entry' = entry /\ lost' = lost /\ accepted[e] \subseteq accepted'[e]
        /\ \A v \in Workers : SameWorker(v)
    BY <1>7 DEF LateArrival, workerVars, SameWorker
  <2>. QED  BY <2>1, StillBacked
<1>. QED
  BY <1>1, <1>2, <1>3, <1>4, <1>5, <1>6, <1>7, QuietSteps DEF Next, WorkerStep, HandleStep

\* The cache never remembers a payload for a push that Golive refused: every
\* entry was applied once, is being pushed, or was pushed without an answer.
THEOREM EntriesAreBacked == Spec => []EntryIsBacked
<1>1. Init => BackedInv
  <2>1. Init => TypeOK
    <3>1. << >> \in Seq(Listeners)
      OBVIOUS
    <3>2. Init => WorkersOK
      BY <3>1, PodSyncAssumption DEF Init, WorkersOK, ControlPoints, Handling, Pushing
    <3>. QED  BY <3>2 DEF Init, TypeOK, WorldOK
  <2>2. Init => AnswersAreAccepted /\ EntryIsBacked
    BY DEF Init, AnswersAreAccepted, EntryIsBacked
  <2>. QED  BY <2>1, <2>2 DEF BackedInv
<1>2. BackedInv /\ [Next]_vars => BackedInv'
  BY TypeStep, AnswersStep, BackedStep DEF BackedInv
<1>3. BackedInv => EntryIsBacked
  BY DEF BackedInv
<1>. QED  BY <1>1, <1>2, <1>3, PTL DEF Spec
-----------------------------------------------------------------------------
(* The environments that a single pod writes to, through a single handler: *)
(* the queue and the order of Handle keep cache and Golive in step.        *)

\* No two workers have the same pod.
Exclusive ==
    \A v, w \in Workers : pod[v] = pod[w] /\ pod[v] \in Pods => v = w

\* What a worker has left to run is among what sync gave it to run.
Remaining ==
    \A w \in Workers : pc[w] \in Handling =>
        \A i \in DOMAIN todo[w] :
            \E j \in DOMAIN ToRun(pod[w]) : ToRun(pod[w])[j] = todo[w][i]

\* The step of one worker, as far as its pod and its handlers go.
Moves(w) ==
    \/ SameWorker(w)
    \/ pc'[w] = "idle" /\ pod'[w] = NoPod
    \/ \E p \in Pods :
        /\ pc'[w] = "find" /\ pod'[w] = p
        /\ \A v \in Workers : pod[v] # p
        /\ OnlyWorker(w)
    \/ /\ pc[w] = "find" /\ pc'[w] = "namespace" /\ version[OwnerOf[pod[w]]] # 0
       /\ pod'[w] = pod[w] /\ snap'[w] = version[OwnerOf[pod[w]]]
    \/ /\ pc[w] = "namespace" /\ pc'[w] = "handle"
       /\ pod'[w] = pod[w] /\ snap'[w] = snap[w] /\ todo'[w] = ToRun(pod[w])
    \/ /\ pc[w] \in Handling /\ pc'[w] \in Handling
       /\ pod'[w] = pod[w] /\ snap'[w] = snap[w]
       /\ todo'[w] \in {todo[w], Tail(todo[w])}

LEMMA WorkerMoves ==
  ASSUME TypeOK, [Next]_vars, NEW u \in Workers
  PROVE  Moves(u)
<1>. USE DEF TypeOK, WorkersOK
<1>1. ASSUME UNCHANGED workerVars
      PROVE  Moves(u)
  BY <1>1 DEF workerVars, Moves, SameWorker
<1>2. ASSUME NEW w \in Workers, OnlyWorker(w), Moves(w)
      PROVE  Moves(u)
  BY <1>2 DEF OnlyWorker, Moves
<1>3. ASSUME NEW w \in Workers, NEW p \in Pods, StartSync(w, p)
      PROVE  Moves(u)
  <2>1. OnlyWorker(w) /\ pc'[w] = "find" /\ pod'[w] = p /\ \A v \in Workers : pod[v] # p
    BY <1>3 DEF StartSync, Goto, OnlyWorker, SameWorker
  <2>. QED  BY <1>2, <2>1 DEF Moves
<1>4. ASSUME NEW w \in Workers, SyncStep(w)
      PROVE  Moves(u)
  <2>1. OnlyWorker(w)
    BY <1>4 DEF SyncStep, FindOwner, NothingToDo, GetNamespace, NamespaceError,
                Finish, Goto, OnlyWorker, SameWorker
  <2>2. FindOwner(w) => Moves(w)
    BY DEF FindOwner, Goto, Moves
  <2>3. GetNamespace(w) => Moves(w)
    BY DEF GetNamespace, Goto, Moves
  <2>4. NothingToDo(w) \/ NamespaceError(w) => Moves(w)
    BY DEF NothingToDo, NamespaceError, Finish, Goto, Moves
  <2>. QED  BY <1>2, <1>4, <2>1, <2>2, <2>3, <2>4 DEF SyncStep
<1>5. ASSUME NEW w \in Workers, pc[w] \in Handling, NextHandler(w)
      PROVE  Moves(u)
  <2>1. OnlyWorker(w)
    BY <1>5, HandlerReturns
  <2>2. \/ pc'[w] = "idle" /\ pod'[w] = NoPod
        \/ /\ pc'[w] = "handle" /\ pod'[w] = pod[w] /\ snap'[w] = snap[w]
           /\ todo'[w] = Tail(todo[w])
    BY <1>5, NextHandlerType
  <2>3. Moves(w)
    BY <1>5, <2>2 DEF Moves, Handling
  <2>. QED  BY <1>2, <2>1, <2>3
<1>6. ASSUME NEW w \in Workers, Send(w) \/ GoliveStep(w)
      PROVE  Moves(u)
  <2>1. /\ OnlyWorker(w) /\ pod'[w] = pod[w] /\ snap'[w] = snap[w] /\ todo'[w] = todo[w]
    BY <1>6, PushSteps
  <2>2. pc[w] \in Handling
    BY <1>6 DEF Send, GoliveStep, Accept, Refuse, LoseConnection, Hang, Abandon, Fault, Handling, Pushing
  <2>3. pc'[w] \in Handling
    BY <1>6, PushSteps DEF GoliveStep, Handling, Pushing
  <2>4. Moves(w)
    BY <2>1, <2>2, <2>3 DEF Moves
  <2>. QED  BY <1>2, <2>1, <2>4
<1>7. ASSUME NEW w \in Workers,
             ExtractionFails(w) \/ UpToDate(w) \/ PostOk(w) \/ PostRefused(w) \/ PostFailed(w)
      PROVE  pc[w] \in Handling /\ NextHandler(w)
  BY <1>7 DEF ExtractionFails, UpToDate, PostOk, PostRefused, PostFailed, Handling, Pushing
<1>8. CASE Restart
  BY <1>8 DEF Restart, Moves
<1>9. ASSUME \/ \E p \in Pods : PodAdded(p) \/ PodGone(p) \/ PodUpdated(p) \/ Resync(p)
             \/ \E o \in Owners : OwnerChanged(o) \/ OwnerListed(o)
             \/ \E e \in Envs : Expire(e) \/ LateArrival(e)
             \/ UNCHANGED vars
      PROVE  UNCHANGED workerVars
  BY <1>9 DEF PodAdded, PodGone, PodUpdated, Resync, Requeue, OwnerChanged, OwnerListed, Expire,
              LateArrival, vars
<1>. HIDE DEF TypeOK, WorkersOK
<1>. QED
  BY <1>1, <1>3, <1>4, <1>5, <1>6, <1>7, <1>8, <1>9 DEF Next, WorkerStep, HandleStep

LEMMA ExclusiveStep ==
  ASSUME TypeOK, Exclusive, [Next]_vars
  PROVE  Exclusive'
<1>. SUFFICES ASSUME NEW v \in Workers, NEW w \in Workers, v # w,
                     pod'[v] = pod'[w], pod'[v] \in Pods
              PROVE  FALSE
  BY DEF Exclusive
<1>1. Moves(v) /\ Moves(w)
  BY WorkerMoves
<1>2. pod'[v] # NoPod
  BY PodSyncAssumption
<1>3. ASSUME NEW a \in Workers, NEW b \in Workers, a # b, pod'[a] = pod'[b],
             \A x \in Workers : pod[x] # pod'[a], OnlyWorker(a)
      PROVE  FALSE
  BY <1>3 DEF OnlyWorker, SameWorker
<1>4. pod'[v] = pod[v] /\ pod'[w] = pod[w]
  BY <1>1, <1>2, <1>3 DEF Moves, SameWorker
<1>. QED  BY <1>4 DEF Exclusive

LEMMA RemainingStep ==
  ASSUME TypeOK, Remaining, [Next]_vars
  PROVE  Remaining'
<1>. SUFFICES ASSUME NEW w \in Workers, pc'[w] \in Handling, NEW i \in DOMAIN todo'[w]
              PROVE  \E j \in DOMAIN ToRun(pod'[w]) : ToRun(pod'[w])[j] = todo'[w][i]
  BY DEF Remaining, ToRun
<1>1. \/ pc[w] \in Handling /\ pod'[w] = pod[w] /\ todo'[w] \in {todo[w], Tail(todo[w])}
      \/ pod'[w] = pod[w] /\ todo'[w] = ToRun(pod[w])
  BY WorkerMoves DEF Moves, SameWorker, Handling, Pushing
<1>2. CASE todo'[w] = ToRun(pod[w]) /\ pod'[w] = pod[w]
  BY <1>2
<1>3. CASE pc[w] \in Handling /\ pod'[w] = pod[w] /\ todo'[w] = todo[w]
  BY <1>3 DEF Remaining
<1>4. CASE pc[w] \in Handling /\ pod'[w] = pod[w] /\ todo'[w] = Tail(todo[w])
  <2>1. todo[w] \in Seq(Listeners) /\ todo[w] # << >>
    BY <1>4 DEF TypeOK, WorkersOK
  <2>2. i + 1 \in DOMAIN todo[w] /\ todo'[w][i] = todo[w][i + 1]
    BY <1>4, <2>1
  <2>. QED  BY <1>4, <2>2 DEF Remaining
<1>. QED  BY <1>1, <1>2, <1>3, <1>4
-----------------------------------------------------------------------------
(* One push at a time *)

\* A worker that pushes to e is one of the sources of e.
LEMMA PushHasSource ==
  ASSUME TypeOK, Remaining, NEW w \in Workers, NEW e \in Envs,
         pc[w] \in Handling, Env(w) = e
  PROVE  <<pod[w], Head(todo[w])>> \in Sources(e)
<1>1. todo[w] \in Seq(Listeners) /\ todo[w] # << >>
  BY DEF TypeOK, WorkersOK
<1>2. 1 \in DOMAIN todo[w] /\ Head(todo[w]) = todo[w][1]
  BY <1>1
<1>3. \E j \in DOMAIN ToRun(pod[w]) : ToRun(pod[w])[j] = Head(todo[w])
  BY <1>2 DEF Remaining
<1>4. pod[w] \in Pods /\ Head(todo[w]) \in Listeners
  BY PushType
<1>. QED  BY <1>3, <1>4 DEF Sources, Env

\* An environment with one source is never pushed to by two workers.
LEMMA OnePush ==
  ASSUME TypeOK, Exclusive, Remaining, NEW e \in Envs, OneSource(e),
         NEW v \in Workers, NEW w \in Workers,
         pc[v] \in Handling, pc[w] \in Handling, Env(v) = e, Env(w) = e
  PROVE  v = w
<1>1. pod[v] = pod[w]
  BY PushHasSource DEF OneSource
<1>2. pod[v] \in Pods
  BY PushType
<1>. QED  BY <1>1, <1>2 DEF Exclusive

\* Cache and Golive agree on e: a push under way is the one the cache remembers,
\* and Golive shows it once it is accepted, until a request that was given up
\* arrives; without a push, they are equal or an answer was lost.
Agrees(e) ==
    /\ \A w \in Workers : InFlight(w, e) =>
        /\ entry[e] \in {NoEntry, PayloadOf(w)}
        /\ pc[w] = "accepted" => published[e] = PayloadOf(w) \/ overtaken[e]
    /\ entry[e] # NoEntry /\ (\A w \in Workers : ~InFlight(w, e))
        => published[e] = entry[e] \/ entry[e] \in lost[e] \/ overtaken[e]

Agreement == \A e \in Envs : OneSource(e) => Agrees(e)

SourceInv == TypeOK /\ Exclusive /\ Remaining /\ Agreement

\* Steps that leave the pushes to e alone.
LEMMA AgreesStill ==
  ASSUME NEW e \in Envs, Agrees(e),
         entry'[e] \in {NoEntry, entry[e]}, lost'[e] = lost[e],
         published'[e] = published[e] \/ overtaken'[e], overtaken[e] => overtaken'[e],
         \A v \in Workers : InFlight(v, e) \/ InFlight(v, e)' => SameWorker(v)
  PROVE  Agrees(e)'
<1>1. \A v \in Workers : InFlight(v, e)' <=> InFlight(v, e)
  BY SameWorkerSamePush
<1>2. ASSUME NEW v \in Workers, InFlight(v, e)'
      PROVE  /\ entry'[e] \in {NoEntry, PayloadOf(v)'}
             /\ pc'[v] = "accepted" => published'[e] = PayloadOf(v)' \/ overtaken'[e]
  <2>1. InFlight(v, e) /\ SameWorker(v) /\ PayloadOf(v)' = PayloadOf(v)
    BY <1>1, <1>2, SameWorkerSamePush
  <2>. QED  BY <2>1 DEF Agrees, SameWorker
<1>3. entry'[e] # NoEntry /\ (\A v \in Workers : ~InFlight(v, e)')
        => published'[e] = entry'[e] \/ entry'[e] \in lost'[e] \/ overtaken'[e]
  BY <1>1 DEF Agrees
<1>. QED  BY <1>2, <1>3 DEF Agrees

LEMMA AgreementStep ==
  ASSUME SourceInv, [Next]_vars
  PROVE  Agreement'
<1>. SUFFICES ASSUME NEW e \in Envs, OneSource(e)
              PROVE  Agrees(e)'
  BY DEF Agreement, OneSource, Sources, ToRun
<1>. TypeOK /\ Exclusive /\ Remaining /\ Agrees(e)
  BY DEF SourceInv, Agreement
<1>. entry \in [Envs -> Payload \cup {NoEntry}] /\ lost \in [Envs -> SUBSET Payload]
     /\ published \in [Envs -> Payload \cup {NoEntry}]
     /\ overtaken \in [Envs -> BOOLEAN]
  BY DEF TypeOK, WorldOK
<1>1. CASE Quiet
  <2>1. \A v \in Workers : InFlight(v, e) \/ InFlight(v, e)' => SameWorker(v)
    BY <1>1 DEF Quiet, InFlight
  <2>. QED  BY <1>1, <2>1, AgreesStill DEF Quiet
<1>2. ASSUME NEW w \in Workers, OnlyWorker(w), Env(w) = e, pc[w] \in Handling,
             NEW v \in Workers, InFlight(v, e)'
      PROVE  v = w
  <2>1. CASE v # w
    <3>1. InFlight(v, e)
      BY <1>2, <2>1, SameWorkerSamePush DEF OnlyWorker
    <3>2. pc[v] \in Handling /\ Env(v) = e
      BY <3>1 DEF InFlight, Handling
    <3>. QED  BY <1>2, <3>2, OnePush
  <2>. QED  BY <2>1
<1>3. ASSUME NEW w \in Workers, Send(w)
      PROVE  Agrees(e)'
  <2>1. /\ OnlyWorker(w) /\ pc'[w] = "wire" /\ pod'[w] = pod[w]
        /\ snap'[w] = snap[w] /\ todo'[w] = todo[w] /\ Env(w) \in Envs
    BY <1>3, PushSteps
  <2>2. /\ entry' = [entry EXCEPT ![Env(w)] = PayloadOf(w)]
        /\ published' = published /\ lost' = lost /\ overtaken' = overtaken
        /\ pc[w] = "handle"
    BY <1>3 DEF Send, goliveVars
  <2>3. Env(w)' = Env(w) /\ PayloadOf(w)' = PayloadOf(w)
    BY <2>1 DEF Env, PayloadOf
  <2>4. CASE Env(w) = e
    <3>1. InFlight(w, e)'
      BY <2>1, <2>3, <2>4 DEF InFlight, Pushing
    <3>2. \A v \in Workers : InFlight(v, e)' => v = w
      BY <1>2, <2>1, <2>2, <2>4 DEF Handling
    <3>3. entry'[e] = PayloadOf(w)' /\ pc'[w] # "accepted"
      BY <2>1, <2>2, <2>3, <2>4
    <3>. QED  BY <3>1, <3>2, <3>3 DEF Agrees
  <2>5. CASE Env(w) # e
    <3>1. ~InFlight(w, e) /\ ~InFlight(w, e)'
      BY <2>3, <2>5 DEF InFlight
    <3>2. \A v \in Workers : InFlight(v, e) \/ InFlight(v, e)' => SameWorker(v)
      BY <2>1, <3>1 DEF OnlyWorker
    <3>. QED  BY <2>2, <2>5, <3>2, AgreesStill
  <2>. QED  BY <2>4, <2>5
<1>4. ASSUME NEW w \in Workers, GoliveStep(w)
      PROVE  Agrees(e)'
  <2>1. /\ OnlyWorker(w) /\ pod'[w] = pod[w] /\ snap'[w] = snap[w]
        /\ todo'[w] = todo[w] /\ Env(w) \in Envs
    BY <1>4, PushSteps
  <2>2. /\ entry' = entry /\ lost' = lost /\ pc[w] \in Pushing /\ pc[w] \in Handling
        /\ \A x \in Envs \ {Env(w)} :
              published'[x] = published[x] /\ overtaken'[x] = overtaken[x]
    BY <1>4 DEF GoliveStep, Accept, Refuse, LoseConnection, Hang, Abandon, Fault, Pushing, Handling
  <2>3. Env(w)' = Env(w) /\ PayloadOf(w)' = PayloadOf(w)
    BY <2>1 DEF Env, PayloadOf
  <2>4. CASE Env(w) = e
    <3>1. InFlight(w, e) /\ InFlight(w, e)'
      <4>1. pc'[w] \in Pushing
        BY <1>4, PushSteps DEF GoliveStep, Pushing
      <4>. QED  BY <2>2, <2>3, <2>4, <4>1 DEF InFlight
    <3>2. \A v \in Workers : InFlight(v, e)' => v = w
      BY <1>2, <2>1, <2>2, <2>4
    <3>3. entry'[e] \in {NoEntry, PayloadOf(w)'}
      BY <2>2, <2>3, <3>1 DEF Agrees
    <3>4. pc'[w] = "accepted" => published'[e] = PayloadOf(w)' \/ overtaken'[e]
      <4>1. CASE Accept(w)
        BY <2>3, <2>4, <4>1 DEF Accept
      <4>2. CASE Refuse(w) \/ LoseConnection(w) \/ Hang(w)
        BY <4>2, PushSteps
      <4>. QED  BY <1>4, <4>1, <4>2 DEF GoliveStep
    <3>. QED  BY <3>1, <3>2, <3>3, <3>4 DEF Agrees
  <2>5. CASE Env(w) # e
    <3>1. ~InFlight(w, e) /\ ~InFlight(w, e)'
      BY <2>3, <2>5 DEF InFlight
    <3>2. \A v \in Workers : InFlight(v, e) \/ InFlight(v, e)' => SameWorker(v)
      BY <2>1, <3>1 DEF OnlyWorker
    <3>. QED  BY <2>2, <2>5, <3>2, AgreesStill
  <2>. QED  BY <2>4, <2>5
<1>5. ASSUME NEW w \in Workers, PostOk(w) \/ PostRefused(w) \/ PostFailed(w)
      PROVE  Agrees(e)'
  <2>1. OnlyWorker(w) /\ pc'[w] \notin Pushing /\ Env(w) \in Envs
    BY <1>5, PushSteps
  <2>2. /\ pc[w] \in Pushing /\ pc[w] \in Handling
        /\ published' = published /\ overtaken' = overtaken
        /\ overtaken' = overtaken
    BY <1>5 DEF PostOk, PostRefused, PostFailed, Pushing, Handling
  <2>3. CASE Env(w) = e
    <3>1. \A v \in Workers : ~InFlight(v, e)'
      BY <1>2, <2>1, <2>2, <2>3 DEF InFlight
    <3>2. InFlight(w, e)
      BY <2>2, <2>3 DEF InFlight
    <3>3. entry'[e] # NoEntry => published'[e] = entry'[e] \/ entry'[e] \in lost'[e] \/ overtaken'[e]
      <4>1. CASE PostOk(w)
        BY <2>3, <3>2, <4>1 DEF PostOk, Agrees
      <4>2. CASE PostRefused(w)
        BY <2>3, <4>2 DEF PostRefused
      <4>3. CASE PostFailed(w)
        BY <2>3, <3>2, <4>3 DEF PostFailed, Agrees
      <4>. QED  BY <1>5, <4>1, <4>2, <4>3
    <3>. QED  BY <3>1, <3>3 DEF Agrees
  <2>4. CASE Env(w) # e
    <3>1. entry'[e] = entry[e] /\ lost'[e] = lost[e]
      BY <1>5, <2>4 DEF PostOk, PostRefused, PostFailed
    <3>2. \A v \in Workers : InFlight(v, e) \/ InFlight(v, e)' => SameWorker(v)
      BY <2>1, <2>4 DEF InFlight, OnlyWorker
    <3>. QED  BY <2>2, <3>1, <3>2, AgreesStill
  <2>. QED  BY <2>3, <2>4
<1>6. ASSUME NEW x \in Envs, Expire(x)
      PROVE  Agrees(e)'
  <2>1. /\ entry'[e] \in {NoEntry, entry[e]} /\ published' = published /\ lost' = lost
        /\ overtaken' = overtaken
        /\ \A v \in Workers : SameWorker(v)
    BY <1>6 DEF Expire, workerVars, goliveVars, SameWorker
  <2>. QED  BY <2>1, AgreesStill
<1>7. CASE Restart
  BY <1>7 DEF Restart, Agrees, InFlight, Pushing
<1>8. ASSUME NEW x \in Envs, LateArrival(x)
      PROVE  Agrees(e)'
  <2>1. /\ entry' = entry /\ lost' = lost
        /\ published'[e] = published[e] \/ overtaken'[e]
        /\ overtaken[e] => overtaken'[e]
        /\ \A v \in Workers : SameWorker(v)
    BY <1>8 DEF LateArrival, workerVars, SameWorker
  <2>. QED  BY <2>1, AgreesStill
<1>. QED
  BY <1>1, <1>3, <1>4, <1>5, <1>6, <1>7, <1>8, QuietSteps DEF Next, WorkerStep, HandleStep

LEMMA SourceInvHolds ==
  /\ Init => SourceInv
  /\ SourceInv /\ [Next]_vars => SourceInv'
<1>1. Init => TypeOK
  <2>1. << >> \in Seq(Listeners)
    OBVIOUS
  <2>2. Init => WorkersOK
    BY <2>1, PodSyncAssumption DEF Init, WorkersOK, ControlPoints, Handling, Pushing
  <2>. QED  BY <2>2 DEF Init, TypeOK, WorldOK
<1>2. Init => Exclusive /\ Remaining
  BY PodSyncAssumption DEF Init, Exclusive, Remaining, Handling, Pushing
<1>3. Init => Agreement
  BY DEF Init, Agreement, Agrees, InFlight, Pushing
<1>4. SourceInv /\ [Next]_vars => SourceInv'
  BY TypeStep, ExclusiveStep, RemainingStep, AgreementStep DEF SourceInv
<1>. QED  BY <1>1, <1>2, <1>3, <1>4 DEF SourceInv

\* Whatever is refused, lost, never answered or applied late, and whenever the
\* agent is started again: what its cache remembers for an environment with one
\* source is what Golive shows, unless the push of it ended without an answer or
\* Golive has just applied a request that the agent had given up.
THEOREM CacheAgrees == Spec => []CachedIsPublished
<1>1. Init => SourceInv
  BY SourceInvHolds
<1>2. SourceInv /\ [Next]_vars => SourceInv'
  BY SourceInvHolds
<1>3. SourceInv => CachedIsPublished
  BY DEF SourceInv, Agreement, Agrees, CachedIsPublished
<1>. QED  BY <1>1, <1>2, <1>3, PTL DEF Spec
-----------------------------------------------------------------------------
(* Golive does not go back *)

\* The workers whose snap counts.
Working(w) == pc[w] \in {"namespace"} \cup Handling

\* The informers have the last version of an owner, or do not have it yet.
Stores == \A o \in Owners : version[o] \in {0, latest[o]}

\* Nobody knows a version that the owner does not have yet.
Snapshots == \A w \in Workers : Working(w) => snap[w] <= latest[OwnerOf[pod[w]]]

\* The worker has a pod that writes to e.
Serves(w, e) == Working(w) /\ \E s \in Sources(e) : s[1] = pod[w]

\* What Golive shows for e, and what it may be told of e behind the agent's back.
Known(e) == (late[e] \cup {published[e]}) \ {NoEntry}

\* All of it is from the source of e, and no newer than what a worker that serves
\* e may still push.
Ordered(e) ==
    \A x \in Known(e) :
        /\ \A s \in Sources(e) :
            /\ x.listener = s[2]
            /\ x.owner = OwnerOf[s[1]]
            /\ x.version <= latest[OwnerOf[s[1]]]
        /\ \A w \in Workers : Serves(w, e) => x.version <= snap[w]

Order == \A e \in Envs : OneSource(e) => Ordered(e)

OrderInv == SourceInv /\ Stores /\ Snapshots /\ Order

\* The steps that change what the owners are, or what the informers have of them.
LEMMA OwnerSteps ==
  ASSUME [Next]_vars
  PROVE  \/ UNCHANGED <<latest, version>>
         \/ \E o \in Owners : OwnerChanged(o) \/ OwnerListed(o)
         \/ Restart
BY DEF Next, vars, clusterVars, PodAdded, PodGone, PodUpdated, Resync, Requeue,
    StartSync, WorkerStep, SyncStep, FindOwner, NothingToDo, GetNamespace, NamespaceError,
    HandleStep, ExtractionFails, UpToDate, Send, PostOk, PostRefused, PostFailed,
    GoliveStep, Accept, Refuse, LoseConnection, Hang, Abandon, Expire, LateArrival

LEMMA VersionsGrow ==
  ASSUME TypeOK, Stores, [Next]_vars, NEW o \in Owners
  PROVE  /\ latest[o] \in Nat /\ latest'[o] \in Nat /\ latest[o] <= latest'[o]
         /\ version'[o] \in {0, latest'[o]}
<1>1. /\ latest \in [Owners -> Nat] /\ version \in [Owners -> Nat]
      /\ version[o] \in {0, latest[o]} /\ latest'[o] \in Nat
  BY TypeStep DEF TypeOK, WorldOK, Stores
<1>2. ASSUME NEW x \in Owners, OwnerChanged(x)
      PROVE  latest[o] <= latest'[o] /\ version'[o] \in {0, latest'[o]}
  BY <1>1, <1>2 DEF OwnerChanged
<1>3. ASSUME NEW x \in Owners, OwnerListed(x)
      PROVE  latest[o] <= latest'[o] /\ version'[o] \in {0, latest'[o]}
  BY <1>1, <1>3 DEF OwnerListed
<1>4. CASE Restart
  BY <1>1, <1>4 DEF Restart
<1>5. CASE UNCHANGED <<latest, version>>
  BY <1>1, <1>5
<1>. QED  BY <1>1, <1>2, <1>3, <1>4, <1>5, OwnerSteps

LEMMA StoresStep ==
  ASSUME TypeOK, Stores, [Next]_vars
  PROVE  Stores'
BY VersionsGrow DEF Stores

\* A working worker found its version just now, or had it already.
LEMMA WorkingMoves ==
  ASSUME TypeOK, Stores, [Next]_vars, NEW w \in Workers, Working(w)'
  PROVE  /\ pod'[w] = pod[w] /\ pod[w] \in Pods /\ OwnerOf[pod[w]] \in Owners
         /\ snap[w] \in Nat
         /\ \/ Working(w) /\ snap'[w] = snap[w]
            \/ snap'[w] = latest[OwnerOf[pod[w]]]
<1>1. Moves(w)
  BY WorkerMoves
<1>2. /\ pod'[w] = pod[w]
      /\ \/ Working(w) /\ snap'[w] = snap[w]
         \/ /\ version[OwnerOf[pod[w]]] # 0
            /\ snap'[w] = version[OwnerOf[pod[w]]]
  BY <1>1 DEF Moves, SameWorker, Working, Handling, Pushing
<1>3. pod'[w] \in Pods
  BY TypeStep DEF Working, TypeOK, WorkersOK, Handling, Pushing
<1>4. pod[w] \in Pods /\ OwnerOf[pod[w]] \in Owners
  BY <1>2, <1>3, PodSyncAssumption
<1>. QED  BY <1>2, <1>4 DEF Stores, TypeOK, WorkersOK

LEMMA SnapshotsStep ==
  ASSUME TypeOK, Stores, Snapshots, [Next]_vars
  PROVE  Snapshots'
<1>. SUFFICES ASSUME NEW w \in Workers, Working(w)'
              PROVE  snap'[w] <= latest'[OwnerOf[pod'[w]]]
  BY DEF Snapshots, Working
<1>. DEFINE o == OwnerOf[pod[w]]
<1>1. /\ pod'[w] = pod[w] /\ o \in Owners /\ snap[w] \in Nat
      /\ \/ Working(w) /\ snap'[w] = snap[w]
         \/ snap'[w] = latest[o]
  BY WorkingMoves
<1>2. latest[o] \in Nat /\ latest'[o] \in Nat /\ latest[o] <= latest'[o]
  BY <1>1, VersionsGrow
<1>3. Working(w) => snap[w] <= latest[o]
  BY DEF Snapshots
<1>4. snap'[w] <= latest[o] /\ snap'[w] \in Nat
  BY <1>1, <1>2, <1>3
<1>5. snap'[w] <= latest'[o]
  BY <1>2, <1>4
<1>. QED  BY <1>1, <1>5

\* Golive comes to know nothing but what a worker is pushing.
LEMMA NewIsPushed ==
  ASSUME TypeOK, [Next]_vars, NEW e \in Envs, NEW x \in Known(e)', x \notin Known(e)
  PROVE  \E w \in Workers : pc[w] \in Pushing /\ Env(w) = e /\ x = PayloadOf(w)
<1>1. /\ late \in [Envs -> SUBSET Payload] /\ published \in [Envs -> Payload \cup {NoEntry}]
  BY DEF TypeOK, WorldOK
<1>2. ASSUME NEW w \in Workers, Accept(w)
      PROVE  pc[w] \in Pushing /\ Env(w) = e /\ x = PayloadOf(w)
  BY <1>1, <1>2 DEF Known, Accept, Pushing
<1>3. ASSUME NEW w \in Workers, Refuse(w) \/ LoseConnection(w) \/ Hang(w)
      PROVE  pc[w] \in Pushing /\ Env(w) = e /\ x = PayloadOf(w)
  BY <1>1, <1>3 DEF Known, Refuse, LoseConnection, Hang, Abandon, Pushing
<1>4. CASE Restart
  BY <1>1, <1>4 DEF Known, Restart, OnTheWay, Pushing
<1>5. ASSUME NEW a \in Envs, LateArrival(a)
      PROVE  FALSE
  BY <1>1, <1>5 DEF Known, LateArrival
<1>6. CASE UNCHANGED <<late, published>>
  BY <1>6 DEF Known
<1>7. \/ UNCHANGED <<late, published>>
      \/ \E w \in Workers : Accept(w) \/ Refuse(w) \/ LoseConnection(w) \/ Hang(w)
      \/ \E a \in Envs : LateArrival(a)
      \/ Restart
  BY DEF Next, vars, goliveVars, PodAdded, PodGone, PodUpdated, Resync, Requeue, OwnerChanged,
      OwnerListed, StartSync, WorkerStep, SyncStep, FindOwner, NothingToDo, GetNamespace,
      NamespaceError, HandleStep, ExtractionFails, UpToDate, Send, PostOk, PostRefused,
      PostFailed, GoliveStep, Expire
<1>. QED  BY <1>2, <1>3, <1>4, <1>5, <1>6, <1>7

\* What is pushed for e is from its source.
LEMMA PushIsOfSource ==
  ASSUME TypeOK, Remaining, NEW e \in Envs, OneSource(e),
         NEW w \in Workers, pc[w] \in Handling, Env(w) = e
  PROVE  /\ Serves(w, e)
         /\ \A s \in Sources(e) : s = <<pod[w], Head(todo[w])>>
<1>1. <<pod[w], Head(todo[w])>> \in Sources(e)
  BY PushHasSource
<1>. QED  BY <1>1 DEF OneSource, Serves, Working

LEMMA OrderStep ==
  ASSUME OrderInv, [Next]_vars
  PROVE  Order'
<1>. SUFFICES ASSUME NEW e \in Envs, OneSource(e), NEW x \in Known(e)'
              PROVE  /\ \A s \in Sources(e) :
                          /\ x.listener = s[2] /\ x.owner = OwnerOf[s[1]]
                          /\ x.version <= latest'[OwnerOf[s[1]]]
                     /\ \A v \in Workers, s \in Sources(e) :
                          Working(v)' /\ s[1] = pod'[v] => x.version <= snap'[v]
  BY DEF Order, OneSource, Sources, ToRun, Ordered, Serves
<1>. TypeOK /\ Exclusive /\ Remaining /\ Stores /\ Ordered(e) /\ Snapshots
  BY DEF OrderInv, SourceInv, Order
<1>1. ASSUME NEW s \in Sources(e)
      PROVE  /\ OwnerOf[s[1]] \in Owners
             /\ latest[OwnerOf[s[1]]] \in Nat /\ latest'[OwnerOf[s[1]]] \in Nat
             /\ latest[OwnerOf[s[1]]] <= latest'[OwnerOf[s[1]]]
  <2>1. OwnerOf[s[1]] \in Owners
    BY <1>1, PodSyncAssumption DEF Sources
  <2>. QED  BY <2>1, VersionsGrow
<1>2. CASE x \in Known(e)
  <2>1. x.version \in Nat
    BY <1>2 DEF Known, Payload, TypeOK, WorldOK
  <2>2. ASSUME NEW s \in Sources(e)
        PROVE  /\ x.listener = s[2] /\ x.owner = OwnerOf[s[1]]
               /\ x.version <= latest'[OwnerOf[s[1]]]
    <3>1. x.version <= latest[OwnerOf[s[1]]]
      BY <1>2, <2>2 DEF Ordered
    <3>2. x.version <= latest'[OwnerOf[s[1]]]
      BY <1>1, <2>1, <2>2, <3>1
    <3>. QED  BY <1>2, <2>2, <3>2 DEF Ordered
  <2>3. ASSUME NEW v \in Workers, NEW s \in Sources(e), Working(v)', s[1] = pod'[v]
        PROVE  x.version <= snap'[v]
    <3>1. /\ pod'[v] = pod[v]
          /\ \/ Working(v) /\ snap'[v] = snap[v]
             \/ snap'[v] = latest[OwnerOf[pod[v]]]
      BY <2>3, WorkingMoves
    <3>2. CASE Working(v) /\ snap'[v] = snap[v]
      BY <1>2, <2>3, <3>1, <3>2 DEF Ordered, Serves
    <3>3. CASE snap'[v] = latest[OwnerOf[pod[v]]]
      BY <1>2, <2>3, <3>1, <3>3 DEF Ordered
    <3>. QED  BY <3>1, <3>2, <3>3
  <2>. QED  BY <2>2, <2>3
<1>3. ASSUME NEW w \in Workers, pc[w] \in Pushing, Env(w) = e, x = PayloadOf(w)
      PROVE  /\ \A s \in Sources(e) :
                  /\ x.listener = s[2] /\ x.owner = OwnerOf[s[1]]
                  /\ x.version <= latest'[OwnerOf[s[1]]]
             /\ \A v \in Workers, s \in Sources(e) :
                  Working(v)' /\ s[1] = pod'[v] => x.version <= snap'[v]
  <2>1. pc[w] \in Handling /\ Working(w)
    BY <1>3 DEF Handling, Working
  <2>2. \A s \in Sources(e) : s = <<pod[w], Head(todo[w])>>
    BY <1>3, <2>1, PushIsOfSource
  <2>3. /\ x.listener = Head(todo[w]) /\ x.owner = OwnerOf[pod[w]] /\ x.version = snap[w]
        /\ snap[w] \in Nat /\ snap[w] <= latest[OwnerOf[pod[w]]]
    BY <1>3, <2>1 DEF PayloadOf, Snapshots, TypeOK, WorkersOK
  <2>4. ASSUME NEW s \in Sources(e)
        PROVE  /\ x.listener = s[2] /\ x.owner = OwnerOf[s[1]]
               /\ x.version <= latest'[OwnerOf[s[1]]]
    <3>1. s[1] = pod[w] /\ s[2] = Head(todo[w])
      BY <2>2, <2>4
    <3>2. x.version <= latest'[OwnerOf[s[1]]]
      BY <1>1, <2>3, <2>4, <3>1
    <3>. QED  BY <2>3, <3>1, <3>2
  <2>5. ASSUME NEW v \in Workers, NEW s \in Sources(e), Working(v)', s[1] = pod'[v]
        PROVE  x.version <= snap'[v]
    <3>1. /\ pod'[v] = pod[v] /\ pod[v] \in Pods
          /\ \/ Working(v) /\ snap'[v] = snap[v]
             \/ snap'[v] = latest[OwnerOf[pod[v]]]
      BY <2>5, WorkingMoves
    <3>2. pod[v] = pod[w]
      BY <2>2, <2>5, <3>1
    <3>3. v = w
      BY <3>1, <3>2 DEF Exclusive
    <3>. QED  BY <2>3, <3>1, <3>3
  <2>. QED  BY <2>4, <2>5
<1>. QED  BY <1>2, <1>3, NewIsPushed

\* What Golive shows is replaced by something newer, or by a late request.
LEMMA NewIsNewer ==
  ASSUME OrderInv, [Next]_vars, NEW e \in Envs, OneSource(e),
         published[e] # NoEntry, published'[e] # published[e]
  PROVE  published'[e].version > published[e].version \/ overtaken'[e]
<1>. TypeOK /\ Remaining /\ Ordered(e)
  BY DEF OrderInv, SourceInv, Order
<1>. /\ published \in [Envs -> Payload \cup {NoEntry}]
     /\ overtaken \in [Envs -> BOOLEAN]
  BY DEF TypeOK, WorldOK
<1>1. ASSUME NEW w \in Workers, Accept(w)
      PROVE  published'[e].version > published[e].version
  <2>1. Env(w) = e /\ published'[e] = PayloadOf(w)
    BY <1>1 DEF Accept
  <2>2. pc[w] \in Handling
    BY <1>1 DEF Accept, Handling, Pushing
  <2>3. <<pod[w], Head(todo[w])>> \in Sources(e) /\ Serves(w, e)
    BY <2>1, <2>2, PushHasSource, PushIsOfSource
  <2>4. published[e] \in Known(e) /\ published[e] \in Payload
    BY DEF Known
  <2>5. /\ published[e].listener = Head(todo[w])
        /\ published[e].owner = OwnerOf[pod[w]]
        /\ published[e].version <= snap[w]
    BY <2>3, <2>4 DEF Ordered
  <2>6. published[e].version \in Nat /\ snap[w] \in Nat
    BY <2>4 DEF Payload, TypeOK, WorkersOK
  <2>7. published[e].version # snap[w]
    BY <2>1, <2>4, <2>5 DEF Payload, PayloadOf
  <2>8. published[e].version < snap[w]
    BY <2>5, <2>6, <2>7
  <2>. QED  BY <2>1, <2>6, <2>8 DEF PayloadOf
<1>2. ASSUME NEW a \in Envs, LateArrival(a)
      PROVE  overtaken'[e]
  BY <1>2 DEF LateArrival
<1>3. \/ published' = published
      \/ \E w \in Workers : Accept(w)
      \/ \E a \in Envs : LateArrival(a)
  BY DEF Next, vars, goliveVars, PodAdded, PodGone, PodUpdated, Resync, Requeue, OwnerChanged,
      OwnerListed, StartSync, WorkerStep, SyncStep, FindOwner, NothingToDo, GetNamespace,
      NamespaceError, HandleStep, ExtractionFails, UpToDate, Send, PostOk, PostRefused,
      PostFailed, GoliveStep, Refuse, LoseConnection, Hang, Abandon, Expire, Restart
<1>. QED  BY <1>1, <1>2, <1>3

\* An environment with one source never goes back to an older version of its
\* owner, however its pushes fail, hang and are repeated and whenever the agent is
\* started again, but for the requests that the agent had given up.
THEOREM NeverGoesBack == Spec => PublishedNeverGoesBack
<1>1. Init => OrderInv
  <2>1. Init => Stores /\ Snapshots /\ Order
    BY DEF Init, Stores, Snapshots, Order, Ordered, Known, Working, Handling, Pushing
  <2>. QED  BY <2>1, SourceInvHolds DEF OrderInv
<1>2. OrderInv /\ [Next]_vars => OrderInv'
  BY SourceInvHolds, StoresStep, SnapshotsStep, OrderStep DEF OrderInv, SourceInv
<1>3. OrderInv /\ [Next]_vars =>
        \A e \in Envs :
          /\ OneSource(e)
          /\ published[e] # NoEntry
          /\ published'[e] # published[e]
          => published'[e].version > published[e].version \/ overtaken'[e]
  BY NewIsNewer
<1>. QED  BY <1>1, <1>2, <1>3, PTL DEF Spec, PublishedNeverGoesBack
=============================================================================
