--------------------------- MODULE PodController ---------------------------
(***************************************************************************)
(* pkg/k8s/controller.go: the pod informer's event handlers, the work      *)
(* queue of pod keys, the two workers that drain it, and the start and     *)
(* stop of run.  What a worker does with a pod between finding its         *)
(* handlers and the result of sync is one step here, succeeding or         *)
(* failing; PodSync models the inside of it.                               *)
(*                                                                         *)
(* A pod is a sequence of revisions.  Revision r of pod p is one of        *)
(* Selected[p] when at least one handler matches its labels, namespace and *)
(* name.  Revision 0 stands for "not in the informer's store".             *)
(***************************************************************************)
EXTENDS Workqueue

CONSTANTS
    Workers,        \* the goroutines started by run (two in the code)
    Selected,       \* Selected[p]: the revisions of p some handler matches
    MaxRevision,    \* bound: revisions a pod goes through
    MaxEvents,      \* bound: events waiting for the handlers
    Resyncs,        \* TRUE when the informer's resync period is positive
    NoPod           \* the item of a worker that has none

ASSUME PodControllerAssumption ==
    /\ Selected \in [Pods -> SUBSET (Nat \ {0})]
    /\ MaxRevision \in Nat
    /\ MaxEvents \in Nat
    /\ Resyncs \in BOOLEAN
    /\ NoPod \notin Pods

VARIABLES
    phase,          \* where run is
    ctxDone,        \* the context was cancelled by a signal
    revision,       \* revision[p]: the last revision of p the store received
    store,          \* store[p]: the revision in the store, 0 when absent
    events,         \* notifications the handlers have not yet received
    pc,             \* pc[w]: control point of worker w
    item,           \* item[w]: the key w got from the queue
    seen,           \* seen[w]: the revision w's sync works with, 0 outside it
    synced          \* synced[p]: the revision of p last synced (history)

storeVars == <<revision, store, events>>
workerVars == <<pc, item, seen, synced>>
vars == <<queueVars, phase, ctxDone, storeVars, workerVars>>

Phases == {"syncing", "running", "returned", "panicked", "exited"}
Busy == {"lookup", "sync", "requeue", "forget", "done"}
ControlPoints == {"off", "begin", "get", "stopped"} \cup Busy
Event == [pod : Pods, rev : Nat]

TypeOK ==
    /\ QueueTypeOK
    /\ phase \in Phases
    /\ ctxDone \in BOOLEAN
    /\ revision \in [Pods -> Nat]
    /\ store \in [Pods -> Nat]
    /\ events \in Seq(Event)
    /\ pc \in [Workers -> ControlPoints]
    /\ item \in [Workers -> Pods \cup {NoPod}]
    /\ seen \in [Workers -> Nat]
    /\ synced \in [Pods -> Nat]
    /\ \A w \in Workers :
        /\ item[w] \in Pods <=> pc[w] \in Busy
        /\ phase = "syncing" => pc[w] = "off"

\* NewController: an empty queue and store, run waiting for the cache.
Init ==
    /\ QueueInit
    /\ phase = "syncing"
    /\ ctxDone = FALSE
    /\ revision = [p \in Pods |-> 0]
    /\ store = [p \in Pods |-> 0]
    /\ events = << >>
    /\ pc = [w \in Workers |-> "off"]
    /\ item = [w \in Workers |-> NoPod]
    /\ seen = [w \in Workers |-> 0]
    /\ synced = [p \in Pods |-> 0]

Alive == phase \notin {"panicked", "exited"}
Goto(w, point) == pc' = [pc EXCEPT ![w] = point]
Notify(p, r) == events' = Append(events, [pod |-> p, rev |-> r])
-----------------------------------------------------------------------------
(* The pod informer *)

\* The reflector stores a new revision of p (an addition or an update) and
\* notifies the handlers, which run in a goroutine of their own.
StoreUpdate(p) ==
    /\ Alive
    /\ revision[p] < MaxRevision
    /\ Len(events) < MaxEvents
    /\ revision' = [revision EXCEPT ![p] = @ + 1]
    /\ store' = [store EXCEPT ![p] = revision[p] + 1]
    /\ Notify(p, revision[p] + 1)
    /\ UNCHANGED <<queueVars, phase, ctxDone, workerVars>>

\* The reflector removes p.  The controller registers no DeleteFunc.
StoreDelete(p) ==
    /\ Alive
    /\ store[p] # 0
    /\ store' = [store EXCEPT ![p] = 0]
    /\ UNCHANGED <<queueVars, phase, ctxDone, revision, events, workerVars>>

\* The periodic resync notifies the handlers of p's current revision again.
Resync(p) ==
    /\ Alive
    /\ Resyncs
    /\ store[p] # 0
    /\ Len(events) < MaxEvents
    /\ Notify(p, store[p])
    /\ UNCHANGED <<queueVars, phase, ctxDone, revision, store, workerVars>>

\* Mutated form: a pod whose key a worker holds is not queued again.
EnqueueUnlessProcessing ==
    /\ Alive
    /\ events # << >>
    /\ events' = Tail(events)
    /\ LET e == Head(events)
       IN  IF e.rev \in Selected[e.pod] /\ e.pod \notin processing
           THEN Add(e.pod) ELSE UNCHANGED <<queue, dirty>>
    /\ UNCHANGED <<processing, waiting, backoff, shuttingDown, phase, ctxDone,
                   revision, store, workerVars>>

\* enqueuePod: queue the key of a pod some handler matches.  It judges the
\* object in the notification, which may be older than the store.
EnqueuePod ==
    /\ Alive
    /\ events # << >>
    /\ events' = Tail(events)
    /\ LET e == Head(events)
       IN  IF e.rev \in Selected[e.pod]
           THEN Add(e.pod) ELSE UNCHANGED <<queue, dirty>>
    /\ UNCHANGED <<processing, waiting, backoff, shuttingDown, phase, ctxDone,
                   revision, store, workerVars>>

\* The queue re-adds a key whose back-off delay has elapsed.
Readd(k) ==
    /\ Alive
    /\ DelayElapsed(k)
    /\ UNCHANGED <<phase, ctxDone, storeVars, workerVars>>
-----------------------------------------------------------------------------
(* run *)

\* The signal handler cancels the context.
Cancel ==
    /\ Alive
    /\ ~ctxDone
    /\ ctxDone' = TRUE
    /\ UNCHANGED <<queueVars, phase, storeVars, workerVars>>

\* WaitForCacheSync returns true and run starts the worker goroutines.
StartWorkers ==
    /\ phase = "syncing"
    /\ phase' = "running"
    /\ pc' = [w \in Workers |-> "begin"]
    /\ UNCHANGED <<queueVars, ctxDone, storeVars, item, seen, synced>>

\* WaitForCacheSync gives up on a cancelled context: run shuts the queue down
\* and returns an error, with which Start panics.
SyncFailed ==
    /\ phase = "syncing"
    /\ ctxDone
    /\ phase' = "panicked"
    /\ ShutDown
    /\ UNCHANGED <<queue, dirty, processing, backoff, ctxDone, storeVars,
                   workerVars>>

\* The context is done: run's deferred ShutDown runs and run returns.
Return ==
    /\ phase = "running"
    /\ ctxDone
    /\ phase' = "returned"
    /\ ShutDown
    /\ UNCHANGED <<queue, dirty, processing, backoff, ctxDone, storeVars,
                   workerVars>>

\* Start and main return: the process ends with its goroutines.
Exit ==
    /\ phase = "returned"
    /\ phase' = "exited"
    /\ UNCHANGED <<queueVars, ctxDone, storeVars, workerVars>>
-----------------------------------------------------------------------------
(* A worker: processNextPod *)

\* UntilWithContext calls runWorker unless the context is already done.
BeginWorker(w) ==
    /\ Alive
    /\ pc[w] = "begin"
    /\ Goto(w, IF ctxDone THEN "stopped" ELSE "get")
    /\ UNCHANGED <<queueVars, phase, ctxDone, storeVars, item, seen, synced>>

GetItem(w) ==
    /\ Alive
    /\ pc[w] = "get"
    /\ Get
    /\ item' = [item EXCEPT ![w] = Head(queue)]
    /\ Goto(w, "lookup")
    /\ UNCHANGED <<waiting, backoff, shuttingDown, phase, ctxDone, storeVars,
                   seen, synced>>

\* Mutated form: the shutdown flag of Get is not looked at.
ShutdownIgnored(w) ==
    /\ Alive
    /\ pc[w] = "get"
    /\ Drained
    /\ Goto(w, "lookup")
    /\ UNCHANGED <<queueVars, phase, ctxDone, storeVars, item, seen, synced>>

\* Get reports the shutdown: runWorker returns, and UntilWithContext does not
\* call it again because the context is done.
StopWorker(w) ==
    /\ Alive
    /\ pc[w] = "get"
    /\ Drained
    /\ Goto(w, "stopped")
    /\ UNCHANGED <<queueVars, phase, ctxDone, storeVars, item, seen, synced>>

\* Mutated form: the key is released before it is synced.
LookupAfterDone(w) ==
    /\ Alive
    /\ pc[w] = "lookup"
    /\ Done(item[w])
    /\ \/ /\ store[item[w]] \in Selected[item[w]]
          /\ seen' = [seen EXCEPT ![w] = store[item[w]]]
          /\ Goto(w, "sync")
       \/ /\ store[item[w]] \notin Selected[item[w]]
          /\ Goto(w, "forget")
          /\ UNCHANGED seen
    /\ UNCHANGED <<dirty, waiting, backoff, shuttingDown, phase, ctxDone,
                   storeVars, item, synced>>

\* sync: read the pod from the store and find its handlers.  A pod that is
\* gone, or that no handler matches any more, is finished without error.
Lookup(w) ==
    /\ Alive
    /\ pc[w] = "lookup"
    /\ \/ /\ store[item[w]] \in Selected[item[w]]
          /\ seen' = [seen EXCEPT ![w] = store[item[w]]]
          /\ Goto(w, "sync")
       \/ /\ store[item[w]] \notin Selected[item[w]]
          /\ Goto(w, "forget")
          /\ UNCHANGED seen
    /\ UNCHANGED <<queueVars, phase, ctxDone, storeVars, item, synced>>

\* The rest of sync returns nil.
SyncOk(w) ==
    /\ Alive
    /\ pc[w] = "sync"
    /\ synced' = [synced EXCEPT ![item[w]] = seen[w]]
    /\ seen' = [seen EXCEPT ![w] = 0]
    /\ Goto(w, "forget")
    /\ UNCHANGED <<queueVars, phase, ctxDone, storeVars, item>>

\* The rest of sync returns an error (the namespace could not be read).
SyncError(w) ==
    /\ Alive
    /\ pc[w] = "sync"
    /\ seen' = [seen EXCEPT ![w] = 0]
    /\ Goto(w, "requeue")
    /\ UNCHANGED <<queueVars, phase, ctxDone, storeVars, item, synced>>

\* Mutated form: the error branch returns without Done.
RequeueWithoutDone(w) ==
    /\ Alive
    /\ pc[w] = "requeue"
    /\ AddRateLimited(item[w])
    /\ Goto(w, "get")
    /\ item' = [item EXCEPT ![w] = NoPod]
    /\ UNCHANGED <<queue, dirty, processing, shuttingDown, phase, ctxDone,
                   storeVars, seen, synced>>

\* AddRateLimited(key).  The key is still processing: its delay may elapse
\* before Done.
Requeue(w) ==
    /\ Alive
    /\ pc[w] = "requeue"
    /\ AddRateLimited(item[w])
    /\ Goto(w, "done")
    /\ UNCHANGED <<queue, dirty, processing, shuttingDown, phase, ctxDone,
                   storeVars, item, seen, synced>>

\* Mutated form: the failure count of a synced key is kept.
SkipForget(w) ==
    /\ Alive
    /\ pc[w] = "forget"
    /\ Goto(w, "done")
    /\ UNCHANGED <<queueVars, phase, ctxDone, storeVars, item, seen, synced>>

\* Forget(obj).
ForgetItem(w) ==
    /\ Alive
    /\ pc[w] = "forget"
    /\ Forget(item[w])
    /\ Goto(w, "done")
    /\ UNCHANGED <<queue, dirty, processing, waiting, shuttingDown, phase,
                   ctxDone, storeVars, item, seen, synced>>

\* The deferred Done(obj); the loop of runWorker continues.
DoneItem(w) ==
    /\ Alive
    /\ pc[w] = "done"
    /\ Done(item[w])
    /\ item' = [item EXCEPT ![w] = NoPod]
    /\ Goto(w, "get")
    /\ UNCHANGED <<dirty, waiting, backoff, shuttingDown, phase, ctxDone,
                   storeVars, seen, synced>>
-----------------------------------------------------------------------------
InformerNext ==
    \/ \E p \in Pods : StoreUpdate(p) \/ StoreDelete(p) \/ Resync(p) \/ Readd(p)
    \/ EnqueuePod

RunNext == Cancel \/ StartWorkers \/ SyncFailed \/ Return \/ Exit

WorkerNext(w) ==
    \/ BeginWorker(w) \/ GetItem(w) \/ StopWorker(w) \/ Lookup(w) \/ SyncOk(w) \/ SyncError(w)
    \/ Requeue(w) \/ ForgetItem(w) \/ DoneItem(w)

Next == InformerNext \/ RunNext \/ \E w \in Workers : WorkerNext(w)

Spec == Init /\ [][Next]_vars

\* The informer's goroutines, the delays of the queue, the start of the
\* workers and the workers themselves make progress; the sync of a pod does
\* not fail for ever (client-go retries against a live API server).
Fairness ==
    /\ WF_vars(EnqueuePod)
    /\ WF_vars(StartWorkers)
    /\ \A p \in Pods : WF_vars(Readd(p))
    /\ \A w \in Workers :
        /\ WF_vars(BeginWorker(w)) /\ WF_vars(GetItem(w)) /\ WF_vars(Lookup(w))
        /\ WF_vars(SyncOk(w) \/ SyncError(w))
        /\ WF_vars(Requeue(w)) /\ WF_vars(ForgetItem(w)) /\ WF_vars(DoneItem(w))
        /\ \A p \in Pods : SF_vars(SyncOk(w) /\ item[w] = p)

FairSpec == Spec /\ Fairness
-----------------------------------------------------------------------------
(* Properties *)

\* controller.go:144, "make sure we process only once each element in case
\* multithread + backpressure": two workers never hold the same pod, although
\* its events, its retries and its delays keep adding its key.
OneWorkerPerPod ==
    \A v, w \in Workers :
        pc[v] \in Busy /\ pc[w] \in Busy /\ item[v] = item[w] => v = w

\* Where the current revision of p can still be picked up from.
OnItsWay(p) ==
    \/ \E i \in DOMAIN events : events[i] = [pod |-> p, rev |-> store[p]]
    \/ p \in dirty \cup waiting
    \/ \E w \in Workers :
        /\ item[w] = p
        /\ \/ pc[w] \in {"lookup", "requeue"}
           \/ pc[w] = "sync" /\ seen[w] = store[p]

\* No change of a selected pod is lost: until its current revision has been
\* synced it is in a notification, in the queue, waiting for its delay, or in
\* the hands of a worker that has read it or is about to.
ChangeNotLost ==
    \A p \in Pods :
        store[p] \in Selected[p] /\ synced[p] # store[p]
            => OnItsWay(p) \/ shuttingDown

\* The failure count of a key lives only as long as the key is in play, so an
\* old failure never slows a later change down (processNextPod, Forget).
BackoffCleared ==
    \A p \in backoff : p \in dirty \cup waiting \cup processing \/ shuttingDown

\* A selected pod that stays as it is gets synced, unless the agent stops.
EventuallySynced ==
    \A p \in Pods :
        store[p] \in Selected[p] ~>
            store[p] \notin Selected[p] \/ synced[p] = store[p] \/ ctxDone

\* The comment of run (controller.go:209-212): it "will shutdown the workqueue
\* and wait for workers to finish processing their current work items".
ReturnWaitsForWorkers ==
    phase \in {"returned", "exited"} => \A w \in Workers : pc[w] \notin Busy
=============================================================================
