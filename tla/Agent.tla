------------------------------- MODULE Agent -------------------------------
(***************************************************************************)
(* The running agent: the informer, the work queue and the workers of      *)
(* PodController, whose syncs run the steps of PodSync.  What              *)
(* PodController takes as one step, the rest of sync, is here the frame of *)
(* a call of Controller.sync and of the handlers it runs; what PodSync     *)
(* takes as a set of due pods is here the queue, with the notifications    *)
(* and delays that lead to it.                                             *)
(*                                                                         *)
(* Each action is one of PodController's, one of PodSync's, or one of both *)
(* in one step, where the code goes from one to the other.  Starting anew  *)
(* and stopping are left to PodSync and PodController.                     *)
(***************************************************************************)
EXTENDS PodController

CONSTANTS
    Owners, Listeners, Envs, OwnerOf, HandlersFor, EnvOf, MultiListener,
    Expires, MaxVersion, Faults, MaxFaults, NoEnv, NoEntry   \* as in PodSync

VARIABLES
    at,         \* at[w]: control point of w's call of sync, "idle" outside it
    pod,        \* pod[w]: the key sync was called with
    snap, todo, latest, version, entry, published, accepted, lost, late, overtaken,
    faults

callVars == <<at, pod, snap, todo>>
sharedVars ==
    <<latest, version, entry, published, accepted, lost, late, overtaken, faults>>
agentVars == <<vars, callVars, sharedVars>>

\* A pod, by what the informer's store has had of it.
Life ==
    [p \in Pods |-> IF store[p] # 0 THEN "live" ELSE IF revision[p] = 0 THEN "new" ELSE "gone"]

\* The pods whose key is in the queue, or will be: a notification will add it,
\* or the elapse of a delay, or the worker that has just failed to sync it.
Due ==
    {p \in Pods :
        \/ \E i \in DOMAIN events : events[i].pod = p /\ events[i].rev \in Selected[p]
        \/ p \in dirty \cup waiting
        \/ \E w \in Workers : pc[w] = "requeue" /\ item[w] = p}

\* The steps inside sync, which touch no queue; and the whole of PodSync.
Call == INSTANCE PodSync WITH pc <- at, life <- Life, due <- {}
Syncs == INSTANCE PodSync WITH pc <- at, life <- Life, due <- Due

\* As in PodSync, a pod matches the same listeners all its life, where
\* PodController lets it be relabelled; and the process is not started anew.
ASSUME AgentAssumption ==
    /\ Call!PodSyncAssumption /\ Call!NoEntryAssumption
    /\ "restart" \notin Faults
    /\ \A p \in Pods :
        Selected[p] = IF HandlersFor[p] # << >> THEN 1..MaxRevision ELSE {}

AgentInit == Init /\ Call!Init
-----------------------------------------------------------------------------
(* Around the calls of sync *)

NoCall == UNCHANGED <<callVars, sharedVars>>

\* The informer, the delays of the queue, and the start of the workers.
Around ==
    /\ InformerNext \/ StartWorkers \/ \E w \in Workers : BeginWorker(w)
    /\ NoCall

\* The owners' informers, which list nothing anew without a restart, the
\* expiration of the cache, and the requests that nobody waits for.
Apart ==
    /\ UNCHANGED <<vars, callVars>>
    /\ \/ \E o \in Owners : Call!OwnerChanged(o)
       \/ \E e \in Envs : Call!Expire(e) \/ Call!LateArrival(e)

\* processNextPod gets a key and calls sync.
CallSync(w) ==
    /\ GetItem(w)
    /\ at' = [at EXCEPT ![w] = "find"]
    /\ pod' = [pod EXCEPT ![w] = item'[w]]
    /\ UNCHANGED <<snap, todo, sharedVars>>

\* What processNextPod does after sync has returned.
AfterSync(w) ==
    /\ Requeue(w) \/ ForgetItem(w) \/ DoneItem(w)
    /\ UNCHANGED <<callVars, sharedVars>>
-----------------------------------------------------------------------------
(* Inside them *)

\* Mutated form: sync logs that the pod is gone and goes on.
LookupGoesOn(w) ==
    /\ Lookup(w)
    /\ UNCHANGED <<callVars, sharedVars>>

\* sync reads the pod and its handlers; without them it returns nil.
LookupPod(w) ==
    /\ Lookup(w)
    /\ IF pc'[w] = "sync" THEN UNCHANGED callVars ELSE Call!Finish(w)
    /\ UNCHANGED sharedVars

\* sync goes on (findOwner reads the pod once more, with its owner); when it
\* returns nil, processNextPod goes on.
GoOn(w) ==
    /\ pc[w] = "sync"
    /\ UNCHANGED vars \/ SyncOk(w)
    /\ \/ Call!FindOwner(w) \/ Call!NothingToDo(w) \/ Call!GetNamespace(w)
       \/ Call!HandleStep(w)
    /\ at'[w] = "idle" <=> pc'[w] # "sync"

\* What happens to a request while Handle waits for it.
Answer(w) ==
    /\ pc[w] = "sync"
    /\ UNCHANGED vars
    /\ Call!GoliveStep(w)

\* The namespace cannot be read: sync returns the error.
SyncFails(w) ==
    /\ at[w] = "namespace"
    /\ Call!Finish(w)
    /\ SyncError(w)
    /\ UNCHANGED sharedVars
-----------------------------------------------------------------------------
WorkerRuns(w) == LookupPod(w) \/ GoOn(w) \/ Answer(w) \/ SyncFails(w) \/ AfterSync(w)

AgentNext ==
    \/ Around
    \/ Apart
    \/ \E w \in Workers : CallSync(w) \/ WorkerRuns(w)

AgentSpec == AgentInit /\ [][AgentNext]_agentVars

\* As in PodController and PodSync; the API server answers in the end for the
\* namespace of each pod.  A resync waits until there is room for its
\* notification (MaxEvents, a bound of the model).  That no key is passed over
\* for ever is not assumed: the queue sees to it.
AgentFairness ==
    /\ WF_agentVars(EnqueuePod /\ NoCall)
    /\ WF_agentVars(StartWorkers /\ NoCall)
    /\ \A p \in Pods : WF_agentVars(Readd(p) /\ NoCall) /\ SF_agentVars(Resync(p) /\ NoCall)
    /\ \A w \in Workers :
        /\ WF_agentVars((BeginWorker(w) /\ NoCall) \/ CallSync(w) \/ WorkerRuns(w))
        /\ \A p \in Pods : SF_agentVars(at[w] = "namespace" /\ pod[w] = p /\ GoOn(w))
    /\ \A e \in Envs : WF_agentVars(UNCHANGED <<vars, callVars>> /\ Call!Expire(e))

FairAgentSpec == AgentSpec /\ AgentFairness
-----------------------------------------------------------------------------
(* Properties *)

\* The calls of sync are those of the workers, with the keys they hold.
CallsOK ==
    \A w \in Workers :
        /\ at[w] # "idle" <=> pc[w] \in {"lookup", "sync"}
        /\ at[w] # "idle" => pod[w] = item[w]
        /\ pc[w] = "lookup" => at[w] = "find"

AgentTypeOK == TypeOK /\ Syncs!TypeOK /\ CallsOK

\* With the queue, its delays and its notifications in place of the set of due
\* pods, the workers still do what PodSync says: no pod is synced twice at
\* once, none is synced that is not due, and none that is due is forgotten.
ImplementsPodSync == Syncs!Spec

\* What PodSync promises in the end holds without its assumption on the queue:
\* the real queue passes no pod over for ever.
ChangesArePublished == Syncs!EventuallyPublished
=============================================================================
