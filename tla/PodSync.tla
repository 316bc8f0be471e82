------------------------------ MODULE PodSync ------------------------------
(***************************************************************************)
(* What a worker does with a pod: Controller.sync (controller.go) from the *)
(* pod's lookup to its handlers, and Handler.Handle (handler.go) from the  *)
(* comparison with the cache to the answer of Golive.                      *)
(*                                                                         *)
(* The work queue is reduced to what it promises (Agent shows it): a pod   *)
(* that is due is given to one worker at a time, and stays due when its    *)
(* key is added again meanwhile.  pkg/cache is reduced to the atomic       *)
(* compare-and-set that GoliveCache implements.  The owner of a pod is a   *)
(* sequence of versions; version 0 is an owner the informers do not have.  *)
(* What Handle extracts from listener, owner and version is the payload.   *)
(***************************************************************************)
EXTENDS Naturals, Sequences

CONSTANTS
    Workers,        \* worker goroutines
    Pods,           \* pod keys
    Owners,         \* deployments, stateful sets, daemon sets, cron jobs
    Listeners,      \* configured listeners, one handler each
    Envs,           \* environment selectors
    OwnerOf,        \* OwnerOf[p]: the owner findOwner leads to from p
    HandlersFor,    \* HandlersFor[p]: the listeners that match p, in order
    EnvOf,          \* EnvOf[l][o]: the selector l extracts from o, or NoEnv
    MultiListener,  \* configuration: all matching handlers run, or the first
    Resyncs,        \* configuration: the resync period is positive
    Expires,        \* configuration: cacheExpiration is positive
    MaxVersion,     \* bound: versions of an owner
    Faults,         \* what may go wrong, some of FaultKinds
    MaxFaults,      \* bound: faults
    NoEnv,          \* an extraction error: Handle logs it and returns
    NoEntry,        \* no cache entry, nothing published
    NoPod           \* the pod of an idle worker

\* An error status comes back, from Golive or from a gateway before it; the
\* connection breaks; a request is taken and neither answered nor closed; the
\* agent dies and starts again.
FaultKinds == {"refused", "lost", "hung", "restart"}

ASSUME PodSyncAssumption ==
    /\ OwnerOf \in [Pods -> Owners]
    /\ HandlersFor \in [Pods -> Seq(Listeners)]
    /\ EnvOf \in [Listeners -> [Owners -> Envs \cup {NoEnv}]]
    /\ MultiListener \in BOOLEAN /\ Resyncs \in BOOLEAN /\ Expires \in BOOLEAN
    /\ MaxVersion \in Nat
    /\ Faults \subseteq FaultKinds /\ MaxFaults \in Nat
    /\ NoEnv \notin Envs
    /\ NoPod \notin Pods

Payload == [listener : Listeners, owner : Owners, version : Nat]

ASSUME NoEntryAssumption == NoEntry \notin Payload

VARIABLES
    life,       \* life[p]: "new", "live" or "gone"
    latest,     \* latest[o]: the version of o in the cluster, 0 without o
    version,    \* version[o]: the version of o in the informers' stores
    due,        \* pods whose key is in the work queue, or on its way there
    pc,         \* pc[w]: control point of worker w
    pod,        \* pod[w]: the pod w syncs
    snap,       \* snap[w]: the owner version findOwner returned
    todo,       \* todo[w]: the handlers left to run, the current one first
    entry,      \* entry[e]: the payload the cache remembers for e
    published,  \* published[e]: the last payload Golive applied to e
    accepted,   \* accepted[e]: payloads Golive ever applied to e (history)
    lost,       \* lost[e]: payloads whose last push ended without an answer
    late,       \* late[e]: payloads on their way to Golive that nobody waits for,
                \* or that will not be answered
    overtaken,  \* overtaken[e]: the last payload applied to e was such a one
                \* (history)
    faults      \* faults so far

clusterVars == <<life, latest, version>>
workerVars == <<pc, pod, snap, todo>>
goliveVars == <<published, accepted, lost, late, overtaken, faults>>
vars == <<clusterVars, due, workerVars, entry, goliveVars>>

Pushing == {"wire", "accepted", "refused", "failed", "hung"}
Handling == {"handle"} \cup Pushing
ControlPoints == {"idle", "find", "namespace"} \cup Handling

WorkersOK ==
    /\ pc \in [Workers -> ControlPoints]
    /\ pod \in [Workers -> Pods \cup {NoPod}]
    /\ snap \in [Workers -> Nat]
    /\ todo \in [Workers -> Seq(Listeners)]
    /\ \A w \in Workers :
        /\ pod[w] \in Pods <=> pc[w] # "idle"
        /\ pc[w] = "namespace" => HandlersFor[pod[w]] # << >>
        /\ pc[w] \in Handling => todo[w] # << >>
        /\ pc[w] \in Pushing => EnvOf[Head(todo[w])][OwnerOf[pod[w]]] \in Envs

WorldOK ==
    /\ life \in [Pods -> {"new", "live", "gone"}]
    /\ latest \in [Owners -> Nat]
    /\ version \in [Owners -> Nat]
    /\ due \subseteq Pods
    /\ entry \in [Envs -> Payload \cup {NoEntry}]
    /\ published \in [Envs -> Payload \cup {NoEntry}]
    /\ accepted \in [Envs -> SUBSET Payload]
    /\ lost \in [Envs -> SUBSET Payload]
    /\ late \in [Envs -> SUBSET Payload]
    /\ overtaken \in [Envs -> BOOLEAN]
    /\ faults \in Nat

TypeOK == WorkersOK /\ WorldOK

\* The agent has just started: nothing is known, cached or published.
Init ==
    /\ life = [p \in Pods |-> "new"]
    /\ latest = [o \in Owners |-> 0]
    /\ version = [o \in Owners |-> 0]
    /\ due = {}
    /\ pc = [w \in Workers |-> "idle"]
    /\ pod = [w \in Workers |-> NoPod]
    /\ snap = [w \in Workers |-> 0]
    /\ todo = [w \in Workers |-> << >>]
    /\ entry = [e \in Envs |-> NoEntry]
    /\ published = [e \in Envs |-> NoEntry]
    /\ accepted = [e \in Envs |-> {}]
    /\ lost = [e \in Envs |-> {}]
    /\ late = [e \in Envs |-> {}]
    /\ overtaken = [e \in Envs |-> FALSE]
    /\ faults = 0

Goto(w, point) == pc' = [pc EXCEPT ![w] = point]
Env(w) == EnvOf[Head(todo[w])][OwnerOf[pod[w]]]
PayloadOf(w) ==
    [listener |-> Head(todo[w]), owner |-> OwnerOf[pod[w]], version |-> snap[w]]

\* The handlers sync runs: the first match, or all of them.
ToRun(p) ==
    IF MultiListener \/ HandlersFor[p] = << >> THEN HandlersFor[p]
    ELSE <<Head(HandlersFor[p])>>

\* sync returns: processNextPod calls Done and the worker takes another key.
Finish(w) ==
    /\ Goto(w, "idle")
    /\ pod' = [pod EXCEPT ![w] = NoPod]
    /\ snap' = [snap EXCEPT ![w] = 0]
    /\ todo' = [todo EXCEPT ![w] = << >>]

\* Handle returns: the next handler runs, or sync returns.
NextHandler(w) ==
    \/ Len(todo[w]) = 1 /\ Finish(w)
    \/ /\ Len(todo[w]) > 1
       /\ todo' = [todo EXCEPT ![w] = Tail(@)]
       /\ Goto(w, "handle")
       /\ UNCHANGED <<pod, snap>>
-----------------------------------------------------------------------------
(* The cluster, as the informers see it *)

\* A pod appears, for the first time or again (the pods of a stateful set keep
\* their names): its addition queues its key.
PodAdded(p) ==
    /\ life[p] # "live"
    /\ life' = [life EXCEPT ![p] = "live"]
    /\ due' = IF HandlersFor[p] # << >> THEN due \cup {p} ELSE due
    /\ UNCHANGED <<latest, version, workerVars, entry, goliveVars>>

\* A pod disappears.  Nothing listens to deletions.
PodGone(p) ==
    /\ life[p] = "live"
    /\ life' = [life EXCEPT ![p] = "gone"]
    /\ UNCHANGED <<latest, version, due, workerVars, entry, goliveVars>>

\* Its key is queued again if a handler listens to the pod.
Requeue(p) ==
    /\ life[p] = "live"
    /\ HandlersFor[p] # << >>
    /\ due' = due \cup {p}
    /\ UNCHANGED <<clusterVars, workerVars, entry, goliveVars>>

\* The pod changes.
PodUpdated(p) == Requeue(p)

\* The informer repeats its last state, if the resync period is positive.
Resync(p) == Resyncs /\ Requeue(p)

\* An owner gets a new version, which reaches its informer.  Nothing listens to it.
OwnerChanged(o) ==
    /\ version[o] = latest[o]
    /\ latest[o] < MaxVersion
    /\ latest' = [latest EXCEPT ![o] = @ + 1]
    /\ version' = [version EXCEPT ![o] = latest[o] + 1]
    /\ UNCHANGED <<life, due, workerVars, entry, goliveVars>>

\* The informer of a new process lists the owner.  Nothing waits for it.
OwnerListed(o) ==
    /\ version[o] < latest[o]
    /\ version' = [version EXCEPT ![o] = latest[o]]
    /\ UNCHANGED <<life, latest, due, workerVars, entry, goliveVars>>
-----------------------------------------------------------------------------
(* Controller.sync *)

\* Mutated form: a queue that does not know which keys are being processed.
StartSyncUnguarded(w, p) ==
    /\ pc[w] = "idle"
    /\ p \in due
    /\ due' = due \ {p}
    /\ pod' = [pod EXCEPT ![w] = p]
    /\ Goto(w, "find")
    /\ UNCHANGED <<clusterVars, snap, todo, entry, goliveVars>>

\* A worker gets a key that no other worker holds.  A notification or a delay
\* may be about to add the key again.
StartSync(w, p) ==
    /\ pc[w] = "idle"
    /\ p \in due
    /\ \A v \in Workers : pod[v] # p
    /\ due' \in {due, due \ {p}}
    /\ pod' = [pod EXCEPT ![w] = p]
    /\ Goto(w, "find")
    /\ UNCHANGED <<clusterVars, snap, todo, entry, goliveVars>>

\* The pod is still there, a handler matches it and findOwner finds its owner:
\* sync keeps the version it found.
FindOwner(w) ==
    /\ pc[w] = "find"
    /\ life[pod[w]] = "live"
    /\ HandlersFor[pod[w]] # << >>
    /\ version[OwnerOf[pod[w]]] # 0
    /\ snap' = [snap EXCEPT ![w] = version[OwnerOf[pod[w]]]]
    /\ Goto(w, "namespace")
    /\ UNCHANGED <<clusterVars, due, pod, todo, entry, goliveVars>>

\* The pod is gone or its owner is not in the informers: sync returns nil.
NothingToDo(w) ==
    /\ pc[w] = "find"
    /\ \/ life[pod[w]] # "live"
       \/ HandlersFor[pod[w]] = << >>
       \/ version[OwnerOf[pod[w]]] = 0
    /\ Finish(w)
    /\ UNCHANGED <<clusterVars, due, entry, goliveVars>>

\* The namespace is read from the API server, then the handlers run.
GetNamespace(w) ==
    /\ pc[w] = "namespace"
    /\ todo' = [todo EXCEPT ![w] = ToRun(pod[w])]
    /\ Goto(w, "handle")
    /\ UNCHANGED <<clusterVars, due, pod, snap, entry, goliveVars>>

\* The namespace cannot be read: sync returns the error and processNextPod
\* queues the key again after a delay.
NamespaceError(w) ==
    /\ pc[w] = "namespace"
    /\ due' = due \cup {pod[w]}
    /\ Finish(w)
    /\ UNCHANGED <<clusterVars, entry, goliveVars>>
-----------------------------------------------------------------------------
(* Handler.Handle *)

\* Mutated form: an extraction error ends the sync, not only the handler.
StopAtFailure(w) ==
    /\ pc[w] = "handle"
    /\ Env(w) = NoEnv
    /\ Finish(w)
    /\ UNCHANGED <<clusterVars, due, entry, goliveVars>>

\* A template fails or a mandatory name is empty: logged, nothing is sent.
ExtractionFails(w) ==
    /\ pc[w] = "handle"
    /\ Env(w) = NoEnv
    /\ NextHandler(w)
    /\ UNCHANGED <<clusterVars, due, entry, goliveVars>>

\* SetIfOutdated answers false: "Golive should be up-to-date".
UpToDate(w) ==
    /\ pc[w] = "handle"
    /\ Env(w) # NoEnv
    /\ entry[Env(w)] = PayloadOf(w)
    /\ NextHandler(w)
    /\ UNCHANGED <<clusterVars, due, entry, goliveVars>>

\* Mutated form: the extraction error is logged, but Handle goes on.
SendUnextracted(w) ==
    /\ pc[w] = "handle"
    /\ Env(w) = NoEnv \/ entry[Env(w)] # PayloadOf(w)
    /\ entry' = [entry EXCEPT ![Env(w)] = PayloadOf(w)]
    /\ Goto(w, "wire")
    /\ UNCHANGED <<clusterVars, due, pod, snap, todo, goliveVars>>

\* SetIfOutdated remembers the payload and the request leaves.
Send(w) ==
    /\ pc[w] = "handle"
    /\ Env(w) # NoEnv
    /\ entry[Env(w)] # PayloadOf(w)
    /\ entry' = [entry EXCEPT ![Env(w)] = PayloadOf(w)]
    /\ Goto(w, "wire")
    /\ UNCHANGED <<clusterVars, due, pod, snap, todo, goliveVars>>

Fault(kind) == kind \in Faults /\ faults < MaxFaults /\ faults' = faults + 1

\* Golive applies the request.
Accept(w) ==
    /\ pc[w] = "wire"
    /\ published' = [published EXCEPT ![Env(w)] = PayloadOf(w)]
    /\ accepted' = [accepted EXCEPT ![Env(w)] = @ \cup {PayloadOf(w)}]
    /\ overtaken' = [overtaken EXCEPT ![Env(w)] = FALSE]
    /\ Goto(w, "accepted")
    /\ UNCHANGED <<clusterVars, due, pod, snap, todo, entry, lost, late, faults>>

\* What the agent hears of the request, or that it hears nothing, says nothing of
\* what becomes of it: a request that is not applied yet may be applied later,
\* or never.
Abandon(w, kind, point) ==
    /\ pc[w] \in {"wire", "accepted"}
    /\ Fault(kind)
    /\ late' = IF pc[w] = "wire"
               THEN [late EXCEPT ![Env(w)] = @ \cup {PayloadOf(w)}] ELSE late
    /\ Goto(w, point)
    /\ UNCHANGED <<clusterVars, due, pod, snap, todo, entry, published, accepted,
                   lost, overtaken>>

\* An error status: Golive refuses the request, or a gateway gives it up.
Refuse(w) == Abandon(w, "refused", "refused")

\* The connection fails.
LoseConnection(w) == Abandon(w, "lost", "failed")

\* No answer ever comes.  The client of main has no timeout, so the worker
\* waits in Handle for ever.
Hang(w) == Abandon(w, "hung", "hung")

\* PostEnvironmentInformation returns a status below 400.
PostOk(w) ==
    /\ pc[w] = "accepted"
    /\ lost' = [lost EXCEPT ![Env(w)] = @ \ {PayloadOf(w)}]
    /\ NextHandler(w)
    /\ UNCHANGED <<clusterVars, due, entry, published, accepted, late, overtaken, faults>>

\* Mutated form: the entry of a refused payload is kept.
PostRefusedKept(w) ==
    /\ pc[w] = "refused"
    /\ lost' = [lost EXCEPT ![Env(w)] = @ \ {PayloadOf(w)}]
    /\ NextHandler(w)
    /\ UNCHANGED <<clusterVars, due, entry, published, accepted, late, overtaken, faults>>

\* It returns an error status: the selector is deleted from the cache, whoever
\* wrote its entry, and Handle returns.
PostRefused(w) ==
    /\ pc[w] = "refused"
    /\ entry' = [entry EXCEPT ![Env(w)] = NoEntry]
    /\ lost' = [lost EXCEPT ![Env(w)] = @ \ {PayloadOf(w)}]
    /\ NextHandler(w)
    /\ UNCHANGED <<clusterVars, due, published, accepted, late, overtaken, faults>>

\* It returns an error: logged, the entry stays, and Handle returns.
PostFailed(w) ==
    /\ pc[w] = "failed"
    /\ lost' = [lost EXCEPT ![Env(w)] = @ \cup {PayloadOf(w)}]
    /\ NextHandler(w)
    /\ UNCHANGED <<clusterVars, due, entry, published, accepted, late, overtaken, faults>>

\* Mutated form: go-cache is created without an expiration.
NeverExpires(e) == FALSE

\* An entry passes its expiration.
Expire(e) ==
    /\ Expires
    /\ entry[e] # NoEntry
    /\ entry' = [entry EXCEPT ![e] = NoEntry]
    /\ UNCHANGED <<clusterVars, due, workerVars, goliveVars>>
-----------------------------------------------------------------------------
(* The process dies and is started again *)

OnTheWay(e) ==
    {PayloadOf(w) : w \in {v \in Workers : pc[v] = "wire" /\ Env(v) = e}}

\* The cache, the queue, the workers and the stores are lost; what was on the
\* wire is not.  The new process waits for the list of the pods, each of which is
\* an addition, but not for those of the owners.
Restart ==
    /\ Fault("restart")
    /\ version' = [o \in Owners |-> 0]
    /\ due' = {p \in Pods : life[p] = "live" /\ HandlersFor[p] # << >>}
    /\ pc' = [w \in Workers |-> "idle"]
    /\ pod' = [w \in Workers |-> NoPod]
    /\ snap' = [w \in Workers |-> 0]
    /\ todo' = [w \in Workers |-> << >>]
    /\ entry' = [e \in Envs |-> NoEntry]
    /\ late' = [e \in Envs |-> late[e] \cup OnTheWay(e)]
    /\ UNCHANGED <<life, latest, published, accepted, lost, overtaken>>

\* A request that nobody waits for reaches Golive after all.
LateArrival(e) ==
    \E x \in late[e] :
        /\ late' = [late EXCEPT ![e] = @ \ {x}]
        /\ published' = [published EXCEPT ![e] = x]
        /\ accepted' = [accepted EXCEPT ![e] = @ \cup {x}]
        /\ overtaken' = [overtaken EXCEPT ![e] = TRUE]
        /\ UNCHANGED <<clusterVars, due, workerVars, entry, lost, faults>>
-----------------------------------------------------------------------------
SyncStep(w) ==
    \/ FindOwner(w) \/ NothingToDo(w) \/ GetNamespace(w) \/ NamespaceError(w)

HandleStep(w) ==
    \/ ExtractionFails(w) \/ UpToDate(w) \/ Send(w)
    \/ PostOk(w) \/ PostRefused(w) \/ PostFailed(w)

GoliveStep(w) == Accept(w) \/ Refuse(w) \/ LoseConnection(w) \/ Hang(w)

WorkerStep(w) == SyncStep(w) \/ HandleStep(w) \/ GoliveStep(w)

Next ==
    \/ \E p \in Pods : PodAdded(p) \/ PodGone(p) \/ PodUpdated(p) \/ Resync(p)
    \/ \E o \in Owners : OwnerChanged(o) \/ OwnerListed(o)
    \/ \E w \in Workers, p \in Pods : StartSync(w, p)
    \/ \E w \in Workers : WorkerStep(w)
    \/ \E e \in Envs : Expire(e) \/ LateArrival(e)
    \/ Restart

Spec == Init /\ [][Next]_vars

\* Workers run, and each of their steps is the only one of its control point;
\* the queue is first in first out, so no due pod is passed over for ever; the
\* API server answers in the end, also to the informers; Golive answers, or the
\* connection breaks, or the request hangs; resyncs and expirations recur.
Fairness ==
    /\ \A p \in Pods :
        /\ WF_vars(Resync(p))
        /\ SF_vars(\E w \in Workers : StartSync(w, p))
    /\ \A w \in Workers :
        /\ WF_vars(WorkerStep(w))
        /\ SF_vars(GetNamespace(w))
    /\ \A o \in Owners : WF_vars(OwnerListed(o))
    /\ \A e \in Envs : WF_vars(Expire(e))

FairSpec == Spec /\ Fairness
-----------------------------------------------------------------------------
(* Properties *)

InFlight(w, e) == pc[w] \in Pushing /\ Env(w) = e

\* Whatever the refusals, lost connections, restarts and other workers, the
\* cache remembers a payload only if Golive applied it once, a worker is still
\* pushing it, or its push broke without an answer; never because of a push
\* that Golive refused (handler.go, the Delete after the status check).
EntryIsBacked ==
    \A e \in Envs :
        entry[e] # NoEntry =>
            \/ entry[e] \in accepted[e] \cup lost[e]
            \/ \E w \in Workers : InFlight(w, e) /\ PayloadOf(w) = entry[e]

\* The pods and handlers that write to e.
Sources(e) ==
    {s \in Pods \X Listeners :
        /\ \E i \in DOMAIN ToRun(s[1]) : ToRun(s[1])[i] = s[2]
        /\ EnvOf[s[2]][OwnerOf[s[1]]] = e}

OneSource(e) == \A s, t \in Sources(e) : s = t

\* When a single pod writes to an environment, through a single handler, and
\* nobody is pushing to it, what the cache remembers is what Golive shows,
\* unless a push of it ended without an answer, or Golive has just applied a
\* request that the agent had given up (handler.go:234-260).
CachedIsPublished ==
    \A e \in Envs :
        /\ OneSource(e)
        /\ entry[e] # NoEntry
        /\ \A w \in Workers : ~InFlight(w, e)
        => published[e] = entry[e] \/ entry[e] \in lost[e] \/ overtaken[e]

\* An environment written by a single pod through one handler never goes back
\* to an older version of its owner, however pushes fail and are repeated and
\* whenever the agent is started again, unless Golive then applies a request
\* that the agent had given up: two pushes never overtake each other inside the
\* agent.
PublishedNeverGoesBack ==
    [][\A e \in Envs :
          /\ OneSource(e)
          /\ published[e] # NoEntry
          /\ published'[e] # published[e]
          => published'[e].version > published[e].version \/ overtaken'[e]]_vars

\* handler.go:236, "Golive should be up-to-date": when nobody is pushing to an
\* environment, the payload the cache answers for is the one Golive shows.
UpToDateMeansPublished ==
    \A e \in Envs :
        entry[e] # NoEntry /\ (\A w \in Workers : ~InFlight(w, e))
            => published[e] = entry[e]

\* README.md:88, "in case of temporary error, notify controller of the error to
\* retry it": after a push that ended without an answer, a pod that will
\* repeat it is due or already with a worker.
FailedPushIsRetried ==
    \A e \in Envs :
        lost[e] # {} =>
            \E s \in Sources(e) : s[1] \in due \/ \E w \in Workers : pod[w] = s[1]

\* The payloads the sources ss extract from the last version of their owners.
Current(ss) ==
    {[listener |-> s[2], owner |-> OwnerOf[s[1]], version |-> latest[OwnerOf[s[1]]]] :
        s \in ss}

\* A pod that waits behind a request that Golive never answers.
Held(p) == \E w \in Workers : pc[w] = "hung" /\ pod[w] = p

\* An environment ends up showing the last version of its owner, whatever was
\* refused, lost, left hanging, applied late or reordered before, whenever the
\* agent was started again and whichever handlers extract nothing, if one of its
\* pods lives on, no endless request holds that pod, and a worker is left
\* (handler.go:171, 234-260, cache.go:19-24, controller.go:220).
EventuallyPublished ==
    \A e \in Envs : \A s \in Sources(e) :
        <>[](/\ life[s[1]] = "live" /\ ~Held(s[1])
             /\ latest[OwnerOf[s[1]]] # 0
             /\ \E w \in Workers : pc[w] # "hung")
            => <>[](published[e] \in Current(Sources(e)))

\* DOCKERHUB.md:282, "down: environment is not running (eg: deployment replicas
\* set to 0)": an environment whose pods have all gone still ends up showing
\* the last version of its owner.
ScaledDownIsPublished ==
    \A e \in Envs :
        <>[](published[e] # NoEntry /\ \A s \in Sources(e) : life[s[1]] = "gone")
            => <>[](published[e] \in Current(Sources(e)))
=============================================================================
