# Verification of k8s-golive-agent

TLA+ models of the agent, the TLC runs that check them on small instances, and
TLAPS proofs of their main properties for every instance.  Source paths are
relative to the repository.

## The system

The agent watches pods, finds the workload that owns each of them, extracts an
*environment information* from it and pushes it to Golive, at most once per
change.

| part | state | operations | where |
|---|---|---|---|
| process start and stop | context, web server | `main`, `Start`, `SetupSignalHandler` | `cmd/k8s-golive-agent/main.go`, `pkg/signals/signal.go`, `controller.go:36` |
| pod event queue and workers | informer store, rate limiting work queue, two worker goroutines | `enqueuePod`, `run`, `runWorker`, `processNextPod` | `pkg/k8s/controller.go` |
| sync of a pod | none of its own; reads the informers and the API server | `sync`, `findOwner` | `pkg/k8s/controller.go` |
| handler: selection | the listeners' selectors | `match`, `getHandlersFor`, `isListening` | `pkg/k8s/handler.go` |
| handler: extraction | none | the `get...` functions, `renderTemplate`, `truncate` | `pkg/k8s/handler.go`, `pkg/k8s/utils.go` |
| handler: push | the cache, Golive | `Handle` | `pkg/k8s/handler.go` |
| rollout status | none | `MetaStatus` and one function per kind | `pkg/k8s/meta.go` |
| up-to-date cache | mutex, entries with an expiration | `SetIfOutdated`, `Delete` | `pkg/cache/cache.go` |
| configuration | the loaded settings | `LoadConfig` | `pkg/k8s/config.go` |
| Golive client | server, credentials | `Golive`, `Test`, `Intercept` | `pkg/golive/golive.go` |
| generated API | none | 45 operations, each raw, typed, as a request builder and as a parser | `pkg/golive/api.gen.go` (generated) |

How they interact:

* the pod informer's goroutine calls `enqueuePod`, which adds the pod's key to
  the work queue; workers get keys, read the pod and its owner from the
  informers' stores and the namespace from the API server, and call handlers;
* handlers of both workers share the cache.  `SetIfOutdated` is the only thing
  they do under its mutex; the request to Golive goes out afterwards;
* errors flow back only from `sync` to `processNextPod` (the key is queued again
  after a back-off).  `Handle` returns nothing: its errors are logged;
* a signal cancels the context, which ends `run` and the calls that carry it; a
  second one ends the process;
* `Golive` builds the client once; every call of it makes its own request and
  reads its own answer.

What is hard in it, and where it bites, is the list `hazards` of
`PROJECT.json`: two workers on one key or one payload, keys added again while
they are processed, pushes that overtake each other, refused and unanswered
pushes, requests that are applied after the agent has given them up, requests
that are never answered, restarts with requests still on the wire, entries that expire in the middle of a comparison, objects that change
between the five reads of one sync, a status older than its spec, signals during
the start, and everything that nobody listens to (owners, deletions).

What makes each part correct:

* cache: comparing and remembering is one atomic operation; every call returns;
* queue and workers: one worker per pod; no change of a selected pod is lost; it
  is synced in the end; failure counts do not outlive the key;
* push: what the cache remembers is what Golive shows, up to pushes that are
  running or ended without an answer; Golive does not go back to an older
  version, but by a request that the agent had given up; it shows the last
  version in the end;
* rollout status: Up and Failed are true of the spec the workload has now, and a
  workload that is left alone gets its final status;
* sync of a pod: what is read at different moments is still of the time of the
  sync, and belongs together;
* selection, extraction: a payload names its environment, fits, and stays in that
  environment when a new version is deployed;
* start and stop, configuration, Golive client: nothing runs that was not checked,
  nothing is called that was forbidden, requests are complete, answers are
  closed, and a signal ends the process whatever it waits for.

## The modules

| module | models | extends or instantiates |
|---|---|---|
| `UpToDateCache` | what handlers rely on: an atomic compare-and-set per selector | |
| `GoliveCache` | `cache.go`, one step per access to the mutex or the store | `UpToDateCache` (refinement) |
| `GoliveCacheProofs` | theorems about `GoliveCache` | `GoliveCache`, `TLAPS` |
| `Workqueue` | client-go's rate limiting queue (external) | |
| `PodController` | event handlers, workers, start and stop of `run` | `Workqueue` |
| `PodControllerProofs` | theorems about `PodController` | `PodController`, `TLAPS` |
| `PodSync` | `sync` and `Handle`: owner, namespace, handlers, cache, request, answer; the faults of Golive and restarts | |
| `PodSyncProofs` | theorems about `PodSync` | `PodSync`, `TLAPS` |
| `Agent` | the running agent: the queue and workers of `PodController` around the sync of `PodSync`, in one state | `PodController`, `PodSync` (steps and refinement) |
| `AgentProofs` | that `Agent` implements both, and what follows | `Agent`, `PodControllerProofs`, `PodSyncProofs` |
| `Selectors` | which listeners match a pod | |
| `Extraction` | templates, default chains and every part of a payload, as functions of owner and namespace | |
| `ExtractionProofs` | lemmas about those functions | `Extraction`, `TLAPS` |
| `PodReading` | every read of `sync` and `findOwner` while the cluster changes, and the payload made of them | `Selectors`, `Extraction` |
| `PodReadingProofs` | theorems about `PodReading` | `PodReading`, `ExtractionProofs` |
| `RolloutStatus` | the status functions of `meta.go` | |
| `Rollout` | those functions applied to a workload that is edited, scaled and rolled out | `RolloutStatus` |
| `RolloutProofs` | theorems about `Rollout` | `Rollout`, `TLAPS` |
| `GoliveApi` | method, path, parameters and decoded answers of the 45 operations | |
| `GoliveClient` | one call: builder, editors, request, answer, body, parser | `GoliveApi` |
| `Process` | `main`, `Start`, signal handler, `LoadConfig`, `Golive`, `Test`, the ends of the process, around calls of the client | `GoliveClient` |
| `ProcessProofs` | theorems about `Process` | `Process`, `TLAPS` |
| `MC...` | constants of the runs | the module they are named after |

### GoliveCache

A caller goes through `lock`, `check`, `set`, `unlock`; `Delete` and `Expire`
are single steps that ignore the mutex, as in the code.  `entry[k]` is what
go-cache's `Get` returns, so an expired item and a missing one are both
`NoEntry`.  A payload is a value: the code compares JSON texts, made before the
deployed date is filled in (`handler.go:234-247`), so equal informations have
equal texts.  The marshalling errors of `toJson` cannot occur for the types
passed and are left out.

The refinement maps `idle`, the three points before the decision takes effect,
and the points after it to the statuses of `UpToDateCache`.  `Check` of an equal
payload and `Set` are the points where the atomic operation happens.

### Workqueue and PodController

`queue`, `dirty`, `processing` are the fields of client-go's queue, `waiting`
the keys whose delay has not elapsed, `backoff` the keys with a failure count.
A pod is a sequence of revisions; `Selected[p]` says which of them some handler
matches, so a pod can be relabelled.  `store[p]` is the informer's store,
`events` the notifications its handlers have not seen.  The steps of a worker are those of
`processNextPod`: get, look the pod up, the rest of `sync` (succeeds or fails),
`AddRateLimited` or `Forget`, `Done`.  `AddRateLimited` comes before `Done`, as in
the code, so a delay may elapse while the key is still processing.  `synced` is a
history variable.

`Cancel`, `Return` and `Exit` stop the agent at any moment; workers keep running
until the process ends and may be cut off anywhere.

### PodSync

One worker step per thing that others can observe or that can fail: find the
owner (from the informers), read the namespace (API server, may fail), then per
handler: extract, compare with the cache, request, answer.  The store accesses of
`SetIfOutdated` are one step because `GoliveCache` implements `UpToDateCache`;
the queue is a set of due pods given to one worker at a time, which is what the
real one comes to (`Agent`).  A payload is the
triple listener, owner, version: it changes exactly when what it is extracted from
changes.  The namespace's labels and annotations are part of that version.

`published[e]` is the last payload Golive applied.  A request is applied and
answered, or the agent gives it up: it gets an error status, from Golive or from a
gateway before it, its connection breaks, or it is never answered (the HTTP client
has no timeout, `handler.go:250`, so its worker stays `hung` and its pod stays with
it).  Whatever the agent hears of it, a request that is given up (`Abandon`) may
have been applied, may never be, or is `late`: free to reach Golive at any time
after, past later pushes (`LateArrival`).  At any moment the agent may die and
start again: cache, queue and workers are lost, its requests are late too, the pods
are listed anew and so are the owners, but `run` waits for the pods only
(`controller.go:220`): `version[o]`, what the informers have of an owner, goes back
to nothing until `OwnerListed` brings it to `latest[o]`.  `Faults` says which of the
four kinds an instance has and `MaxFaults` how many in all.  `accepted`, `lost` and
`overtaken` are history variables; `overtaken[e]` says that the last payload Golive
applied to `e` came from a late request.

`PodUpdated` and `Resync` have the same effect; only the second needs a positive
resync period, and only the second is fair.  A pod that is gone may come back
under its key, as those of stateful sets do.  When a worker takes a pod, the pod
may stay due (`StartSync`): a notification or a delay that is about to add its
key again is part of what `due` stands for.

### Agent

`Agent` puts `PodController` and `PodSync` together.  `PodController` keeps its
variables and its actions, but the step that stood for the rest of `sync` is
taken apart: `at`, `pod`, `snap` and `todo` are the frame of a worker's call of
`sync` and of the handlers it runs, and its steps are those of `PodSync`, used
through an instance whose `due` is empty because they touch no queue.  Where the
code goes from one function to the other both step at once: `CallSync` (`Get`,
then `sync`), `LookupPod` (the pod and its handlers, which may end the call),
`GoOn` when it returns nil, `SyncFails` when it returns an error.  Between
`LookupPod` and `GoOn` the pod may go: `findOwner` reads it again.

`Life` and `Due` map this state to the one of `PodSync`.  A pod is due when a
notification of a revision that matches waits for the handlers, when its key is in
the queue, waits for its delay, or when the worker that failed to sync it is about
to add it again.  A pod matches the same listeners all its life here
(`AgentAssumption`), while `PodController` relabels pods and `PodReading` lets their
labels change in the middle of a sync; the agent is neither stopped nor started
anew, which are matters of `PodController` and of `PodSync`.  So the informers of
owners follow the cluster and never list it anew.

### Selectors, Extraction and PodReading

`PodReading` opens up the step that `PodSync` takes as one: `sync` gets the pod and
picks its handlers, `findOwner` gets the pod again, then the Job or ReplicaSet
that controls it, then the owner by its name, and `sync` asks the API server for
the namespace.  Between any two of these an object may change, go, or come back
(`Change`); the informers follow the cluster one by one, so no order is assumed
between them.  `shown[s]` is what was seen under a kind and name since the sync
began, a history variable.  One worker is enough: a sync writes nothing that
another one reads.

`Extraction` is what `Handle` makes of listener, owner and namespace before it
compares with the cache.  A text is a sequence of words; a template a sequence of
literals and function calls.  It has the functions that read something, their
failures, the default chains with the rule that the first default that yields
something *or fails* decides, the mandatory names, the attributes that
annotations of the owner and of the namespace override, and `truncate`, which
counts bytes: `Chars` gives each word its characters as byte counts, and a
character that is cut in two is replaced, byte by byte, when the request is
marshalled.  A template that asks for `.App` or `.Cat` where there is none writes
`<no value>` (`NoValue`), as `text/template` does.  With a status mapping each of the
four statuses has a reference (`Mapped`), possibly empty.

Images are taken apart as `parseContainerImage` does it.  An image is a sequence of
characters, of which only the class matters (`Class`: a word character or dash, a
digit, a dot, a colon, a slash, another one).  `IsRepository` says which prefixes the
pattern accepts as a repository, `NameStarts` where a name may begin, and
`parseContainerImage` takes the longest of each, as the matcher does.  So
`web:12` is the name `web` and the tag `12`, but of `shop.web:12` the pattern makes the
repository `shop.web:1` and the name `2`.  `Selectors` is the match of label queries, labels, name and
namespace.

### GoliveApi, GoliveClient and Process

`GoliveApi` has one definition per request builder and one per parser: method,
path, required and optional query parameters, whether there is a body, and the
statuses whose JSON answer is decoded.  `GoliveClient` follows one call through
them: an invalid server or a failing editor ends it before anything is sent, `Do`
may fail or be cancelled, the raw form hands out the answer with its body open,
the typed one reads it, closes it on every way out, and decodes it by status and
content type.  Calls share only the client, which does not change once it is
built, so the model follows one call at a time.

`Process` is the main goroutine from `SetupSignalHandler` to the return of `run`,
with the signal handler's goroutine and its channel of two, the web server's
goroutine (which may fail and panic), `LoadConfig` with the precedence of
environment over file, `Golive` with its credentials, and `Test`.  `exit` says how
the process ended.  Before the handler is set up a signal kills the process.
While the controller runs, callers may invoke any of the operations, raw or
typed, with editors of their own; the agent's handlers use one of them.

### RolloutStatus and Rollout

`RolloutStatus` has one operator per function, on records with the fields the
functions read; optional fields have the values the API server fills in (one
replica, partition zero), and the list of conditions is reduced to whether the
Progressing condition says `ProgressDeadlineExceeded`.

The functions are pure, but what they read is not one instant: `status` describes
an older `spec` and older pods.  `Rollout` therefore puts them beside the workload
itself: users edit, roll back and scale it, its pods are replaced one by one and
may fail, and its kube controller writes the status from time to time, exact for
the moment it is written.  `Status` is what the agent computes at any moment from
the object.  All actions of `Rollout` are external; `seen` (pods at the last status
write) and `used` (templates so far) are history variables.

Two assumptions on the workload matter.  A stateful set's template does not return
to an earlier one where `UpMeansRolledOut` is checked (`Reusable`): after the
roll-back of a partitioned update its two revisions are equal at once, and the code
says Up while a pod of the withdrawn template still runs.  The nodes of a daemon set
run at most one of its pods.

## The runs

| run | instance | shows |
|---|---|---|
| `cache` | 3 workers, 1 selector, 2 payloads | `DecisionStands`, refinement of the atomic cache, `CallsReturn` |
| `controller` | 1 pod relabelled and back, 2 workers, 4 revisions, 3 pending events, resyncs | `OneWorkerPerPod`, `ChangeNotLost`, `BackoffCleared`, `EventuallySynced` |
| `controller_stop` | the same pod | violated: `ReturnWaitsForWorkers` |
| `push` | 2 replicas of one owner, 2 versions, 1 endless request or restart | `EventuallyPublished` |
| `push_all_listeners` | 1 pod, 3 listeners (the first extracts nothing), 2 versions, 2 faults (error statuses, lost connections, restarts) | `EntryIsBacked`, `CachedIsPublished`, `PublishedNeverGoesBack`, `EventuallyPublished` |
| `agent` | 2 workers and the real queue, 1 pod with 2 revisions, 2 versions of its owner, 2 waiting notifications, resyncs, expirations, no faults | `AgentTypeOK`, `ImplementsPodSync`, `ChangesArePublished` |
| `push_reordered` | 2 replicas, no failures | violated: `UpToDateMeansPublished` |
| `push_not_retried` | 1 lost connection | violated: `FailedPushIsRetried` |
| `scaled_down` | 2 replicas that go away | violated: `ScaledDownIsPublished` |
| `rollout` | 3 kinds, 2 templates (one cannot start), 2 replicas, 2 changes, 1 pod failure, partitions 0 and 1, both strategies | `UpMeansRolledOut`, `FailedMeansStuck`, `StatusSettles`, `StuckDeploymentFails` |
| `reading` | 1 pod in 3 forms, ReplicaSet, Deployment, StatefulSet and namespace in 1 to 5 forms, 4 listeners (one names the version in an environment), 2 changes during a sync | `PayloadIsOfItsTime`, `WellFormedPayload`, `NewVersionSameEnvironment`, `DefaultsNeedOnlyTheImage` |
| `process` | 15 configurations, 3 servers, 4 statuses, 3 signals, every operation | `ConfigurationIsChecked`, `CallsAreAllowed`, `RequestsAreComplete`, `BodiesAreClosed`, `ExitTells`, `SignalEnds` |

The passing runs check `TypeOK` as well, once per module.  `NewVersionSameEnvironment`
leaves out the listeners that configure the version into what identifies an
environment (`KeepsEnvironment`): they ask for a new environment per version.  It
compares an owner with any other form of it that differs in the tag, where the image
begins with a base that the pattern takes for a name (`IsBase`: no dot, or a name
after a slash); elsewhere it is false of the code.

### Bounds

* Two workers is the number in the code (`controller.go:127`); the cache runs
  take three because its mutex is shared by whoever calls it.
* One selector is enough for the cache: entries of different selectors share
  nothing but the mutex.  Two payloads are enough to be equal or different.
* `MaxRevision`, `MaxVersion`: two to four, so that a change can arrive before,
  during and after the sync of the previous one, and so that a pod can be
  relabelled and relabelled back.
* One pod in the controller runs: the queue, the counters and the store treat
  keys separately, and what is hard is one key in several places; the proofs are
  for any number of pods.
* `agent`: both workers and one pod, so that TLC sees its key offered to the
  second while the first syncs it; two revisions of the pod and two versions of
  its owner, so that a snapshot may be old when it is pushed and a change may come
  at any point of the sync of the one before; two notifications may wait.
  Faults of Golive would make the instance too large: with them the agent is
  covered by the refinement, proved for any faults, workers and pods, and by the
  `push` runs of what it refines.
* `MaxEvents`: three in the controller runs, so that notifications can be older than the store.
* `MaxFaults`: one with two replicas, where reordering is what matters, two with
  one pod, so that a push can fail, be repeated, fail again, and find the first
  request late.  Between them the two runs have the four kinds.
* `rollout`: two templates and two changes give a roll-back, and an edit followed
  by a scaling; two replicas let pods of both templates coexist.
* `reading`: two changes during a sync put any two of its reads apart; every object
  has a form that makes the next step fail or lead elsewhere.  The limit of
  attributes is five bytes, inside a two-byte character of one text and beyond
  the end of others; the forms of the deployment are a first one, its next version, a
  labelled one and its next version, and one whose image cannot be parsed; that of
  the stateful set has no containers.
* `process`: three signals, because the channel holds two and the process obeys
  two; fifteen inputs, one for each branch of the start and of the precedence.
* Failing syncs, resyncs, expirations and delays are not bounded.

Workers are symmetric in `controller_stop`; liveness is checked without symmetry.
Deadlock is not checked where the bounds or the end of the process stop the
model.

### Fairness

* cache: a goroutine inside the critical section continues; `sync.Mutex` does
  not starve a waiter (strong fairness of `Lock`).
* controller: the informer's and the queue's goroutines and the workers
  continue; a sync that is tried for ever succeeds in the end (strong fairness
  of `SyncOk`, per pod), since what makes it fail is an unavailable API server.
* push: workers continue (one weak fairness per worker, whose steps exclude each
  other), a due pod is not passed over for ever (the queue is first in, first
  out), the namespace is read in the end, resyncs and expirations recur, and after
  a restart the owners are listed in the end.  Golive may answer, refuse, break the
  connection, or never answer; nothing makes late requests arrive.
* agent: the same, except that nothing is assumed of the order of the queue: that
  no due pod is passed over is what `agent` shows.  The namespace of each pod is
  read in the end.  A resync is strongly fair because the bound on waiting
  notifications (`MaxEvents`) may disable it now and then, which the code does not.
* process: the main goroutine and the signal handler continue, and the HTTP
  client notices that its context is done.  Nothing is assumed of Golive,
  Kubernetes and the user: `SignalEnds` holds although no answer ever comes and
  no informer ever synchronises.
* rollout: the kube controller starts, stops and readies pods and writes the
  status; a stuck deployment's deadline passes in the end.

## What is proved

For any number of pods, workers, selectors, payloads, revisions:

* `GoliveCacheProofs`: type correctness, `DecisionStands`, and that the lock-level cache implements the atomic one (`CacheIsAtomic`).  The
  invariant is `TypeOK /\ DecisionStands`: mutual exclusion is not enough, one
  needs that between a caller's `Check` and its `Set` nobody can install its
  payload, because the steps that ignore the mutex only empty entries.
* `PodControllerProofs`: type correctness, `OneWorkerPerPod`, `ChangeNotLost`,
  `BackoffCleared`.  `OneWorkerPerPod` needs that a queued key is held by nobody
  (`QueueInv`) and that the keys the queue believes processing are those the
  workers hold (`HoldInv`).  `ChangeNotLost` needs that a sync never works with
  a revision older than the last one synced (`OrderInv`), which follows from
  exclusivity.  `BackoffCleared` needs that a key about to be released was either
  forgotten or added again (`SettledInv`).

* `PodSyncProofs`: type correctness and `EntryIsBacked`.  The invariant adds that a
  worker that has Golive's answer finds its payload among the applied ones
  (`AnswersAreAccepted`).  Steps that touch neither the cache, nor Golive, nor a
  worker that is pushing are treated together (`Quiet`); the others change one
  worker at a time, so the push that backs an entry is either untouched or the one
  that ends in that step.
  `CachedIsPublished` and `PublishedNeverGoesBack` are proved there too, for
  environments with one source, with every kind of fault.  Both except the
  moment when the last thing Golive applied is a request the agent had given up
  (`overtaken`): such a request may arrive after a later push, and the agent cannot
  know.  The exception ends with the next push that Golive applies while the
  agent waits for it.  The
  invariant `SourceInv` says that a pod is with one worker at most (`Exclusive`),
  that the handlers left are among those to run (`Remaining`), and that cache and
  Golive agree but for a push that is under way, was lost, or was overtaken
  (`Agreement`).  `OrderInv` adds that what the informers have of an owner is none
  or at most its last version (`Stores`), that workers' snapshots follow it
  (`Snapshots`), and that what is pushed is not older than what Golive was given
  (`Order`): after a restart the owner's informer lists it at its last version, so
  nothing goes back even then.
* `AgentProofs`: the agent implements `PodController`, since each of its steps is
  one of the controller or leaves its variables alone; so `OneWorkerPerPod`,
  `ChangeNotLost` and `BackoffCleared` hold of it.  It implements `PodSync` too
  (`ImplementsPodSync`), one lemma per action: `CallInv` says that the calls of
  `sync` are those of the busy workers, with their keys, and the lemmas about `Due`
  that only a notification, the key itself or a failed sync makes a pod due.  That
  no other call has the pod a worker takes needs `QueueInv` and `HoldInv`.  From it
  follow the type correctness of the frames and, for the agent with its real queue,
  `EntryIsBacked`, `CachedIsPublished` and `PublishedNeverGoesBack`.
* `PodReadingProofs`: type correctness, `PayloadIsOfItsTime`,
  `WellFormedPayload`, `NewVersionSameEnvironment` and `DefaultsNeedOnlyTheImage`,
  for any objects, listeners and number of changes.
  `TimeInv` records, at each point of the sync, which of the objects shown since
  it began led there (`Matched`, `Following`, `Led`, `Seen`).  Well-formedness rests on
  `ExtractFits` and `CutFits` of `ExtractionProofs`, for any templates and
  characters: a text has at least as many bytes as characters, so what is kept
  and the pieces of a cut character together stay within the limit.
  `NewVersionSameEnvironment` follows template by template: a part that does not
  mention the version reads the same of both owners, so their texts, the default
  chains and the attributes agree.  For the name of the image that is the lemma
  `NameIsOfBase`: where the base is one, the match ends with it whatever tag follows.  `DefaultsNeedOnlyTheImage` rests on
  `DefaultsFail` of `ExtractionProofs`: of all that a chain of defaults reads only
  the image can fail (`OwnerChainYields`, `NamespaceChainYields`), and on
  `ExtractType`, that an extraction is an error or a payload with all its parts.
* `RolloutProofs`: type correctness, `FailedMeansStuck`, and `UpMeansRolledOut` where
  stateful sets are not rolled back (`"StatefulSet" \notin Reusable`).  `Inv` says that the
  status counts what was seen (`Snapshot`), that a status of the last generation is
  of the spec's template and replicas (`Fresh`), what a passed deadline means
  (`Deadline`), and that a daemon set has at most one pod per node (`Nodes`);
  `Revisions` adds that a stateful set whose current revision is its last one has
  no pod of another.  Totals over templates are a fold over a finite set.
* `ProcessProofs`: type correctness and the other five invariants of the run, for any
  configurations, servers, editors, statuses and number of signals.  `Inv` says
  that the configuration is that of the input and valid (`Loaded`), the client the
  one `Golive` builds (`Built`), Golive tried unless it need not be (`Tried`), the
  listeners and informers looked at (`Prepared`), the signals accounted for
  (`Accounted`), and that a request that waits is the one client and editors made
  (`Requested`).

Facts about the recursive functions of `Extraction` and the folds of `Rollout`
are proved by the least counterexample: the set of naturals, or of cardinalities,
where a fact fails has a least element unless it is empty.

The assumptions are those named `...Assumption` in the modules (sentinels are
not members of the sets they extend, revisions are positive, inputs have their
types, templates are finite in number); TLC evaluates them in every run.

Only model-checked: the liveness properties (`CallsReturn`, `EventuallySynced`,
`EventuallyPublished`, `ChangesArePublished`, `StatusSettles`,
`StuckDeploymentFails`, `SignalEnds`), which rest on fairness and are out of the
prover's reach.  Every invariant, action property and refinement of the runs is
proved.

## Where the code departs from what it says

* `ReturnWaitsForWorkers`: `run`'s comment says it waits for the workers; it does
  not, and the process ends under them.
* `UpToDateMeansPublished`: two replicas of one owner, handled by the two
  workers, can push an older version after a newer one; the cache remembers the
  newer one and every later sync logs "Golive should be up-to-date".  The entry's
  expiration (ten minutes by default) repairs it, as `push` shows.
* `FailedPushIsRetried`: the README promises a retry for temporary errors; a push
  that ends without an answer is only logged, and its payload stays in the cache
  until it expires.
* `ScaledDownIsPublished`: the documented status "down" of a workload scaled to
  zero is not pushed when the last pod goes before the workload's own update
  arrives, since only pods that exist trigger a push.

Read off the code while modelling it, without a run of their own:

* stateful and daemon sets never become Failed, whatever their pods do, since
  only deployments have a progress deadline;
* a comment of `StatefulSetStatus` (`meta.go:301`) says that a set whose pods are not
  all in the last revision is deploying; after the roll-back of a partitioned update
  it is Up while a pod of the withdrawn template runs;
* annotations of owner and namespace override configured attributes
  (`handler.go:342-353`), while `DOCKERHUB.md:326` presents annotations as defaults
  for missing templates;
* with credentials Golive is not tried (`golive.go:55-57`): a wrong URL or token
  shows in the log at the first push, while `README.md:86` announces a panic when
  Golive cannot be reached or the configuration is wrong.  `ConfigurationIsChecked`
  says what the start does look at;
  without credentials any answer with status 200 passes, JSON or not;
* a configuration without listeners is accepted (an input of `process` has none)
  and the agent runs without pushing anything, while `DOCKERHUB.md:76` calls at
  least one mandatory;
* the pattern of images (`utils.go:45-56`) takes digits of the tag for a name where
  the image is a single name with a dot: of `shop.web:12` it makes the repository
  `shop.web:1` and the name `2`, so the default name of the application changes with
  the version;
* a template that mentions `.App` or `.Cat` where there is no context yet
  (application, category, version, attributes) is no error: `<no value>` is sent;
* `Handle` never closes the body of a successful answer.

## Not modelled

* of the configuration: the YAML format and the durations (`Expires` and `Resyncs`
  of `PodSync` stand for positive ones);
* of templates: `title`, `lower`, `upper`, `cutPrefix` and `cutSuffix`, which map texts
  to texts; JSONPath and label queries are libraries, and of the latter the numeric comparisons are left out;
* of the generated API: the types of the bodies, the serialisation of parameters,
  the variants with other content types, `WithHTTPClient` and `WithBaseURL`, which
  the agent does not use, and the embedded OpenAPI document;
* of the web server: what it answers; it only fails or not;
* two sources for one environment: nothing says what Golive should show then;
* `ExpandUserHome`, log output, the JSON formats, the event recorder (it is created
  but records nothing), the bucket limiter (a global delay: it postpones keys but
  does not reorder them in the model, where delays are arbitrary).

## Plan

Done: the cache, the queue, the push with its faults, the agent that joins queue
and push, the rollout, the reads of a sync and what is extracted from them, the
client and the process, with their proofs.  What would come next:

1. Pods that are relabelled in `PodSync` and `Agent`, as they are in `PodController`.
2. `PodSync` with the payloads of `PodReading` in place of owner versions.
3. The bodies of the API's requests and answers, if the agent comes to read more
   than their status.
