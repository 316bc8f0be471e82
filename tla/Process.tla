------------------------------ MODULE Process ------------------------------
(***************************************************************************)
(* The life of the agent's process: the signal handler, the configuration, *)
(* the check of Golive, the handlers, the web server, the synchronisation  *)
(* of the informers, the run of the controller, and the exit.  The main    *)
(* goroutine, the signal handler, the web server and the callers of the    *)
(* Golive client take steps independently; Golive, Kubernetes and the      *)
(* user who sends signals are the environment.                             *)
(***************************************************************************)
EXTENDS GoliveClient

CONSTANTS
    Inputs,       \* pairs [file, env] the process may be started with
    DefaultUrl,   \* DEFAULT_GOLIVE_URL
    CallEditors,  \* editors that callers pass to a call
    MaxSignals    \* bound on the signals that are sent

Keys == {"url", "username", "password", "token", "offline"}

Listener == [id : STRING, selectors : Seq([labels : STRING, query : STRING])]

ASSUME InputAssumption ==
    Inputs \subseteq [file : [url : STRING, username : STRING, password : STRING,
                             token : STRING, offline : STRING, readable : BOOLEAN,
                             listeners : Seq(Listener)],
                      env : [Keys -> STRING]]
ASSUME EditorsAssumption == CallEditors \subseteq Seq(Seq(STRING))
ASSUME UrlAssumption ==
    /\ DefaultUrl \in DOMAIN Server
    /\ \A i \in Inputs : {i.env["url"], i.file.url} \subseteq DOMAIN Server \cup {""}
ASSUME SignalsAssumption == MaxSignals \in Nat

VARIABLES
    pc,       \* where the main goroutine is
    input,    \* the file and the environment variables of this process
    cfg,      \* the configuration, once it is loaded
    synced,   \* the informers have the pods of Kubernetes
    checked,  \* Test got its answer
    signals,  \* signals sent
    queue,    \* those in the channel of the signal handler
    exit      \* "no", or how the process ended

processVars == <<pc, input, cfg, synced, checked, signals, queue, exit>>
vars == <<clientVars, processVars>>

NoConfig == [k \in Keys |-> ""]
-----------------------------------------------------------------------------
(* Configuration *)

\* Mutated form: the file wins over the environment.
FileFirst(i, key) == IF i.file[key] # "" THEN i.file[key] ELSE i.env[key]

\* Environment variables win over the file; an empty one counts as not set.
Setting(i, key) == IF i.env[key] # "" THEN i.env[key] ELSE i.file[key]

\* Mutated form: duplicated ids are not looked for.
DuplicateUnseen(listeners) == FALSE

\* A listener without an id has the id "", which is compared like another.
DuplicateId(listeners) ==
    \E k, l \in DOMAIN listeners : k < l /\ listeners[k].id = listeners[l].id

\* LoadConfig fails.  offline is the one setting here that is not a string.
LoadFails(i) ==
    \/ ~i.file.readable
    \/ Setting(i, "offline") \notin {"", "true", "false"}
    \/ DuplicateId(i.file.listeners)

\* A selector NewHandler accepts: ValidatedSelectorFromSet and
\* ParseToRequirements find no error.
ValidSelector(s) == s.labels # "invalid" /\ s.query # "invalid"

Offline(c) == c.offline = "true"
Url(c) == IF c.url = "" THEN DefaultUrl ELSE c.url

\* The Authorization header, if there is one.
newSecurityProvider(c) ==
    CASE c.token # "" -> <<"Bearer", c.token>>
      [] c.token = "" /\ c.username # "" -> <<"Basic", c.username, c.password>>
      [] OTHER -> <<>>
-----------------------------------------------------------------------------
Init ==
    /\ client = NoClient /\ call = NoCall /\ ctx = "open"
    /\ pc = "start"
    /\ input \in Inputs
    /\ cfg = NoConfig
    /\ synced = FALSE /\ checked = FALSE
    /\ signals = 0 /\ queue = 0
    /\ exit = "no"

Alive == exit = "no"

Goto(here, there) == Alive /\ pc = here /\ pc' = there

\* The process ends, its calls with it.
End(how) ==
    /\ exit' = how
    /\ call' = NoCall
    /\ UNCHANGED <<client, ctx, pc, input, cfg, synced, checked, signals, queue>>

\* panic: Go ends the process with status 2, in whichever goroutine it is.
Panic(here) == Alive /\ pc = here /\ End("panic")

SetupSignalHandler ==
    /\ Goto("start", "kubeconfig")
    /\ UNCHANGED <<clientVars, input, cfg, synced, checked, signals, queue, exit>>

\* clientcmd.BuildConfigFromFlags.
BuildConfig ==
    \/ /\ Goto("kubeconfig", "config")
       /\ UNCHANGED <<clientVars, input, cfg, synced, checked, signals, queue, exit>>
    \/ Panic("kubeconfig")

LoadConfig ==
    \/ /\ Goto("config", "golive")
       /\ ~LoadFails(input)
       /\ cfg' = [k \in Keys |-> Setting(input, k)]
       /\ UNCHANGED <<clientVars, input, synced, checked, signals, queue, exit>>
    \/ LoadFails(input) /\ Panic("config")

\* The client has the security provider as its editor, if there is one.
Golive(c) ==
    LET header == newSecurityProvider(c)
    IN  NewClient(Server[Url(c)], IF header = <<>> THEN <<>> ELSE <<header>>)

\* No client offline; with credentials the client is not tried.
NewGolive ==
    /\ Goto("golive", IF Offline(cfg) \/ newSecurityProvider(cfg) # <<>>
                      THEN "clientset" ELSE "test")
    /\ client' = IF Offline(cfg) THEN NoClient ELSE Golive(cfg)
    /\ UNCHANGED <<call, ctx, input, cfg, synced, checked, signals, queue, exit>>

\* Test calls GetApplications with nil parameters and wants the status 200.
TestCalls ==
    /\ Alive /\ pc = "test"
    /\ Invoke("GetApplications", TRUE, [nil |-> TRUE, given |-> {}], <<>>)
    /\ UNCHANGED processVars

TestPassed == call.pc = "returned" /\ call.error = "none" /\ call.status = 200

TestEnds ==
    \/ /\ TestPassed
       /\ Goto("test", "clientset")
       /\ call' = NoCall
       /\ checked' = TRUE
       /\ UNCHANGED <<client, ctx, input, cfg, synced, signals, queue, exit>>
    \/ call.pc = "returned" /\ ~TestPassed /\ Panic("test")

\* kubernetes.NewForConfig.
NewClientSet ==
    \/ /\ Goto("clientset", "handlers")
       /\ UNCHANGED <<clientVars, input, cfg, synced, checked, signals, queue, exit>>
    \/ Panic("clientset")

ValidListeners(listeners) ==
    \A l \in ToSet(listeners) : \A s \in ToSet(l.selectors) : ValidSelector(s)

\* NewHandler for every listener, NewController, the informers and the web
\* server's goroutine.
NewHandlers ==
    \/ /\ Goto("handlers", "sync")
       /\ ValidListeners(input.file.listeners)
       /\ UNCHANGED <<clientVars, input, cfg, synced, checked, signals, queue, exit>>
    \/ ~ValidListeners(input.file.listeners) /\ Panic("handlers")

\* The informers get the pods of Kubernetes.
InformersSync ==
    /\ Alive /\ pc = "sync" /\ ~synced
    /\ synced' = TRUE
    /\ UNCHANGED <<clientVars, pc, input, cfg, checked, signals, queue, exit>>

\* Mutated form: run goes on when the wait for the informers is given up.
SyncedOrDone == synced \/ ctx = "done"

\* WaitForCacheSync returns true.
IsSynced == synced

\* run waits for the informers; when the context is done first, Start panics.
WaitForCacheSync ==
    \/ /\ Goto("sync", "running")
       /\ IsSynced
       /\ UNCHANGED <<clientVars, input, cfg, synced, checked, signals, queue, exit>>
    \/ ctx = "done" /\ Panic("sync")

\* run and then main return.
Return ==
    /\ Alive /\ pc = "running" /\ ctx = "done"
    /\ End("returned")

\* ListenAndServe fails, for instance because the port is taken.
WebServerFails == pc \in {"sync", "running"} /\ Panic(pc)

\* Mutated form: the channel has no limit.
DeliveredAlways(n) == n + 1

\* signal.Notify drops what the channel of two has no room for.
Delivered(n) == IF n < 2 THEN n + 1 ELSE n

\* The user or Kubernetes sends SIGINT or SIGTERM.  Before the handler is set up
\* it kills the process.
Signal ==
    /\ Alive /\ signals < MaxSignals
    /\ signals' = signals + 1
    /\ IF pc = "start"
       THEN /\ exit' = "killed" /\ call' = NoCall
            /\ UNCHANGED <<client, ctx, pc, input, cfg, synced, checked, queue>>
       ELSE /\ queue' = Delivered(queue)
            /\ UNCHANGED <<clientVars, pc, input, cfg, synced, checked, exit>>

\* The goroutine of the signal handler: the first signal cancels the context,
\* the second ends the process.
TakeFirstSignal ==
    /\ Alive /\ queue > 0 /\ ctx = "open"
    /\ ctx' = "done"
    /\ queue' = queue - 1
    /\ UNCHANGED <<client, call, pc, input, cfg, synced, checked, signals, exit>>

TakeSecondSignal ==
    /\ Alive /\ queue > 0 /\ ctx = "done"
    /\ End("second signal")

\* While the controller runs, callers use the client.  The handlers use the raw
\* PostEnvironmentInformation; the other operations are there for any caller.
WorkerCalls(op, typed, params, editors) ==
    /\ Alive /\ pc = "running"
    /\ Invoke(op, typed, params, editors)
    /\ UNCHANGED processVars

WorkerReturns ==
    /\ Alive /\ pc = "running" /\ call.pc = "returned"
    /\ call' = NoCall
    /\ UNCHANGED <<client, ctx, processVars>>

GoliveAnswers == Alive /\ Answer /\ UNCHANGED processVars

\* Mutated form: the call of Test does not carry the context of the process.
CallCancelledUnlessTest == pc # "test" /\ Alive /\ Cancel /\ UNCHANGED processVars

\* The context is done: every call carries it, that of Test included.
CallCancelled == Alive /\ Cancel /\ UNCHANGED processVars

Ended == ~Alive /\ UNCHANGED vars

Main ==
    \/ SetupSignalHandler \/ BuildConfig \/ LoadConfig \/ NewGolive
    \/ TestCalls \/ TestEnds \/ NewClientSet \/ NewHandlers
    \/ WaitForCacheSync \/ Return

TakeSignal == TakeFirstSignal \/ TakeSecondSignal

Worker ==
    \/ \E op \in Operations, typed \in BOOLEAN, editors \in CallEditors :
           \E params \in Parameters(op) : WorkerCalls(op, typed, params, editors)
    \/ WorkerReturns

Environment == InformersSync \/ WebServerFails \/ Signal \/ GoliveAnswers

Next == Main \/ TakeSignal \/ Worker \/ Environment \/ CallCancelled \/ Ended

\* The goroutines are scheduled, and the HTTP client notices that its context
\* is done.  Nothing is assumed of Golive, Kubernetes and the user.
Fairness == WF_vars(Main) /\ WF_vars(TakeSignal) /\ WF_vars(CallCancelled)

Spec == Init /\ [][Next]_vars
FairSpec == Spec /\ Fairness
-----------------------------------------------------------------------------
(* Properties *)

Asked(key) == IF input.env[key] # "" THEN input.env[key] ELSE input.file[key]

HasCredentials == Asked("token") # "" \/ Asked("username") # ""

\* The Authorization header the user configured.
AskedAuthorization ==
    IF Asked("token") # "" THEN <<"Bearer", Asked("token")>>
    ELSE IF Asked("username") # ""
    THEN <<"Basic", Asked("username"), Asked("password")>>
    ELSE <<>>

AskedServer == Server[IF Asked("url") = "" THEN DefaultUrl ELSE Asked("url")]

Configurations == {[k \in Keys |-> Setting(i, k)] : i \in Inputs}

\* The values of the Authorization header a request may have.
Headers == {<<>>} \cup {newSecurityProvider(c) : c \in Configurations}
           \cup UNION {ToSet(e) : e \in CallEditors}

\* The types of the variables.
TypeOK ==
    /\ pc \in {"start", "kubeconfig", "config", "golive", "test", "clientset",
               "handlers", "sync", "running"}
    /\ input \in Inputs
    /\ cfg \in {NoConfig} \cup Configurations
    /\ client.editors \in Seq(Headers) /\ call \in CallType(Headers)
    /\ synced \in BOOLEAN /\ checked \in BOOLEAN
    /\ signals \in 0..MaxSignals /\ queue \in 0..2
    /\ exit \in {"no", "panic", "returned", "second signal", "killed"}
    /\ ctx \in {"open", "done"}

\* Whatever the order of the checks, the process only gets to its informers with
\* a file it could read, a usable offline setting wherever that comes from,
\* distinguishable listeners, and selectors that can be evaluated.  What is wrong
\* with the server or the credentials is not looked at when there are credentials.
\* (LoadConfig, NewHandler)
ConfigurationIsChecked ==
    pc \in {"sync", "running"} =>
        /\ input.file.readable
        /\ Asked("offline") \in {"", "true", "false"}
        /\ \A k, l \in DOMAIN input.file.listeners :
               input.file.listeners[k].id = input.file.listeners[l].id => k = l
        /\ \A k \in DOMAIN input.file.listeners :
               \A s \in ToSet(input.file.listeners[k].selectors) :
                   "invalid" \notin {s.labels, s.query}

\* A process that was asked to stay offline never calls Golive, wherever that
\* was asked, and one without credentials calls nothing but Test before Golive
\* answered.  (Start, Golive, LoadConfig)
CallsAreAllowed ==
    call # NoCall =>
        /\ Asked("offline") # "true"
        /\ HasCredentials \/ checked \/ call.op = "GetApplications"

\* A request that goes out is under the path of the configured server, whether
\* that ends with a slash or not; it has the required parameters, unless there
\* are none at all, and the credentials the user configured, unless the caller
\* set others.  (NewClient, NewXRequest, applyEditors, newSecurityProvider)
RequestsAreComplete ==
    call.pc = "waiting" =>
        LET r == call.request IN
        /\ AskedServer.valid
        /\ r.path = AskedServer.base \o Requests[call.op].path
        /\ ~call.params.nil => Requests[call.op].required \subseteq r.query
        /\ \/ r.authorization = AskedAuthorization
           \/ \E e \in CallEditors : e # <<>> /\ r.authorization = Last(e)

\* The status of the process tells how it ended: it returns normally only when
\* it was asked to and had seen the pods, is ended abruptly only by a second
\* signal, and is killed only before its handler is set up.  (Start, run,
\* SetupSignalHandler)
ExitTells ==
    /\ exit = "returned" => synced /\ signals > 0
    /\ exit = "second signal" => signals > 1
    /\ exit = "killed" => pc = "start"

\* A signal ends the process, whatever it waits for: an answer of Golive that
\* never comes, the rest of a body, or informers that never synchronise.
\* (SetupSignalHandler, Test, run)
SignalEnds == signals > 0 ~> ~Alive
=============================================================================
