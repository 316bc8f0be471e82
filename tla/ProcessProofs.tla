--------------------------- MODULE ProcessProofs ---------------------------
(***************************************************************************)
(* Proofs about Process and the GoliveClient it extends, for any inputs,   *)
(* servers, statuses and editors, and any number of signals.               *)
(***************************************************************************)
EXTENDS Process, TLAPS

Early == {"start", "kubeconfig", "config", "golive"}
Late == {"test", "clientset", "handlers", "sync", "running"}

\* After LoadConfig the configuration is that of the input, and valid.
Loaded ==
    pc \in Late \cup {"golive"} =>
        ~LoadFails(input) /\ cfg = [k \in Keys |-> Setting(input, k)]

\* The client is the one Golive() builds; calls are made where they may be.
Built ==
    /\ pc \in Early => client = NoClient /\ call = NoCall
    /\ pc \in Late => client = IF Offline(cfg) THEN NoClient ELSE Golive(cfg)
    /\ call # NoCall => pc \in {"test", "running"} /\ client # NoClient
    /\ pc = "test" /\ call # NoCall => call.op = "GetApplications"

\* Unless it is offline or has credentials, Golive answered.
Tried ==
    pc \in Late \ {"test"} =>
        Offline(cfg) \/ newSecurityProvider(cfg) # <<>> \/ checked

\* What NewHandlers and WaitForCacheSync looked at.
Prepared ==
    /\ pc \in {"sync", "running"} => ValidListeners(input.file.listeners)
    /\ pc = "running" => synced

\* The signals that were sent include those waiting and the one obeyed.
Accounted == queue + (IF ctx = "done" THEN 1 ELSE 0) <= signals

\* A request that waits is the one the client and the editors made.
Requested ==
    call.pc = "waiting" =>
        /\ client.server.valid
        /\ \E e \in CallEditors \cup {<<>>} :
             /\ ~EditorFails(client.editors \o e)
             /\ call.request = applyEditors(NewRequest(client.server, call.op, call.params),
                                            client.editors \o e)

Inv ==
    /\ TypeOK /\ Loaded /\ Built /\ Tried /\ Prepared /\ Accounted /\ Requested
    /\ ExitTells /\ BodiesAreClosed
-----------------------------------------------------------------------------
(* What a step may change *)

\* A call is made or goes on.
Calls ==
    \/ pc = "test" /\ Invoke("GetApplications", TRUE, [nil |-> TRUE, given |-> {}], <<>>)
    \/ /\ pc = "running"
       /\ \E op \in Operations, typed \in BOOLEAN, editors \in CallEditors :
              \E params \in Parameters(op) : Invoke(op, typed, params, editors)
    \/ Answer
    \/ Cancel

ProcessMoves ==
    \/ SetupSignalHandler \/ BuildConfig \/ LoadConfig \/ NewGolive
    \/ TestEnds \/ NewClientSet \/ NewHandlers \/ WaitForCacheSync \/ Return
    \/ TakeSignal \/ InformersSync \/ WebServerFails \/ Signal

\* A step is one of the process, the return of a call to a worker, a step of a
\* call, or none.
LEMMA Steps ==
    ASSUME [Next]_vars
    PROVE  \/ ProcessMoves
           \/ WorkerReturns
           \/ Calls /\ UNCHANGED <<client, ctx, processVars>>
           \/ UNCHANGED vars
<1>1. CASE Main
  <2>1. CASE TestCalls
    BY <2>1 DEF TestCalls, Calls, Invoke
  <2> QED
    BY <1>1, <2>1 DEF Main, ProcessMoves
<1>2. CASE TakeSignal
  BY <1>2 DEF ProcessMoves
<1>3. CASE Worker
  <2>1. ASSUME NEW op \in Operations, NEW typed \in BOOLEAN, NEW editors \in CallEditors,
               NEW params \in Parameters(op), WorkerCalls(op, typed, params, editors)
        PROVE  Calls /\ UNCHANGED <<client, ctx, processVars>>
    BY <2>1 DEF WorkerCalls, Calls, Invoke
  <2> QED
    BY <1>3, <2>1 DEF Worker
<1>4. CASE Environment
  <2>1. CASE GoliveAnswers
    BY <2>1 DEF GoliveAnswers, Calls, Answer, DoFails, ReadFails, Reply, Parse
  <2> QED
    BY <1>4, <2>1 DEF Environment, ProcessMoves
<1>5. CASE CallCancelled
  BY <1>5 DEF CallCancelled, Calls, Cancel, DoCancelled, ReadCancelled
<1>6. CASE Ended \/ UNCHANGED vars
  BY <1>6 DEF Ended
<1> QED
  BY <1>1, <1>2, <1>3, <1>4, <1>5, <1>6 DEF Next

\* A call is only touched by calls and returns; the process otherwise leaves it
\* alone or drops it.
LEMMA CallFrame ==
    ASSUME Inv, ProcessMoves
    PROVE  /\ call' \in {call, NoCall}
           /\ pc # "golive" => client' = client
           /\ pc = "golive" => call' = NoCall
<1> USE DEF Goto, Panic, End, clientVars
<1>1. CASE SetupSignalHandler \/ BuildConfig \/ LoadConfig \/ NewClientSet
  BY <1>1 DEF SetupSignalHandler, BuildConfig, LoadConfig, NewClientSet, Inv, Built, Early
<1>2. CASE NewGolive
  BY <1>2 DEF NewGolive, Inv, Built, Early
<1>3. CASE TestEnds \/ NewHandlers \/ WaitForCacheSync \/ Return
  BY <1>3 DEF TestEnds, NewHandlers, WaitForCacheSync, Return, Inv, Built, Early
<1>4. CASE TakeSignal
  BY <1>4 DEF TakeSignal, TakeFirstSignal, TakeSecondSignal, Inv, Built, Early
<1>5. CASE InformersSync \/ WebServerFails
  BY <1>5 DEF InformersSync, WebServerFails, Inv, Built, Early
<1>6. CASE Signal
  BY <1>6 DEF Signal, Inv, Built, Early
<1> QED
  BY <1>1, <1>2, <1>3, <1>4, <1>5, <1>6 DEF ProcessMoves
-----------------------------------------------------------------------------
(* The invariant *)

LEMMA InitInv ==
    ASSUME Init
    PROVE  Inv
<1>1. TypeOK
  <2>1. client.editors \in Seq(Headers)
    BY DEF Init, NoClient
  <2>2. signals \in 0..MaxSignals
    BY SignalsAssumption DEF Init
  <2>3. call \in CallType(Headers)
    BY DEF Init, CallType
  <2>4. /\ pc \in {"start", "kubeconfig", "config", "golive", "test", "clientset",
                    "handlers", "sync", "running"}
        /\ input \in Inputs
        /\ cfg \in {NoConfig} \cup Configurations
        /\ queue \in 0..2 /\ ctx \in {"open", "done"}
        /\ exit \in {"no", "panic", "returned", "second signal", "killed"}
    BY DEF Init
  <2>5. synced \in BOOLEAN /\ checked \in BOOLEAN
    BY DEF Init
  <2> QED
    BY <2>1, <2>2, <2>3, <2>4, <2>5 DEF TypeOK
<1>2. Loaded /\ Built /\ Tried /\ Prepared /\ Accounted
  BY DEF Init, Loaded, Built, Tried, Prepared, Accounted, Early, Late
<1>3. Requested /\ ExitTells /\ BodiesAreClosed
  BY DEF Init, NoCall, Requested, ExitTells, BodiesAreClosed
<1> QED
  BY <1>1, <1>2, <1>3 DEF Inv

\* The parts about the start: what was looked at stays looked at.
LEMMA StartStep ==
    ASSUME Inv, [Next]_vars
    PROVE  Loaded' /\ Tried' /\ Prepared'
<1> USE DEF Goto, Panic, End, clientVars, processVars
<1>0. Loaded /\ Tried /\ Prepared
  BY DEF Inv
<1>1. CASE UNCHANGED processVars
  <2>1. Loaded'
    BY <1>0, <1>1 DEF Loaded
  <2>2. Tried'
    BY <1>0, <1>1 DEF Tried
  <2> QED
    BY <1>0, <1>1, <2>1, <2>2 DEF Prepared
<1>2. CASE ProcessMoves
  <2> USE <1>0 DEF Loaded, Tried, Prepared, Late
  <2>1. CASE SetupSignalHandler \/ BuildConfig
    BY <2>1 DEF SetupSignalHandler, BuildConfig
  <2>2. CASE LoadConfig
    BY <2>2 DEF LoadConfig
  <2>3. CASE NewGolive
    BY <2>3 DEF NewGolive
  <2>4. CASE TestEnds
    BY <2>4 DEF TestEnds
  <2>5. CASE NewClientSet \/ NewHandlers
    BY <2>5 DEF NewClientSet, NewHandlers
  <2>6. CASE WaitForCacheSync
    BY <2>6 DEF WaitForCacheSync, IsSynced
  <2>7. CASE Return \/ InformersSync \/ WebServerFails
    BY <2>7 DEF Return, InformersSync, WebServerFails
  <2>8. CASE TakeSignal \/ Signal
    BY <2>8 DEF TakeSignal, TakeFirstSignal, TakeSecondSignal, Signal
  <2> QED
    BY <1>2, <2>1, <2>2, <2>3, <2>4, <2>5, <2>6, <2>7, <2>8 DEF ProcessMoves
<1>3. WorkerReturns => UNCHANGED processVars
  BY DEF WorkerReturns
<1> QED
  BY <1>1, <1>2, <1>3, Steps DEF vars

\* What the counts of the signals say.
LEMMA Counts ==
    ASSUME Inv
    PROVE  /\ signals \in Nat /\ queue \in Nat /\ ctx \in {"open", "done"}
           /\ ctx = "done" => queue + 1 <= signals
           /\ ctx = "open" => queue <= signals
<1>1. signals \in 0..MaxSignals /\ queue \in 0..2 /\ ctx \in {"open", "done"}
  BY DEF Inv, TypeOK
<1>2. queue + (IF ctx = "done" THEN 1 ELSE 0) <= signals
  BY DEF Inv, Accounted
<1> QED
  BY <1>1, <1>2, SignalsAssumption

\* The signals are counted.
LEMMA AccountedStep ==
    ASSUME Inv, [Next]_vars
    PROVE  Accounted'
<1> USE Counts DEF Accounted, Goto, Panic, End, clientVars, processVars, Alive
<1>1. CASE UNCHANGED <<ctx, processVars>>
  BY <1>1
<1>2. CASE ProcessMoves
  <2>1. CASE SetupSignalHandler \/ BuildConfig \/ LoadConfig \/ NewGolive
    BY <2>1 DEF SetupSignalHandler, BuildConfig, LoadConfig, NewGolive
  <2>2. CASE TestEnds \/ NewClientSet \/ NewHandlers \/ WaitForCacheSync
    BY <2>2 DEF TestEnds, NewClientSet, NewHandlers, WaitForCacheSync
  <2>3. CASE Return \/ InformersSync \/ WebServerFails
    BY <2>3 DEF Return, InformersSync, WebServerFails
  <2>4. CASE TakeFirstSignal
    BY <2>4 DEF TakeFirstSignal
  <2>5. CASE TakeSecondSignal
    BY <2>5 DEF TakeSecondSignal
  <2>6. CASE Signal
    <3>1. signals' = signals + 1 /\ ctx' = ctx /\ queue' \in {queue, queue + 1}
      BY <2>6 DEF Signal, Delivered
    <3> QED
      BY <3>1
  <2> QED
    BY <1>2, <2>1, <2>2, <2>3, <2>4, <2>5, <2>6 DEF ProcessMoves, TakeSignal
<1>3. WorkerReturns => UNCHANGED <<ctx, processVars>>
  BY DEF WorkerReturns
<1> QED
  BY <1>1, <1>2, <1>3, Steps DEF vars

\* The exit is the one the signals and the informers allow.
LEMMA ExitStep ==
    ASSUME Inv, [Next]_vars
    PROVE  ExitTells'
<1> USE DEF Goto, Panic, End, clientVars, processVars, Alive
<1>0. ExitTells /\ Prepared
  BY DEF Inv
<1>1. CASE UNCHANGED processVars
  BY <1>0, <1>1 DEF ExitTells
<1>2. CASE ProcessMoves
  <2> USE DEF ExitTells
  <2>1. CASE SetupSignalHandler \/ BuildConfig \/ LoadConfig \/ NewGolive
    BY <2>1 DEF SetupSignalHandler, BuildConfig, LoadConfig, NewGolive
  <2>2. CASE TestEnds \/ NewClientSet \/ NewHandlers \/ WaitForCacheSync
    BY <2>2 DEF TestEnds, NewClientSet, NewHandlers, WaitForCacheSync
  <2>3. CASE Return
    <3>1. signals > 0
      BY <2>3, Counts DEF Return
    <3> QED
      BY <1>0, <2>3, <3>1 DEF Return, Prepared
  <2>4. CASE InformersSync \/ WebServerFails
    BY <2>4 DEF InformersSync, WebServerFails
  <2>5. CASE TakeFirstSignal
    BY <2>5 DEF TakeFirstSignal
  <2>6. CASE TakeSecondSignal
    <3>1. queue > 0 /\ ctx = "done"
      BY <2>6 DEF TakeSecondSignal
    <3>2. signals > 1
      BY <3>1, Counts
    <3> QED
      BY <2>6, <3>2 DEF TakeSecondSignal
  <2>7. CASE Signal
    <3>1. exit' \in {"no", "killed"} /\ (exit' = "killed" => pc' = "start")
      BY <2>7 DEF Signal
    <3> QED
      BY <3>1
  <2> QED
    BY <1>2, <2>1, <2>2, <2>3, <2>4, <2>5, <2>6, <2>7 DEF ProcessMoves, TakeSignal
<1>3. WorkerReturns => UNCHANGED processVars
  BY DEF WorkerReturns
<1> QED
  BY <1>1, <1>2, <1>3, Steps DEF vars
-----------------------------------------------------------------------------
(* The client and its calls *)

\* A call that goes on stays a call of its operation.
LEMMA CallGoesOn ==
    ASSUME Answer \/ Cancel
    PROVE  /\ call.pc \in {"waiting", "reading"}
           /\ call'.pc \in {"reading", "returned"} /\ call'.op = call.op
<1>1. CASE Cancel \/ DoFails \/ ReadFails
  <2>1. call.pc \in {"waiting", "reading"}
    BY <1>1 DEF Cancel, DoCancelled, ReadCancelled, DoFails, ReadFails
  <2>2. PICK error, body : call' = Returned(error, 0, FALSE, 0, body)
    BY <1>1 DEF Cancel, DoCancelled, ReadCancelled, DoFails, ReadFails
  <2> QED
    BY <2>1, <2>2 DEF Returned
<1>2. ASSUME NEW status \in Statuses, NEW json \in BOOLEAN, Reply(status, json)
      PROVE  call.pc = "waiting" /\ call'.pc \in {"reading", "returned"} /\ call'.op = call.op
  <2>1. CASE call.typed
    BY <1>2, <2>1 DEF Reply
  <2>2. CASE ~call.typed
    BY <1>2, <2>2 DEF Reply, Returned
  <2> QED
    BY <2>1, <2>2
<1>3. ASSUME NEW wellFormed \in BOOLEAN, Parse(wellFormed)
      PROVE  call.pc = "reading" /\ call'.pc = "returned" /\ call'.op = call.op
  <2>1. PICK error, status, json, decoded, body :
            call' = Returned(error, status, json, decoded, body)
    BY <1>3 DEF Parse
  <2> QED
    BY <1>3, <2>1 DEF Parse, Returned
<1> QED
  BY <1>1, <1>2, <1>3 DEF Answer

\* A step of a call leaves a call, made with a client where calls are made; of
\* Test it is the call of GetApplications.
LEMMA CallsMove ==
    ASSUME Inv, Calls
    PROVE  /\ call' # NoCall /\ client # NoClient
           /\ pc \in {"test", "running"}
           /\ pc = "test" => call'.op = "GetApplications"
<1>0. Built
  BY DEF Inv
<1>1. CASE call.pc \in {"waiting", "reading"}
  <2>1. call # NoCall
    BY <1>1 DEF NoCall
  <2>2. Answer \/ Cancel
    BY <2>1 DEF Calls, Invoke
  <2>3. call' # NoCall /\ call'.op = call.op
    BY <2>2, CallGoesOn DEF NoCall
  <2> QED
    BY <1>0, <2>1, <2>3 DEF Built
<1>2. CASE call.pc \notin {"waiting", "reading"}
  <2>1. ~Answer /\ ~Cancel
    BY <1>2, CallGoesOn
  <2>2. ASSUME pc = "test", Invoke("GetApplications", TRUE, [nil |-> TRUE, given |-> {}], <<>>)
        PROVE  call' # NoCall /\ client # NoClient /\ call'.op = "GetApplications"
    BY <2>2 DEF Invoke, NoCall
  <2>3. ASSUME NEW op \in Operations, NEW typed \in BOOLEAN, NEW editors \in CallEditors,
               NEW params \in Parameters(op), Invoke(op, typed, params, editors)
        PROVE  call' # NoCall /\ client # NoClient
    BY <2>3 DEF Invoke, NoCall
  <2> QED
    BY <2>1, <2>2, <2>3 DEF Calls
<1> QED
  BY <1>1, <1>2

LEMMA BuiltStep ==
    ASSUME Inv, [Next]_vars
    PROVE  Built'
<1> USE DEF Goto, Panic, End, clientVars, processVars
<1>0. Built
  BY DEF Inv
<1>1. CASE UNCHANGED vars \/ WorkerReturns
  BY <1>0, <1>1 DEF Built, vars, WorkerReturns, Offline, Golive
<1>2. CASE Calls /\ UNCHANGED <<client, ctx, processVars>>
  BY <1>0, <1>2, CallsMove DEF Built, Early, Offline, Golive
<1>3. CASE ProcessMoves
  <2>0. call' \in {call, NoCall} /\ (pc # "golive" => client' = client)
        /\ (pc = "golive" => call' = NoCall)
    BY <1>3, CallFrame
  <2> USE <1>0, <2>0 DEF Built, Early, Late
  <2>1. CASE SetupSignalHandler \/ BuildConfig \/ LoadConfig
    BY <2>1 DEF SetupSignalHandler, BuildConfig, LoadConfig
  <2>2. CASE NewGolive
    BY <2>2 DEF NewGolive
  <2>3. CASE TestEnds
    BY <2>3 DEF TestEnds
  <2>4. CASE NewClientSet \/ NewHandlers \/ WaitForCacheSync
    BY <2>4 DEF NewClientSet, NewHandlers, WaitForCacheSync
  <2>5. CASE Return \/ InformersSync \/ WebServerFails
    BY <2>5 DEF Return, InformersSync, WebServerFails
  <2>6. CASE TakeSignal \/ Signal
    BY <2>6 DEF TakeSignal, TakeFirstSignal, TakeSecondSignal, Signal
  <2> QED
    BY <1>3, <2>1, <2>2, <2>3, <2>4, <2>5, <2>6 DEF ProcessMoves
<1> QED
  BY <1>1, <1>2, <1>3, Steps
-----------------------------------------------------------------------------
(* Requests *)

\* Once it is loaded the configuration says what was asked for.
LEMMA Settings ==
    ASSUME Inv, pc \in Late \cup {"golive"}
    PROVE  /\ cfg \in Configurations
           /\ Offline(cfg) <=> Asked("offline") = "true"
           /\ newSecurityProvider(cfg) = AskedAuthorization
           /\ AskedAuthorization = <<>> <=> ~HasCredentials
           /\ Server[Url(cfg)] = AskedServer
<1>1. cfg = [k \in Keys |-> Setting(input, k)] /\ input \in Inputs
  BY DEF Inv, Loaded, TypeOK
<1>2. \A k \in Keys : cfg[k] = Asked(k)
  BY <1>1 DEF Asked, Setting
<1>3. /\ cfg.url = Asked("url") /\ cfg.token = Asked("token")
      /\ cfg.username = Asked("username") /\ cfg.password = Asked("password")
      /\ cfg.offline = Asked("offline")
  BY <1>2 DEF Keys
<1>4. cfg \in Configurations
  BY <1>1 DEF Configurations
<1>5. newSecurityProvider(cfg) = AskedAuthorization
  BY <1>3 DEF newSecurityProvider, AskedAuthorization
<1>6. AskedAuthorization = <<>> <=> ~HasCredentials
  BY DEF AskedAuthorization, HasCredentials
<1>7. Server[Url(cfg)] = AskedServer
  BY <1>3 DEF Url, AskedServer
<1> QED
  BY <1>3, <1>4, <1>5, <1>6, <1>7 DEF Offline

\* The client has the server and the credentials that were asked for.
LEMMA ClientOf ==
    ASSUME Inv, client # NoClient
    PROVE  /\ Asked("offline") # "true"
           /\ client.server.valid = AskedServer.valid
           /\ client.server.base = AskedServer.base /\ client.server.slash = TRUE
           /\ client.editors = IF AskedAuthorization = <<>> THEN <<>>
                               ELSE <<AskedAuthorization>>
<1>1. pc \in Late /\ client = Golive(cfg) /\ ~Offline(cfg)
  BY DEF Inv, TypeOK, Built, Early, Late
<1>2. /\ client.server = WithTrailingSlash(AskedServer)
      /\ client.editors = IF AskedAuthorization = <<>> THEN <<>> ELSE <<AskedAuthorization>>
  BY <1>1, Settings DEF Golive, NewClient
<1>3. Url(cfg) \in DOMAIN Server
  <2>1. input \in Inputs /\ cfg = [k \in Keys |-> Setting(input, k)]
    BY <1>1 DEF Inv, TypeOK, Loaded
  <2>2. cfg.url \in {input.env["url"], input.file.url}
    BY <2>1 DEF Keys, Setting
  <2>3. {input.env["url"], input.file.url} \subseteq DOMAIN Server \cup {""}
    BY <2>1, UrlAssumption
  <2> QED
    BY <2>2, <2>3, UrlAssumption DEF Url
<1>4. AskedServer \in [valid : BOOLEAN, base : Seq(STRING), slash : BOOLEAN]
  BY <1>1, <1>3, Settings, ServerAssumption
<1>5. /\ client.server.valid = AskedServer.valid
      /\ client.server.base = AskedServer.base /\ client.server.slash = TRUE
  BY <1>2, <1>4 DEF WithTrailingSlash
<1> QED
  BY <1>1, <1>2, <1>5, Settings

\* What a call starts with.
LEMMA InvokeCall ==
    ASSUME Inv,
           NEW op \in Operations, NEW typed \in BOOLEAN, NEW params, NEW editors,
           Invoke(op, typed, params, editors)
    PROVE  \/ \E error \in {"url", "editor"} :
                call' = [pc |-> "returned", op |-> op, typed |-> typed, error |-> error,
                         status |-> 0, json |-> FALSE, decoded |-> 0, body |-> "none"]
           \/ /\ client.server.valid /\ ~EditorFails(client.editors \o editors)
              /\ call' = [pc |-> "waiting", op |-> op, typed |-> typed, params |-> params,
                          request |-> applyEditors(NewRequest(client.server, op, params),
                                                   client.editors \o editors)]
<1>1. CASE ~client.server.valid
  BY <1>1 DEF Invoke
<1>2. CASE client.server.valid /\ EditorFails(client.editors \o editors)
  BY <1>2 DEF Invoke
<1>3. CASE client.server.valid /\ ~EditorFails(client.editors \o editors)
  BY <1>3 DEF Invoke
<1> QED
  BY <1>1, <1>2, <1>3

LEMMA RequestedStep ==
    ASSUME Inv, [Next]_vars
    PROVE  Requested'
<1>0. Requested /\ Built
  BY DEF Inv
<1>1. CASE UNCHANGED <<client, call>>
  BY <1>0, <1>1 DEF Requested
<1>2. CASE call' = NoCall
  BY <1>2 DEF Requested, NoCall
<1>3. CASE ProcessMoves
  <2>1. CASE call' = call /\ client' # client
    <3>1. call = NoCall
      BY <1>0, <1>3, <2>1, CallFrame DEF Built
    <3> QED
      BY <1>2, <2>1, <3>1
  <2> QED
    BY <1>1, <1>2, <1>3, <2>1, CallFrame
<1>4. CASE Calls /\ UNCHANGED <<client, ctx, processVars>>
  <2>1. CASE Answer \/ Cancel
    BY <2>1, CallGoesOn DEF Requested
  <2>2. ASSUME NEW op \in Operations, NEW typed \in BOOLEAN, NEW params,
               NEW editors \in CallEditors \cup {<<>>}, Invoke(op, typed, params, editors)
        PROVE  Requested'
    <3>1. CASE call'.pc # "waiting"
      BY <3>1 DEF Requested
    <3>2. CASE call'.pc = "waiting"
      <4>1. /\ client.server.valid /\ ~EditorFails(client.editors \o editors)
            /\ call' = [pc |-> "waiting", op |-> op, typed |-> typed, params |-> params,
                        request |-> applyEditors(NewRequest(client.server, op, params),
                                                 client.editors \o editors)]
        BY <2>2, <3>2, InvokeCall
      <4>2. client' = client
        BY <1>4
      <4>3. call'.op = op /\ call'.params = params
            /\ call'.request = applyEditors(NewRequest(client.server, op, params),
                                            client.editors \o editors)
        BY <4>1
      <4>4. call'.request = applyEditors(NewRequest(client'.server, call'.op, call'.params),
                                         client'.editors \o editors)
        BY <4>2, <4>3
      <4> QED
        BY <4>1, <4>2, <4>4 DEF Requested
    <3> QED
      BY <3>1, <3>2
  <2>3. "GetApplications" \in Operations
    BY DEF Operations, Requests
  <2> QED
    BY <1>4, <2>1, <2>2, <2>3 DEF Calls
<1> QED
  BY <1>1, <1>2, <1>3, <1>4, Steps DEF WorkerReturns, vars, clientVars
-----------------------------------------------------------------------------
(* Answers *)

\* What is returned of an answer: its body is closed unless the call was raw and
\* did not fail.
LEMMA AnswerReturns ==
    ASSUME Answer \/ Cancel, call \in CallType(Headers), call'.pc = "returned"
    PROVE  /\ call'.typed => call'.body # "open"
           /\ call'.error # "none" => call'.body # "open"
<1>1. CASE Cancel \/ DoFails \/ ReadFails
  <2>1. PICK error \in Errors \ {"none"}, body \in {"none", "closed"} :
            call' = Returned(error, 0, FALSE, 0, body)
    BY <1>1 DEF Cancel, DoCancelled, ReadCancelled, DoFails, ReadFails, Errors, BodyAfterParse
  <2>2. call'.error = error /\ call'.body = body
    BY <2>1 DEF Returned
  <2> QED
    BY <2>2
<1>2. ASSUME NEW status \in Statuses, NEW json \in BOOLEAN, Reply(status, json)
      PROVE  ~call'.typed /\ call'.error = "none"
  <2>1. ~call.typed /\ call' = Returned("none", status, json, 0, "open")
    BY <1>2 DEF Reply
  <2> QED
    BY <2>1 DEF Returned
<1>3. CASE \E wellFormed \in BOOLEAN : Parse(wellFormed)
  BY <1>3 DEF Parse, BodyAfterParse, Returned
<1> QED
  BY <1>1, <1>2, <1>3 DEF Answer

LEMMA AnswerStep ==
    ASSUME Inv, [Next]_vars
    PROVE  BodiesAreClosed'
<1>0. BodiesAreClosed /\ call \in CallType(Headers)
  BY DEF Inv, TypeOK
<1>1. CASE call' = call
  BY <1>0, <1>1 DEF BodiesAreClosed
<1>2. CASE call'.pc # "returned"
  BY <1>2 DEF BodiesAreClosed
<1>3. CASE Answer \/ Cancel
  <2>1. CASE call'.pc = "returned"
    BY <1>0, <1>3, <2>1, AnswerReturns DEF BodiesAreClosed
  <2> QED
    BY <1>2, <2>1
<1>4. ASSUME NEW op \in Operations, NEW typed \in BOOLEAN, NEW params, NEW editors,
             Invoke(op, typed, params, editors), call'.pc = "returned"
      PROVE  call'.body = "none"
  <2>1. PICK error \in {"url", "editor"} :
            call' = [pc |-> "returned", op |-> op, typed |-> typed, error |-> error,
                     status |-> 0, json |-> FALSE, decoded |-> 0, body |-> "none"]
    BY <1>4, InvokeCall
  <2> QED
    BY <2>1
<1>5. "GetApplications" \in Operations
  BY DEF Operations, Requests
<1>6. CASE Calls
  <2>1. CASE call'.pc = "returned" /\ ~(Answer \/ Cancel)
    <3>1. call'.body = "none"
      BY <1>4, <1>5, <1>6, <2>1 DEF Calls
    <3> QED
      BY <3>1 DEF BodiesAreClosed
  <2> QED
    BY <1>2, <1>3, <2>1
<1>7. NoCall.pc # "returned"
  BY DEF NoCall
<1>8. ProcessMoves \/ WorkerReturns => call' \in {call, NoCall}
  BY CallFrame DEF WorkerReturns
<1> QED
  BY <1>1, <1>2, <1>6, <1>7, <1>8, Steps DEF vars, clientVars
-----------------------------------------------------------------------------
(* Types *)

\* The type of a request, from its parts.
LEMMA RequestTyped ==
    ASSUME NEW server, NEW u \in DOMAIN Server,
           server.base = Server[u].base, server.slash = TRUE,
           NEW op \in Operations, NEW params \in Parameters(op),
           NEW editors \in Seq(Headers)
    PROVE  applyEditors(NewRequest(server, op, params), editors) \in RequestType(Headers)
<1> DEFINE R == NewRequest(server, op, params)
<1>1. R.path = Server[u].base \o Requests[op].path
  BY DEF NewRequest, Resolve
<1>2. params.given \subseteq Requests[op].required \cup Requests[op].optional
  BY DEF Parameters
<1>3. Requests[op].required \cup Requests[op].optional \subseteq Names
  BY DEF Names
<1>4. R.query \in SUBSET Names
  BY <1>2, <1>3 DEF NewRequest
<1>5. R = [method |-> R.method, path |-> R.path, query |-> R.query,
           contentType |-> R.contentType, authorization |-> <<>>]
      /\ R.method = Requests[op].method /\ R.contentType = Requests[op].body
  BY DEF NewRequest
<1>6. \A h \in Headers :
        [R EXCEPT !.authorization = h] =
            [method |-> R.method, path |-> R.path, query |-> R.query,
             contentType |-> R.contentType, authorization |-> h]
  BY <1>5
<1>7. <<>> \in Headers
  BY DEF Headers
<1>8. editors # <<>> => Last(editors) \in Headers
  BY DEF Last
<1>9. PICK h \in Headers : applyEditors(R, editors) =
          [method |-> R.method, path |-> R.path, query |-> R.query,
           contentType |-> R.contentType, authorization |-> h]
  BY <1>5, <1>6, <1>7, <1>8 DEF applyEditors
<1> DEFINE M == {Requests[o].method : o \in Operations}
           P == {PathUnder(v, o) : v \in DOMAIN Server, o \in Operations}
           C == {Requests[o].body : o \in Operations}
<1>10. R.path \in P
  <2>1. PathUnder(u, op) \in P
    OBVIOUS
  <2>2. R.path = PathUnder(u, op)
    BY <1>1 DEF PathUnder
  <2> HIDE DEF P, R
  <2> QED
    BY <2>1, <2>2
<1>11. R.method \in M /\ R.contentType \in C
  BY <1>5
<1>12. RequestType(Headers) =
           [method : M, path : P, query : SUBSET Names, contentType : C, authorization : Headers]
  BY DEF RequestType
<1> HIDE DEF R, M, P, C
<1>13. [method |-> R.method, path |-> R.path, query |-> R.query,
        contentType |-> R.contentType, authorization |-> h] \in RequestType(Headers)
  BY <1>4, <1>10, <1>11, <1>12
<1> QED
  BY <1>9, <1>13 DEF R

\* The editors of callers set values of Headers.
LEMMA EditorType ==
    ASSUME NEW e \in CallEditors
    PROVE  e \in Seq(Headers)
<1>1. e \in Seq(Seq(STRING))
  BY EditorsAssumption
<1>2. \A i \in DOMAIN e : e[i] \in ToSet(e)
  BY DEF ToSet
<1>3. ToSet(e) \subseteq Headers
  BY DEF Headers
<1> QED
  BY <1>1, <1>2, <1>3

LEMMA InvokeType ==
    ASSUME Inv, NEW op \in Operations, NEW typed \in BOOLEAN, NEW params \in Parameters(op),
           NEW editors \in Seq(Headers), Invoke(op, typed, params, editors)
    PROVE  call' \in CallType(Headers)
<1>1. client # NoClient
  BY DEF Invoke
<1>2. PICK u \in DOMAIN Server :
          client.server.base = Server[u].base /\ client.server.slash = TRUE
  <2>1. PICK u \in DOMAIN Server : AskedServer = Server[u]
    <3>1. input \in Inputs
      BY DEF Inv, TypeOK
    <3> QED
      BY <3>1, UrlAssumption DEF AskedServer, Asked
  <2> QED
    BY <1>1, <2>1, ClientOf
<1>3. client.editors \o editors \in Seq(Headers)
  <2>1. client.editors \in Seq(Headers)
    BY DEF Inv, TypeOK
  <2> QED
    BY <2>1
<1>4. params \in [nil : BOOLEAN, given : SUBSET Names]
  <2>1. Requests[op].optional \subseteq Names
    BY DEF Names
  <2>2. params \in {[nil |-> TRUE, given |-> {}], [nil |-> FALSE, given |-> {}],
                    [nil |-> FALSE, given |-> Requests[op].optional]}
    BY DEF Parameters
  <2>3. ASSUME NEW nil \in BOOLEAN, NEW given \in SUBSET Names
        PROVE  [nil |-> nil, given |-> given] \in [nil : BOOLEAN, given : SUBSET Names]
    OBVIOUS
  <2> QED
    BY <2>1, <2>2, <2>3
<1>5. applyEditors(NewRequest(client.server, op, params), client.editors \o editors)
          \in RequestType(Headers)
  BY <1>2, <1>3, RequestTyped
<1>6. ASSUME NEW error \in {"url", "editor"}
      PROVE  [pc |-> "returned", op |-> op, typed |-> typed, error |-> error,
              status |-> 0, json |-> FALSE, decoded |-> 0, body |-> "none"] \in ReturnedCalls
  BY <1>6 DEF ReturnedCalls, Errors
<1>7. ASSUME NEW r \in RequestType(Headers)
      PROVE  [pc |-> "waiting", op |-> op, typed |-> typed, params |-> params, request |-> r]
                 \in WaitingCalls(Headers)
  BY <1>4, <1>7 DEF WaitingCalls
<1> QED
  BY <1>5, <1>6, <1>7, InvokeCall DEF CallType

LEMMA AnswerType ==
    ASSUME call \in CallType(Headers), Answer \/ Cancel
    PROVE  call' \in CallType(Headers)
<1>1. call.op \in Operations /\ call.typed \in BOOLEAN
  <2>1. call \in WaitingCalls(Headers) \cup ReadingCalls
    BY CallGoesOn DEF CallType, NoCall, ReturnedCalls
  <2>2. call \in WaitingCalls(Headers) => call.op \in Operations /\ call.typed \in BOOLEAN
    BY DEF WaitingCalls
  <2>3. call \in ReadingCalls => call.op \in Operations /\ call.typed \in BOOLEAN
    BY DEF ReadingCalls
  <2> QED
    BY <2>1, <2>2, <2>3
<1>2. ASSUME NEW error \in Errors, NEW status \in Statuses \cup {0}, NEW json \in BOOLEAN,
             NEW decoded \in Statuses \cup {0}, NEW body \in {"none", "open", "closed"}
      PROVE  Returned(error, status, json, decoded, body) \in CallType(Headers)
  BY <1>1, <1>2 DEF Returned, CallType, ReturnedCalls
<1>3. CASE Cancel \/ DoFails \/ ReadFails
  <2>1. PICK error \in Errors, body \in {"none", "open", "closed"} :
            call' = Returned(error, 0, FALSE, 0, body)
    BY <1>3 DEF Cancel, DoCancelled, ReadCancelled, DoFails, ReadFails, Errors, BodyAfterParse
  <2> QED
    BY <1>2, <2>1
<1>4. ASSUME NEW status \in Statuses, NEW json \in BOOLEAN, Reply(status, json)
      PROVE  call' \in CallType(Headers)
  <2>1. CASE call.typed
    BY <1>1, <1>4, <2>1 DEF Reply, CallType, ReadingCalls
  <2>2. CASE ~call.typed
    BY <1>2, <1>4, <2>2 DEF Reply, Errors
  <2> QED
    BY <2>1, <2>2
<1>5. ASSUME NEW wellFormed \in BOOLEAN, Parse(wellFormed)
      PROVE  call' \in CallType(Headers)
  <2>1. call.status \in Statuses /\ call.json \in BOOLEAN
    <3>1. call.pc = "reading"
      BY <1>5 DEF Parse
    <3>2. call \in ReadingCalls
      BY <3>1 DEF CallType, NoCall, WaitingCalls, ReturnedCalls
    <3> QED
      BY <3>2 DEF ReadingCalls
  <2>2. PICK error \in Errors, status \in {0, call.status}, json \in {FALSE, call.json},
             decoded \in {0, call.status}, body \in {"closed"} :
            call' = Returned(error, status, json, decoded, body)
    BY <1>5 DEF Parse, Errors, BodyAfterParse
  <2> QED
    BY <1>2, <2>1, <2>2
<1> QED
  BY <1>3, <1>4, <1>5 DEF Answer

LEMMA CallTypeStep ==
    ASSUME Inv, [Next]_vars
    PROVE  call' \in CallType(Headers)
<1>0. call \in CallType(Headers) /\ NoCall \in CallType(Headers)
  BY DEF Inv, TypeOK, CallType
<1>1. CASE Answer \/ Cancel
  BY <1>0, <1>1, AnswerType
<1>2. ASSUME Invoke("GetApplications", TRUE, [nil |-> TRUE, given |-> {}], <<>>)
      PROVE  call' \in CallType(Headers)
  <2>1. "GetApplications" \in Operations
    BY DEF Operations, Requests
  <2>2. [nil |-> TRUE, given |-> {}] \in Parameters("GetApplications")
    BY DEF Parameters
  <2>3. <<>> \in Seq(Headers) /\ TRUE \in BOOLEAN
    OBVIOUS
  <2> QED
    BY <1>2, <2>1, <2>2, <2>3, InvokeType
<1>3. ASSUME NEW op \in Operations, NEW typed \in BOOLEAN, NEW editors \in CallEditors,
             NEW params \in Parameters(op), Invoke(op, typed, params, editors)
      PROVE  call' \in CallType(Headers)
  BY <1>3, EditorType, InvokeType
<1>4. ProcessMoves \/ WorkerReturns \/ UNCHANGED vars => call' \in {call, NoCall}
  BY CallFrame DEF WorkerReturns, vars, clientVars
<1> QED
  BY <1>0, <1>1, <1>2, <1>3, <1>4, Steps DEF Calls

LEMMA ClientTypeStep ==
    ASSUME Inv, [Next]_vars
    PROVE  client'.editors \in Seq(Headers)
<1>1. CASE client' = client
  BY <1>1 DEF Inv, TypeOK
<1>2. CASE ProcessMoves /\ pc = "golive"
  <2>1. CASE client' = NoClient
    BY <2>1 DEF NoClient
  <2>2. CASE client' = Golive(cfg)
    <3>1. newSecurityProvider(cfg) \in Headers
      BY <1>2, Settings DEF Headers
    <3>2. client'.editors \in {<<>>, <<newSecurityProvider(cfg)>>}
      BY <2>2 DEF Golive, NewClient
    <3>3. <<>> \in Seq(Headers) /\ <<newSecurityProvider(cfg)>> \in Seq(Headers)
      BY <3>1
    <3> QED
      BY <3>2, <3>3
  <2>3. client' \in {client, NoClient, Golive(cfg)}
    <3>1. CASE NewGolive
      BY <3>1 DEF NewGolive
    <3>2. CASE InformersSync \/ WebServerFails \/ Signal
      BY <3>2 DEF InformersSync, WebServerFails, Signal, Panic, End, clientVars
    <3>3. CASE TakeSignal
      BY <3>3 DEF TakeSignal, TakeFirstSignal, TakeSecondSignal, End
    <3> QED
      BY <1>2, <3>1, <3>2, <3>3
      DEF ProcessMoves, SetupSignalHandler, BuildConfig, LoadConfig, TestEnds, NewClientSet,
          NewHandlers, WaitForCacheSync, Return, Goto, Panic, End
  <2> QED
    BY <1>1, <2>1, <2>2, <2>3
<1> QED
  BY <1>1, <1>2, CallFrame, Steps DEF vars, clientVars, WorkerReturns

\* The variables of the process itself.
LEMMA ProcessTypeStep ==
    ASSUME Inv, [Next]_vars
    PROVE  /\ pc' \in Early \cup Late
           /\ input' = input
           /\ cfg' \in {NoConfig} \cup Configurations
           /\ synced' \in BOOLEAN /\ checked' \in BOOLEAN
           /\ queue' \in 0..2
           /\ signals' \in 0..MaxSignals
           /\ exit' \in {"no", "panic", "returned", "second signal", "killed"}
           /\ ctx' \in {"open", "done"}
<1> USE DEF Goto, Panic, End, clientVars, processVars, Alive
<1>0. /\ pc \in Early \cup Late /\ input \in Inputs
      /\ cfg \in {NoConfig} \cup Configurations
      /\ synced \in BOOLEAN /\ checked \in BOOLEAN
      /\ exit \in {"no", "panic", "returned", "second signal", "killed"}
      /\ ctx \in {"open", "done"}
  BY DEF Inv, TypeOK, Early, Late
<1>1. signals \in 0..MaxSignals /\ queue \in 0..2
  BY DEF Inv, TypeOK
<1>2. CASE UNCHANGED <<ctx, processVars>>
  BY <1>0, <1>1, <1>2
<1>3. CASE ProcessMoves
  <2>1. CASE SetupSignalHandler \/ BuildConfig
    BY <1>0, <1>1, <2>1 DEF SetupSignalHandler, BuildConfig, Early
  <2>2. CASE LoadConfig
    BY <1>0, <1>1, <2>2 DEF LoadConfig, Early, Configurations
  <2>3. CASE NewGolive
    BY <1>0, <1>1, <2>3 DEF NewGolive, Late
  <2>4. CASE TestEnds
    BY <1>0, <1>1, <2>4 DEF TestEnds, Late
  <2>5. CASE NewClientSet \/ NewHandlers \/ WaitForCacheSync
    BY <1>0, <1>1, <2>5 DEF NewClientSet, NewHandlers, WaitForCacheSync, Late
  <2>6. CASE Return \/ InformersSync \/ WebServerFails
    BY <1>0, <1>1, <2>6 DEF Return, InformersSync, WebServerFails
  <2>7. CASE TakeFirstSignal
    <3>1. queue' \in 0..2
      BY <1>1, <2>7 DEF TakeFirstSignal
    <3> QED
      BY <1>0, <1>1, <2>7, <3>1 DEF TakeFirstSignal
  <2>8. CASE TakeSecondSignal
    BY <1>0, <1>1, <2>8 DEF TakeSecondSignal
  <2>9. CASE Signal
    <3>1. signals' \in 0..MaxSignals
      BY <1>1, <2>9, SignalsAssumption DEF Signal
    <3>2. queue' \in 0..2
      BY <1>1, <2>9 DEF Signal, Delivered
    <3>3. UNCHANGED <<ctx, pc, input, cfg, synced, checked>> /\ exit' \in {exit, "killed"}
      BY <2>9 DEF Signal
    <3> QED
      BY <1>0, <3>1, <3>2, <3>3
  <2> QED
    BY <1>3, <2>1, <2>2, <2>3, <2>4, <2>5, <2>6, <2>7, <2>8, <2>9 DEF ProcessMoves, TakeSignal
<1>4. WorkerReturns => UNCHANGED <<ctx, processVars>>
  BY DEF WorkerReturns
<1> QED
  BY <1>2, <1>3, <1>4, Steps DEF vars

LEMMA InvStep ==
    ASSUME Inv, [Next]_vars
    PROVE  Inv'
<1>1. TypeOK'
  <2>1. input' \in Inputs
    BY ProcessTypeStep DEF Inv, TypeOK
  <2>2. client'.editors \in Seq(Headers) /\ call' \in CallType(Headers)
    BY ClientTypeStep, CallTypeStep
  <2>3. pc' \in {"start", "kubeconfig", "config", "golive", "test", "clientset",
                 "handlers", "sync", "running"}
    BY ProcessTypeStep DEF Early, Late
  <2> QED
    BY <2>1, <2>2, <2>3, ProcessTypeStep DEF TypeOK
<1> QED
  BY <1>1, StartStep, BuiltStep, AccountedStep, ExitStep, RequestedStep, AnswerStep DEF Inv
-----------------------------------------------------------------------------
(* What the invariant implies *)

LEMMA ConfigurationIsCheckedFromInv ==
    ASSUME Inv
    PROVE  ConfigurationIsChecked
<1> SUFFICES ASSUME pc \in {"sync", "running"} PROVE ConfigurationIsChecked
  BY DEF ConfigurationIsChecked
<1>1. ~LoadFails(input) /\ ValidListeners(input.file.listeners)
  BY DEF Inv, Loaded, Prepared, Late
<1>2. input.file.readable /\ Asked("offline") \in {"", "true", "false"}
  BY <1>1 DEF LoadFails, Setting, Asked
<1>3. \A k \in DOMAIN input.file.listeners :
          \A s \in ToSet(input.file.listeners[k].selectors) :
              "invalid" \notin {s.labels, s.query}
  BY <1>1 DEF ValidListeners, ValidSelector, ToSet
<1>4. \A k, l \in DOMAIN input.file.listeners :
          input.file.listeners[k].id = input.file.listeners[l].id => k = l
  <2>1. DOMAIN input.file.listeners \subseteq Nat
    <3>1. input \in Inputs
      BY DEF Inv, TypeOK
    <3>2. input.file.listeners \in Seq(Listener)
      BY <3>1, InputAssumption
    <3> QED
      BY <3>2
  <2>2. \A k, l \in DOMAIN input.file.listeners :
            ~(k < l /\ input.file.listeners[k].id = input.file.listeners[l].id)
    BY <1>1 DEF LoadFails, DuplicateId
  <2> QED
    BY <2>1, <2>2
<1> QED
  BY <1>2, <1>3, <1>4 DEF ConfigurationIsChecked

LEMMA CallsAreAllowedFromInv ==
    ASSUME Inv
    PROVE  CallsAreAllowed
<1> SUFFICES ASSUME call # NoCall PROVE CallsAreAllowed
  BY DEF CallsAreAllowed
<1>1. /\ pc \in {"test", "running"} /\ client # NoClient
      /\ pc = "test" => call.op = "GetApplications"
  BY DEF Inv, Built
<1>2. Asked("offline") # "true"
  BY <1>1, ClientOf
<1>3. pc = "running" => HasCredentials \/ checked
  <2>1. pc = "running" => /\ ~LoadFails(input) /\ pc \in Late
                          /\ Offline(cfg) \/ newSecurityProvider(cfg) # <<>> \/ checked
    BY DEF Inv, Loaded, Tried, Late
  <2> QED
    BY <1>2, <2>1, Settings
<1> QED
  BY <1>1, <1>2, <1>3 DEF CallsAreAllowed

LEMMA RequestsAreCompleteFromInv ==
    ASSUME Inv
    PROVE  RequestsAreComplete
<1> SUFFICES ASSUME call.pc = "waiting" PROVE RequestsAreComplete
  BY DEF RequestsAreComplete
<1>1. PICK e \in CallEditors \cup {<<>>} :
          /\ client.server.valid
          /\ call.request = applyEditors(NewRequest(client.server, call.op, call.params),
                                         client.editors \o e)
  BY DEF Inv, Requested
<1>2. client # NoClient
  BY DEF Inv, Built, NoCall
<1> DEFINE R == NewRequest(client.server, call.op, call.params)
<1>3. /\ R.path = AskedServer.base \o Requests[call.op].path
      /\ ~call.params.nil => Requests[call.op].required \subseteq R.query
      /\ R.authorization = <<>>
  BY <1>2, ClientOf DEF NewRequest, Resolve
<1>4. \A h : [R EXCEPT !.authorization = h].path = R.path
             /\ [R EXCEPT !.authorization = h].query = R.query
             /\ [R EXCEPT !.authorization = h].authorization = h
  BY DEF NewRequest
<1>5. e \in Seq(Headers) /\ client.editors \in Seq(Headers)
  <2>1. client.editors \in Seq(Headers)
    BY DEF Inv, TypeOK
  <2>2. <<>> \in Seq(Headers)
    OBVIOUS
  <2> QED
    BY <2>1, <2>2, EditorType
<1> HIDE DEF R
<1>6. call.request = IF client.editors \o e = <<>> THEN R
                     ELSE [R EXCEPT !.authorization = Last(client.editors \o e)]
  BY <1>1 DEF applyEditors, R
<1>7. call.request.path = R.path /\ call.request.query = R.query
  BY <1>4, <1>6
<1>8. CASE e # <<>>
  <2>1. client.editors \o e # <<>> /\ Last(client.editors \o e) = Last(e)
    BY <1>5, <1>8 DEF Last
  <2>2. call.request.authorization = Last(e)
    BY <1>4, <1>6, <2>1
  <2> QED
    BY <1>1, <1>2, <1>3, <1>7, <1>8, <2>2, ClientOf DEF RequestsAreComplete
<1>9. CASE e = <<>>
  <2>1. client.editors \o e = client.editors
    BY <1>5, <1>9
  <2>2. call.request.authorization = AskedAuthorization
    <3>1. CASE AskedAuthorization = <<>>
      BY <1>2, <1>3, <1>6, <2>1, <3>1, ClientOf
    <3>2. CASE AskedAuthorization # <<>>
      <4>1. client.editors = <<AskedAuthorization>>
        BY <1>2, <3>2, ClientOf
      <4>2. client.editors # <<>> /\ Last(client.editors) = AskedAuthorization
        BY <4>1 DEF Last
      <4> QED
        BY <1>4, <1>6, <2>1, <4>2
    <3> QED
      BY <3>1, <3>2
  <2> QED
    BY <1>1, <1>2, <1>3, <1>7, <2>2, ClientOf DEF RequestsAreComplete
<1> QED
  BY <1>8, <1>9
-----------------------------------------------------------------------------
(* Theorems *)

\* The invariant holds of the whole life of the process.
THEOREM Invariance == Spec => []Inv
BY InitInv, InvStep, PTL DEF Spec

\* The variables of the process and of its client keep their types.
THEOREM TypeCorrect == Spec => []TypeOK
<1>1. Inv => TypeOK
  BY DEF Inv
<1> QED
  BY <1>1, Invariance, PTL

\* The informers are only waited for, and the controller only runs, with a
\* configuration whose file, settings, ids and selectors were found valid.
\* (LoadConfig, NewHandler)
THEOREM Checked == Spec => []ConfigurationIsChecked
BY Invariance, ConfigurationIsCheckedFromInv, PTL

\* No call is made offline, and none but that of Test before Golive is known to
\* answer.  (Start, Golive, Test)
THEOREM Allowed == Spec => []CallsAreAllowed
BY Invariance, CallsAreAllowedFromInv, PTL

\* Every request goes under the configured server with its required parameters
\* and its credentials.  (NewClient, NewXRequest, applyEditors)
THEOREM Complete == Spec => []RequestsAreComplete
BY Invariance, RequestsAreCompleteFromInv, PTL

\* A typed call, and any call that fails, leaves no body open.  (ParseXResponse)
THEOREM Closed == Spec => []BodiesAreClosed
<1>1. Inv => BodiesAreClosed
  BY DEF Inv
<1> QED
  BY <1>1, Invariance, PTL

\* The way the process ends tells what happened to it.  (Start, run,
\* SetupSignalHandler)
THEOREM Exits == Spec => []ExitTells
<1>1. Inv => ExitTells
  BY DEF Inv
<1> QED
  BY <1>1, Invariance, PTL
=============================================================================
