---------------------------- MODULE GoliveClient ----------------------------
(***************************************************************************)
(* One call of the generated Golive client: NewXRequest builds the request *)
(* from the server and the parameters, applyEditors lets the editors of    *)
(* the client and those of the call change it, http.Client.Do sends it,    *)
(* and XWithResponse reads, closes and decodes the answer.  Client.X, the  *)
(* raw form, returns the answer with its body still open.  Calls share     *)
(* nothing but the client, which never changes, so one is followed at a    *)
(* time.                                                                   *)
(***************************************************************************)
EXTENDS GoliveApi, FiniteSets, SequencesExt

CONSTANTS
    Server,   \* what each URL parses to: [valid, base, slash]
    Statuses  \* the statuses of the answers

\* The URLs have no query; base is the sequence of the segments of the path,
\* slash tells whether the path ends with one.
ASSUME ServerAssumption ==
    \A u \in DOMAIN Server :
        Server[u] \in [valid : BOOLEAN, base : Seq(STRING), slash : BOOLEAN]
ASSUME StatusAssumption == Statuses \subseteq Nat /\ 0 \notin Statuses

VARIABLES
    client,  \* the client Golive() built, or NoClient
    call,    \* the call that is followed, or NoCall
    ctx      \* "open", or "done" once the signal handler cancelled it

clientVars == <<client, call, ctx>>

NoClient == [server |-> [valid |-> FALSE, base |-> <<>>, slash |-> FALSE],
             editors |-> <<>>]
NoCall == [pc |-> "none"]
-----------------------------------------------------------------------------
(* Construction *)

\* Mutated form: the server is used as it is configured.
ServerAsGiven(server) == server

\* NewClient ensures the slash: without it a relative path would replace the
\* last segment of the server.
WithTrailingSlash(server) == [server EXCEPT !.slash = TRUE]

\* An editor is the Authorization header it sets, or FailingEditor.
FailingEditor == <<"fails">>

\* The options of the agent add editors.  The URL is not parsed here: an
\* invalid one is only found by the first call.
NewClient(server, editors) ==
    [server |-> WithTrailingSlash(server), editors |-> editors]
-----------------------------------------------------------------------------
(* Requests *)

\* url.URL.Parse of a path relative to the server.
Resolve(server, path) ==
    (IF server.slash THEN server.base ELSE Front(server.base)) \o path

\* The parameters of a call: nil, or all required ones and some optional ones.
Parameters(op) ==
    LET r == Requests[op] IN
    IF r.required \cup r.optional = {}
    THEN {[nil |-> TRUE, given |-> {}]}
    ELSE {[nil |-> TRUE, given |-> {}], [nil |-> FALSE, given |-> {}],
          [nil |-> FALSE, given |-> r.optional]}

\* With nil parameters the query is left out, the required ones included.
NewRequest(server, op, params) ==
    LET r == Requests[op] IN
    [method |-> r.method, path |-> Resolve(server, r.path),
     query |-> IF params.nil THEN {} ELSE r.required \cup params.given,
     contentType |-> r.body, authorization |-> <<>>]

\* The editors of the client, then those of the call; each overwrites the header,
\* so the last one decides.
applyEditors(request, editors) ==
    IF editors = <<>> THEN request
    ELSE [request EXCEPT !.authorization = Last(editors)]

EditorFails(editors) == FailingEditor \in ToSet(editors)
-----------------------------------------------------------------------------
(* Calls *)

\* The end of a call: json is the type of the answer, decoded the status whose
\* field JSONxxx is set, or 0.
Returned(error, status, json, decoded, body) ==
    [pc |-> "returned", op |-> call.op, typed |-> call.typed, error |-> error,
     status |-> status, json |-> json, decoded |-> decoded, body |-> body]

\* Client.X up to Do: an invalid URL or a failing editor ends the call, and
\* nothing is sent.
Invoke(op, typed, params, editors) ==
    LET all == client.editors \o editors
        c == [pc |-> "waiting", op |-> op, typed |-> typed, params |-> params,
              request |-> applyEditors(NewRequest(client.server, op, params), all)]
        failed(error) == [pc |-> "returned", op |-> op, typed |-> typed,
                          error |-> error, status |-> 0, json |-> FALSE,
                          decoded |-> 0, body |-> "none"]
    IN  /\ call = NoCall
        /\ client # NoClient
        /\ call' = CASE ~client.server.valid -> failed("url")
                     [] client.server.valid /\ EditorFails(all) -> failed("editor")
                     [] OTHER -> c
        /\ UNCHANGED <<client, ctx>>

\* Do fails: no connection, or the context is done.
DoFails ==
    /\ call.pc = "waiting"
    /\ call' = Returned("connection", 0, FALSE, 0, "none")
    /\ UNCHANGED <<client, ctx>>

DoCancelled ==
    /\ call.pc = "waiting"
    /\ ctx = "done"
    /\ call' = Returned("context", 0, FALSE, 0, "none")
    /\ UNCHANGED <<client, ctx>>

\* The head of an answer arrives.  Client.X returns it; XWithResponse reads on.
Reply(status, json) ==
    /\ call.pc = "waiting"
    /\ call' = IF call.typed
               THEN [pc |-> "reading", op |-> call.op, typed |-> TRUE,
                     status |-> status, json |-> json]
               ELSE Returned("none", status, json, 0, "open")
    /\ UNCHANGED <<client, ctx>>

\* Mutated form: the body is closed after the error of ReadAll is returned.
BodyAfterRead(ok) == IF ok THEN "closed" ELSE "open"

\* The deferred Close of ParseXResponse is in place before the error of ReadAll
\* is looked at.
BodyAfterParse(ok) == "closed"

\* The cases of ParseXResponse that unmarshal the body.
Decoded(op, status, json) == json /\ status \in Responses[op]

\* ReadAll fails: the connection breaks, or the context is done.
ReadFails ==
    /\ call.pc = "reading"
    /\ call' = Returned("body", 0, FALSE, 0, BodyAfterParse(FALSE))
    /\ UNCHANGED <<client, ctx>>

ReadCancelled ==
    /\ call.pc = "reading"
    /\ ctx = "done"
    /\ call' = Returned("context", 0, FALSE, 0, BodyAfterParse(FALSE))
    /\ UNCHANGED <<client, ctx>>

\* ReadAll returns the body; when a case decodes it and it is not the JSON that
\* is declared, an error is returned and no answer.
Parse(wellFormed) ==
    /\ call.pc = "reading"
    /\ call' = IF ~Decoded(call.op, call.status, call.json)
               THEN Returned("none", call.status, call.json, 0, BodyAfterParse(TRUE))
               ELSE IF wellFormed
                    THEN Returned("none", call.status, call.json, call.status,
                                  BodyAfterParse(TRUE))
                    ELSE Returned("json", 0, FALSE, 0, BodyAfterParse(TRUE))
    /\ UNCHANGED <<client, ctx>>

\* What the network and Golive do with a call.
Answer ==
    \/ DoFails \/ ReadFails
    \/ \E status \in Statuses, json \in BOOLEAN : Reply(status, json)
    \/ \E wellFormed \in BOOLEAN : Parse(wellFormed)

\* What the client does by itself when its context is done.
Cancel == DoCancelled \/ ReadCancelled
-----------------------------------------------------------------------------
Errors == {"none", "url", "editor", "connection", "context", "body", "json"}

\* The parameters of all operations.
Names == UNION {Requests[op].required \cup Requests[op].optional : op \in Operations}

\* The path of an operation under a server.
PathUnder(u, op) == Server[u].base \o Requests[op].path

\* headers are the values an editor may set.
RequestType(headers) ==
    [method : {Requests[op].method : op \in Operations},
     path : {PathUnder(u, op) : u \in DOMAIN Server, op \in Operations},
     query : SUBSET Names,
     contentType : {Requests[op].body : op \in Operations},
     authorization : headers]

\* The calls in each of their phases.
WaitingCalls(headers) ==
    [pc : {"waiting"}, op : Operations, typed : BOOLEAN,
     params : [nil : BOOLEAN, given : SUBSET Names],
     request : RequestType(headers)]

ReadingCalls ==
    [pc : {"reading"}, op : Operations, typed : {TRUE}, status : Statuses, json : BOOLEAN]

ReturnedCalls ==
    [pc : {"returned"}, op : Operations, typed : BOOLEAN, error : Errors,
     status : Statuses \cup {0}, json : BOOLEAN, decoded : Statuses \cup {0},
     body : {"none", "open", "closed"}]

CallType(headers) == {NoCall} \cup WaitingCalls(headers) \cup ReadingCalls \cup ReturnedCalls

\* A typed call never leaves the body of an answer open, however it ends; a call
\* that ends with an error never does.  (The deferred Close of ParseXResponse.)
BodiesAreClosed ==
    call.pc = "returned" =>
        (call.body = "open" => ~call.typed /\ call.error = "none")
=============================================================================
