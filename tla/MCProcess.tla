----------------------------- MODULE MCProcess -----------------------------
(***************************************************************************)
(* Instance of Process: files and environments that reach every branch of  *)
(* the start, three servers, four statuses.                                *)
(***************************************************************************)
EXTENDS Process

MCServer ==
    [default |-> [valid |-> TRUE, base |-> <<"api">>, slash |-> FALSE],
     slash   |-> [valid |-> TRUE, base |-> <<"golive", "api">>, slash |-> TRUE],
     broken  |-> [valid |-> FALSE, base |-> <<>>, slash |-> FALSE]]

MCCallEditors == {<<>>, <<<<"Bearer", "caller">>>>, <<FailingEditor>>}

MCListener(id, labels, query) ==
    [id |-> id, selectors |-> <<[labels |-> labels, query |-> query]>>]

MCListeners == <<MCListener("a", "ok", ""), MCListener("b", "", "ok")>>

NoFile == [url |-> "", username |-> "", password |-> "", token |-> "",
           offline |-> "", readable |-> TRUE, listeners |-> MCListeners]
NoEnv == [k \in Keys |-> ""]

With(file, env) == [file |-> file, env |-> env]

MCInputs ==
    {With(NoFile, NoEnv),
     With([NoFile EXCEPT !.readable = FALSE], NoEnv),
     With([NoFile EXCEPT !.offline = "true", !.listeners = <<>>], NoEnv),
     With([NoFile EXCEPT !.offline = "true"], NoEnv),
     With([NoFile EXCEPT !.offline = "false", !.token = "file"],
          [NoEnv EXCEPT !.offline = "true"]),
     With([NoFile EXCEPT !.offline = "true", !.token = "file"],
          [NoEnv EXCEPT !.offline = "false", !.url = "slash"]),
     With([NoFile EXCEPT !.offline = "no idea"], NoEnv),
     With([NoFile EXCEPT !.url = "slash", !.username = "file", !.password = "file"],
          [NoEnv EXCEPT !.password = "env"]),
     With([NoFile EXCEPT !.url = "broken", !.token = "file"], NoEnv),
     With([NoFile EXCEPT !.url = "broken"], NoEnv),
     With([NoFile EXCEPT !.token = "file", !.username = "file"],
          [NoEnv EXCEPT !.token = "env"]),
     With([NoFile EXCEPT !.listeners = <<MCListener("a", "ok", ""),
                                         MCListener("a", "ok", "ok")>>], NoEnv),
     With([NoFile EXCEPT !.listeners = <<MCListener("", "ok", ""),
                                         MCListener("", "ok", "")>>], NoEnv),
     With([NoFile EXCEPT !.token = "file",
                         !.listeners = <<MCListener("a", "invalid", "")>>], NoEnv),
     With([NoFile EXCEPT !.token = "file",
                         !.listeners = <<MCListener("a", "ok", "invalid")>>], NoEnv)}
=============================================================================
