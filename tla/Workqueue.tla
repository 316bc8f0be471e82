----------------------------- MODULE Workqueue -----------------------------
(***************************************************************************)
(* The rate limiting work queue of client-go, as controller.go uses it.    *)
(* It is third-party code: modelled from its documented contract and from  *)
(* the calls the controller makes (Add, Get, Done, AddRateLimited, Forget, *)
(* ShutDown), and the base of the controller's module.                     *)
(*                                                                         *)
(* A key is dirty from the moment it is added until a worker gets it; it   *)
(* is processing from Get to Done.  A key added while it is processing is  *)
(* only marked dirty, and Done puts it back in the queue.  A key added     *)
(* with AddRateLimited waits for its back-off delay before it is added.    *)
(***************************************************************************)
EXTENDS Naturals, Sequences

CONSTANT
    Pods            \* pod keys, "namespace/name"

VARIABLES
    queue,          \* keys ready for a worker, first in first out
    dirty,          \* keys that need processing
    processing,     \* keys some worker holds
    waiting,        \* keys whose back-off delay has not elapsed
    backoff,        \* keys with a failure count in the rate limiter
    shuttingDown    \* ShutDown was called

queueVars == <<queue, dirty, processing, waiting, backoff, shuttingDown>>

Queued == {queue[i] : i \in DOMAIN queue}

QueueTypeOK ==
    /\ queue \in Seq(Pods)
    /\ dirty \subseteq Pods
    /\ processing \subseteq Pods
    /\ waiting \subseteq Pods
    /\ backoff \subseteq Pods
    /\ shuttingDown \in BOOLEAN

QueueInit ==
    /\ queue = << >>
    /\ dirty = {}
    /\ processing = {}
    /\ waiting = {}
    /\ backoff = {}
    /\ shuttingDown = FALSE

\* Add: ignored after ShutDown and for a key that is already dirty.
Add(k) ==
    \/ /\ shuttingDown \/ k \in dirty
       /\ UNCHANGED <<queue, dirty>>
    \/ /\ ~shuttingDown /\ k \notin dirty
       /\ dirty' = dirty \cup {k}
       /\ queue' = IF k \in processing THEN queue ELSE Append(queue, k)

\* Get, when a key is ready.
Get ==
    /\ queue # << >>
    /\ queue' = Tail(queue)
    /\ dirty' = dirty \ {Head(queue)}
    /\ processing' = processing \cup {Head(queue)}

\* Get answers shutdown once the queue is drained.
Drained == queue = << >> /\ shuttingDown

\* Done: a key that became dirty meanwhile goes back to the queue.
Done(k) ==
    /\ processing' = processing \ {k}
    /\ queue' = IF k \in dirty THEN Append(queue, k) ELSE queue

\* AddRateLimited: count a failure, then wait for the delay (at least 5 ms,
\* never zero) unless the queue is shutting down.
AddRateLimited(k) ==
    /\ backoff' = backoff \cup {k}
    /\ waiting' = IF shuttingDown THEN waiting ELSE waiting \cup {k}

\* Forget: the rate limiter drops the failure count.
Forget(k) == backoff' = backoff \ {k}

\* The delay of a waiting key elapses: the queue adds it by itself.
DelayElapsed(k) ==
    /\ k \in waiting
    /\ waiting' = waiting \ {k}
    /\ Add(k)
    /\ UNCHANGED <<processing, backoff, shuttingDown>>

\* ShutDown: no more additions, and the delayed ones are dropped.
ShutDown ==
    /\ shuttingDown' = TRUE
    /\ waiting' = {}
=============================================================================
