--------------------------- MODULE UpToDateCache ---------------------------
(***************************************************************************)
(* What the handlers rely on when they call pkg/cache: SetIfOutdated is    *)
(* one atomic compare-and-set per key, so that of several workers holding  *)
(* the same payload exactly one is told to send it.  GoliveCache, the      *)
(* lock-level model of cache.go, implements this specification.            *)
(***************************************************************************)
EXTENDS Naturals

CONSTANTS
    Callers,   \* the worker goroutines that run handlers
    Keys,      \* environment selectors (category, application, environment)
    Payloads,  \* environment informations, as the JSON text that is compared
    NoEntry,   \* no entry, or an expired one
    Expires    \* TRUE when the configured cacheExpiration is positive

VARIABLES
    entry,     \* entry[k]: the payload remembered for selector k
    status,    \* status[c]: where caller c is in its call
    key,       \* key[c]: the selector of c's current call
    value      \* value[c]: the payload of c's current call

absVars == <<entry, status, key, value>>

Statuses == {"idle", "pending", "updated", "upToDate"}

AbsInit ==
    /\ entry = [k \in Keys |-> NoEntry]
    /\ status = [c \in Callers |-> "idle"]
    /\ key \in [Callers -> Keys]
    /\ value \in [Callers -> Payloads]

AbsInvoke(c, k, v) ==
    /\ status[c] = "idle"
    /\ status' = [status EXCEPT ![c] = "pending"]
    /\ key' = [key EXCEPT ![c] = k]
    /\ value' = [value EXCEPT ![c] = v]
    /\ UNCHANGED entry

\* The remembered payload is the same: the caller need not send it.
AbsUpToDate(c) ==
    /\ status[c] = "pending"
    /\ entry[key[c]] = value[c]
    /\ status' = [status EXCEPT ![c] = "upToDate"]
    /\ UNCHANGED <<entry, key, value>>

\* The remembered payload differs or is missing: replace it, the caller sends.
AbsUpdate(c) ==
    /\ status[c] = "pending"
    /\ entry[key[c]] # value[c]
    /\ entry' = [entry EXCEPT ![key[c]] = value[c]]
    /\ status' = [status EXCEPT ![c] = "updated"]
    /\ UNCHANGED <<key, value>>

\* The send was refused: forget the selector, whoever wrote it last.
AbsDelete(c) ==
    /\ status[c] = "updated"
    /\ entry' = [entry EXCEPT ![key[c]] = NoEntry]
    /\ status' = [status EXCEPT ![c] = "idle"]
    /\ UNCHANGED <<key, value>>

AbsFinish(c) ==
    /\ status[c] \in {"updated", "upToDate"}
    /\ status' = [status EXCEPT ![c] = "idle"]
    /\ UNCHANGED <<entry, key, value>>

AbsExpire(k) ==
    /\ Expires
    /\ entry[k] # NoEntry
    /\ entry' = [entry EXCEPT ![k] = NoEntry]
    /\ UNCHANGED <<status, key, value>>

AbsNext ==
    \/ \E c \in Callers, k \in Keys, v \in Payloads : AbsInvoke(c, k, v)
    \/ \E c \in Callers :
          AbsUpToDate(c) \/ AbsUpdate(c) \/ AbsDelete(c) \/ AbsFinish(c)
    \/ \E k \in Keys : AbsExpire(k)

AbsSpec == AbsInit /\ [][AbsNext]_absVars
=============================================================================
