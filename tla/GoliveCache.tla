---------------------------- MODULE GoliveCache ----------------------------
(***************************************************************************)
(* pkg/cache/cache.go at the level of its mutex: SetIfOutdated locks,      *)
(* reads the entry, compares it with the new payload, writes it when they  *)
(* differ, and unlocks.  Delete and the expiry of the underlying go-cache  *)
(* do not take the mutex and may fall between any two of those steps.      *)
(*                                                                         *)
(* A payload is the JSON text of an environment information without its    *)
(* deployed date (handler.go sets the date after the comparison), so it is *)
(* a value compared with "=".  json.Marshal cannot fail on the types the   *)
(* handlers pass (strings, booleans, numbers, maps of strings), so the     *)
(* error branches of toJson, get and set have no counterpart here.         *)
(***************************************************************************)
EXTENDS Naturals

CONSTANTS
    Callers,   \* the worker goroutines that run handlers
    Keys,      \* environment selectors (category, application, environment)
    Payloads,  \* environment informations, as the JSON text that is compared
    NoEntry,   \* no entry, or an expired one
    NoCaller,  \* the mutex is free
    Expires    \* TRUE when the configured cacheExpiration is positive

ASSUME GoliveCacheAssumption ==
    /\ NoEntry \notin Payloads
    /\ NoCaller \notin Callers
    /\ Expires \in BOOLEAN

VARIABLES
    mu,        \* the mutex of GoliveCache: its holder or NoCaller
    entry,     \* entry[k]: what go-cache's Get returns for selector k
    pc,        \* pc[c]: control point of caller c
    key,       \* key[c]: the selector passed by c
    value,     \* value[c]: the payload passed by c
    updated    \* updated[c]: the result of c's SetIfOutdated

vars == <<mu, entry, pc, key, value, updated>>

ControlPoints == {"idle", "lock", "check", "set", "unlock", "returned"}

TypeOK ==
    /\ mu \in Callers \cup {NoCaller}
    /\ entry \in [Keys -> Payloads \cup {NoEntry}]
    /\ pc \in [Callers -> ControlPoints]
    /\ key \in [Callers -> Keys]
    /\ value \in [Callers -> Payloads]
    /\ updated \in [Callers -> BOOLEAN]

\* NewCache: an empty cache and a free mutex; nobody has called it.
Init ==
    /\ mu = NoCaller
    /\ entry = [k \in Keys |-> NoEntry]
    /\ pc = [c \in Callers |-> "idle"]
    /\ key \in [Callers -> Keys]
    /\ value \in [Callers -> Payloads]
    /\ updated = [c \in Callers |-> FALSE]

Goto(c, point) == pc' = [pc EXCEPT ![c] = point]
-----------------------------------------------------------------------------
(* SetIfOutdated *)

\* A handler calls SetIfOutdated(k, v).
Invoke(c, k, v) ==
    /\ pc[c] = "idle"
    /\ key' = [key EXCEPT ![c] = k]
    /\ value' = [value EXCEPT ![c] = v]
    /\ Goto(c, "lock")
    /\ UNCHANGED <<mu, entry, updated>>

\* Mutated form: the mutex is not taken.
LockIgnored(c) ==
    /\ pc[c] = "lock"
    /\ Goto(c, "check")
    /\ UNCHANGED <<mu, entry, key, value, updated>>

\* c.mu.Lock()
Lock(c) ==
    /\ pc[c] = "lock"
    /\ mu = NoCaller
    /\ mu' = c
    /\ Goto(c, "check")
    /\ UNCHANGED <<entry, key, value, updated>>

\* Mutated form: the early return of the up-to-date branch keeps the mutex.
UnlockOnlyAfterSet(c) ==
    /\ pc[c] = "unlock"
    /\ mu' = IF updated[c] THEN NoCaller ELSE mu
    /\ Goto(c, "returned")
    /\ UNCHANGED <<entry, key, value, updated>>

\* isUpdateToDate: one Get of go-cache and the comparison of the two texts.
Check(c) ==
    /\ pc[c] = "check"
    /\ \/ /\ entry[key[c]] = value[c]
          /\ updated' = [updated EXCEPT ![c] = FALSE]
          /\ Goto(c, "unlock")
       \/ /\ entry[key[c]] # value[c]
          /\ Goto(c, "set")
          /\ UNCHANGED updated
    /\ UNCHANGED <<mu, entry, key, value>>

\* Mutated form: the arguments of set are swapped.
SetSwapped(c) ==
    /\ pc[c] = "set"
    /\ entry' = [k \in Keys \cup {value[c]} |->
                    IF k = value[c] THEN key[c] ELSE entry[k]]
    /\ updated' = [updated EXCEPT ![c] = TRUE]
    /\ Goto(c, "unlock")
    /\ UNCHANGED <<mu, key, value>>

\* set: one Set of go-cache with the default expiration, then "return true".
Set(c) ==
    /\ pc[c] = "set"
    /\ entry' = [entry EXCEPT ![key[c]] = value[c]]
    /\ updated' = [updated EXCEPT ![c] = TRUE]
    /\ Goto(c, "unlock")
    /\ UNCHANGED <<mu, key, value>>

\* The deferred c.mu.Unlock(), on both branches.
Unlock(c) ==
    /\ pc[c] = "unlock"
    /\ mu' = NoCaller
    /\ Goto(c, "returned")
    /\ UNCHANGED <<entry, key, value, updated>>
-----------------------------------------------------------------------------
(* Delete and expiry, which do not take the mutex *)

\* The handler's send was refused: Delete of the selector it had set.
Delete(c) ==
    /\ pc[c] = "returned"
    /\ updated[c]
    /\ entry' = [entry EXCEPT ![key[c]] = NoEntry]
    /\ Goto(c, "idle")
    /\ UNCHANGED <<mu, key, value, updated>>

\* The handler goes on without touching the cache again.
Finish(c) ==
    /\ pc[c] = "returned"
    /\ Goto(c, "idle")
    /\ UNCHANGED <<mu, entry, key, value, updated>>

\* An entry passes its expiration.  go-cache gives entries no expiration at
\* all when its default is zero or negative.
Expire(k) ==
    /\ Expires
    /\ entry[k] # NoEntry
    /\ entry' = [entry EXCEPT ![k] = NoEntry]
    /\ UNCHANGED <<mu, pc, key, value, updated>>
-----------------------------------------------------------------------------
Step(c) == Lock(c) \/ Check(c) \/ Set(c) \/ Unlock(c) \/ Delete(c) \/ Finish(c)

Next ==
    \/ \E c \in Callers, k \in Keys, v \in Payloads : Invoke(c, k, v)
    \/ \E c \in Callers : Step(c)
    \/ \E k \in Keys : Expire(k)

Spec == Init /\ [][Next]_vars

\* A goroutine inside SetIfOutdated keeps running, and sync.Mutex does not
\* starve a waiter (its starvation mode hands the lock to the oldest one).
Fairness ==
    \A c \in Callers :
        /\ SF_vars(Lock(c))
        /\ WF_vars(Check(c)) /\ WF_vars(Set(c)) /\ WF_vars(Unlock(c))

FairSpec == Spec /\ Fairness
-----------------------------------------------------------------------------
(* Properties *)

\* Inside the critical section a caller's decision to write stays justified:
\* it holds the mutex, and nobody has installed its payload since it looked.
DecisionStands ==
    \A c \in Callers :
        /\ pc[c] \in {"check", "set", "unlock"} <=> mu = c
        /\ pc[c] = "set" => entry[key[c]] # value[c]

\* Every call of SetIfOutdated returns, however the other workers, Delete and
\* expiry interleave with it.
CallsReturn ==
    \A c \in Callers : pc[c] = "lock" ~> pc[c] = "returned"

\* SetIfOutdated, Delete and expiry together behave like the atomic cache.
AbstractStatus ==
    [c \in Callers |->
        CASE pc[c] = "idle" -> "idle"
          [] pc[c] \in {"lock", "check", "set"} -> "pending"
          [] OTHER -> IF updated[c] THEN "updated" ELSE "upToDate"]

Atomic == INSTANCE UpToDateCache WITH status <- AbstractStatus

ImplementsUpToDateCache == Atomic!AbsSpec
=============================================================================
