-------------------------------- MODULE Lazy --------------------------------
(***************************************************************************)
(* @esfx/lazy: a value made by a factory on first use, and                 *)
(* @esfx/async-lazy, whose value is a promise.  The factory is code of the *)
(* client and may ask for the value itself; what an async factory does     *)
(* after its first await runs while others read the value.                 *)
(***************************************************************************)
EXTENDS Naturals

CONSTANT Readers    \* that are not the factory

VARIABLES
    _state,     \* "factory", "resolving", "value" or "error"
    running,    \* the factory has not returned to the reader that called it
    promise,    \* what it returned: "none", "pending", "fulfilled" or "rejected"
    runs,       \* history: how often it was called
    got         \* got[r]: what reader r got; "value" is the one of _state

lazyVars == <<_state, running, promise, runs, got>>

Unread == running = FALSE /\ runs = 0 /\ got = [r \in Readers |-> "nothing"]

\* new Lazy(factory) and Lazy.from(factory, ...args); Lazy.for(value)
Init == _state \in {"factory", "value"} /\ promise = "none" /\ Unread

\* The first to read lazy.value calls the factory ...
Start ==
    /\ _state = "factory"
    /\ _state' = "resolving"
    /\ running' = TRUE
    /\ runs' = runs + 1
    /\ UNCHANGED <<promise, got>>

\* ... which gets an error if it asks for the value, remembered at first, ...
Recurse ==
    /\ running
    /\ _state = "resolving"
    /\ _state' = "error"
    /\ UNCHANGED <<running, promise, runs, got>>

\* ... until its own result is, and given to the reader.
Finish(r) ==
    /\ running /\ got[r] = "nothing"
    /\ running' = FALSE
    /\ _state' \in {"value", "error"}
    /\ got' = [got EXCEPT ![r] = _state']
    /\ UNCHANGED <<promise, runs>>

\* Other code reads when the factory is not running, and gets what is remembered.
Read(r) ==
    /\ ~running /\ got[r] = "nothing"
    /\ _state \in {"value", "error"}
    /\ got' = [got EXCEPT ![r] = _state]
    /\ UNCHANGED <<_state, running, promise, runs>>

Next == Start \/ Recurse \/ \E r \in Readers : Finish(r) \/ Read(r)

Spec == Init /\ [][Next]_lazyVars

-----------------------------------------------------------------------------
(* AsyncLazy                                                               *)

\* new AsyncLazy(factory) and AsyncLazy.from(factory, ...args); AsyncLazy.for(value)
InitAsync == /\ Unread
             /\ \/ _state = "factory" /\ promise = "none"
                \/ _state = "value" /\ promise \in {"pending", "fulfilled", "rejected"}

\* Start and Recurse of a factory that gets a promise that is rejected with an error.
StartAsync == Start

\* At last the factory returns a promise or a value to its reader, or it throws.
FinishAsync(r) ==
    /\ running /\ got[r] = "nothing"
    /\ running' = FALSE
    /\ _state' \in {"value", "error"}
    /\ promise' \in IF _state' = "value" THEN {"pending", "fulfilled", "rejected"} ELSE {promise}
    /\ got' = [got EXCEPT ![r] = _state']
    /\ UNCHANGED runs

Settle ==
    /\ promise = "pending"
    /\ promise' \in {"fulfilled", "rejected"}
    /\ UNCHANGED <<_state, running, runs, got>>

NextAsync == StartAsync \/ Recurse \/ Settle \/ \E r \in Readers : FinishAsync(r) \/ Read(r)

-----------------------------------------------------------------------------
TypeOK == /\ _state \in {"factory", "resolving", "value", "error"}
          /\ promise \in {"none", "pending", "fulfilled", "rejected"}
          /\ running => _state \in {"resolving", "error"}
          /\ promise # "none" => _state = "value"

\* The factory is called once at most, and all its readers get the same value, promise or
\* error, even if the factory met an error by asking for its own value and went on.
EvaluatedOnce ==
    /\ runs <= 1
    /\ \A r, s \in Readers : got[r] # "nothing" /\ got[s] # "nothing" => got[r] = got[s]
    /\ ~running => \A r \in Readers : got[r] \in {"nothing", _state}
=============================================================================
