----------------------------- MODULE AsyncMutex -----------------------------
(***************************************************************************)
(* @esfx/async-mutex: a lock for the async functions of one event loop.    *)
(* An action is one synchronous call or one job of the microtask queue.    *)
(* Jobs run in order, and the other code of the program may run between    *)
(* any two of them.                                                        *)
(***************************************************************************)
EXTENDS WaitQueue

CONSTANTS
    Handles,        \* the LockHandle objects; a handle asks for the lock once at a time
    None,           \* undefined
    UsingBlocks     \* clients declare the handle with `using` and also unlock it

ASSUME HandlesAssumption == None \notin Handles /\ UsingBlocks \in BOOLEAN

VARIABLES
    _handle,    \* mutex._handle
    _waiters,   \* mutex._waiters, an entry being the handle that waits
    jobs,       \* the microtasks that continue _lock() after its await
    phase       \* phase[h]: what the client of h has been promised

vars == <<_handle, _waiters, jobs, phase>>

Init == /\ _handle = None
        /\ _waiters = <<>> /\ jobs = <<>>
        /\ phase = [h \in Handles |-> "out"]

Become(h, p) == phase' = [phase EXCEPT ![h] = p]

-----------------------------------------------------------------------------
\* Mutant of Take: a handle is stored whether or not another is.
TakeAlways(h) ==
    /\ phase[h] = "out"
    /\ _handle # h
    /\ _handle' = h
    /\ Become(h, "holding")
    /\ UNCHANGED <<_waiters, jobs>>

\* lock() and tryLock() of a mutex that has no handle take it before they return.
Take(h) ==
    /\ phase[h] = "out"
    /\ _handle = None
    /\ _handle' = h
    /\ Become(h, "holding")
    /\ UNCHANGED <<_waiters, jobs>>

\* lock() of a mutex that has a handle waits.  If the handle is h itself it throws
\* "Lock already taken.", and tryLock() returns false.
Wait(h) ==
    /\ phase[h] = "out"
    /\ _handle \notin {None, h}
    /\ _waiters' = Enqueued(_waiters, h)
    /\ Become(h, "asking")
    /\ UNCHANGED <<_handle, jobs>>

\* The cancelable given to lock() is signaled while h waits.  One that is signaled
\* after the promise was resolved comes too late.
Cancel(h) ==
    /\ h \in Waiting(_waiters)
    /\ _waiters' = Canceled(_waiters, h)
    /\ Become(h, "out")
    /\ UNCHANGED <<_handle, jobs>>

-----------------------------------------------------------------------------
\* Mutant of Release: the mutex has no handle until the next owner continues.
ReleaseFirst ==
    /\ _handle' = None
    /\ IF _waiters = <<>> THEN UNCHANGED <<_waiters, jobs>>
       ELSE /\ _waiters' = Dequeued(_waiters)
            /\ jobs' = Append(jobs, First(_waiters))

\* _unlock(handle): the next owner is chosen now, but _handle keeps naming the
\* old one until that owner's job has run.
Release ==
    IF _waiters = <<>> THEN _handle' = None /\ UNCHANGED <<_waiters, jobs>>
    ELSE /\ _waiters' = Dequeued(_waiters)
         /\ jobs' = Append(jobs, First(_waiters))
         /\ UNCHANGED _handle

\* handle.unlock(), handle[Disposable.dispose](), and mutex.unlock() by the client
\* whose handle is the current one.  A client is done with the lock after one of
\* them; leaving a `using` block calls the second in any case.
Unlock(h) ==
    /\ _handle = h
    /\ \/ phase[h] = "holding"
       \/ phase[h] = "out" /\ UsingBlocks
    /\ Release
    /\ Become(h, "out")

\* _lock() goes on after `await this._waiters.wait(cancelable)`.  From here on the
\* client may use the handle; its own promise settles some microtasks later.
Resume ==
    /\ jobs # <<>>
    /\ _handle' = Head(jobs)
    /\ jobs' = Tail(jobs)
    /\ Become(Head(jobs), "holding")
    /\ UNCHANGED _waiters

-----------------------------------------------------------------------------
Next == \/ \E h \in Handles : Take(h) \/ Wait(h) \/ Cancel(h) \/ Unlock(h)
        \/ Resume

\* The event loop runs its jobs, and whoever has the lock unlocks it.
Fairness == WF_vars(Resume) /\ \A h \in Handles : WF_vars(Unlock(h))

Spec == Init /\ [][Next]_vars

FairSpec == Spec /\ Fairness

-----------------------------------------------------------------------------
\* The types; a handle waits in the queue, or is on its way to have the lock, once
\* and only while its client awaits it.
TypeOK ==
    /\ _handle \in Handles \cup {None}
    /\ phase \in [Handles -> {"out", "asking", "holding"}]
    /\ _waiters \in Seq(Handles) /\ jobs \in Seq(Handles)
    /\ Once(_waiters) /\ Once(jobs)
    /\ Waiting(_waiters) \cap Waiting(jobs) = {}
    /\ {h \in Handles : phase[h] = "asking"} = Waiting(_waiters) \cup Waiting(jobs)

\* At most one client has been given the lock and has not let it go, and the mutex
\* knows it by its handle.
MutualExclusion ==
    \A h \in Handles : phase[h] = "holding" =>
        _handle = h /\ \A g \in Handles : phase[g] = "holding" => g = h

\* Nobody overtakes: a lock() or tryLock() that is served at once finds nobody in the
\* queue and nobody on the way from the queue to the lock.
NoBarging ==
    [][\A h \in Handles : phase[h] = "out" /\ phase'[h] = "holding" =>
          _waiters = <<>> /\ jobs = <<>>]_vars

\* Who waits gets the lock or cancels, if clients let go of it: no waiter is
\* forgotten and none starves.
WaiterServed == \A h \in Handles : phase[h] = "asking" ~> phase[h] # "asking"

\* The mutex is an AbstractLock: every call and job is a step of it or a stutter.
Lock == INSTANCE AbstractLock WITH Clients <- Handles

ImplementsLockable == Lock!Spec
=============================================================================
