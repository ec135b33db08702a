----------------------------- MODULE AsyncEvents -----------------------------
(***************************************************************************)
(* @esfx/async-autoresetevent, @esfx/async-manualresetevent, and           *)
(* @esfx/async-countdown, a count around a manual-reset event.  Their      *)
(* state has the same shape; Which says whose calls are made.              *)
(***************************************************************************)
EXTENDS WaitQueue

CONSTANTS
    Tasks,
    MaxCount    \* bound: the counts of a countdown event

VARIABLES
    which,              \* "auto", "manual" or "countdown"
    _signaled, _waiters,
    _initialCount, _remainingCount  \* of a countdown event

eventVars == <<which, _signaled, _waiters, _initialCount, _remainingCount>>
counts == <<_initialCount, _remainingCount>>

Init == /\ which \in {"auto", "manual", "countdown"}
        /\ _signaled \in BOOLEAN
        /\ _waiters = <<>>
        /\ _initialCount \in 0 .. MaxCount /\ _remainingCount = _initialCount
        /\ IF which = "countdown" THEN _signaled = (_initialCount = 0) ELSE _initialCount = 0

-----------------------------------------------------------------------------
\* AsyncAutoResetEvent.set(): a waiter takes the signal, or it stays.
SetAuto ==
    /\ which = "auto" /\ ~_signaled
    /\ IF _waiters # <<>>
       THEN _waiters' = Dequeued(_waiters) /\ UNCHANGED _signaled
       ELSE _signaled' = TRUE /\ UNCHANGED _waiters
    /\ UNCHANGED <<which, counts>>

\* AsyncManualResetEvent.set()
SetAll == IF _signaled THEN UNCHANGED <<_signaled, _waiters>>
          ELSE _signaled' = TRUE /\ _waiters' = <<>>

SetManual == which = "manual" /\ SetAll /\ UNCHANGED <<which, counts>>

\* reset() of the auto-reset and the manual-reset event.
Reset ==
    /\ which \in {"auto", "manual"}
    /\ _signaled' = FALSE
    /\ UNCHANGED <<which, _waiters, counts>>

\* wait() of a signaled event takes the signal of an auto-reset event; else it waits.
Wait(t) ==
    /\ t \notin Waiting(_waiters)
    /\ IF _signaled THEN _signaled' = (which # "auto") /\ UNCHANGED _waiters
       ELSE _waiters' = Enqueued(_waiters, t) /\ UNCHANGED _signaled
    /\ UNCHANGED <<which, counts>>

CancelWait(t) ==
    /\ t \in Waiting(_waiters)
    /\ _waiters' = Canceled(_waiters, t)
    /\ UNCHANGED <<which, _signaled, counts>>

\* AsyncCountdownEvent.add(): throws once the event is signaled.
Add(n) ==
    /\ which = "countdown"
    /\ _remainingCount > 0 /\ _remainingCount + n <= MaxCount
    /\ _remainingCount' = _remainingCount + n
    /\ UNCHANGED <<which, _signaled, _waiters, _initialCount>>

\* AsyncCountdownEvent.reset(n)
Recount(n) ==
    /\ which = "countdown"
    /\ _initialCount' = n /\ _remainingCount' = n
    /\ IF n = 0 THEN SetAll ELSE _signaled' = FALSE /\ UNCHANGED _waiters
    /\ UNCHANGED which

\* AsyncCountdownEvent.signal(n)
SignalCount(n) ==
    /\ which = "countdown"
    /\ n <= _remainingCount
    /\ _remainingCount' = _remainingCount - n
    /\ IF _remainingCount = n THEN SetAll ELSE UNCHANGED <<_signaled, _waiters>>
    /\ UNCHANGED <<which, _initialCount>>

Next == \/ SetAuto \/ SetManual \/ Reset
        \/ \E t \in Tasks : Wait(t) \/ CancelWait(t)
        \/ \E n \in 1 .. MaxCount : Add(n) \/ SignalCount(n)
        \/ \E n \in 0 .. MaxCount : Recount(n)

Spec == Init /\ [][Next]_eventVars

-----------------------------------------------------------------------------
TypeOK == /\ _signaled \in BOOLEAN
          /\ _waiters \in Seq(Tasks) /\ Once(_waiters)
          /\ _initialCount \in 0 .. MaxCount /\ _remainingCount \in 0 .. MaxCount

\* No task waits at a signaled event, and a countdown is signaled exactly at zero, in
\* any order of signals, additions, resets and waits.
SignaledServes == /\ _signaled => _waiters = <<>>
                  /\ which = "countdown" => (_signaled <=> _remainingCount = 0)
=============================================================================
