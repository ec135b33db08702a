--------------------------- MODULE AsyncSemaphore ---------------------------
(***************************************************************************)
(* @esfx/async-semaphore: a count of permits, and the tasks that wait for  *)
(* one.                                                                    *)
(***************************************************************************)
EXTENDS WaitQueue

CONSTANTS
    Tasks,
    MaxCount,   \* the maxCount given to the constructor
    MaxPermits  \* bound: the permits that ever exist

VARIABLES
    _currentCount, _waiters,
    made,       \* the permits that the constructor and release() have made
    taken       \* the permits that wait() has given away

semaphoreVars == <<_currentCount, _waiters, made, taken>>

Init == /\ _currentCount \in 0 .. MaxCount
        /\ _waiters = <<>>
        /\ made = _currentCount /\ taken = 0

\* wait() with a permit left.
Enter ==
    /\ _currentCount > 0
    /\ _currentCount' = _currentCount - 1
    /\ taken' = taken + 1
    /\ UNCHANGED <<_waiters, made>>

\* wait() without.
Wait(t) ==
    /\ _currentCount = 0
    /\ t \notin Waiting(_waiters)
    /\ _waiters' = Enqueued(_waiters, t)
    /\ UNCHANGED <<_currentCount, made, taken>>

CancelWait(t) ==
    /\ t \in Waiting(_waiters)
    /\ _waiters' = Canceled(_waiters, t)
    /\ UNCHANGED <<_currentCount, made, taken>>

Least(m, n) == IF m < n THEN m ELSE n

\* Mutant of Release: the count goes up also for a permit that a waiter gets.
ReleaseTwice(n) ==
    /\ made + n <= MaxPermits
    /\ MaxCount - _currentCount >= n
    /\ LET served == Least(n, Len(_waiters))
       IN /\ _waiters' = SubSeq(_waiters, served + 1, Len(_waiters))
          /\ taken' = taken + served
          /\ _currentCount' = _currentCount + n
    /\ made' = made + n

\* release(n): the oldest waiters first, then the count.
Release(n) ==
    /\ made + n <= MaxPermits
    /\ MaxCount - _currentCount >= n
    /\ LET served == Least(n, Len(_waiters))
       IN /\ _waiters' = SubSeq(_waiters, served + 1, Len(_waiters))
          /\ taken' = taken + served
          /\ _currentCount' = _currentCount + (n - served)
    /\ made' = made + n

Next == \/ Enter
        \/ \E t \in Tasks : Wait(t) \/ CancelWait(t)
        \/ \E n \in 1 .. MaxCount : Release(n)

Spec == Init /\ [][Next]_semaphoreVars

-----------------------------------------------------------------------------
TypeOK == /\ _currentCount \in 0 .. MaxCount
          /\ _waiters \in Seq(Tasks) /\ Once(_waiters)
          /\ made \in 0 .. MaxPermits /\ taken \in 0 .. made

\* A permit is available or was given to one task, and nobody waits while one is
\* available, however releases of several permits and cancelations mix.
PermitsConserved == /\ made = taken + _currentCount
                    /\ _currentCount > 0 => _waiters = <<>>
=============================================================================
