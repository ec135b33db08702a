----------------------- MODULE AsyncConditionVariable -----------------------
(***************************************************************************)
(* @esfx/async-conditionvariable with an AsyncMutex.  A client waits with  *)
(* the handle of its lock, as in the package's README; waiting for a       *)
(* condition is waiting again as long as it is false.                      *)
(***************************************************************************)
EXTENDS AsyncMutex

VARIABLES
    sleepers,   \* the condition variable's _waiters
    returning   \* the clients that were notified and whose wait() has not ended

cvVars == <<vars, sleepers, returning>>

CvInit == Init /\ sleepers = <<>> /\ returning = {}

\* Neither asleep nor on its way back.
Client(h) == h \notin Waiting(sleepers) \cup returning

-----------------------------------------------------------------------------
\* The calls of the mutex itself.
Direct(h) ==
    /\ Client(h)
    /\ Take(h) \/ Wait(h) \/ Cancel(h) \/ Unlock(h)
    /\ UNCHANGED <<sleepers, returning>>

\* wait(lock): _waitOne() lets the lock go and is in the list before anybody can run.
CvWait(h) ==
    /\ Client(h) /\ phase[h] = "holding"
    /\ Unlock(h)
    /\ sleepers' = Enqueued(sleepers, h)
    /\ UNCHANGED returning

\* The cancelable is signaled before a notification.  The wait rejects, and the
\* client is left without the lock.
CancelWait(h) ==
    /\ h \in Waiting(sleepers)
    /\ sleepers' = Canceled(sleepers, h)
    /\ UNCHANGED <<vars, returning>>

\* Mutant of Relock: the notified go on beside each other once the mutex is free.
RelockTogether(entries) ==
    /\ IF _handle = None
       THEN _handle' = Head(entries) /\ UNCHANGED _waiters
       ELSE /\ _waiters' = _waiters \o Removed(entries, _handle)
            /\ UNCHANGED _handle
    /\ returning' = returning \cup (Waiting(entries) \ {_handle})
    /\ phase' = [h \in Handles |->
                   IF h \in Waiting(_waiters') \ Waiting(_waiters) THEN "asking"
                   ELSE IF _handle = None /\ h \in Waiting(entries) THEN "holding" ELSE phase[h]]
    /\ UNCHANGED jobs

\* _notifyOne() for each entry: handle.lock().  If the mutex still names the handle,
\* because the next owner's job has not run, lock() throws and the wait rejects.
Relock(entries) ==
    /\ IF _handle = None
       THEN /\ _handle' = Head(entries)
            /\ _waiters' = _waiters \o Tail(entries)
       ELSE /\ _waiters' = _waiters \o Removed(entries, _handle)
            /\ UNCHANGED _handle
    /\ returning' = returning \cup (Waiting(entries) \ {_handle})
    /\ phase' = [h \in Handles |->
                   IF h \in Waiting(_waiters') \ Waiting(_waiters) THEN "asking"
                   ELSE IF _handle = None /\ h = Head(entries) THEN "holding" ELSE phase[h]]
    /\ UNCHANGED jobs

\* notifyOne() takes the oldest sleeper, notifyAll() all of them.
Notify(n) ==
    /\ Relock(SubSeq(sleepers, 1, n))
    /\ sleepers' = SubSeq(sleepers, n + 1, Len(sleepers))

NotifyOne == sleepers # <<>> /\ Notify(1)
NotifyAll == sleepers # <<>> /\ Notify(Len(sleepers))

\* The cancelable is signaled while the notified client waits for the lock.
CancelRelock(h) ==
    /\ h \in returning
    /\ Cancel(h)
    /\ returning' = returning \ {h}
    /\ UNCHANGED sleepers

\* handle.lock() has fulfilled, and with it wait().
Return(h) ==
    /\ h \in returning /\ phase[h] = "holding"
    /\ returning' = returning \ {h}
    /\ UNCHANGED <<vars, sleepers>>

CvNext == \/ \E h \in Handles : \/ Direct(h) \/ CvWait(h) \/ CancelWait(h)
                                \/ CancelRelock(h) \/ Return(h)
          \/ NotifyOne \/ NotifyAll
          \/ Resume /\ UNCHANGED <<sleepers, returning>>

\* The event loop runs its jobs, and who has the lock lets it go by unlock() or wait().
CvFairness ==
    /\ WF_cvVars(Resume /\ UNCHANGED <<sleepers, returning>>)
    /\ \A h \in Handles :
          /\ WF_cvVars(Return(h))
          /\ WF_cvVars(CvWait(h) \/ (Client(h) /\ Unlock(h) /\ UNCHANGED <<sleepers, returning>>))

CvSpec == CvInit /\ [][CvNext]_cvVars /\ CvFairness

-----------------------------------------------------------------------------
\* Who sleeps has no part in the mutex, and who returns is in its queue, about to
\* continue, or has the lock: a notification is never half done.
SleepersAway ==
    /\ Once(sleepers) /\ Waiting(sleepers) \cap returning = {}
    /\ \A h \in Waiting(sleepers) : phase[h] = "out"
    /\ \A h \in returning : phase[h] # "out"

\* A notified client gets the lock, however many clients and sleepers compete for it.
NotifiedServed == \A h \in Handles : h \in returning ~> h \notin returning
=============================================================================
