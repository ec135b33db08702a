---------------------------- MODULE AsyncBarrier ----------------------------
(***************************************************************************)
(* @esfx/async-barrier: tasks wait for each other at the end of a phase.   *)
(* _finishPhase() only schedules the end of the phase; until that job has  *)
(* run, and the post-phase action before it, other calls may come.         *)
(***************************************************************************)
EXTENDS WaitQueue

CONSTANTS
    Tasks,              \* those who call signalAndWait()
    MaxParticipants,    \* bound: the participants that add() may lead to
    MaxArrivals,        \* bound: the calls of signalAndWait() in one phase
    MaxFinishes,        \* bound: the ends of a phase that are scheduled at once
    HasAction           \* the barrier has a postPhaseAction

VARIABLES
    _participantCount, _remainingParticipants, _waiters,
    _isExecutingPostPhaseAction,
    finishes,   \* how many _finishPhase() have still to end their phase
    arrived     \* how many have signaled in this phase

barrierVars == <<_participantCount, _remainingParticipants, _waiters,
                 _isExecutingPostPhaseAction, finishes, arrived>>

Init == /\ _participantCount \in 0 .. MaxParticipants
        /\ _remainingParticipants = _participantCount
        /\ _waiters = <<>>
        /\ _isExecutingPostPhaseAction = FALSE
        /\ finishes = 0 /\ arrived = 0

-----------------------------------------------------------------------------
\* _finishPhase(): with an action, add(), remove() and signalAndWait() throw from
\* now on.
FinishPhase ==
    /\ finishes < MaxFinishes
    /\ finishes' = finishes + 1
    /\ _isExecutingPostPhaseAction' = HasAction

NoFinish == UNCHANGED <<finishes, _isExecutingPostPhaseAction>>

Add(n) ==
    /\ ~_isExecutingPostPhaseAction
    /\ _participantCount + n <= MaxParticipants
    /\ _participantCount' = _participantCount + n
    /\ _remainingParticipants' = _remainingParticipants + n
    /\ UNCHANGED <<_waiters, arrived>> /\ NoFinish

\* Mutant of Remove: also while the post-phase action runs.
RemoveAnytime(n) ==
    /\ n <= _participantCount
    /\ _participantCount' = _participantCount - n
    /\ _remainingParticipants' = _remainingParticipants - n
    /\ IF _participantCount = n THEN FinishPhase ELSE NoFinish
    /\ UNCHANGED <<_waiters, arrived>>

\* remove(n) ends the phase only when it removes the last participant; if it removes
\* the ones that the waiting tasks wait for, they go on waiting.
Remove(n) ==
    /\ ~_isExecutingPostPhaseAction
    /\ n <= _participantCount
    /\ _participantCount' = _participantCount - n
    /\ _remainingParticipants' = _remainingParticipants - n
    /\ IF _participantCount = n THEN FinishPhase ELSE NoFinish
    /\ UNCHANGED <<_waiters, arrived>>

\* After a remove() the remaining participants may be fewer than none, and the test
\* for "exceeded the number of registered participants" does not see it.
SignalAndWait(t) ==
    /\ arrived < MaxArrivals
    /\ t \notin Waiting(_waiters)
    /\ ~_isExecutingPostPhaseAction
    /\ _participantCount # 0 /\ _remainingParticipants # 0
    /\ _waiters' = Enqueued(_waiters, t)
    /\ _remainingParticipants' = _remainingParticipants - 1
    /\ IF _remainingParticipants = 1 THEN FinishPhase ELSE NoFinish
    /\ arrived' = arrived + 1
    /\ UNCHANGED _participantCount

\* The cancelable of a waiting task is signaled.  The task still counts as arrived.
CancelWait(t) ==
    /\ t \in Waiting(_waiters)
    /\ _waiters' = Canceled(_waiters, t)
    /\ UNCHANGED <<_participantCount, _remainingParticipants, arrived>> /\ NoFinish

\* Mutant of NextPhase: one waiter is let go.
NextPhaseOne ==
    /\ finishes > 0
    /\ finishes' = finishes - 1
    /\ _isExecutingPostPhaseAction' = FALSE
    /\ _remainingParticipants' = _participantCount
    /\ arrived' = 0
    /\ _waiters' = IF _waiters = <<>> THEN _waiters ELSE Dequeued(_waiters)
    /\ UNCHANGED _participantCount

\* The post-phase action, if any, has fulfilled or thrown: _resolveNextPhase() or
\* _rejectNextPhase().
NextPhase ==
    /\ finishes > 0
    /\ finishes' = finishes - 1
    /\ _isExecutingPostPhaseAction' = FALSE
    /\ _remainingParticipants' = _participantCount
    /\ arrived' = 0
    /\ _waiters' = <<>>
    /\ UNCHANGED _participantCount

Next == \/ \E n \in 1 .. MaxParticipants : Add(n) \/ Remove(n)
        \/ \E t \in Tasks : SignalAndWait(t) \/ CancelWait(t)
        \/ NextPhase

\* The event loop runs its jobs, and the post-phase action ends.
Fairness == WF_barrierVars(NextPhase)

Spec == Init /\ [][Next]_barrierVars /\ Fairness

-----------------------------------------------------------------------------
TypeOK ==
    /\ _participantCount \in 0 .. MaxParticipants
    /\ arrived \in 0 .. MaxArrivals
    /\ _remainingParticipants = _participantCount - arrived
    /\ _waiters \in Seq(Tasks) /\ Once(_waiters)
    /\ _isExecutingPostPhaseAction \in BOOLEAN
    /\ finishes \in 0 .. MaxFinishes

\* With a post-phase action one phase ends at a time, and it does not end before
\* every participant has arrived, however many come, go and cancel in between.
PhasesInTurn ==
    HasAction => /\ finishes <= 1
                 /\ finishes = 1 => arrived >= _participantCount

\* Who waits when the end of the phase is scheduled is let go.
PhaseReleases ==
    \A t \in Tasks : (finishes > 0 /\ t \in Waiting(_waiters)) ~> t \notin Waiting(_waiters)
=============================================================================
