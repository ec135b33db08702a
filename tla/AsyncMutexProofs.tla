-------------------------- MODULE AsyncMutexProofs --------------------------
(***************************************************************************)
(* Proofs about AsyncMutex, and about AsyncConditionVariable, which works  *)
(* on one, for any set of handles, with clients that are done with the     *)
(* lock once they have unlocked it.                                        *)
(***************************************************************************)
EXTENDS AsyncConditionVariable

\* While the job of the next owner is due, the old owner has let go and its handle
\* still keeps everybody else out; while no job is due, the handle that the mutex
\* names has the lock, and without a handle nobody waits.
HandOver ==
    /\ jobs # <<>> => /\ Dequeued(jobs) = <<>>
                      /\ _handle # None
                      /\ \A h \in Handles : phase[h] # "holding"
    /\ jobs = <<>> /\ _handle # None => phase[_handle] = "holding"
    /\ _handle = None => _waiters = <<>>

IInv == TypeOK /\ MutualExclusion /\ HandOver

LEMMA InitIInv == Init => IInv
<1> SUFFICES ASSUME Init PROVE IInv
  OBVIOUS
<1>1. /\ Waiting(<<>>) = {} /\ Once(<<>>)
      /\ <<>> \in Seq(Handles)
  BY EmptyQueue
<1>2. TypeOK
  BY <1>1 DEF Init, TypeOK
<1>3. MutualExclusion /\ HandOver
  BY HandlesAssumption DEF Init, MutualExclusion, HandOver
<1> QED BY <1>2, <1>3 DEF IInv

\* Take keeps the invariant: nobody waits and nobody holds.
LEMMA TakeIInv ==
    ASSUME IInv, NEW h \in Handles, Take(h)
    PROVE  IInv'
<1> USE DEF IInv
<1>1. jobs = <<>> /\ _handle' = h /\ h # None
  BY HandlesAssumption DEF Take, HandOver
<1>2. /\ phase' \in [Handles -> {"out", "asking", "holding"}]
      /\ phase'[h] = "holding"
      /\ \A g \in Handles \ {h} : phase'[g] = phase[g]
  BY DEF Take, Become, TypeOK
<1>3. TypeOK'
  BY <1>1, <1>2 DEF Take, TypeOK
<1>4. MutualExclusion'
  BY <1>1, <1>2, HandlesAssumption DEF Take, MutualExclusion
<1>5. HandOver'
  BY <1>1, <1>2 DEF Take, HandOver
<1> QED BY <1>3, <1>4, <1>5

LEMMA WaitIInv ==
    ASSUME IInv, NEW h \in Handles, Wait(h)
    PROVE  IInv'
<1> USE DEF IInv
<1>1. /\ phase' \in [Handles -> {"out", "asking", "holding"}]
      /\ phase'[h] = "asking" /\ phase[h] = "out"
      /\ \A g \in Handles \ {h} : phase'[g] = phase[g]
  BY DEF Wait, Become, TypeOK
<1>2. h \notin Waiting(_waiters) /\ h \notin Waiting(jobs)
  BY <1>1 DEF TypeOK
<1>3. /\ _waiters' \in Seq(Handles) /\ Once(_waiters)'
      /\ Waiting(_waiters)' = Waiting(_waiters) \cup {h}
  <2>1. _waiters \in Seq(Handles) /\ Once(_waiters)
    BY DEF TypeOK
  <2> HIDE DEF IInv
  <2> QED BY <1>2, <2>1, EnqueueAdds DEF Wait
<1>4. {g \in Handles : phase'[g] = "asking"} = {g \in Handles : phase[g] = "asking"} \cup {h}
  BY <1>1
<1>5. TypeOK'
  BY <1>1, <1>2, <1>3, <1>4 DEF Wait, TypeOK
<1>6. MutualExclusion'
  BY <1>1 DEF Wait, MutualExclusion
<1>7. HandOver'
  BY <1>1 DEF Wait, HandOver, TypeOK
<1> QED BY <1>5, <1>6, <1>7

LEMMA CancelIInv ==
    ASSUME IInv, NEW h \in Handles, Cancel(h)
    PROVE  IInv'
<1> USE DEF IInv
<1>1. h \in Waiting(_waiters) /\ phase[h] = "asking"
  BY DEF Cancel, TypeOK
<1>2. /\ phase' \in [Handles -> {"out", "asking", "holding"}]
      /\ phase'[h] = "out"
      /\ \A g \in Handles \ {h} : phase'[g] = phase[g]
  BY DEF Cancel, Become, TypeOK
<1>3. /\ _waiters' \in Seq(Handles) /\ Once(_waiters)'
      /\ Waiting(_waiters)' = Waiting(_waiters) \ {h}
  <2>1. _waiters \in Seq(Handles) /\ Once(_waiters)
    BY DEF TypeOK
  <2> QED BY <1>1, <2>1, CancelRemoves DEF Cancel
<1>4. {g \in Handles : phase'[g] = "asking"} = {g \in Handles : phase[g] = "asking"} \ {h}
  BY <1>2
<1>5. TypeOK'
  BY <1>1, <1>2, <1>3, <1>4 DEF Cancel, TypeOK
<1>6. MutualExclusion'
  BY <1>2 DEF Cancel, MutualExclusion
<1>7. _handle # None
  <2>1. Waiting(<<>>) = {}
    BY EmptyQueue
  <2> QED BY <1>1, <2>1 DEF HandOver
<1>8. HandOver'
  BY <1>1, <1>2, <1>7 DEF Cancel, HandOver, TypeOK
<1> QED BY <1>5, <1>6, <1>8

LEMMA UnlockIInv ==
    ASSUME UsingBlocks = FALSE, IInv, NEW h \in Handles, Unlock(h)
    PROVE  IInv'
<1> USE DEF IInv
<1>1. _handle = h /\ h # None /\ phase[h] = "holding" /\ jobs = <<>>
  BY HandlesAssumption DEF Unlock, HandOver
<1>2. /\ phase' \in [Handles -> {"out", "asking", "holding"}]
      /\ phase'[h] = "out"
      /\ \A g \in Handles \ {h} : phase'[g] = phase[g]
  BY DEF Unlock, Become, TypeOK
<1>3. \A g \in Handles : phase'[g] # "holding"
  BY <1>1, <1>2 DEF MutualExclusion
<1>4. {g \in Handles : phase'[g] = "asking"} = {g \in Handles : phase[g] = "asking"}
  BY <1>1, <1>2
<1>5. CASE _waiters = <<>>
  <2>1. _handle' = None /\ _waiters' = <<>> /\ jobs' = <<>>
    BY <1>1, <1>5 DEF Unlock, Release
  <2>2. TypeOK'
    BY <1>1, <1>2, <1>4, <1>5, <2>1 DEF TypeOK
  <2> QED BY <1>3, <2>1, <2>2 DEF MutualExclusion, HandOver
<1>6. CASE _waiters # <<>>
  <2>1. /\ _handle' = h /\ _waiters' = Dequeued(_waiters)
        /\ jobs' = Append(<<>>, First(_waiters))
    BY <1>1, <1>6 DEF Unlock, Release
  <2>2. /\ First(_waiters) \in Handles /\ _waiters' \in Seq(Handles)
        /\ Waiting(_waiters) = {First(_waiters)} \cup Waiting(_waiters)'
        /\ Once(_waiters)' /\ First(_waiters) \notin Waiting(_waiters)'
    <3>1. _waiters \in Seq(Handles) /\ Once(_waiters)
      BY DEF TypeOK
    <3> QED BY <1>6, <2>1, <3>1, DequeueRemoves
  <2>3. /\ jobs' = <<First(_waiters)>> /\ jobs' \in Seq(Handles)
        /\ Waiting(jobs)' = {First(_waiters)} /\ Once(jobs)'
    BY <2>1, <2>2 DEF Waiting, Once
  <2>4. Waiting(jobs) = {}
    BY <1>1, EmptyQueue
  <2>5. TypeOK'
    BY <1>1, <1>2, <1>4, <2>1, <2>2, <2>3, <2>4 DEF TypeOK
  <2>6. jobs' # <<>> /\ Dequeued(jobs') = <<>>
    BY <2>2, <2>3 DEF Dequeued
  <2> QED BY <1>1, <1>3, <2>1, <2>5, <2>6 DEF MutualExclusion, HandOver
<1> QED BY <1>5, <1>6

LEMMA ResumeIInv ==
    ASSUME IInv, Resume
    PROVE  IInv'
<1> USE DEF IInv
<1> DEFINE h == First(jobs)
<1>1. /\ h \in Handles /\ jobs' = <<>> /\ Dequeued(jobs) = <<>>
      /\ Waiting(jobs) = {h}
  <2>1. jobs # <<>> /\ jobs \in Seq(Handles) /\ Dequeued(jobs) = <<>>
    BY DEF Resume, TypeOK, HandOver
  <2>2. Waiting(<<>>) = {}
    BY EmptyQueue
  <2>3. h \in Handles /\ Waiting(jobs) = {h} \cup Waiting(Dequeued(jobs))
    <3> HIDE DEF IInv
    <3> QED BY <2>1, DequeueRemoves
  <2>4. jobs' = Dequeued(jobs)
    BY DEF Resume, Dequeued
  <2> QED BY <2>1, <2>2, <2>3, <2>4
<1>2. /\ h # None /\ phase[h] = "asking" /\ h \notin Waiting(_waiters)
      /\ _handle' = h /\ _waiters' = _waiters
      /\ \A g \in Handles : phase[g] # "holding"
  BY <1>1, HandlesAssumption DEF Resume, First, TypeOK, HandOver
<1>3. /\ phase' \in [Handles -> {"out", "asking", "holding"}]
      /\ phase'[h] = "holding"
      /\ \A g \in Handles \ {h} : phase'[g] = phase[g]
  BY <1>1 DEF Resume, First, Become, TypeOK
<1>4. {g \in Handles : phase'[g] = "asking"} = {g \in Handles : phase[g] = "asking"} \ {h}
  BY <1>3
<1>5. /\ Waiting(jobs)' = {} /\ Once(jobs)' /\ jobs' \in Seq(Handles)
  BY <1>1, EmptyQueue
<1> HIDE DEF h
<1>6. TypeOK'
  BY <1>1, <1>2, <1>3, <1>4, <1>5 DEF TypeOK
<1>7. MutualExclusion' /\ HandOver'
  BY <1>1, <1>2, <1>3 DEF MutualExclusion, HandOver
<1> QED BY <1>6, <1>7

LEMMA NextIInv ==
    ASSUME UsingBlocks = FALSE, IInv, [Next]_vars
    PROVE  IInv'
<1>1. CASE UNCHANGED vars
  BY <1>1 DEF vars, IInv, TypeOK, MutualExclusion, HandOver
<1>2. CASE Next
  BY <1>2, TakeIInv, WaitIInv, CancelIInv, UnlockIInv, ResumeIInv, Zenon DEF Next
<1> QED BY <1>1, <1>2

THEOREM Invariance == ASSUME UsingBlocks = FALSE PROVE Spec => []IInv
<1>1. Init => IInv
  BY InitIInv
<1>2. IInv /\ [Next]_vars => IInv'
  <2> SUFFICES ASSUME IInv, [Next]_vars PROVE IInv'
    OBVIOUS
  <2> QED BY NextIInv, Zenon
<1> QED BY <1>1, <1>2, PTL DEF Spec

\* Two clients never have the lock (AsyncMutex._lock and _unlock).
THEOREM Exclusion == ASSUME UsingBlocks = FALSE PROVE Spec => []MutualExclusion
<1>1. IInv => MutualExclusion
  BY DEF IInv
<1> QED BY <1>1, Invariance, PTL

\* Queues, jobs and what clients await agree, with no handle twice in them.
THEOREM TypeCorrect == ASSUME UsingBlocks = FALSE PROVE Spec => []TypeOK
<1>1. IInv => TypeOK
  BY DEF IInv
<1> QED BY <1>1, Invariance, PTL

-----------------------------------------------------------------------------
\* Nobody overtakes whoever waits or has been chosen to be next: the handle that the
\* mutex still names keeps lock() and tryLock() out until the chosen one has it.
THEOREM FirstComeFirstServed == ASSUME UsingBlocks = FALSE PROVE Spec => NoBarging
<1> DEFINE Fair == \A h \in Handles : phase[h] = "out" /\ phase'[h] = "holding" =>
                       _waiters = <<>> /\ jobs = <<>>
<1>1. ASSUME IInv, [Next]_vars PROVE [Fair]_vars
  <2>1. ASSUME NEW g \in Handles, Take(g) PROVE Fair
    BY <1>1, <2>1 DEF Take, IInv, HandOver
  <2>2. ASSUME NEW g \in Handles, Wait(g) \/ Cancel(g) \/ Unlock(g) PROVE Fair
    BY <1>1, <2>2 DEF Wait, Cancel, Unlock, Become, IInv, TypeOK
  <2>3. ASSUME Resume PROVE Fair
    <3>1. Head(jobs) \in Waiting(jobs)
      <4>1. jobs \in Seq(Handles) /\ jobs # <<>>
        BY <1>1, <2>3 DEF Resume, IInv, TypeOK
      <4> QED BY <4>1, DequeueRemoves DEF First
    <3>2. phase[Head(jobs)] = "asking"
      BY <1>1, <3>1 DEF IInv, TypeOK
    <3> QED BY <1>1, <2>3, <3>2 DEF Resume, Become, IInv, TypeOK
  <2>4. CASE UNCHANGED vars
    BY <2>4
  <2> HIDE DEF Fair
  <2>5. CASE Next
    BY <2>1, <2>2, <2>3, <2>5, Zenon DEF Next
  <2> QED BY <1>1, <2>4, <2>5
<1>2. IInv /\ [Next]_vars => [Fair]_vars
  BY <1>1, Zenon
<1> QED BY <1>2, Invariance, PTL DEF Spec, NoBarging

-----------------------------------------------------------------------------
(* AsyncMutex implements AbstractLock. *)

LEMMA RefineInit == Init => Lock!Init
  BY DEF Init, Lock!Init

LEMMA RefineStep ==
    ASSUME UsingBlocks = FALSE, IInv, [Next]_vars
    PROVE  [Lock!Next]_phase
<1>1. ASSUME NEW h \in Handles, Take(h) PROVE Lock!Grant(h)
  BY <1>1, HandlesAssumption DEF Take, Become, IInv, MutualExclusion, Lock!Grant, Lock!Free
<1>2. ASSUME NEW h \in Handles, Wait(h) PROVE Lock!Ask(h)
  BY <1>2 DEF Wait, Become, Lock!Ask
<1>3. ASSUME NEW h \in Handles, Cancel(h) PROVE Lock!GiveUp(h)
  BY <1>3 DEF Cancel, Become, IInv, TypeOK, Lock!GiveUp
<1>4. ASSUME NEW h \in Handles, Unlock(h) PROVE Lock!Release(h)
  BY <1>4 DEF Unlock, Become, Lock!Release
<1>5. ASSUME Resume PROVE Head(jobs) \in Handles /\ Lock!Grant(Head(jobs))
  <2>1. Head(jobs) \in Handles
    BY <1>5 DEF Resume, IInv, TypeOK
  <2> QED BY <1>5, <2>1 DEF Resume, Become, IInv, HandOver, Lock!Grant, Lock!Free
<1>6. CASE UNCHANGED vars
  BY <1>6 DEF vars
<1>7. CASE \E h \in Handles : Take(h) \/ Wait(h) \/ Cancel(h) \/ Unlock(h)
  BY <1>1, <1>2, <1>3, <1>4, <1>7 DEF Lock!Next
<1>8. CASE Resume
  BY <1>5, <1>8 DEF Lock!Next
<1> QED BY <1>6, <1>7, <1>8 DEF Next

\* Every call and every job is a step of AbstractLock or changes nothing it sees.
THEOREM Implements == ASSUME UsingBlocks = FALSE PROVE Spec => ImplementsLockable
<1>1. IInv /\ [Next]_vars => [Lock!Next]_phase
  <2> SUFFICES ASSUME IInv, [Next]_vars PROVE [Lock!Next]_phase
    OBVIOUS
  <2> QED BY RefineStep, Zenon
<1> QED BY <1>1, RefineInit, Invariance, PTL DEF Spec, ImplementsLockable, Lock!Spec

-----------------------------------------------------------------------------
(* AsyncConditionVariable: the invariant of its mutex, and SleepersAway. *)

CvIInv == IInv /\ SleepersAway /\ sleepers \in Seq(Handles) /\ returning \subseteq Handles

LEMMA CvInitIInv == CvInit => CvIInv
<1> SUFFICES ASSUME CvInit PROVE CvIInv
  OBVIOUS
<1>1. Waiting(<<>>) = {} /\ Once(<<>>) /\ <<>> \in Seq(Handles)
  BY EmptyQueue
<1> QED BY <1>1, InitIInv DEF CvInit, CvIInv, SleepersAway

\* A step of the mutex that leaves the sleepers and the returning where they are.
LEMMA DirectIInv ==
    ASSUME UsingBlocks = FALSE, CvIInv, NEW h \in Handles, Direct(h)
    PROVE  CvIInv'
<1>1. IInv'
  BY TakeIInv, WaitIInv, CancelIInv, UnlockIInv DEF Direct, CvIInv
<1>2. \A g \in Handles \ {h} : phase'[g] = phase[g]
  BY DEF Direct, Take, Wait, Cancel, Unlock, Become, CvIInv, IInv, TypeOK
<1>3. h \notin Waiting(sleepers) /\ h \notin returning
  BY DEF Direct, Client
<1>4. Waiting(sleepers) \subseteq Handles
  BY QueueEntries DEF CvIInv
<1>5. SleepersAway'
  BY <1>2, <1>3, <1>4 DEF CvIInv, SleepersAway, Direct
<1> QED BY <1>1, <1>5 DEF CvIInv, Direct

LEMMA CvWaitIInv ==
    ASSUME UsingBlocks = FALSE, CvIInv, NEW h \in Handles, CvWait(h)
    PROVE  CvIInv'
<1>1. IInv'
  BY UnlockIInv DEF CvWait, CvIInv
<1>2. phase'[h] = "out" /\ \A g \in Handles \ {h} : phase'[g] = phase[g]
  BY DEF CvWait, Unlock, Become, CvIInv, IInv, TypeOK
<1>3. h \notin Waiting(sleepers) /\ h \notin returning /\ returning' = returning
  BY DEF CvWait, Client
<1>4. /\ sleepers' \in Seq(Handles) /\ Once(sleepers)'
      /\ Waiting(sleepers)' = Waiting(sleepers) \cup {h}
  <2>1. sleepers \in Seq(Handles) /\ Once(sleepers)
    BY DEF CvIInv, SleepersAway
  <2> QED BY <1>3, <2>1, EnqueueAdds DEF CvWait
<1>5. Waiting(sleepers) \subseteq Handles
  BY QueueEntries DEF CvIInv
<1>6. SleepersAway'
  BY <1>2, <1>3, <1>4, <1>5 DEF CvIInv, SleepersAway
<1> QED BY <1>1, <1>3, <1>4, <1>6 DEF CvIInv

LEMMA CancelWaitIInv ==
    ASSUME CvIInv, NEW h \in Handles, CancelWait(h)
    PROVE  CvIInv'
<1>1. IInv'
  BY DEF CancelWait, CvIInv, vars, IInv, TypeOK, MutualExclusion, HandOver
<1>2. /\ sleepers' \in Seq(Handles) /\ Once(sleepers)'
      /\ Waiting(sleepers)' = Waiting(sleepers) \ {h}
  BY CancelRemoves DEF CancelWait, CvIInv, SleepersAway
<1> QED BY <1>1, <1>2 DEF CancelWait, CvIInv, SleepersAway, vars

LEMMA CancelRelockIInv ==
    ASSUME CvIInv, NEW h \in Handles, CancelRelock(h)
    PROVE  CvIInv'
<1>1. IInv'
  BY CancelIInv DEF CancelRelock, CvIInv
<1>2. \A g \in Handles \ {h} : phase'[g] = phase[g]
  BY DEF CancelRelock, Cancel, Become, CvIInv, IInv, TypeOK
<1>3. /\ h \in returning /\ returning' = returning \ {h} /\ sleepers' = sleepers
  BY DEF CancelRelock
<1>4. Waiting(sleepers) \subseteq Handles
  BY QueueEntries DEF CvIInv
<1> QED BY <1>1, <1>2, <1>3, <1>4 DEF CvIInv, SleepersAway

LEMMA CvResumeIInv ==
    ASSUME CvIInv, Resume, UNCHANGED <<sleepers, returning>>
    PROVE  CvIInv'
<1>1. IInv'
  BY ResumeIInv DEF CvIInv
<1>2. Head(jobs) \in Handles /\ phase[Head(jobs)] = "asking"
  <2>1. jobs # <<>> /\ jobs \in Seq(Handles)
    BY DEF Resume, CvIInv, IInv, TypeOK
  <2>2. Head(jobs) \in Handles /\ Head(jobs) \in Waiting(jobs)
    BY <2>1, DequeueRemoves DEF First
  <2> QED BY <2>2 DEF CvIInv, IInv, TypeOK
<1>3. /\ phase'[Head(jobs)] = "holding"
      /\ \A g \in Handles \ {Head(jobs)} : phase'[g] = phase[g]
  BY <1>2 DEF Resume, Become, CvIInv, IInv, TypeOK
<1>4. Waiting(sleepers) \subseteq Handles
  BY QueueEntries DEF CvIInv
<1> QED BY <1>1, <1>2, <1>3, <1>4 DEF CvIInv, SleepersAway

\* lock() of the notified handles, which nobody else awaits, one after the other.
LEMMA RelockIInv ==
    ASSUME CvIInv, NEW entries \in Seq(Handles), entries # <<>>, Once(entries),
           \A h \in Waiting(entries) : phase[h] = "out", Relock(entries)
    PROVE  /\ IInv'
           /\ \A h \in Handles \ Waiting(entries) : phase'[h] = phase[h]
           /\ \A h \in Waiting(entries) \ {_handle} : phase'[h] # "out"
           /\ _handle \in Waiting(entries) => phase'[_handle] = "out"
<1> DEFINE E == Waiting(entries)
           A == Waiting(_waiters') \ Waiting(_waiters)
<1>1. E \subseteq Handles
  BY QueueEntries
<1>2. E \cap Waiting(_waiters) = {} /\ E \cap Waiting(jobs) = {}
  BY <1>1 DEF CvIInv, IInv, TypeOK
<1>3. jobs' = jobs
  BY DEF Relock
<1>4. \A h \in Handles : phase'[h] = IF h \in A THEN "asking"
                                     ELSE IF _handle = None /\ h = Head(entries) THEN "holding"
                                     ELSE phase[h]
  BY DEF Relock
<1>5. phase' \in [Handles -> {"out", "asking", "holding"}]
  <2>1. phase' = [h \in Handles |-> phase'[h]]
    BY DEF Relock
  <2> HIDE DEF A
  <2> QED BY <1>4, <2>1 DEF CvIInv, IInv, TypeOK
<1> HIDE DEF E
<1>6. CASE _handle = None
  <2>1. /\ Head(entries) \in Handles /\ Tail(entries) \in Seq(Handles)
        /\ E = {Head(entries)} \cup Waiting(Tail(entries))
        /\ Once(Tail(entries)) /\ Head(entries) \notin Waiting(Tail(entries))
    BY DequeueRemoves DEF First, Dequeued, E
  <2>2. _waiters = <<>> /\ jobs = <<>> /\ Waiting(<<>>) = {}
    BY <1>6, EmptyQueue DEF CvIInv, IInv, HandOver
  <2>3. _handle' = Head(entries) /\ _waiters' = Tail(entries)
    BY <1>6, <2>1, <2>2 DEF Relock
  <2>4. A = Waiting(Tail(entries))
    BY <2>2, <2>3
  <2>5. \A h \in Handles : phase[h] # "asking" /\ phase[h] # "holding"
    BY <1>6, <2>2, HandlesAssumption DEF CvIInv, IInv, TypeOK, MutualExclusion
  <2> HIDE DEF A
  <2>6. {h \in Handles : phase'[h] = "asking"} = Waiting(Tail(entries))
    BY <1>1, <1>4, <2>1, <2>4, <2>5
  <2>7. TypeOK'
    BY <1>3, <1>5, <2>1, <2>2, <2>3, <2>6, EmptyQueue DEF TypeOK
  <2>8. \A h \in Handles : phase'[h] = "holding" <=> h = Head(entries)
    BY <1>4, <1>6, <2>1, <2>4, <2>5
  <2>9. MutualExclusion' /\ HandOver'
    BY <1>3, <2>1, <2>2, <2>3, <2>8, HandlesAssumption DEF MutualExclusion, HandOver
  <2>10. None \notin E
    BY <1>1, HandlesAssumption
  <2>11. \A h \in Handles \ E : phase'[h] = phase[h]
    BY <1>4, <2>1, <2>4
  <2>12. \A h \in E : phase'[h] # "out"
    BY <1>1, <1>4, <1>6, <2>1, <2>4
  <2> QED BY <1>6, <2>7, <2>9, <2>10, <2>11, <2>12 DEF IInv, E
<1>7. CASE _handle # None
  <2> DEFINE X == Removed(entries, _handle)
  <2>1. X \in Seq(Handles) /\ Once(X) /\ Waiting(X) = E \ {_handle}
    BY CancelRemoves DEF Removed, E
  <2>2. _handle' = _handle /\ _waiters' = _waiters \o X
    BY <1>7 DEF Relock
  <2> HIDE DEF X
  <2>3. /\ _waiters' \in Seq(Handles) /\ Once(_waiters)'
        /\ Waiting(_waiters)' = Waiting(_waiters) \cup (E \ {_handle})
    <3>1. _waiters \in Seq(Handles) /\ Once(_waiters) /\ Waiting(_waiters) \cap Waiting(X) = {}
      BY <1>2, <2>1 DEF CvIInv, IInv, TypeOK
    <3> QED BY <2>1, <2>2, <3>1, JoinQueues
  <2>4. A = E \ {_handle}
    BY <1>2, <2>3
  <2> HIDE DEF A
  <2>5. \A h \in Handles : phase'[h] = IF h \in E \ {_handle} THEN "asking" ELSE phase[h]
    BY <1>4, <1>7, <2>4
  <2>6. {h \in Handles : phase'[h] = "asking"}
            = {h \in Handles : phase[h] = "asking"} \cup (E \ {_handle})
    BY <1>1, <2>5
  <2>7. TypeOK'
    BY <1>2, <1>3, <1>5, <2>2, <2>3, <2>6 DEF TypeOK, CvIInv, IInv
  <2>8. \A h \in Handles : phase'[h] = "holding" <=> phase[h] = "holding"
    BY <1>1, <2>5 DEF E
  <2>9. MutualExclusion' /\ HandOver'
    BY <1>3, <1>7, <2>2, <2>8 DEF MutualExclusion, HandOver, CvIInv, IInv, TypeOK
  <2> QED BY <1>1, <2>5, <2>7, <2>9 DEF IInv, E
<1> QED BY <1>6, <1>7

LEMMA NotifyIInv ==
    ASSUME CvIInv, NEW n \in 1 .. Len(sleepers), Notify(n)
    PROVE  CvIInv'
<1> DEFINE entries == SubSeq(sleepers, 1, n)
           rest == SubSeq(sleepers, n + 1, Len(sleepers))
<1>1. sleepers \in Seq(Handles) /\ Once(sleepers) /\ n \in 0 .. Len(sleepers) /\ n # 0
  BY DEF CvIInv, SleepersAway
<1>2. /\ entries \in Seq(Handles) /\ rest \in Seq(Handles)
      /\ Len(entries) = n
      /\ Waiting(sleepers) = Waiting(entries) \cup Waiting(rest)
      /\ Once(entries) /\ Once(rest) /\ Waiting(entries) \cap Waiting(rest) = {}
  BY <1>1, SplitQueue
<1>3. sleepers' = rest /\ Relock(entries)
  BY DEF Notify
<1> HIDE DEF entries, rest
<1>4. entries # <<>> /\ \A h \in Waiting(entries) : phase[h] = "out"
  BY <1>1, <1>2 DEF CvIInv, SleepersAway
<1>5. /\ IInv'
      /\ \A h \in Handles \ Waiting(entries) : phase'[h] = phase[h]
      /\ \A h \in Waiting(entries) \ {_handle} : phase'[h] # "out"
      /\ _handle \in Waiting(entries) => phase'[_handle] = "out"
  BY <1>2, <1>3, <1>4, RelockIInv
<1>6. returning' = returning \cup (Waiting(entries) \ {_handle})
  BY <1>3 DEF Relock
<1>7. Waiting(sleepers) \subseteq Handles
  BY <1>1, QueueEntries
<1>8. SleepersAway'
  BY <1>2, <1>3, <1>5, <1>6, <1>7 DEF CvIInv, SleepersAway
<1> QED BY <1>2, <1>3, <1>5, <1>6, <1>7, <1>8 DEF CvIInv

LEMMA CvNextIInv ==
    ASSUME UsingBlocks = FALSE, CvIInv, [CvNext]_cvVars
    PROVE  CvIInv'
<1>1. CASE UNCHANGED cvVars
  BY <1>1 DEF cvVars, vars, CvIInv, SleepersAway, IInv, TypeOK, MutualExclusion, HandOver
<1>2. ASSUME NEW h \in Handles, Return(h) PROVE CvIInv'
  BY <1>2 DEF Return, vars, CvIInv, SleepersAway, IInv, TypeOK, MutualExclusion, HandOver
<1>3. ASSUME NotifyOne \/ NotifyAll PROVE CvIInv'
  <2>1. sleepers # <<>> /\ sleepers \in Seq(Handles)
    BY <1>3 DEF NotifyOne, NotifyAll, CvIInv
  <2>2. 1 \in 1 .. Len(sleepers) /\ Len(sleepers) \in 1 .. Len(sleepers)
    BY <2>1
  <2> QED BY <1>3, <2>2, NotifyIInv DEF NotifyOne, NotifyAll
<1>4. CASE CvNext
  <2>1. CASE \E h \in Handles : \/ Direct(h) \/ CvWait(h) \/ CancelWait(h)
                                \/ CancelRelock(h) \/ Return(h)
    BY <1>2, <2>1, DirectIInv, CvWaitIInv, CancelWaitIInv, CancelRelockIInv
  <2>2. CASE Resume /\ UNCHANGED <<sleepers, returning>>
    BY <2>2, CvResumeIInv
  <2> QED BY <1>3, <1>4, <2>1, <2>2 DEF CvNext
<1> QED BY <1>1, <1>4
=============================================================================
