-------------------- MODULE AsyncReaderWriterLockProofs --------------------
(***************************************************************************)
(* Proofs about AsyncReaderWriterLock, for any sets of readers,            *)
(* upgradeable readers and writers, whether or not clients call upgrade(). *)
(***************************************************************************)
EXTENDS AsyncReaderWriterLock

\* The queues and jobs, without what clients have been promised.
Queues ==
    /\ _readerQueue \in Seq(AllReaders) /\ _writerQueue \in Seq(AllWriters)
    /\ Once(_readerQueue) /\ Once(_writerQueue)

Jobs ==
    /\ jobs \in Seq(Handles) /\ Once(jobs)
    /\ Waiting(jobs) \cap (Waiting(_readerQueue) \cup Waiting(_writerQueue)) = {}

Locks ==
    /\ _readers \subseteq AllReaders
    /\ _writer \in AllWriters \cup {None}
    /\ _upgradeable \in Upgradeables \cup {None}
    /\ phase \in [Handles -> {"out", "waiting", "holding"}]

Queued == Waiting(_readerQueue) \cup Waiting(_writerQueue)

Awaited == {h \in Handles : phase[h] = "waiting"}

LEMMA TypeParts ==
    TypeOK <=> Locks /\ Queues /\ Jobs /\ signaled \subseteq Waiting(jobs)
               /\ Awaited = Waiting(jobs) \cup Queued
BY DEF TypeOK, Locks, Queues, Jobs, Queued, Awaited

LEMMA NextTypeParts ==
    Locks' /\ Queues' /\ Jobs' /\ signaled' \subseteq Waiting(jobs)'
    /\ Awaited' = Waiting(jobs)' \cup Queued' => TypeOK'
BY DEF TypeOK, Locks, Queues, Jobs, Queued, Awaited

LEMMA HandleKinds ==
    /\ AllReaders \subseteq Handles /\ AllWriters \subseteq Handles
    /\ Readers \cup Upgradeables = AllReaders
    /\ AllReaders \cap AllWriters = {} /\ Readers \cap Upgradeables = {}
    /\ None \notin Handles
BY HandlesAssumption DEF Handles, AllReaders

LEMMA InitIInv == Init => TypeOK /\ Exclusion
<1> SUFFICES ASSUME Init PROVE TypeOK /\ Exclusion
  OBVIOUS
<1>1. Waiting(<<>>) = {} /\ Once(<<>>)
  BY EmptyQueue
<1>2. TypeOK
  BY <1>1 DEF Init, TypeOK
<1>3. Exclusion
  BY HandleKinds DEF Init, Exclusion, Holding
<1> QED BY <1>2, <1>3

-----------------------------------------------------------------------------
(* One round of the loop of _lockReader or _lockWriter *)

\* A handle that asks for nothing yet, or whose wait() was just resolved.
Asking(h) == h \in Handles /\ phase[h] # "holding" /\ h \notin Queued

\* What the round of h leaves: h joins a queue exactly if it is to wait.
Round(h) ==
    /\ Locks' /\ Queues'
    /\ \A g \in Handles \ {h} : phase'[g] = phase[g]
    /\ Queued' = Queued \cup {g \in {h} : phase'[g] = "waiting"}

LEMMA BecomeOne ==
    ASSUME Locks, NEW h \in Handles, NEW p \in {"out", "waiting", "holding"}, Become(h, p)
    PROVE  /\ phase' \in [Handles -> {"out", "waiting", "holding"}]
           /\ phase'[h] = p /\ \A g \in Handles \ {h} : phase'[g] = phase[g]
BY DEF Locks, Become

LEMMA TakeReadRound ==
    ASSUME Locks, Queues, Exclusion, NEW h \in AllReaders, Asking(h), TakeRead(h)
    PROVE  Round(h) /\ Exclusion'
<1>1. /\ phase' \in [Handles -> {"out", "waiting", "holding"}]
      /\ phase'[h] = "holding" /\ \A g \in Handles \ {h} : phase'[g] = phase[g]
  BY BecomeOne DEF TakeRead, Asking
<1>2. Locks'
  BY <1>1, HandleKinds DEF TakeRead, Locks
<1>3. Queues' /\ Queued' = Queued
  BY DEF TakeRead, Queues, Queued
<1>4. Round(h)
  BY <1>1, <1>2, <1>3 DEF Round
<1>5. _writer = None /\ _writer' = None /\ _readers' = _readers \cup {h}
  BY DEF TakeRead, CanTakeReadLock
<1>6. Holding(AllReaders)' = Holding(AllReaders) \cup {h} /\ Holding(AllWriters)' = Holding(AllWriters)
  BY <1>1, HandleKinds DEF Holding
<1>7. _readers' \cap Upgradeables = {_upgradeable'} \ {None}
  <2>1. CASE h \in Upgradeables
    BY <1>5, <2>1, HandleKinds DEF Exclusion, TakeRead
  <2>2. CASE h \notin Upgradeables
    BY <1>5, <2>2 DEF Exclusion, TakeRead
  <2> QED BY <2>1, <2>2
<1>8. Exclusion'
  BY <1>5, <1>6, <1>7 DEF Exclusion
<1> QED BY <1>4, <1>8

LEMMA TakeWriteRound ==
    ASSUME Locks, Queues, Exclusion, NEW w \in AllWriters, Asking(w), TakeWrite(w)
    PROVE  Round(w) /\ Exclusion'
<1>1. /\ phase' \in [Handles -> {"out", "waiting", "holding"}]
      /\ phase'[w] = "holding" /\ \A g \in Handles \ {w} : phase'[g] = phase[g]
  BY BecomeOne DEF TakeWrite, Asking
<1>2. Locks'
  BY <1>1 DEF TakeWrite, Locks
<1>3. Queues' /\ Queued' = Queued
  BY DEF TakeWrite, Queues, Queued
<1>4. Round(w)
  BY <1>1, <1>2, <1>3 DEF Round
<1>5. _writer = None /\ _writer' = w /\ _readers = {} /\ _readers' = {} /\ w # None
  BY HandleKinds DEF TakeWrite, CanTakeWriteLock
<1>6. Holding(AllWriters)' = Holding(AllWriters) \cup {w} /\ Holding(AllReaders)' = Holding(AllReaders)
  BY <1>1, HandleKinds DEF Holding
<1>7. Exclusion'
  BY <1>5, <1>6 DEF Exclusion, TakeWrite
<1> QED BY <1>4, <1>7

\* The round ends with h waiting or turned away: who holds the lock is unchanged.
LEMMA KeepsHolders ==
    ASSUME Locks, Exclusion, NEW h \in Handles, phase[h] # "holding", NEW p \in {"out", "waiting"},
           Become(h, p), UNCHANGED <<_readers, _writer, _upgradeable>>
    PROVE  Locks' /\ Exclusion'
<1>1. /\ phase' \in [Handles -> {"out", "waiting", "holding"}]
      /\ phase'[h] = p /\ \A g \in Handles \ {h} : phase'[g] = phase[g]
  BY BecomeOne
<1>2. Holding(AllWriters)' = Holding(AllWriters) /\ Holding(AllReaders)' = Holding(AllReaders)
  BY <1>1, HandleKinds DEF Holding
<1> QED BY <1>1, <1>2 DEF Locks, Exclusion

LEMMA WaitToReadRound ==
    ASSUME Locks, Queues, Exclusion, NEW h \in AllReaders, Asking(h), WaitToRead(h)
    PROVE  Round(h) /\ Exclusion'
<1>1. h \in Handles /\ phase[h] # "holding" /\ h \notin Waiting(_readerQueue)
  BY DEF Asking, Queued
<1>2. CASE h \in signaled
  <2>1. Become(h, "out") /\ UNCHANGED <<_readers, _writer, _upgradeable, _readerQueue, _writerQueue>>
    BY <1>2 DEF WaitToRead
  <2>2. Locks' /\ Exclusion'
    BY <1>1, <2>1, KeepsHolders
  <2>3. phase'[h] = "out" /\ \A g \in Handles \ {h} : phase'[g] = phase[g]
    BY <1>1, <2>1, BecomeOne
  <2> QED BY <2>1, <2>2, <2>3 DEF Round, Queues, Queued
<1>3. CASE h \notin signaled
  <2>1. /\ Become(h, "waiting") /\ UNCHANGED <<_readers, _writer, _upgradeable, _writerQueue>>
        /\ _readerQueue' = Enqueued(_readerQueue, h)
    BY <1>3 DEF WaitToRead
  <2>2. Locks' /\ Exclusion'
    BY <1>1, <2>1, KeepsHolders
  <2>3. phase'[h] = "waiting" /\ \A g \in Handles \ {h} : phase'[g] = phase[g]
    BY <1>1, <2>1, BecomeOne
  <2>4. /\ _readerQueue' \in Seq(AllReaders) /\ Once(_readerQueue)'
        /\ Waiting(_readerQueue)' = Waiting(_readerQueue) \cup {h}
    <3>1. _readerQueue \in Seq(AllReaders) /\ Once(_readerQueue)
      BY DEF Queues
    <3> QED BY <1>1, <2>1, <3>1, EnqueueAdds
  <2>5. Queues' /\ Queued' = Queued \cup {h}
    BY <2>1, <2>4 DEF Queues, Queued
  <2> QED BY <2>2, <2>3, <2>5 DEF Round
<1> QED BY <1>2, <1>3

LEMMA WaitToWriteRound ==
    ASSUME Locks, Queues, Exclusion, NEW w \in AllWriters, Asking(w), WaitToWrite(w)
    PROVE  Round(w) /\ Exclusion'
<1>1. w \in Handles /\ phase[w] # "holding" /\ w \notin Waiting(_writerQueue)
  BY DEF Asking, Queued
<1>2. CASE w \in signaled
  <2>1. Become(w, "out") /\ UNCHANGED <<_readers, _writer, _upgradeable, _readerQueue, _writerQueue>>
    BY <1>2 DEF WaitToWrite
  <2>2. Locks' /\ Exclusion'
    BY <1>1, <2>1, KeepsHolders
  <2>3. phase'[w] = "out" /\ \A g \in Handles \ {w} : phase'[g] = phase[g]
    BY <1>1, <2>1, BecomeOne
  <2> QED BY <2>1, <2>2, <2>3 DEF Round, Queues, Queued
<1>3. CASE w \notin signaled
  <2>1. /\ Become(w, "waiting") /\ UNCHANGED <<_readers, _writer, _upgradeable, _readerQueue>>
        /\ _writerQueue' = Enqueued(_writerQueue, w)
    BY <1>3 DEF WaitToWrite
  <2>2. Locks' /\ Exclusion'
    BY <1>1, <2>1, KeepsHolders
  <2>3. phase'[w] = "waiting" /\ \A g \in Handles \ {w} : phase'[g] = phase[g]
    BY <1>1, <2>1, BecomeOne
  <2>4. /\ _writerQueue' \in Seq(AllWriters) /\ Once(_writerQueue)'
        /\ Waiting(_writerQueue)' = Waiting(_writerQueue) \cup {w}
    <3>1. _writerQueue \in Seq(AllWriters) /\ Once(_writerQueue)
      BY DEF Queues
    <3> QED BY <1>1, <2>1, <3>1, EnqueueAdds
  <2>5. Queues' /\ Queued' = Queued \cup {w}
    BY <2>1, <2>4 DEF Queues, Queued
  <2> QED BY <2>2, <2>3, <2>5 DEF Round
<1> QED BY <1>2, <1>3

LEMMA LoopRound ==
    ASSUME Locks, Queues, Exclusion, NEW h \in Handles, Asking(h), Loop(h)
    PROVE  Round(h) /\ Exclusion'
<1>1. ASSUME h \in AllWriters, RejectWriter(h) PROVE Round(h) /\ Exclusion'
  <2>1. Become(h, "out") /\ UNCHANGED <<_readers, _writer, _upgradeable, _readerQueue, _writerQueue>>
    BY <1>1 DEF RejectWriter
  <2>2. Locks' /\ Exclusion'
    BY <2>1, KeepsHolders DEF Asking
  <2>3. phase'[h] = "out" /\ \A g \in Handles \ {h} : phase'[g] = phase[g]
    BY <2>1, BecomeOne
  <2> QED BY <2>1, <2>2, <2>3 DEF Round, Queues, Queued
<1> QED BY <1>1, TakeReadRound, WaitToReadRound, TakeWriteRound, WaitToWriteRound DEF Loop

-----------------------------------------------------------------------------
(* Every action keeps TypeOK and Exclusion *)

IInv == TypeOK /\ Exclusion

LEMMA LockIInv ==
    ASSUME IInv, NEW h \in Handles, Lock(h)
    PROVE  IInv'
<1>1. /\ Locks /\ Queues /\ Jobs /\ Exclusion /\ signaled \subseteq Waiting(jobs)
      /\ Awaited = Waiting(jobs) \cup Queued
  BY TypeParts DEF IInv
<1>2. Loop(h) /\ jobs' = jobs /\ signaled' = signaled /\ phase[h] = "out"
  BY DEF Lock
<1>3. h \notin Waiting(jobs) /\ h \notin Queued
  BY <1>1, <1>2 DEF Awaited
<1>4. Round(h) /\ Exclusion'
  BY <1>1, <1>2, <1>3, LoopRound DEF Asking
<1>5. Jobs'
  BY <1>1, <1>2, <1>3, <1>4 DEF Jobs, Round, Queued
<1>6. Awaited' = Waiting(jobs)' \cup Queued'
  BY <1>1, <1>2, <1>4 DEF Awaited, Round
<1>7. signaled' \subseteq Waiting(jobs)'
  BY <1>1, <1>2
<1> QED BY <1>4, <1>5, <1>6, <1>7, NextTypeParts DEF IInv, Round

LEMMA ResumeIInv ==
    ASSUME IInv, Resume
    PROVE  IInv'
<1> DEFINE h == First(jobs)
<1>1. /\ Locks /\ Queues /\ Jobs /\ Exclusion /\ signaled \subseteq Waiting(jobs)
      /\ Awaited = Waiting(jobs) \cup Queued
  BY TypeParts DEF IInv
<1>2. Loop(h) /\ jobs # <<>> /\ jobs' = Dequeued(jobs) /\ signaled' = signaled \ {h}
  BY DEF Resume, First, Dequeued
<1>3. /\ h \in Handles /\ jobs' \in Seq(Handles) /\ Once(jobs)'
      /\ Waiting(jobs) = {h} \cup Waiting(jobs)' /\ h \notin Waiting(jobs)'
  <2>1. jobs \in Seq(Handles) /\ Once(jobs) /\ jobs # <<>>
    BY <1>1, <1>2 DEF Jobs
  <2> HIDE DEF h
  <2>2. /\ First(jobs) \in Handles /\ Dequeued(jobs) \in Seq(Handles) /\ Once(Dequeued(jobs))
        /\ Waiting(jobs) = {First(jobs)} \cup Waiting(Dequeued(jobs))
        /\ First(jobs) \notin Waiting(Dequeued(jobs))
    BY <2>1, DequeueRemoves
  <2> QED BY <1>2, <2>2 DEF h
<1> HIDE DEF h
<1>4. phase[h] = "waiting" /\ h \notin Queued
  BY <1>1, <1>3 DEF Awaited, Jobs, Queued
<1>5. Round(h) /\ Exclusion'
  BY <1>1, <1>2, <1>3, <1>4, LoopRound DEF Asking
<1>6. Jobs'
  BY <1>1, <1>3, <1>5 DEF Jobs, Round, Queued
<1>7. Awaited' = Waiting(jobs)' \cup Queued'
  BY <1>1, <1>3, <1>4, <1>5 DEF Awaited, Round
<1>8. signaled' \subseteq Waiting(jobs)'
  BY <1>1, <1>2, <1>3
<1> QED BY <1>5, <1>6, <1>7, <1>8, NextTypeParts DEF IInv, Round

LEMMA CancelIInv ==
    ASSUME IInv, NEW h \in Handles, Cancel(h)
    PROVE  IInv'
<1>1. /\ Locks /\ Queues /\ Jobs /\ Exclusion /\ signaled \subseteq Waiting(jobs)
      /\ Awaited = Waiting(jobs) \cup Queued
  BY TypeParts DEF IInv
<1>2. ASSUME h \in Queued, Become(h, "out"), Queues', Queued' = Queued \ {h},
             UNCHANGED <<_readers, _writer, _upgradeable, jobs, signaled>>
      PROVE  IInv'
  <2>1. phase[h] = "waiting"
    BY <1>1, <1>2 DEF Awaited
  <2>2. Locks' /\ Exclusion'
    BY <1>1, <1>2, <2>1, KeepsHolders
  <2>3. phase'[h] = "out" /\ \A g \in Handles \ {h} : phase'[g] = phase[g]
    BY <1>1, <1>2, BecomeOne
  <2>4. h \notin Waiting(jobs)
    BY <1>1, <1>2 DEF Jobs, Queued
  <2>5. Jobs'
    BY <1>1, <1>2 DEF Jobs, Queued
  <2>6. Awaited' = Waiting(jobs)' \cup Queued'
    BY <1>1, <1>2, <2>3, <2>4 DEF Awaited
  <2>7. signaled' \subseteq Waiting(jobs)'
    BY <1>1, <1>2
  <2> QED BY <1>2, <2>2, <2>5, <2>6, <2>7, NextTypeParts DEF IInv
<1>3. CASE /\ h \in Waiting(_readerQueue) /\ _readerQueue' = Canceled(_readerQueue, h)
           /\ UNCHANGED <<_writerQueue, _readers, _writer, _upgradeable, jobs, signaled>>
           /\ Become(h, "out")
  <2>1. _readerQueue \in Seq(AllReaders) /\ Once(_readerQueue) /\ h \in Waiting(_readerQueue)
    BY <1>1, <1>3 DEF Queues
  <2>2. /\ _readerQueue' \in Seq(AllReaders) /\ Once(_readerQueue)'
        /\ Waiting(_readerQueue)' = Waiting(_readerQueue) \ {h}
    BY <1>3, <2>1, CancelRemoves
  <2>3. h \notin Waiting(_writerQueue)
    <3>1. _writerQueue \in Seq(AllWriters)
      BY <1>1 DEF Queues
    <3>2. Waiting(_writerQueue) \subseteq AllWriters
      BY <3>1, QueueEntries
    <3>3. Waiting(_readerQueue) \subseteq AllReaders
      BY <2>1, QueueEntries
    <3> QED BY <2>1, <3>2, <3>3, HandleKinds
  <2>4. Queues' /\ Queued' = Queued \ {h}
    BY <1>1, <1>3, <2>2, <2>3 DEF Queues, Queued
  <2> QED BY <1>2, <1>3, <2>4 DEF Queued
<1>4. CASE /\ h \in Waiting(_writerQueue) /\ _writerQueue' = Canceled(_writerQueue, h)
           /\ UNCHANGED <<_readerQueue, _readers, _writer, _upgradeable, jobs, signaled>>
           /\ Become(h, "out")
  <2>1. _writerQueue \in Seq(AllWriters) /\ Once(_writerQueue) /\ h \in Waiting(_writerQueue)
    BY <1>1, <1>4 DEF Queues
  <2>2. /\ _writerQueue' \in Seq(AllWriters) /\ Once(_writerQueue)'
        /\ Waiting(_writerQueue)' = Waiting(_writerQueue) \ {h}
    BY <1>4, <2>1, CancelRemoves
  <2>3. h \notin Waiting(_readerQueue)
    <3>1. _readerQueue \in Seq(AllReaders)
      BY <1>1 DEF Queues
    <3>2. Waiting(_readerQueue) \subseteq AllReaders
      BY <3>1, QueueEntries
    <3>3. Waiting(_writerQueue) \subseteq AllWriters
      BY <2>1, QueueEntries
    <3> QED BY <2>1, <3>2, <3>3, HandleKinds
  <2>4. Queues' /\ Queued' = Queued \ {h}
    BY <1>1, <1>4, <2>2, <2>3 DEF Queues, Queued
  <2> QED BY <1>2, <1>4, <2>4 DEF Queued
<1>5. CASE /\ h \in Waiting(jobs) \ signaled /\ signaled' = signaled \cup {h}
           /\ UNCHANGED <<_readers, _writer, _upgradeable, _readerQueue, _writerQueue, jobs, phase>>
  BY <1>5 DEF IInv, TypeOK, Exclusion, Holding
<1> QED BY <1>3, <1>4, <1>5 DEF Cancel

\* Whom ProcessLockRequests resolves moves from a queue to the jobs.
LEMMA ProcessMoves ==
    ASSUME Queues, Jobs, ProcessLockRequests
    PROVE  /\ Queues' /\ Jobs' /\ Waiting(jobs) \subseteq Waiting(jobs)'
           /\ Waiting(jobs)' \cup Queued' = Waiting(jobs) \cup Queued
<1>1. /\ _readerQueue \in Seq(AllReaders) /\ _writerQueue \in Seq(AllWriters)
      /\ Once(_readerQueue) /\ Once(_writerQueue)
      /\ jobs \in Seq(Handles) /\ Once(jobs)
      /\ Waiting(jobs) \cap Waiting(_readerQueue) = {}
      /\ Waiting(jobs) \cap Waiting(_writerQueue) = {}
  BY DEF Queues, Jobs
<1>2. Waiting(_readerQueue) \subseteq AllReaders /\ Waiting(_writerQueue) \subseteq AllWriters
  <2>1. Waiting(_readerQueue) \subseteq AllReaders
    BY <1>1, QueueEntries
  <2>2. Waiting(_writerQueue) \subseteq AllWriters
    BY <1>1, QueueEntries
  <2> QED BY <2>1, <2>2
<1>3. CASE _writerQueue # <<>> /\ ResolveWriter
  <2> DEFINE w == First(_writerQueue)
  <2>1. /\ w \in AllWriters /\ _writerQueue' \in Seq(AllWriters) /\ Once(_writerQueue)'
        /\ Waiting(_writerQueue) = {w} \cup Waiting(_writerQueue)' /\ w \notin Waiting(_writerQueue)'
    <3>1. /\ First(_writerQueue) \in AllWriters /\ Dequeued(_writerQueue) \in Seq(AllWriters)
          /\ Once(Dequeued(_writerQueue))
          /\ Waiting(_writerQueue) = {First(_writerQueue)} \cup Waiting(Dequeued(_writerQueue))
          /\ First(_writerQueue) \notin Waiting(Dequeued(_writerQueue))
      BY <1>1, <1>3, DequeueRemoves
    <3> QED BY <1>3, <3>1 DEF ResolveWriter
  <2>2. jobs' = Enqueued(jobs, w) /\ _readerQueue' = _readerQueue
    BY <1>3 DEF ResolveWriter, Enqueued
  <2> HIDE DEF w
  <2>3. w \in Handles /\ w \notin Waiting(jobs)
    BY <1>1, <2>1, HandleKinds
  <2>4. jobs' \in Seq(Handles) /\ Once(jobs)' /\ Waiting(jobs)' = Waiting(jobs) \cup {w}
    BY <1>1, <2>2, <2>3, EnqueueAdds
  <2>5. Waiting(_readerQueue)' = Waiting(_readerQueue) /\ w \notin Waiting(_readerQueue)
    BY <1>2, <2>1, <2>2, HandleKinds
  <2>6. Queues' /\ Jobs'
    BY <1>1, <2>1, <2>2, <2>4, <2>5 DEF Queues, Jobs
  <2> QED BY <2>1, <2>4, <2>5, <2>6 DEF Queued
<1>4. CASE ResolveReaders
  <2>1. jobs' = jobs \o _readerQueue /\ _readerQueue' = <<>> /\ _writerQueue' = _writerQueue
    BY <1>4 DEF ResolveReaders
  <2>2. _readerQueue' \in Seq(AllReaders) /\ Once(_readerQueue)' /\ Waiting(_readerQueue)' = {}
    BY <2>1, EmptyQueue
  <2>3. _readerQueue \in Seq(Handles)
    BY <1>1, HandleKinds
  <2>4. jobs' \in Seq(Handles) /\ Once(jobs)' /\ Waiting(jobs)' = Waiting(jobs) \cup Waiting(_readerQueue)
    BY <1>1, <2>1, <2>3, JoinQueues
  <2>5. Waiting(_readerQueue) \cap Waiting(_writerQueue) = {}
    BY <1>2, HandleKinds
  <2>6. Waiting(_writerQueue)' = Waiting(_writerQueue)
    BY <2>1
  <2>7. Queues' /\ Jobs'
    BY <1>1, <2>1, <2>2, <2>4, <2>5, <2>6 DEF Queues, Jobs
  <2> QED BY <2>2, <2>4, <2>6, <2>7 DEF Queued
<1>5. CASE UNCHANGED <<_readerQueue, _writerQueue, jobs>>
  BY <1>5 DEF Queues, Jobs, Queued
<1> QED BY <1>3, <1>4, <1>5 DEF ProcessLockRequests

LEMMA UnlockReaderIInv ==
    ASSUME IInv, NEW h \in AllReaders, UnlockReader(h)
    PROVE  IInv'
<1>1. /\ Locks /\ Queues /\ Jobs /\ Exclusion /\ signaled \subseteq Waiting(jobs)
      /\ Awaited = Waiting(jobs) \cup Queued
  BY TypeParts DEF IInv
<1>2. /\ Queues' /\ Jobs' /\ Waiting(jobs) \subseteq Waiting(jobs)'
      /\ Waiting(jobs)' \cup Queued' = Waiting(jobs) \cup Queued
  BY <1>1, ProcessMoves DEF UnlockReader
<1>3. /\ h \in _readers /\ h \in Handles /\ h # None /\ phase[h] = "holding"
      /\ _writer = None /\ _writer' = None
  BY <1>1, HandleKinds DEF UnlockReader, Exclusion, Holding
<1>4. /\ phase' \in [Handles -> {"out", "waiting", "holding"}]
      /\ phase'[h] = "out" /\ \A g \in Handles \ {h} : phase'[g] = phase[g]
  BY <1>1, <1>3, BecomeOne DEF UnlockReader
<1>5. Locks'
  BY <1>1, <1>4 DEF UnlockReader, Locks
<1>6. Awaited' = Awaited
  BY <1>3, <1>4 DEF Awaited
<1>7. Holding(AllWriters)' = Holding(AllWriters) /\ Holding(AllReaders)' = Holding(AllReaders) \ {h}
  BY <1>3, <1>4, HandleKinds DEF Holding
<1>8. Exclusion'
  BY <1>1, <1>3, <1>7 DEF UnlockReader, Exclusion
<1>9. signaled' \subseteq Waiting(jobs)'
  BY <1>1, <1>2 DEF UnlockReader
<1>10. Awaited' = Waiting(jobs)' \cup Queued'
  BY <1>1, <1>2, <1>6
<1> QED BY <1>2, <1>5, <1>8, <1>9, <1>10, NextTypeParts DEF IInv

LEMMA UnlockWriterIInv ==
    ASSUME IInv, NEW w \in AllWriters, UnlockWriter(w)
    PROVE  IInv'
<1>1. /\ Locks /\ Queues /\ Jobs /\ Exclusion /\ signaled \subseteq Waiting(jobs)
      /\ Awaited = Waiting(jobs) \cup Queued
  BY TypeParts DEF IInv
<1>2. /\ Queues' /\ Jobs' /\ Waiting(jobs) \subseteq Waiting(jobs)'
      /\ Waiting(jobs)' \cup Queued' = Waiting(jobs) \cup Queued
  BY <1>1, ProcessMoves DEF UnlockWriter
<1>3. /\ _writer = w /\ w \in Handles /\ w # None /\ phase[w] = "holding"
      /\ _writer' = None /\ _readers' = _readers /\ _upgradeable' = _upgradeable
  BY <1>1, HandleKinds DEF UnlockWriter, Exclusion, Holding
<1>4. /\ phase' \in [Handles -> {"out", "waiting", "holding"}]
      /\ phase'[w] = "out" /\ \A g \in Handles \ {w} : phase'[g] = phase[g]
  BY <1>1, <1>3, BecomeOne DEF UnlockWriter
<1>5. Locks'
  BY <1>1, <1>3, <1>4 DEF Locks
<1>6. Awaited' = Awaited
  BY <1>3, <1>4 DEF Awaited
<1>7. Holding(AllReaders)' = Holding(AllReaders) /\ Holding(AllWriters)' = Holding(AllWriters) \ {w}
  BY <1>3, <1>4, HandleKinds DEF Holding
<1>8. Exclusion'
  BY <1>1, <1>3, <1>7 DEF Exclusion
<1>9. signaled' \subseteq Waiting(jobs)'
  BY <1>1, <1>2 DEF UnlockWriter
<1>10. Awaited' = Waiting(jobs)' \cup Queued'
  BY <1>1, <1>2, <1>6
<1> QED BY <1>2, <1>5, <1>8, <1>9, <1>10, NextTypeParts DEF IInv

LEMMA NextIInv ==
    ASSUME IInv, [Next]_vars
    PROVE  IInv'
<1>1. CASE UNCHANGED vars
  BY <1>1 DEF vars, IInv, TypeOK, Exclusion, Holding
<1>2. CASE Next
  BY <1>2, LockIInv, CancelIInv, UnlockReaderIInv, UnlockWriterIInv, ResumeIInv, Zenon DEF Next
<1> QED BY <1>1, <1>2

\* No interleaving of calls, jobs and cancelations breaks the types or the exclusion.
THEOREM Invariance == Spec => []IInv
<1>1. Init => IInv
  BY InitIInv DEF IInv
<1>2. IInv /\ [Next]_vars => IInv'
  <2> SUFFICES ASSUME IInv, [Next]_vars PROVE IInv'
    OBVIOUS
  <2> QED BY NextIInv, Zenon
<1> QED BY <1>1, <1>2, PTL DEF Spec

\* A writer is alone and the lock's record is what clients were promised, whatever
\* happens between the resolution of a wait and the job that goes on with it.
THEOREM HoldersExclude == Spec => []Exclusion
<1>1. IInv => Exclusion
  BY DEF IInv
<1> QED BY <1>1, Invariance, PTL

\* A handle that is awaited is in one of the queues or due to go on, once.
THEOREM TypeCorrect == Spec => []TypeOK
<1>1. IInv => TypeOK
  BY DEF IInv
<1> QED BY <1>1, Invariance, PTL

-----------------------------------------------------------------------------
(* AsyncReaderWriterLock implements AbstractReadersWriter. *)

LEMMA AbstractClients == Abstract!Clients = Handles
BY HandleKinds DEF Abstract!Clients, Handles, AllReaders

LEMMA RefineInit == Init => Abstract!Init
BY AbstractClients DEF Init, Abstract!Init

\* One round of a loop asks, is granted the lock, leaves, or waits again.
LEMMA RefineLoop ==
    ASSUME IInv, NEW h \in Handles, phase[h] # "holding", Loop(h)
    PROVE  [Abstract!Next]_phase
<1>1. ASSUME h \in AllReaders, TakeRead(h) PROVE Abstract!GrantRead(h)
  <2>1. Holding(AllWriters) = {} /\ (h \in Upgradeables => Holding(Upgradeables) = {})
    BY <1>1, HandleKinds DEF TakeRead, CanTakeReadLock, IInv, Exclusion, Holding
  <2> QED BY <1>1, <2>1 DEF TakeRead, Become, Holding, Abstract!GrantRead, Abstract!Holding, Abstract!Become
<1>2. ASSUME h \in AllWriters, TakeWrite(h) PROVE Abstract!GrantWrite(h)
  <2>1. Holding(Handles) = {}
    BY <1>2, HandleKinds DEF TakeWrite, CanTakeWriteLock, IInv, Exclusion, Holding, Handles
  <2> QED BY <1>2, <2>1, AbstractClients
          DEF TakeWrite, Become, Holding, Abstract!GrantWrite, Abstract!Holding, Abstract!Become
<1>3. ASSUME NEW p \in {"out", "waiting"}, Become(h, p) PROVE [Abstract!Next]_phase
  <2>1. CASE phase[h] = p
    BY <1>3, <2>1 DEF Become, IInv, TypeOK
  <2>2. CASE phase[h] = "out" /\ p = "waiting"
    BY <1>3, <2>2, AbstractClients DEF Become, Abstract!Next, Abstract!Ask, Abstract!Become
  <2>3. CASE phase[h] = "waiting" /\ p = "out"
    BY <1>3, <2>3, AbstractClients DEF Become, Abstract!Next, Abstract!Leave, Abstract!Become
  <2>4. phase[h] \in {"out", "waiting"}
    BY DEF IInv, TypeOK
  <2> QED BY <1>3, <2>1, <2>2, <2>3, <2>4
<1>4. CASE h \in AllReaders /\ TakeRead(h)
  BY <1>1, <1>4, HandleKinds DEF Abstract!Next
<1>5. CASE h \in AllWriters /\ TakeWrite(h)
  BY <1>2, <1>5 DEF Abstract!Next
<1>6. CASE WaitToRead(h)
  BY <1>3, <1>6 DEF WaitToRead
<1>7. CASE RejectWriter(h)
  BY <1>3, <1>7 DEF RejectWriter
<1>8. CASE WaitToWrite(h)
  BY <1>3, <1>8 DEF WaitToWrite
<1> QED BY <1>4, <1>5, <1>6, <1>7, <1>8 DEF Loop

LEMMA RefineStep ==
    ASSUME IInv, [Next]_vars
    PROVE  [Abstract!Next]_phase
<1>1. ASSUME NEW h \in Handles, Lock(h) PROVE [Abstract!Next]_phase
  <2>1. phase[h] # "holding" /\ Loop(h)
    BY <1>1 DEF Lock
  <2> QED BY <2>1, RefineLoop
<1>2. ASSUME Resume PROVE [Abstract!Next]_phase
  <2>1. jobs \in Seq(Handles) /\ jobs # <<>> /\ Loop(First(jobs))
    BY <1>2 DEF Resume, First, IInv, TypeOK
  <2>2. First(jobs) \in Handles /\ First(jobs) \in Waiting(jobs)
    BY <2>1, DequeueRemoves
  <2>3. phase[First(jobs)] # "holding"
    BY <2>2 DEF IInv, TypeOK
  <2> QED BY <2>1, <2>2, <2>3, RefineLoop
<1>3. ASSUME NEW h \in Handles, phase[h] # "out", Become(h, "out") PROVE Abstract!Next
  BY <1>3, AbstractClients DEF Become, Abstract!Next, Abstract!Leave, Abstract!Become
<1>4. ASSUME NEW h \in Handles, Cancel(h) PROVE [Abstract!Next]_phase
  <2>1. CASE UNCHANGED phase
    BY <2>1
  <2>2. CASE h \in Queued /\ Become(h, "out")
    <3>1. phase[h] = "waiting"
      BY <2>2 DEF IInv, TypeOK, Queued
    <3> QED BY <1>3, <2>2, <3>1
  <2> QED BY <1>4, <2>1, <2>2 DEF Cancel, Queued
<1>5. ASSUME NEW h \in AllReaders, UnlockReader(h) PROVE Abstract!Next
  <2>1. h \in Handles /\ phase[h] = "holding" /\ Become(h, "out")
    BY <1>5, HandleKinds DEF UnlockReader, IInv, Exclusion, Holding
  <2> QED BY <1>3, <2>1
<1>6. ASSUME NEW w \in AllWriters, UnlockWriter(w) PROVE Abstract!Next
  <2>1. w \in Handles /\ phase[w] = "holding" /\ Become(w, "out")
    BY <1>6, HandleKinds DEF UnlockWriter, IInv, Exclusion, Holding
  <2> QED BY <1>3, <2>1
<1>7. CASE UNCHANGED vars
  BY <1>7 DEF vars
<1>8. CASE Next
  BY <1>1, <1>2, <1>4, <1>5, <1>6, <1>8, Zenon DEF Next
<1> QED BY <1>7, <1>8

\* Every call and every job is a step of the abstract readers-writer lock or changes
\* nothing that it sees, upgrades included.
THEOREM Implements == Spec => ImplementsReadersWriter
<1>1. IInv /\ [Next]_vars => [Abstract!Next]_phase
  <2> SUFFICES ASSUME IInv, [Next]_vars PROVE [Abstract!Next]_phase
    OBVIOUS
  <2> QED BY RefineStep, Zenon
<1> QED BY <1>1, RefineInit, Invariance, PTL DEF Spec, ImplementsReadersWriter, Abstract!Spec

-----------------------------------------------------------------------------
(* While no client upgrades, the wakeup is passed on. *)

Nobody == _readers = {} /\ _writer = None

\* While nobody has the lock, a writer is on its way to it if one is queued, and a
\* reader is queued only if some handle is on its way.
Passing ==
    /\ Nobody /\ _writerQueue # <<>> => Waiting(jobs) \cap AllWriters # {}
    /\ Nobody /\ _readerQueue # <<>> => jobs # <<>>

NoUpgrades == \A w \in AllWriters \ Writers : phase[w] = "out"

PInv == IInv /\ NoUpgrades /\ Passing

LEMMA InitPInv == Init => PInv
<1> SUFFICES ASSUME Init PROVE PInv
  OBVIOUS
<1>1. NoUpgrades
  BY DEF Init, NoUpgrades, Handles
<1> QED BY <1>1, InitIInv DEF Init, PInv, IInv, Passing

\* A reader that goes to wait while nobody has the lock has found a queued writer.
LEMMA ReaderRound ==
    ASSUME PInv, NEW h \in AllReaders, TakeRead(h) \/ WaitToRead(h), Nobody'
    PROVE  Nobody /\ _writerQueue # <<>> /\ _writerQueue' = _writerQueue
<1>1. ~TakeRead(h)
  BY DEF TakeRead, Nobody
<1>2. WaitToRead(h) /\ Nobody
  BY <1>1 DEF WaitToRead, Nobody
<1>3. _upgradeable = None
  BY <1>2 DEF Nobody, PInv, IInv, TypeOK, Exclusion
<1> QED BY <1>2, <1>3 DEF WaitToRead, CanTakeReadLock, Nobody

\* A writer does not go to wait and is not rejected while nobody has the lock.
LEMMA WriterRound ==
    ASSUME PInv, NEW w \in Writers, RejectWriter(w) \/ TakeWrite(w) \/ WaitToWrite(w)
    PROVE  ~Nobody'
<1> SUFFICES ASSUME Nobody' PROVE FALSE
  OBVIOUS
<1>1. ~TakeWrite(w)
  BY HandleKinds DEF TakeWrite, Nobody, AllWriters
<1>2. Nobody
  BY <1>1 DEF RejectWriter, WaitToWrite, Nobody
<1>3. _upgradeable = UpgradeableOf(w)
  BY <1>2 DEF Nobody, PInv, IInv, TypeOK, Exclusion, UpgradeableOf
<1> QED BY <1>1, <1>2, <1>3 DEF RejectWriter, WaitToWrite, CanTakeWriteLock, Nobody

LEMMA LockPasses ==
    ASSUME CallsUpgrade = FALSE, PInv, NEW h \in Handles, Lock(h)
    PROVE  NoUpgrades' /\ Passing'
<1>1. /\ Loop(h) /\ jobs' = jobs /\ phase[h] = "out"
      /\ h \in AllWriters => h \in Writers
  BY DEF Lock
<1>2. NoUpgrades'
  <2>1. \A g \in Handles \ {h} : phase'[g] = phase[g]
    BY <1>1, LoopRound, TypeParts DEF PInv, IInv, Asking, Round, Awaited
  <2> QED BY <1>1, <2>1, HandleKinds DEF PInv, NoUpgrades
<1>3. ASSUME Nobody' PROVE Passing'
  <2>1. h \notin AllWriters
    BY <1>1, <1>3, WriterRound, HandleKinds DEF Loop
  <2>2. Nobody /\ _writerQueue # <<>> /\ _writerQueue' = _writerQueue
    BY <1>1, <1>3, <2>1, ReaderRound DEF Loop
  <2>3. Waiting(jobs) \cap AllWriters # {} /\ jobs # <<>>
    BY <2>2, EmptyQueue DEF PInv, Passing
  <2> QED BY <1>1, <2>3 DEF Passing
<1> QED BY <1>2, <1>3 DEF Passing

LEMMA ResumePasses ==
    ASSUME PInv, Resume
    PROVE  NoUpgrades' /\ Passing'
<1> DEFINE h == First(jobs)
<1>1. /\ h \in Handles /\ Loop(h) /\ Waiting(jobs) = {h} \cup Waiting(jobs)'
      /\ phase[h] = "waiting" /\ h \notin Queued
  <2>1. jobs \in Seq(Handles) /\ jobs # <<>>
    BY DEF Resume, PInv, IInv, TypeOK
  <2>2. /\ First(jobs) \in Handles
        /\ Waiting(jobs) = {First(jobs)} \cup Waiting(Dequeued(jobs))
    BY <2>1, DequeueRemoves
  <2>3. phase[First(jobs)] = "waiting" /\ First(jobs) \notin Queued
    BY <2>2 DEF PInv, IInv, TypeOK, Queued
  <2> QED BY <2>2, <2>3 DEF Resume, First, Dequeued
<1> HIDE DEF h
<1>2. h \in AllWriters => h \in Writers
  BY <1>1 DEF PInv, NoUpgrades
<1>3. NoUpgrades'
  <2>1. \A g \in Handles \ {h} : phase'[g] = phase[g]
    BY <1>1, LoopRound, TypeParts DEF PInv, IInv, Asking, Round
  <2> QED BY <1>1, <1>2, <2>1, HandleKinds DEF PInv, NoUpgrades
<1>4. ASSUME Nobody' PROVE Passing'
  <2>1. h \notin AllWriters
    BY <1>1, <1>2, <1>4, WriterRound, HandleKinds DEF Loop
  <2>2. Nobody /\ _writerQueue # <<>> /\ _writerQueue' = _writerQueue
    BY <1>1, <1>4, <2>1, ReaderRound DEF Loop
  <2>3. Waiting(jobs)' \cap AllWriters # {}
    BY <1>1, <2>1, <2>2 DEF PInv, Passing
  <2>4. jobs' # <<>>
    BY <2>3, EmptyQueue
  <2> QED BY <2>3, <2>4 DEF Passing
<1> QED BY <1>3, <1>4 DEF Passing

LEMMA CancelPasses ==
    ASSUME PInv, NEW h \in Handles, Cancel(h)
    PROVE  NoUpgrades' /\ Passing'
<1>1. /\ _readerQueue' # <<>> => _readerQueue # <<>>
      /\ _writerQueue' # <<>> => _writerQueue # <<>>
      /\ UNCHANGED <<_readers, _writer, jobs>>
  BY EmptyQueue DEF Cancel
<1>2. Become(h, "out") \/ UNCHANGED phase
  BY DEF Cancel
<1>3. NoUpgrades'
  BY <1>2, HandleKinds DEF Become, PInv, IInv, TypeOK, NoUpgrades
<1> QED BY <1>1, <1>3 DEF PInv, Passing, Nobody

\* Whoever lets go of the lock passes it on.
LEMMA ProcessPasses ==
    ASSUME Queues, Jobs, ProcessLockRequests
    PROVE  Passing'
<1> SUFFICES ASSUME Nobody' PROVE Passing'
  BY DEF Passing
<1>1. CASE _writerQueue = <<>>
  BY <1>1 DEF ProcessLockRequests, ResolveReaders, Nobody, Passing
<1>2. CASE _writerQueue # <<>>
  <2> DEFINE w == First(_writerQueue)
  <2>1. w \in AllWriters
    <3>1. _writerQueue \in Seq(AllWriters)
      BY DEF Queues
    <3> QED BY <1>2, <3>1, DequeueRemoves
  <2>2. jobs' = Enqueued(jobs, w)
    BY <1>2 DEF ProcessLockRequests, ResolveWriter, Nobody, Enqueued
  <2> HIDE DEF w
  <2>3. Waiting(jobs)' = Waiting(jobs) \cup {w}
    <3>1. jobs \in Seq(Handles) /\ w \in Handles
      BY <2>1, HandleKinds DEF Jobs
    <3> QED BY <2>2, <3>1, EnqueueAdds
  <2>4. jobs' # <<>>
    BY <2>3, EmptyQueue
  <2> QED BY <2>1, <2>3, <2>4 DEF Passing
<1> QED BY <1>1, <1>2

LEMMA UnlockPasses ==
    ASSUME PInv, NEW h \in Handles, UnlockReader(h) \/ UnlockWriter(h)
    PROVE  NoUpgrades' /\ Passing'
<1>1. Queues /\ Jobs /\ ProcessLockRequests /\ Become(h, "out")
  BY TypeParts DEF PInv, IInv, UnlockReader, UnlockWriter
<1>2. NoUpgrades'
  BY <1>1, HandleKinds DEF Become, PInv, IInv, TypeOK, NoUpgrades
<1> QED BY <1>1, <1>2, ProcessPasses

LEMMA NextPInv ==
    ASSUME CallsUpgrade = FALSE, PInv, [Next]_vars
    PROVE  PInv'
<1>1. IInv'
  BY NextIInv DEF PInv
<1>2. CASE UNCHANGED vars
  BY <1>1, <1>2 DEF vars, PInv, NoUpgrades, Passing, Nobody
<1>3. CASE Next
  <2>1. ASSUME NEW h \in AllReaders, UnlockReader(h) PROVE NoUpgrades' /\ Passing'
    BY <2>1, UnlockPasses, HandleKinds
  <2>2. ASSUME NEW w \in AllWriters, UnlockWriter(w) PROVE NoUpgrades' /\ Passing'
    BY <2>2, UnlockPasses, HandleKinds
  <2>3. NoUpgrades' /\ Passing'
    BY <1>3, <2>1, <2>2, LockPasses, CancelPasses, ResumePasses, Zenon DEF Next
  <2> QED BY <1>1, <2>3 DEF PInv
<1> QED BY <1>1, <1>2, <1>3 DEF PInv

\* Without upgrades, nobody waits for a lock that nobody has, unless some resolved
\* request is about to go on: no unlock, cancelation or late comer loses the wakeup.
THEOREM WakeupsKept == ASSUME CallsUpgrade = FALSE PROVE Spec => []NoLostWakeup
<1>1. Init => PInv
  BY InitPInv
<1>2. PInv /\ [Next]_vars => PInv'
  <2> SUFFICES ASSUME PInv, [Next]_vars PROVE PInv'
    OBVIOUS
  <2> QED BY NextPInv, Zenon
<1>3. PInv => NoLostWakeup
  BY EmptyQueue DEF PInv, Passing, Nobody, NoLostWakeup
<1> QED BY <1>1, <1>2, <1>3, PTL DEF Spec
=============================================================================
