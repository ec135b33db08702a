---------------------------- MODULE AsyncProofs ----------------------------
(***************************************************************************)
(* What MCAsync checks on small instances holds for any tasks, items and   *)
(* bounds: each object of the event loop has an inductive invariant of its *)
(* own, and a step of AllNext is a step of the object that is used.        *)
(***************************************************************************)
EXTENDS MCAsync, SequenceTheorems

MutexFacts == INSTANCE AsyncMutexProofs
CvFacts == INSTANCE AsyncMutexProofs WITH
    Handles <- Tasks, _handle <- handle, _waiters <- waiters,
    jobs <- continuing, phase <- client

LEMMA Bounds ==
    /\ HasAction \in BOOLEAN
    /\ MaxParticipants \in Nat /\ MaxArrivals \in Nat /\ MaxFinishes \in Nat
    /\ MaxCount \in Nat /\ MaxPermits \in Nat /\ MaxSignals \in Nat
    /\ MaxCount <= MaxPermits
  BY BoundsAssumption

-----------------------------------------------------------------------------
(* AsyncBarrier *)

\* With an action, add(), remove() and signalAndWait() throw exactly while a phase
\* has still to end.
ExecutingWhileFinishing == HasAction => (executing <=> finishes > 0)

BarrierIInv == Barrier!TypeOK /\ ExecutingWhileFinishing /\ Barrier!PhasesInTurn

\* The barrier's list of waiting tasks is a WaitQueue.
LEMMA BarrierQueue ==
    ASSUME NEW q, NEW e
    PROVE  /\ Barrier!Waiting(q) = Waiting(q) /\ Barrier!Once(q) = Once(q)
           /\ Barrier!Enqueued(q, e) = Enqueued(q, e) /\ Barrier!Canceled(q, e) = Canceled(q, e)
  BY Zenon DEF Barrier!Waiting, Barrier!Once, Barrier!Enqueued, Barrier!Canceled, Barrier!Without,
     Waiting, Once, Enqueued, Canceled, Without

LEMMA BarrierStarts == Barrier!Init => BarrierIInv
<1> SUFFICES ASSUME Barrier!Init PROVE BarrierIInv
  OBVIOUS
<1>1. waiting \in Seq(Tasks) /\ Barrier!Once(waiting)
  BY EmptyQueue, BarrierQueue DEF Barrier!Init
<1>2. Barrier!TypeOK
  <2>1. /\ count \in 0 .. MaxParticipants /\ remaining = count
        /\ finishes = 0 /\ arrived = 0
    BY DEF Barrier!Init
  <2>2. executing \in BOOLEAN
    BY DEF Barrier!Init
  <2>3. /\ count \in 0 .. MaxParticipants /\ arrived \in 0 .. MaxArrivals
        /\ remaining = count - arrived
        /\ finishes \in 0 .. MaxFinishes
    BY <2>1, Bounds
  <2> QED BY <1>1, <2>2, <2>3, Zenon DEF Barrier!TypeOK
<1>3. ExecutingWhileFinishing /\ Barrier!PhasesInTurn
  BY DEF Barrier!Init, ExecutingWhileFinishing, Barrier!PhasesInTurn
<1> QED BY <1>2, <1>3 DEF BarrierIInv

LEMMA BarrierPreserves == BarrierIInv /\ [Barrier!Next]_barrier => BarrierIInv'
<1> SUFFICES ASSUME BarrierIInv, [Barrier!Next]_barrier PROVE BarrierIInv'
  OBVIOUS
<1>1. waiting \in Seq(Tasks) /\ Once(waiting)
  BY BarrierQueue DEF BarrierIInv, Barrier!TypeOK
<1> DEFINE WaitingOK == waiting \in Seq(Tasks) /\ Barrier!Once(waiting)
<1> USE Bounds
    DEF BarrierIInv, Barrier!TypeOK, ExecutingWhileFinishing, Barrier!PhasesInTurn,
        Barrier!FinishPhase, Barrier!NoFinish
<1>2. ASSUME NEW n \in 1 .. MaxParticipants, Barrier!Add(n) PROVE BarrierIInv'
  BY <1>2 DEF Barrier!Add
<1>3. ASSUME NEW n \in 1 .. MaxParticipants, Barrier!Remove(n) PROVE BarrierIInv'
  BY <1>3 DEF Barrier!Remove
<1>4. ASSUME NEW t \in Tasks, Barrier!SignalAndWait(t) PROVE BarrierIInv'
  <2>1. waiting' = Enqueued(waiting, t) /\ t \notin Waiting(waiting)
    BY <1>4, BarrierQueue DEF Barrier!SignalAndWait
  <2>2. WaitingOK'
    BY <1>1, <2>1, EnqueueAdds, BarrierQueue
  <2> QED BY <1>4, <2>2 DEF Barrier!SignalAndWait
<1>5. ASSUME NEW t \in Tasks, Barrier!CancelWait(t) PROVE BarrierIInv'
  <2>1. waiting' = Canceled(waiting, t) /\ t \in Waiting(waiting)
    BY <1>5, BarrierQueue DEF Barrier!CancelWait
  <2>2. WaitingOK'
    BY <1>1, <2>1, CancelRemoves, BarrierQueue
  <2> QED BY <1>5, <2>2 DEF Barrier!CancelWait
<1>6. CASE Barrier!NextPhase
  <2>1. WaitingOK'
    BY <1>6, EmptyQueue, BarrierQueue DEF Barrier!NextPhase
  <2>2. executing' \in BOOLEAN /\ ~executing'
    BY <1>6 DEF Barrier!NextPhase
  <2>3. /\ count' = count /\ arrived' = 0 /\ remaining' = count'
        /\ finishes' = finishes - 1 /\ finishes > 0
    BY <1>6 DEF Barrier!NextPhase
  <2>4. /\ Barrier!TypeOK' /\ (HasAction => finishes' = 0)
    BY <2>1, <2>2, <2>3
  <2> QED BY <2>2, <2>3, <2>4
<1>7. CASE UNCHANGED barrier
  BY <1>7 DEF barrier
<1> QED BY <1>2, <1>3, <1>4, <1>5, <1>6, <1>7 DEF Barrier!Next

-----------------------------------------------------------------------------
(* AsyncSemaphore: its invariants are inductive together. *)

SemaphoreIInv == Semaphore!TypeOK /\ Semaphore!PermitsConserved

\* The tasks that wait for a permit are a WaitQueue.
LEMMA SemaphoreQueue ==
    ASSUME NEW q, NEW e
    PROVE  /\ Semaphore!Waiting(q) = Waiting(q) /\ Semaphore!Once(q) = Once(q)
           /\ Semaphore!Enqueued(q, e) = Enqueued(q, e) /\ Semaphore!Canceled(q, e) = Canceled(q, e)
           /\ Semaphore!First(q) = First(q) /\ Semaphore!Dequeued(q) = Dequeued(q)
  BY Zenon DEF Semaphore!Waiting, Semaphore!Once, Semaphore!Enqueued, Semaphore!Canceled, Semaphore!Without,
     Semaphore!First, Semaphore!Dequeued, Waiting, Once, Enqueued, Canceled, Without, First, Dequeued

LEMMA SemaphoreStarts == Semaphore!Init => SemaphoreIInv
<1> SUFFICES ASSUME Semaphore!Init PROVE SemaphoreIInv
  OBVIOUS
<1>1. line = <<>> /\ line \in Seq(Tasks) /\ Semaphore!Once(line)
  BY EmptyQueue, SemaphoreQueue DEF Semaphore!Init
<1>2. permits \in 0 .. MaxCount /\ made \in 0 .. MaxPermits /\ taken \in 0 .. made
      /\ made = taken + permits
  BY Bounds DEF Semaphore!Init
<1> QED BY <1>1, <1>2, Zenon DEF SemaphoreIInv, Semaphore!TypeOK, Semaphore!PermitsConserved

LEMMA SemaphorePreserves == SemaphoreIInv /\ [Semaphore!Next]_semaphore => SemaphoreIInv'
<1> SUFFICES ASSUME SemaphoreIInv, [Semaphore!Next]_semaphore PROVE SemaphoreIInv'
  OBVIOUS
<1>1. line \in Seq(Tasks) /\ Once(line)
  BY SemaphoreQueue DEF SemaphoreIInv, Semaphore!TypeOK
<1> DEFINE LineOK == line \in Seq(Tasks) /\ Semaphore!Once(line)
<1> USE Bounds DEF SemaphoreIInv, Semaphore!TypeOK, Semaphore!PermitsConserved
<1>2. CASE Semaphore!Enter
  BY <1>2 DEF Semaphore!Enter
<1>3. ASSUME NEW t \in Tasks, Semaphore!Wait(t) PROVE SemaphoreIInv'
  <2>1. line' = Enqueued(line, t) /\ t \notin Waiting(line)
    BY <1>3, SemaphoreQueue DEF Semaphore!Wait
  <2>2. LineOK'
    BY <1>1, <2>1, EnqueueAdds, SemaphoreQueue
  <2> QED BY <1>3, <2>2 DEF Semaphore!Wait
<1>4. ASSUME NEW t \in Tasks, Semaphore!CancelWait(t) PROVE SemaphoreIInv'
  <2>1. line' = Canceled(line, t) /\ t \in Waiting(line)
    BY <1>4, SemaphoreQueue DEF Semaphore!CancelWait
  <2>2. LineOK'
    BY <1>1, <2>1, CancelRemoves, SemaphoreQueue
  <2>3. permits = 0
    BY <1>1, <2>1, EmptyQueue
  <2> QED BY <1>4, <2>2, <2>3 DEF Semaphore!CancelWait
<1>5. ASSUME NEW n \in 1 .. MaxCount, Semaphore!Release(n) PROVE SemaphoreIInv'
  <2> DEFINE served == Semaphore!Least(n, Len(line))
  <2>1. /\ served \in 0 .. Len(line) /\ served <= n
        /\ (served = n \/ served = Len(line)) /\ Len(line) \in Nat
    BY <1>1 DEF Semaphore!Least
  <2>2. /\ made + n <= MaxPermits /\ MaxCount - permits >= n
        /\ line' = SubSeq(line, served + 1, Len(line))
        /\ taken' = taken + served /\ permits' = permits + (n - served) /\ made' = made + n
    BY <1>5 DEF Semaphore!Release
  <2> HIDE DEF served
  <2>3. LineOK'
    <3>1. line' \in Seq(Tasks) /\ Once(line)'
      BY <1>1, <2>1, <2>2, SplitQueue
    <3> QED BY <3>1, SemaphoreQueue
  <2>4. permits' > 0 => line' = <<>>
    <3>1. CASE permits > 0
      BY <1>1, <2>1, <2>2, <3>1
    <3>2. CASE served = Len(line)
      BY <1>1, <2>1, <2>2, <3>2
    <3> QED BY <2>1, <2>2, <3>1, <3>2
  <2> QED BY <2>1, <2>2, <2>3, <2>4
<1>6. CASE UNCHANGED semaphore
  BY <1>6 DEF semaphore
<1> QED BY <1>2, <1>3, <1>4, <1>5, <1>6 DEF Semaphore!Next

-----------------------------------------------------------------------------
(* AsyncEvents: its invariants are inductive together. *)

EventsIInv == Events!TypeOK /\ Events!SignaledServes

\* The tasks that wait for a signal are a WaitQueue.
LEMMA EventsQueue ==
    ASSUME NEW q, NEW e
    PROVE  /\ Events!Waiting(q) = Waiting(q) /\ Events!Once(q) = Once(q)
           /\ Events!Enqueued(q, e) = Enqueued(q, e) /\ Events!Canceled(q, e) = Canceled(q, e)
           /\ Events!First(q) = First(q) /\ Events!Dequeued(q) = Dequeued(q)
  BY Zenon DEF Events!Waiting, Events!Once, Events!Enqueued, Events!Canceled, Events!Without,
     Events!First, Events!Dequeued, Waiting, Once, Enqueued, Canceled, Without, First, Dequeued

LEMMA EventsStart == Events!Init => EventsIInv
<1> SUFFICES ASSUME Events!Init PROVE EventsIInv
  OBVIOUS
<1>1. queue = <<>> /\ queue \in Seq(Tasks) /\ Events!Once(queue)
  BY EmptyQueue, EventsQueue DEF Events!Init
<1>2. initialCount \in 0 .. MaxSignals /\ remainingCount \in 0 .. MaxSignals
      /\ signaled \in BOOLEAN
  BY Zenon DEF Events!Init
<1>3. which = "countdown" => (signaled <=> remainingCount = 0)
  BY DEF Events!Init
<1> QED BY <1>1, <1>2, <1>3, Zenon DEF EventsIInv, Events!TypeOK, Events!SignaledServes

LEMMA EventsPreserve == EventsIInv /\ [Events!Next]_events => EventsIInv'
<1> SUFFICES ASSUME EventsIInv, [Events!Next]_events PROVE EventsIInv'
  OBVIOUS
<1>1. queue \in Seq(Tasks) /\ Once(queue)
  BY EventsQueue DEF EventsIInv, Events!TypeOK
<1> DEFINE QueueOK == queue \in Seq(Tasks) /\ Events!Once(queue)
<1>0. Events!Once(<<>>) /\ <<>> \in Seq(Tasks)
  BY EmptyQueue, EventsQueue
<1> USE Bounds DEF EventsIInv, Events!TypeOK, Events!SignaledServes, Events!counts, Events!SetAll
<1>2. CASE Events!SetAuto
  <2>1. CASE queue # <<>>
    <3>1. queue' = Dequeued(queue) /\ UNCHANGED signaled
      BY <1>2, <2>1, EventsQueue DEF Events!SetAuto
    <3>2. QueueOK'
      BY <1>1, <2>1, <3>1, DequeueRemoves, EventsQueue
    <3> QED BY <1>2, <3>1, <3>2 DEF Events!SetAuto
  <2>2. CASE queue = <<>>
    BY <1>2, <2>2 DEF Events!SetAuto
  <2> QED BY <2>1, <2>2
<1>3. CASE Events!SetManual
  BY <1>0, <1>3 DEF Events!SetManual
<1>4. CASE Events!Reset
  BY <1>4 DEF Events!Reset
<1>5. ASSUME NEW t \in Tasks, Events!Wait(t) PROVE EventsIInv'
  <2>1. CASE signaled
    BY <1>5, <2>1 DEF Events!Wait
  <2>2. CASE ~signaled
    <3>1. queue' = Enqueued(queue, t) /\ t \notin Waiting(queue) /\ UNCHANGED signaled
      BY <1>5, <2>2, EventsQueue DEF Events!Wait
    <3>2. QueueOK'
      BY <1>1, <3>1, EnqueueAdds, EventsQueue
    <3> QED BY <1>5, <2>2, <3>1, <3>2 DEF Events!Wait
  <2> QED BY <2>1, <2>2
<1>6. ASSUME NEW t \in Tasks, Events!CancelWait(t) PROVE EventsIInv'
  <2>1. queue' = Canceled(queue, t) /\ t \in Waiting(queue)
    BY <1>6, EventsQueue DEF Events!CancelWait
  <2>2. QueueOK'
    BY <1>1, <2>1, CancelRemoves, EventsQueue
  <2>3. ~signaled
    BY <2>1, EmptyQueue
  <2> QED BY <1>6, <2>2, <2>3 DEF Events!CancelWait
<1>7. ASSUME NEW n \in 1 .. MaxSignals, Events!Add(n) PROVE EventsIInv'
  BY <1>7 DEF Events!Add
<1>8. ASSUME NEW n \in 1 .. MaxSignals, Events!SignalCount(n) PROVE EventsIInv'
  <2>1. /\ remainingCount' \in 0 .. MaxSignals /\ initialCount' = initialCount
        /\ remainingCount' = 0 <=> remainingCount = n
        /\ remainingCount # 0 /\ which' = "countdown"
    BY <1>8 DEF Events!SignalCount
  <2>2. ~signaled
    BY <1>8, <2>1 DEF Events!SignalCount
  <2>3. CASE remainingCount = n
    <3>1. signaled' = TRUE /\ queue' = <<>>
      BY <1>8, <2>2, <2>3 DEF Events!SignalCount
    <3> QED BY <1>0, <2>1, <2>3, <3>1
  <2>4. CASE remainingCount # n
    <3>1. UNCHANGED <<signaled, queue>>
      BY <1>8, <2>4 DEF Events!SignalCount
    <3> QED BY <2>1, <2>2, <2>4, <3>1
  <2> QED BY <2>3, <2>4
<1>9. ASSUME NEW n \in 0 .. MaxSignals, Events!Recount(n) PROVE EventsIInv'
  BY <1>0, <1>9 DEF Events!Recount
<1>10. CASE UNCHANGED events
  BY <1>10 DEF events
<1> QED BY <1>2, <1>3, <1>4, <1>5, <1>6, <1>7, <1>8, <1>9, <1>10 DEF Events!Next

-----------------------------------------------------------------------------
(* AsyncQueue and AsyncStack *)

NoItem == {"nothing", "an error", "pending", "canceled"}

QueueTypes == /\ got \in [Tasks -> Items \cup NoItem]
              /\ done \subseteq {"reading", "writing"} /\ ended \in BOOLEAN /\ lifo \in BOOLEAN
              /\ puts \in Seq(Items) /\ available \in Seq(Items) /\ pending \in Seq(Tasks)

\* Nobody is in a line twice.
QueueLines == /\ {r \in Tasks : got[r] = "pending"} = Waiting(pending)
              /\ Once(puts) /\ Once(available) /\ Once(pending)

\* Queue!EachToOne, in the words of WaitQueue.
QueueItems == /\ Waiting(puts) = Waiting(available) \cup (Items \cap {got[r] : r \in Tasks})
              /\ \A r \in Tasks : got[r] \in Items =>
                    /\ got[r] \notin Waiting(available)
                    /\ \A q \in Tasks : got[q] = got[r] => q = r

\* Items or readers are left over, not both; after end() both flags are set, which is
\* why nobody begins to wait.
QueueEnds == /\ available = <<>> \/ pending = <<>>
             /\ ended => pending = <<>> /\ done = {"reading", "writing"}

QueueIInv == QueueTypes /\ QueueLines /\ QueueItems /\ QueueEnds /\ Queue!InOrder

\* The requests and the items are WaitQueues.
LEMMA QueueQueues ==
    ASSUME NEW q, NEW e
    PROVE  /\ Queue!Waiting(q) = Waiting(q) /\ Queue!Once(q) = Once(q)
           /\ Queue!Enqueued(q, e) = Enqueued(q, e) /\ Queue!Canceled(q, e) = Canceled(q, e)
           /\ Queue!First(q) = First(q) /\ Queue!Dequeued(q) = Dequeued(q)
  BY Zenon DEF Queue!Waiting, Queue!Once, Queue!Enqueued, Queue!Canceled, Queue!Without,
     Queue!First, Queue!Dequeued, Waiting, Once, Enqueued, Canceled, Without, First, Dequeued

LEMMA Outcomes == \A o \in NoItem : o \notin Items
  BY ItemsAssumption DEF NoItem

\* The invariant implies what the runs check of a queue.
LEMMA QueueIInvMeans == QueueIInv => Queue!TypeOK /\ Queue!Delivered
<1> SUFFICES ASSUME QueueIInv PROVE Queue!TypeOK /\ Queue!Delivered
  OBVIOUS
<1>1. Queue!EachToOne
  BY QueueQueues, Zenon DEF Queue!EachToOne, QueueIInv, QueueItems, QueueEnds
<1>2. Queue!TypeOK
  BY QueueQueues, Zenon DEF Queue!TypeOK, QueueIInv, QueueTypes, QueueLines, NoItem
<1> QED BY <1>1, <1>2, Zenon DEF QueueIInv, QueueEnds, Queue!Delivered, Queue!EndLeavesNobody

LEMMA QueueStarts == Queue!Init => QueueIInv
<1> SUFFICES ASSUME Queue!Init PROVE QueueIInv
  OBVIOUS
<1> USE DEF Queue!Init
<1>1. \A r \in Tasks : got[r] = "nothing"
  OBVIOUS
<1>2. <<>> \in Seq(Items) /\ <<>> \in Seq(Tasks) /\ Waiting(<<>>) = {} /\ Once(<<>>)
  BY EmptyQueue
<1>3. QueueItems
  BY <1>1, <1>2, Outcomes DEF QueueItems, NoItem
<1>4. Queue!InOrder
  <2>1. Len(puts) = 0 /\ SubSeq(puts, 1, 0) = <<>>
    BY SubSeqEmpty
  <2>2. 0 \in 0 .. Len(puts) /\ available = SubSeq(puts, 0 + 1, Len(puts))
    BY <2>1
  <2> QED BY <2>2 DEF Queue!InOrder
<1>5. QueueTypes
  BY <1>2 DEF QueueTypes, NoItem
<1>6. QueueLines
  BY <1>1, <1>2 DEF QueueLines
<1> QED BY <1>3, <1>4, <1>5, <1>6 DEF QueueIInv, QueueEnds

\* get() and pop() take one available item and leave the others.
LEMMA TakenOne ==
    ASSUME available \in Seq(Items), Once(available), available # <<>>, lifo \in BOOLEAN
    PROVE  /\ Queue!Taken[1] \in Items /\ Queue!Taken[2] \in Seq(Items) /\ Once(Queue!Taken[2])
           /\ Waiting(available) = {Queue!Taken[1]} \cup Waiting(Queue!Taken[2])
           /\ Queue!Taken[1] \notin Waiting(Queue!Taken[2])
<1>1. CASE ~lifo
  BY <1>1, DequeueRemoves DEF Queue!Taken, First, Dequeued
<1>2. CASE lifo
  <2> DEFINE n == Len(available) - 1
             p == SubSeq(available, 1, n)
             q == SubSeq(available, n + 1, Len(available))
  <2>1. /\ n \in 0 .. Len(available) /\ Len(available) \in Nat
        /\ n + 1 = Len(available) /\ n + 1 \in 1 .. Len(available)
    OBVIOUS
  <2>2. /\ p \in Seq(Items) /\ Once(p) /\ Waiting(p) \cap Waiting(q) = {}
        /\ Waiting(available) = Waiting(p) \cup Waiting(q)
    BY <2>1, SplitQueue
  <2>3. Len(q) = 1 /\ q[1] = available[Len(available)]
    BY <2>1
  <2>4. Waiting(q) = {available[Len(available)]}
    BY <2>3 DEF Waiting
  <2>5. available[Len(available)] \in Items
    BY <2>1
  <2>6. Queue!Taken[1] = available[Len(available)] /\ Queue!Taken[2] = p
    BY <1>2 DEF Queue!Taken
  <2> HIDE DEF p, q
  <2> QED BY <2>2, <2>4, <2>5, <2>6
<1> QED BY <1>1, <1>2

\* get() with an item.
LEMMA GetItem ==
    ASSUME QueueIInv, NEW r \in Tasks, got[r] = "nothing", available # <<>>,
           got' = [got EXCEPT ![r] = Queue!Taken[1]], available' = Queue!Taken[2],
           UNCHANGED <<lifo, pending, done, ended, puts>>
    PROVE  QueueIInv'
<1> USE DEF QueueIInv
<1>1. /\ Queue!Taken[1] \in Items /\ available' \in Seq(Items) /\ Once(available)'
      /\ Waiting(available) = {Queue!Taken[1]} \cup Waiting(available)'
      /\ Queue!Taken[1] \notin Waiting(available)'
  BY TakenOne DEF QueueTypes, QueueLines
<1>2. /\ got'[r] = Queue!Taken[1] /\ \A q \in Tasks \ {r} : got'[q] = got[q]
      /\ QueueTypes'
  BY <1>1 DEF QueueTypes
<1>3. {q \in Tasks : got'[q] = "pending"} = {q \in Tasks : got[q] = "pending"}
  BY <1>1, <1>2, Outcomes DEF NoItem
<1>4. QueueLines'
  BY <1>1, <1>3 DEF QueueLines
<1>5. got[r] \notin Items
  BY Outcomes DEF NoItem
<1>6. QueueItems'
  BY <1>1, <1>2, <1>5 DEF QueueItems
<1>7. Queue!InOrder'
  <2> SUFFICES ASSUME ~lifo PROVE Queue!InOrder'
    BY DEF Queue!InOrder
  <2>1. PICK k \in 0 .. Len(puts) : available = SubSeq(puts, k + 1, Len(puts))
    BY DEF Queue!InOrder
  <2>2. Len(puts) \in Nat /\ puts \in Seq(Items)
    BY DEF QueueTypes
  <2>3. k < Len(puts)
    BY <2>1, <2>2, SubSeqEmpty
  <2>4. available' = Tail(available)
    BY DEF Queue!Taken
  <2>5. available' = SubSeq(puts, (k + 1) + 1, Len(puts))
    <3>1. k + 1 \in 1 .. Len(puts) /\ Len(puts) \in k + 1 .. Len(puts)
      BY <2>2, <2>3
    <3> QED BY <2>1, <2>2, <2>4, <3>1, HeadTailOfSubSeq
  <2>6. k + 1 \in 0 .. Len(puts)
    BY <2>2, <2>3
  <2> QED BY <2>5, <2>6 DEF Queue!InOrder
<1>8. QueueEnds'
  BY DEF QueueEnds
<1> QED BY <1>2, <1>4, <1>6, <1>7, <1>8

\* Requests that had no item change to an outcome that is none.
LEMMA OutcomeOnly ==
    ASSUME QueueIInv, QueueTypes', QueueEnds',
           \A r \in Tasks : got'[r] = got[r] \/ {got[r], got'[r]} \subseteq NoItem,
           {r \in Tasks : got'[r] = "pending"} = Waiting(pending)', Once(pending)',
           UNCHANGED <<lifo, available, puts>>
    PROVE  QueueIInv'
<1>1. \A r \in Tasks : (got'[r] \in Items \/ got[r] \in Items) => got'[r] = got[r]
  BY Outcomes
<1>2. QueueItems'
  BY <1>1 DEF QueueIInv, QueueItems
<1>3. QueueLines'
  BY DEF QueueIInv, QueueLines
<1>4. Queue!InOrder'
  BY DEF QueueIInv, Queue!InOrder
<1> QED BY <1>2, <1>3, <1>4 DEF QueueIInv

\* put() with a reader that waits.
LEMMA PutToReader ==
    ASSUME QueueIInv, NEW i \in Items, i \notin Waiting(puts), pending # <<>>,
           puts' = Append(puts, i), pending' = Dequeued(pending),
           got' = [got EXCEPT ![First(pending)] = i],
           UNCHANGED <<lifo, available, done, ended>>
    PROVE  QueueIInv'
<1> USE DEF QueueIInv
<1> DEFINE r == First(pending)
<1>1. /\ pending \in Seq(Tasks) /\ Once(pending) /\ puts \in Seq(Items) /\ Once(puts)
      /\ available = <<>>
  BY DEF QueueTypes, QueueLines, QueueEnds
<1>2. /\ r \in Tasks /\ r \in Waiting(pending) /\ pending' \in Seq(Tasks) /\ Once(pending)'
      /\ Waiting(pending)' = Waiting(pending) \ {r}
  <2>1. /\ r \in Tasks /\ Dequeued(pending) \in Seq(Tasks) /\ Once(Dequeued(pending))
        /\ Waiting(pending) = {r} \cup Waiting(Dequeued(pending))
        /\ r \notin Waiting(Dequeued(pending))
    BY <1>1, DequeueRemoves
  <2> HIDE DEF r
  <2> QED BY <2>1
<1>3. puts' \in Seq(Items) /\ Waiting(puts)' = Waiting(puts) \cup {i} /\ Once(puts)'
  BY <1>1, EnqueueAdds DEF Enqueued
<1> HIDE DEF r
<1>4. got[r] = "pending" /\ got[r] \notin Items
  BY <1>2, Outcomes DEF QueueLines, NoItem
<1>5. got' = [got EXCEPT ![r] = i]
  BY DEF r
<1>6. /\ got'[r] = i /\ \A q \in Tasks \ {r} : got'[q] = got[q]
      /\ QueueTypes'
  BY <1>2, <1>3, <1>5 DEF QueueTypes
<1>7. i # "pending" /\ \A q \in Tasks : got[q] # i
  BY <1>1, Outcomes DEF QueueItems, NoItem
<1>8. QueueLines'
  BY <1>1, <1>2, <1>3, <1>6, <1>7 DEF QueueLines
<1>9. QueueItems'
  <2>1. Waiting(available) = {} /\ Waiting(available)' = {}
    BY <1>1, EmptyQueue
  <2>2. \A q \in Tasks : got'[q] \in Items =>
            \A p \in Tasks : got'[p] = got'[q] => p = q
    BY <1>4, <1>6, <1>7 DEF QueueItems
  <2>3. Items \cap {got'[q] : q \in Tasks} = (Items \cap {got[q] : q \in Tasks}) \cup {i}
    BY <1>2, <1>4, <1>6
  <2>4. Waiting(puts) = Items \cap {got[q] : q \in Tasks}
    BY <2>1 DEF QueueItems
  <2> QED BY <1>3, <2>1, <2>2, <2>3, <2>4 DEF QueueItems
<1>10. Queue!InOrder'
  <2>1. Len(puts') \in Nat /\ SubSeq(puts', Len(puts') + 1, Len(puts')) = <<>>
    BY <1>3, SubSeqEmpty
  <2>2. Len(puts') \in 0 .. Len(puts') /\ available' = SubSeq(puts', Len(puts') + 1, Len(puts'))
    BY <1>1, <2>1
  <2> QED BY <2>2 DEF Queue!InOrder
<1>11. QueueEnds'
  BY <1>1 DEF QueueEnds
<1> QED BY <1>6, <1>8, <1>9, <1>10, <1>11

\* put() with nobody waiting.
LEMMA PutAside ==
    ASSUME QueueIInv, NEW i \in Items, i \notin Waiting(puts), pending = <<>>,
           puts' = Append(puts, i), available' = Append(available, i),
           UNCHANGED <<lifo, pending, got, done, ended>>
    PROVE  QueueIInv'
<1> USE DEF QueueIInv
<1>1. puts \in Seq(Items) /\ available \in Seq(Items) /\ Once(puts) /\ Once(available)
  BY DEF QueueTypes, QueueLines
<1>2. i \notin Waiting(available) /\ \A q \in Tasks : got[q] # i
  BY DEF QueueItems
<1>3. /\ puts' \in Seq(Items) /\ Waiting(puts)' = Waiting(puts) \cup {i} /\ Once(puts)'
      /\ available' \in Seq(Items) /\ Once(available)'
      /\ Waiting(available)' = Waiting(available) \cup {i}
  BY <1>1, <1>2, EnqueueAdds DEF Enqueued
<1>4. QueueTypes'
  BY <1>3 DEF QueueTypes
<1>5. QueueLines'
  BY <1>3 DEF QueueLines
<1>6. QueueItems'
  BY <1>2, <1>3 DEF QueueItems
<1>7. Queue!InOrder'
  <2> SUFFICES ASSUME ~lifo PROVE Queue!InOrder'
    BY DEF Queue!InOrder
  <2>1. PICK k \in 0 .. Len(puts) : available = SubSeq(puts, k + 1, Len(puts))
    BY DEF Queue!InOrder
  <2> DEFINE n == Len(puts)
             s == SubSeq(puts', k + 1, n + 1)
  <2>2. /\ n \in Nat /\ Len(puts') = n + 1 /\ k \in Int /\ 0 <= k /\ k <= n
        /\ puts' \in Seq(Items)
        /\ \A j \in 1 .. n : puts'[j] = puts[j]
        /\ puts'[n + 1] = i
    BY <1>1, <1>3
  <2>3. /\ Len(available) = n - k
        /\ \A j \in 1 .. n - k : available[j] = puts[k + j]
    BY <1>1, <2>1, <2>2
  <2>4. /\ s \in Seq(Items) /\ Len(s) = n + 1 - k
        /\ \A j \in 1 .. n + 1 - k : s[j] = puts'[k + j]
    <3>1. \A j \in k + 1 .. n + 1 : puts'[j] \in Items
      <4>1. puts' \in Seq(Items) /\ \A j \in k + 1 .. n + 1 : j \in 1 .. Len(puts')
        BY <2>2
      <4> QED BY <4>1, ElementOfSeq
    <3>2. s \in Seq(Items)
      BY <2>2, <3>1, SubSeqProperties
    <3>3. Len(s) = n + 1 - k
      BY <2>2
    <3>4. \A j \in 1 .. n + 1 - k : s[j] = puts'[k + j]
      <4> TAKE j \in 1 .. n + 1 - k
      <4>1. s[j] = puts'[(k + 1) + j - 1]
        BY <2>2, <3>1, SubSeqProperties
      <4>2. (k + 1) + j - 1 = k + j
        BY <2>2
      <4> QED BY <4>1, <4>2
    <3> QED BY <3>2, <3>3, <3>4
  <2>5. /\ Len(available') = n + 1 - k
        /\ \A j \in 1 .. n - k : available'[j] = available[j]
        /\ available'[n + 1 - k] = i
    BY <1>1, <2>2, <2>3
  <2> HIDE DEF s, n
  <2>6. \A j \in 1 .. n + 1 - k : available'[j] = s[j]
    <3> TAKE j \in 1 .. n + 1 - k
    <3>1. CASE j \in 1 .. n - k
      BY <2>2, <2>3, <2>4, <2>5, <3>1
    <3>2. CASE j = n + 1 - k
      BY <2>2, <2>4, <2>5, <3>2
    <3>3. j \in 1 .. n - k \/ j = n + 1 - k
      <4>1. n \in Nat /\ k \in Int
        BY <2>2
      <4> QED BY <4>1
    <3> QED BY <3>1, <3>2, <3>3
  <2>7. available' = s
    BY <1>3, <2>4, <2>5, <2>6, SeqEqual
  <2>8. k \in 0 .. Len(puts') /\ available' = SubSeq(puts', k + 1, Len(puts'))
    BY <2>2, <2>7 DEF s, n
  <2> QED BY <2>8 DEF Queue!InOrder
<1>8. QueueEnds'
  BY DEF QueueEnds
<1> QED BY <1>4, <1>5, <1>6, <1>7, <1>8

LEMMA QueuePreserves == QueueIInv /\ [Queue!Next]_items => QueueIInv'
<1> SUFFICES ASSUME QueueIInv, [Queue!Next]_items PROVE QueueIInv'
  OBVIOUS
<1>1. /\ pending \in Seq(Tasks) /\ Once(pending) /\ Waiting(pending) = {r \in Tasks : got[r] = "pending"}
      /\ got \in [Tasks -> Items \cup NoItem]
  BY DEF QueueIInv, QueueTypes, QueueLines
<1>2. ASSUME NEW r \in Tasks, Queue!Get(r) PROVE QueueIInv'
  <2> USE DEF Queue!Get, Queue!Outcome
  <2>1. CASE available # <<>>
    BY <1>2, <2>1, GetItem
  <2>2. CASE available = <<>> /\ ~Queue!readable /\ got' = [got EXCEPT ![r] = "an error"]
                               /\ UNCHANGED <<available, pending>>
    <3>1. /\ QueueTypes' /\ QueueEnds' /\ Waiting(pending)' = Waiting(pending) /\ Once(pending)'
      BY <1>2, <2>2 DEF QueueIInv, QueueTypes, QueueLines, QueueEnds, NoItem
    <3>2. \A q \in Tasks : got'[q] = IF q = r THEN "an error" ELSE got[q]
      BY <1>1, <2>2
    <3>3. {q \in Tasks : got'[q] = "pending"} = Waiting(pending)'
      BY <1>1, <1>2, <3>1, <3>2
    <3>4. \A q \in Tasks : got'[q] = got[q] \/ {got[q], got'[q]} \subseteq NoItem
      BY <1>2, <3>2 DEF NoItem
    <3> QED BY <1>2, <2>2, <3>1, <3>3, <3>4, OutcomeOnly
  <2>3. CASE available = <<>> /\ Queue!readable /\ got' = [got EXCEPT ![r] = "pending"]
                               /\ pending' = Enqueued(pending, r) /\ UNCHANGED available
    <3>1. r \notin Waiting(pending)
      BY <1>1, <1>2
    <3>2. /\ pending' \in Seq(Tasks) /\ Waiting(pending)' = Waiting(pending) \cup {r} /\ Once(pending)'
      BY <1>1, <2>3, <3>1, EnqueueAdds
    <3>3. ~ended
      <4> SUFFICES ASSUME ended PROVE FALSE
        OBVIOUS
      <4>1. pending = <<>> /\ "reading" \in done
        BY DEF QueueIInv, QueueEnds
      <4>2. ~(Queue!size > 0)
        <5>1. ~(-Len(<<>>) > 0)
          OBVIOUS
        <5>2. Queue!size = -Len(pending)
          BY <2>3 DEF Queue!size
        <5> QED BY <4>1, <5>1, <5>2, Zenon
      <4> QED BY <2>3, <4>1, <4>2 DEF Queue!readable
    <3>4. QueueTypes' /\ QueueEnds'
      BY <1>2, <2>3, <3>2, <3>3 DEF QueueIInv, QueueTypes, QueueEnds, NoItem
    <3>5. \A q \in Tasks : got'[q] = IF q = r THEN "pending" ELSE got[q]
      BY <1>1, <2>3
    <3>6. {q \in Tasks : got'[q] = "pending"} = Waiting(pending)'
      BY <1>1, <3>2, <3>5
    <3>7. \A q \in Tasks : got'[q] = got[q] \/ {got[q], got'[q]} \subseteq NoItem
      BY <1>2, <3>5 DEF NoItem
    <3> QED BY <1>2, <2>3, <3>2, <3>4, <3>6, <3>7, OutcomeOnly
  <2> QED BY <1>2, <2>1, <2>2, <2>3, QueueQueues
<1>3. ASSUME NEW r \in Tasks, Queue!CancelGet(r) PROVE QueueIInv'
  <2>1. /\ r \in Waiting(pending) /\ pending' = Canceled(pending, r)
        /\ got' = [got EXCEPT ![r] = "canceled"] /\ UNCHANGED <<lifo, available, done, ended, puts>>
    BY <1>3, QueueQueues DEF Queue!CancelGet, Queue!Outcome
  <2>2. /\ pending' \in Seq(Tasks) /\ Once(pending)'
        /\ Waiting(pending)' = Waiting(pending) \ {r}
    BY <1>1, <2>1, CancelRemoves
  <2>3. pending = <<>> => FALSE
    BY <2>1, EmptyQueue
  <2>4. QueueTypes' /\ QueueEnds'
    BY <2>1, <2>2, <2>3 DEF QueueIInv, QueueTypes, QueueEnds, NoItem
  <2>5. \A q \in Tasks : got'[q] = IF q = r THEN "canceled" ELSE got[q]
    BY <1>1, <2>1
  <2>6. {q \in Tasks : got'[q] = "pending"} = Waiting(pending)'
    BY <1>1, <2>2, <2>5
  <2>7. \A q \in Tasks : got'[q] = got[q] \/ {got[q], got'[q]} \subseteq NoItem
    BY <1>1, <2>1, <2>5 DEF NoItem
  <2> QED BY <2>1, <2>2, <2>4, <2>6, <2>7, OutcomeOnly
<1>4. ASSUME NEW i \in Items, Queue!Put(i) PROVE QueueIInv'
  <2>1. CASE pending # <<>>
    BY <1>4, <2>1, PutToReader, QueueQueues DEF Queue!Put, Queue!Outcome
  <2>2. CASE pending = <<>>
    BY <1>4, <2>2, PutAside, QueueQueues DEF Queue!Put
  <2> QED BY <2>1, <2>2
<1>5. ASSUME NEW what \in {"reading", "writing"}, Queue!Done(what) PROVE QueueIInv'
  <2>1. QueueTypes' /\ QueueEnds'
    BY <1>5 DEF Queue!Done, QueueIInv, QueueTypes, QueueEnds
  <2> QED BY <1>1, <1>5, <2>1, OutcomeOnly DEF Queue!Done
<1>6. CASE Queue!End
  <2>1. /\ pending' = <<>> /\ Waiting(pending)' = {} /\ Once(pending)'
        /\ \A q \in Tasks : got'[q] = IF got[q] = "pending" THEN "canceled" ELSE got[q]
        /\ UNCHANGED <<lifo, available, puts>> /\ done' = {"reading", "writing"} /\ ended'
    BY <1>1, <1>6, EmptyQueue, QueueQueues DEF Queue!End
  <2>2. QueueTypes' /\ QueueEnds'
    <3>1. got' \in [Tasks -> Items \cup NoItem]
      <4>1. /\ got' = [r \in Tasks |-> IF r \in Waiting(pending) THEN "canceled" ELSE got[r]]
            /\ "canceled" \in NoItem
        BY <1>6, QueueQueues DEF Queue!End, NoItem
      <4>2. \A r \in Tasks : got[r] \in Items \cup NoItem
        BY <1>1
      <4> HIDE <1>1
      <4> QED BY <4>1, <4>2
    <3>2. puts \in Seq(Items) /\ available \in Seq(Items) /\ lifo \in BOOLEAN
      BY DEF QueueIInv, QueueTypes
    <3>3. puts' \in Seq(Items) /\ available' \in Seq(Items) /\ pending' \in Seq(Tasks)
      BY <2>1, <3>2
    <3>4. ended' \in BOOLEAN /\ lifo' \in BOOLEAN
      BY <2>1, <3>2, <1>6, Zenon DEF Queue!End
    <3> QED BY <2>1, <3>1, <3>3, <3>4, Zenon DEF QueueTypes, QueueEnds
  <2>3. {q \in Tasks : got'[q] = "pending"} = Waiting(pending)'
    BY <2>1
  <2>4. \A q \in Tasks : got'[q] = got[q] \/ {got[q], got'[q]} \subseteq NoItem
    BY <2>1 DEF NoItem
  <2> QED BY <2>1, <2>2, <2>3, <2>4, OutcomeOnly
<1>7. CASE UNCHANGED items
  <2>1. QueueTypes' /\ QueueEnds' /\ UNCHANGED <<lifo, available, puts, pending, got>>
    BY <1>7 DEF items, QueueIInv, QueueTypes, QueueEnds
  <2> QED BY <1>1, <2>1, OutcomeOnly
<1> QED BY <1>2, <1>3, <1>4, <1>5, <1>6, <1>7 DEF Queue!Next

-----------------------------------------------------------------------------
(* AsyncConditionVariable: MCAsync's instance is the one of CvFacts. *)

LEMMA ConditionActions == Condition!CvNext <=> CvFacts!CvNext
  BY Zenon DEF Condition!Waiting, CvFacts!Waiting, Condition!Once, CvFacts!Once,
     Condition!Enqueued, CvFacts!Enqueued, Condition!Canceled, CvFacts!Canceled,
     Condition!Without, CvFacts!Without, Condition!First, CvFacts!First, Condition!Dequeued,
     CvFacts!Dequeued, Condition!Take, CvFacts!Take, Condition!Wait, CvFacts!Wait,
     Condition!Cancel, CvFacts!Cancel, Condition!Release, CvFacts!Release, Condition!Unlock,
     CvFacts!Unlock, Condition!Resume, CvFacts!Resume, Condition!Become, CvFacts!Become,
     Condition!Client, CvFacts!Client, Condition!Direct, CvFacts!Direct, Condition!CvWait,
     CvFacts!CvWait, Condition!CancelWait, CvFacts!CancelWait, Condition!Removed, CvFacts!Removed,
     Condition!Relock, CvFacts!Relock, Condition!Notify, CvFacts!Notify, Condition!NotifyOne,
     CvFacts!NotifyOne, Condition!NotifyAll, CvFacts!NotifyAll, Condition!CancelRelock,
     CvFacts!CancelRelock, Condition!Return, CvFacts!Return, Condition!CvNext, CvFacts!CvNext,
     Condition!vars, CvFacts!vars

LEMMA ConditionStarts == Condition!CvInit => CvFacts!CvIInv
<1>1. Condition!CvInit => CvFacts!CvInit
  BY Zenon DEF Condition!CvInit, Condition!Init, CvFacts!CvInit, CvFacts!Init
<1> QED BY <1>1, CvFacts!CvInitIInv, HandlesAssumption, TasksAssumption

LEMMA ConditionPreserves ==
    ASSUME UsingBlocks = FALSE, CvFacts!CvIInv, [Condition!CvNext]_condition
    PROVE  CvFacts!CvIInv'
<1>1. [CvFacts!CvNext]_CvFacts!cvVars
  BY ConditionActions DEF condition, CvFacts!cvVars, CvFacts!vars
<1> QED BY <1>1, CvFacts!CvNextIInv, HandlesAssumption, TasksAssumption

LEMMA ConditionIInvMeans ==
    CvFacts!CvIInv => Condition!TypeOK /\ Condition!SleepersAway /\ Condition!MutualExclusion
  BY Zenon DEF CvFacts!CvIInv, CvFacts!IInv, Condition!Waiting, CvFacts!Waiting, Condition!Once, CvFacts!Once,
     Condition!TypeOK, CvFacts!TypeOK, Condition!SleepersAway, CvFacts!SleepersAway,
     Condition!MutualExclusion, CvFacts!MutualExclusion

-----------------------------------------------------------------------------
(* AsyncMutex: MCAsync extends the module that MutexFacts is about. *)

LEMMA MutexPreserves ==
    ASSUME UsingBlocks = FALSE, MutexFacts!IInv, [Next]_vars
    PROVE  MutexFacts!IInv'
<1>1. Next <=> MutexFacts!Next
  BY Zenon DEF Waiting, MutexFacts!Waiting, Once, MutexFacts!Once, Enqueued,
     MutexFacts!Enqueued, Canceled, MutexFacts!Canceled, Without, MutexFacts!Without, First,
     MutexFacts!First, Dequeued, MutexFacts!Dequeued, Take, MutexFacts!Take, Wait,
     MutexFacts!Wait, Cancel, MutexFacts!Cancel, Release, MutexFacts!Release, Unlock,
     MutexFacts!Unlock, Resume, MutexFacts!Resume, Become, MutexFacts!Become, Next,
     MutexFacts!Next
<1>2. [MutexFacts!Next]_MutexFacts!vars
  BY <1>1 DEF vars, MutexFacts!vars
<1> QED BY <1>2, MutexFacts!NextIInv, HandlesAssumption

LEMMA MutexIInvMeans == MutexFacts!IInv => TypeOK
  BY Zenon DEF MutexFacts!IInv, Waiting, MutexFacts!Waiting, Once, MutexFacts!Once, TypeOK,
     MutexFacts!TypeOK

-----------------------------------------------------------------------------
(* All objects *)

LEMMA OneObjectSteps ==
    ASSUME [AllNext]_all
    PROVE  /\ [Next]_vars /\ [Barrier!Next]_barrier /\ [Queue!Next]_items
           /\ [Semaphore!Next]_semaphore /\ [Events!Next]_events /\ [Condition!CvNext]_condition
  BY Zenon DEF AllNext, all, MutexStep, BarrierStep, QueueStep, SemaphoreStep, EventStep, ConditionStep

\* What holds of the objects that need nothing of their clients.
AllIInv == BarrierIInv /\ QueueIInv /\ SemaphoreIInv /\ EventsIInv

LEMMA AllInvariance == AllSpec => []AllIInv
<1>1. AllInit => AllIInv
  BY BarrierStarts, QueueStarts, SemaphoreStarts, EventsStart DEF AllInit, AllIInv
<1>2. AllIInv /\ [AllNext]_all => AllIInv'
  BY OneObjectSteps, BarrierPreserves, QueuePreserves, SemaphorePreserves, EventsPreserve DEF AllIInv
<1> QED BY <1>1, <1>2, PTL DEF AllSpec

\* A mutex in MCAsync is the one AsyncMutexProofs is about, so that what it proves of
\* Spec, MutualExclusion, NoBarging and ImplementsLockable, holds here too.
THEOREM MutexAmongObjects == AllSpec => Spec
<1>1. [AllNext]_all => [Next]_vars
  BY OneObjectSteps
<1>2. AllInit => Init
  BY DEF AllInit
<1> QED BY <1>1, <1>2, PTL DEF AllSpec, Spec

\* With a post-phase action the phases of a barrier end one after the other, and none
\* before every participant has arrived (AsyncBarrier._finishPhase and _nextPhase).
THEOREM PhasesEndInTurn == AllSpec => []BarrierPhasesInTurn
<1>1. AllIInv => BarrierPhasesInTurn
  BY DEF AllIInv, BarrierIInv, BarrierPhasesInTurn
<1> QED BY <1>1, AllInvariance, PTL

\* An item of an AsyncQueue or AsyncStack goes to one reader, a queue keeps their
\* order, and nobody waits after end().
THEOREM ItemsReachOneReader == AllSpec => []ItemsDelivered
<1>1. AllIInv => ItemsDelivered
  BY QueueIInvMeans DEF AllIInv, ItemsDelivered
<1> QED BY <1>1, AllInvariance, PTL

\* Permits and signals are neither lost nor doubled, and nobody waits while there is one
\* (AsyncSemaphore, AsyncAutoResetEvent, AsyncManualResetEvent, AsyncCountdownEvent).
THEOREM NothingIsLost == AllSpec => []NobodyWaitsInVain
<1>1. AllIInv => NobodyWaitsInVain
  BY DEF AllIInv, SemaphoreIInv, EventsIInv, NobodyWaitsInVain
<1> QED BY <1>1, AllInvariance, PTL

\* The types of all objects; who sleeps on a condition variable is out of its mutex, and
\* who comes back from wait() is the only one that has it (AsyncConditionVariable._waitOne).
THEOREM AllTypesCorrect == ASSUME UsingBlocks = FALSE PROVE AllSpec => []AllTypeOK
<1> DEFINE I == AllIInv /\ MutexFacts!IInv /\ CvFacts!CvIInv
<1>1. AllInit => I
  <2> SUFFICES ASSUME AllInit PROVE I
    OBVIOUS
  <2>1. MutexFacts!Init
    BY Zenon DEF AllInit, Init, MutexFacts!Init
  <2>2. MutexFacts!IInv
    BY <2>1, MutexFacts!InitIInv, HandlesAssumption
  <2>3. AllIInv
    BY BarrierStarts, QueueStarts, SemaphoreStarts, EventsStart DEF AllInit, AllIInv
  <2> QED BY <2>2, <2>3, ConditionStarts DEF AllInit
<1>2. I /\ [AllNext]_all => I'
  <2> SUFFICES ASSUME I, [AllNext]_all PROVE I'
    OBVIOUS
  <2>1. AllIInv'
    BY OneObjectSteps, BarrierPreserves, QueuePreserves, SemaphorePreserves, EventsPreserve
    DEF AllIInv
  <2>2. MutexFacts!IInv'
    BY OneObjectSteps, MutexPreserves
  <2>3. CvFacts!CvIInv'
    BY OneObjectSteps, ConditionPreserves
  <2> QED BY <2>1, <2>2, <2>3
<1>3. I => AllTypeOK
  <2> SUFFICES ASSUME I PROVE AllTypeOK
    OBVIOUS
  <2>1. Barrier!TypeOK /\ Queue!TypeOK /\ Semaphore!TypeOK /\ Events!TypeOK
    BY QueueIInvMeans DEF AllIInv, BarrierIInv, SemaphoreIInv, EventsIInv
  <2> QED BY <2>1, MutexIInvMeans, ConditionIInvMeans DEF AllTypeOK
<1> QED BY <1>1, <1>2, <1>3, PTL DEF AllSpec

=============================================================================
