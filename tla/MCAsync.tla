------------------------------ MODULE MCAsync ------------------------------
(***************************************************************************)
(* Small instances of the objects of one event loop, with a mutex.  One    *)
(* behaviour uses one of them; the variables of the others keep their      *)
(* initial values.                                                         *)
(***************************************************************************)
EXTENDS AsyncMutex, Integers

CONSTANTS
    Tasks, Items,
    HasAction,                                      \* the barrier has a postPhaseAction
    MaxParticipants, MaxArrivals, MaxFinishes,      \* bounds of the barrier
    MaxCount, MaxPermits,                           \* the semaphore's maxCount, a bound
    MaxSignals                                      \* bound of a countdown's counts

ASSUME BoundsAssumption ==
    /\ HasAction \in BOOLEAN
    /\ {MaxParticipants, MaxArrivals, MaxFinishes, MaxCount, MaxPermits, MaxSignals} \subseteq Nat
    /\ MaxCount <= MaxPermits

ASSUME TasksAssumption == None \notin Tasks

\* What a reader gets is told from how its request stands.
ASSUME ItemsAssumption ==
    Items \cap {"nothing", "an error", "pending", "canceled"} = {}

VARIABLES
    object,     \* what this behaviour is about
    count, remaining, waiting, executing, finishes, arrived,    \* barrier
    lifo, available, pending, done, ended, got, puts,           \* queue, stack
    permits, line, made, taken,                                 \* semaphore
    which, signaled, queue, initialCount, remainingCount,       \* events
    handle, waiters, continuing, client, sleepers, returning    \* condition variable

barrier == <<count, remaining, waiting, executing, finishes, arrived>>
items == <<lifo, available, pending, done, ended, got, puts>>
semaphore == <<permits, line, made, taken>>
events == <<which, signaled, queue, initialCount, remainingCount>>
condition == <<handle, waiters, continuing, client, sleepers, returning>>
all == <<object, vars, barrier, items, semaphore, events, condition>>

Barrier == INSTANCE AsyncBarrier WITH
    _participantCount <- count, _remainingParticipants <- remaining,
    _waiters <- waiting, _isExecutingPostPhaseAction <- executing

Queue == INSTANCE AsyncQueue WITH
    Readers <- Tasks, _available <- available, _pending <- pending

Semaphore == INSTANCE AsyncSemaphore WITH
    _currentCount <- permits, _waiters <- line

Events == INSTANCE AsyncEvents WITH
    MaxCount <- MaxSignals, _signaled <- signaled, _waiters <- queue,
    _initialCount <- initialCount, _remainingCount <- remainingCount

Condition == INSTANCE AsyncConditionVariable WITH
    Handles <- Tasks, _handle <- handle, _waiters <- waiters,
    jobs <- continuing, phase <- client

About(name) == object = name /\ UNCHANGED object

MutexStep == /\ About("mutex") /\ Next
             /\ UNCHANGED <<barrier, items, semaphore, events, condition>>
BarrierStep == /\ About("barrier") /\ Barrier!Next
               /\ UNCHANGED <<vars, items, semaphore, events, condition>>
QueueStep == /\ About("queue") /\ Queue!Next
             /\ UNCHANGED <<vars, barrier, semaphore, events, condition>>
SemaphoreStep == /\ About("semaphore") /\ Semaphore!Next
                 /\ UNCHANGED <<vars, barrier, items, events, condition>>
EventStep == /\ About("event") /\ Events!Next
             /\ UNCHANGED <<vars, barrier, items, semaphore, condition>>
ConditionStep == /\ About("condition") /\ Condition!CvNext
                 /\ UNCHANGED <<vars, barrier, items, semaphore, events>>

AllInit ==
    /\ object \in {"mutex", "barrier", "queue", "semaphore", "event", "condition"}
    /\ Init
    /\ Barrier!Init /\ (object # "barrier" => count = 0)
    /\ Queue!Init /\ (object # "queue" => ~lifo)
    /\ Semaphore!Init /\ (object # "semaphore" => permits = 0)
    /\ Events!Init /\ (object # "event" => which = "manual" /\ ~signaled)
    /\ Condition!CvInit

AllNext == \/ MutexStep \/ BarrierStep \/ QueueStep
           \/ SemaphoreStep \/ EventStep \/ ConditionStep

\* A part that is not used has nothing to do and owes nothing.
AllSpec == AllInit /\ [][AllNext]_all /\ Fairness /\ Barrier!Fairness /\ Condition!CvFairness

\* The types of all parts; the sleepers of the condition variable are out of the mutex,
\* and who comes back from wait() is the only one that has it.
AllTypeOK == /\ TypeOK /\ Barrier!TypeOK /\ Queue!TypeOK /\ Semaphore!TypeOK
             /\ Events!TypeOK /\ Condition!TypeOK
             /\ Condition!SleepersAway /\ Condition!MutualExclusion

\* With a post-phase action the phases of a barrier end one after the other, and none
\* before every participant has arrived (AsyncBarrier.PhasesInTurn).
BarrierPhasesInTurn == Barrier!PhasesInTurn

\* An item goes to one reader, a queue keeps their order, and nobody waits after end()
\* (AsyncQueue.Delivered).
ItemsDelivered == Queue!Delivered

\* Permits and signals are neither lost nor doubled, and nobody waits while there is
\* one (AsyncSemaphore.PermitsConserved, AsyncEvents.SignaledServes).
NobodyWaitsInVain == Semaphore!PermitsConserved /\ Events!SignaledServes

\* Whoever waits in a line is served, if the others do their part: a lock() of the mutex
\* (AsyncMutex.WaiterServed), a client that the condition variable has notified
\* (AsyncConditionVariable.NotifiedServed), and the waiters of a phase that ends
\* (AsyncBarrier.PhaseReleases).
WaitersServed == WaiterServed /\ Condition!NotifiedServed /\ Barrier!PhaseReleases
=============================================================================
