----------------------- MODULE AsyncReaderWriterLock -----------------------
(***************************************************************************)
(* @esfx/async-readerwriterlock: readers, writers and upgradeable readers  *)
(* of one event loop.  An action is one synchronous call or one job of the *)
(* microtask queue; other code may run between any two jobs.               *)
(***************************************************************************)
EXTENDS WaitQueue

CONSTANTS
    Readers,          \* handles of read() and createReader()
    Upgradeables,     \* handles of upgradeableRead() and createUpgradeableReader()
    Writers,          \* handles of write() and createWriter()
    None,             \* undefined
    CallsUpgrade      \* clients call upgrade() on an upgradeable reader

\* The writer that upgrade() creates for u.
UpgradedWriter(u) == <<"upgraded", u>>

AllReaders == Readers \cup Upgradeables
AllWriters == Writers \cup {UpgradedWriter(u) : u \in Upgradeables}
Handles == AllReaders \cup AllWriters

ASSUME HandlesAssumption == /\ AllReaders \cap AllWriters = {}
                            /\ Readers \cap Upgradeables = {}
                            /\ None \notin Handles
                            /\ CallsUpgrade \in BOOLEAN

\* _upgradeable of a writer
UpgradeableOf(w) == IF w \in Writers THEN None ELSE w[2]

VARIABLES
    _readers, _writer, _upgradeable,
    _readerQueue, _writerQueue,
    jobs,         \* the handles whose resolved wait() has a microtask to go on with
    signaled,     \* those of them whose cancelable was signaled meanwhile
    phase         \* phase[h]: what the client of h has been promised

vars == <<_readers, _writer, _upgradeable, _readerQueue, _writerQueue, jobs, signaled, phase>>

Init == /\ _readers = {} /\ _writer = None /\ _upgradeable = None
        /\ _readerQueue = <<>> /\ _writerQueue = <<>>
        /\ jobs = <<>> /\ signaled = {}
        /\ phase = [h \in Handles |-> "out"]

Become(h, p) == phase' = [phase EXCEPT ![h] = p]

-----------------------------------------------------------------------------
(* _lockReader and _lockWriter: their loop from one await to the next.  A handle *)
(* asks once at a time, so none meets "Lock already taken.".                     *)

\* Mutant of CanTakeReadLock: a writer does not keep readers out.
CanTakeReadLockBeside == _writerQueue = <<>>

CanTakeReadLock == _writer = None /\ _writerQueue = <<>>

CanTakeWriteLock == _writer = None /\ _readers = {}

\* Mutant of TakeRead: the upgradeable reader is not remembered.
TakeReadPlain(h) ==
    /\ CanTakeReadLock
    /\ ~(h \in Upgradeables /\ _upgradeable # None)
    /\ _readers' = _readers \cup {h}
    /\ Become(h, "holding")
    /\ UNCHANGED <<_writer, _upgradeable, _readerQueue, _writerQueue>>

TakeRead(h) ==
    /\ CanTakeReadLock
    /\ ~(h \in Upgradeables /\ _upgradeable # None)
    /\ _readers' = _readers \cup {h}
    /\ _upgradeable' = IF h \in Upgradeables THEN h ELSE _upgradeable
    /\ Become(h, "holding")
    /\ UNCHANGED <<_writer, _readerQueue, _writerQueue>>

\* wait() rejects at once if the cancelable is signaled.
WaitToRead(h) ==
    /\ ~CanTakeReadLock \/ (h \in Upgradeables /\ _upgradeable # None)
    /\ IF h \in signaled
       THEN Become(h, "out") /\ UNCHANGED _readerQueue
       ELSE Become(h, "waiting") /\ _readerQueue' = Enqueued(_readerQueue, h)
    /\ UNCHANGED <<_readers, _writer, _upgradeable, _writerQueue>>

\* "Lock already released.": the upgradeable reader is not the one of the writer.
RejectWriter(w) ==
    /\ _upgradeable # UpgradeableOf(w)
    /\ Become(w, "out")
    /\ UNCHANGED <<_readers, _writer, _upgradeable, _readerQueue, _writerQueue>>

TakeWrite(w) ==
    /\ _upgradeable = UpgradeableOf(w)
    /\ CanTakeWriteLock
    /\ _writer' = w
    /\ Become(w, "holding")
    /\ UNCHANGED <<_readers, _upgradeable, _readerQueue, _writerQueue>>

WaitToWrite(w) ==
    /\ _upgradeable = UpgradeableOf(w)
    /\ ~CanTakeWriteLock
    /\ IF w \in signaled
       THEN Become(w, "out") /\ UNCHANGED _writerQueue
       ELSE Become(w, "waiting") /\ _writerQueue' = Enqueued(_writerQueue, w)
    /\ UNCHANGED <<_readers, _writer, _upgradeable, _readerQueue>>

Loop(h) ==
    \/ h \in AllReaders /\ (TakeRead(h) \/ WaitToRead(h))
    \/ h \in AllWriters /\ (RejectWriter(h) \/ TakeWrite(h) \/ WaitToWrite(h))

\* lock(cancelable), with a cancelable that is not signaled; upgrade() locks a writer
\* created by an upgradeable reader that has the lock.
Lock(h) ==
    /\ phase[h] = "out"
    /\ h \in AllWriters \ Writers => CallsUpgrade /\ UpgradeableOf(h) \in _readers
    /\ Loop(h)
    /\ UNCHANGED <<jobs, signaled>>

\* A wait() was resolved: its loop goes round.
Resume ==
    /\ jobs # <<>>
    /\ Loop(Head(jobs))
    /\ jobs' = Tail(jobs)
    /\ signaled' = signaled \ {Head(jobs)}

\* The cancelable is signaled while the handle waits, or between the resolution of
\* its wait() and the microtask that goes on with it.
Cancel(h) ==
    \/ /\ \/ /\ h \in Waiting(_readerQueue)
             /\ _readerQueue' = Canceled(_readerQueue, h)
             /\ UNCHANGED _writerQueue
          \/ /\ h \in Waiting(_writerQueue)
             /\ _writerQueue' = Canceled(_writerQueue, h)
             /\ UNCHANGED _readerQueue
       /\ Become(h, "out")
       /\ UNCHANGED <<_readers, _writer, _upgradeable, jobs, signaled>>
    \/ /\ h \in Waiting(jobs) \ signaled
       /\ signaled' = signaled \cup {h}
       /\ UNCHANGED <<_readers, _writer, _upgradeable, _readerQueue, _writerQueue, jobs, phase>>

-----------------------------------------------------------------------------
(* _unlockReader and _unlockWriter *)

ResolveWriter ==
    /\ jobs' = Append(jobs, First(_writerQueue))
    /\ _writerQueue' = Dequeued(_writerQueue)
    /\ UNCHANGED _readerQueue

ResolveReaders ==
    /\ jobs' = jobs \o _readerQueue
    /\ _readerQueue' = <<>>
    /\ UNCHANGED _writerQueue

\* Mutant of ProcessLockRequests: one kind of handle is looked at.
ProcessOnlyWriters ==
    IF _readers' = {} /\ _writer' = None /\ _writerQueue # <<>> THEN ResolveWriter
    ELSE UNCHANGED <<_readerQueue, _writerQueue, jobs>>

\* _processLockRequests(), after the handle was taken out: the first writer, or else
\* every reader, is resolved and will see for itself whether it can go on.
ProcessLockRequests ==
    IF _readers' = {} /\ _writer' = None /\ _writerQueue # <<>> THEN ResolveWriter
    ELSE IF _writer' = None /\ _writerQueue = <<>> THEN ResolveReaders
    ELSE UNCHANGED <<_readerQueue, _writerQueue, jobs>>

\* "Cannot unlock an upgraded lock." leaves everything as it is.
UnlockReader(h) ==
    /\ h \in _readers
    /\ ~(h = _upgradeable /\ _writer # None)
    /\ _readers' = _readers \ {h}
    /\ _upgradeable' = IF h = _upgradeable THEN None ELSE _upgradeable
    /\ UNCHANGED _writer
    /\ ProcessLockRequests
    /\ Become(h, "out")
    /\ UNCHANGED signaled

UnlockWriter(w) ==
    /\ _writer = w
    /\ _writer' = None
    /\ UNCHANGED <<_readers, _upgradeable>>
    /\ ProcessLockRequests
    /\ Become(w, "out")
    /\ UNCHANGED signaled

-----------------------------------------------------------------------------
Next == \/ \E h \in Handles : Lock(h) \/ Cancel(h)
        \/ \E h \in AllReaders : UnlockReader(h)
        \/ \E w \in AllWriters : UnlockWriter(w)
        \/ Resume

Upgrading(u) == u \in Upgradeables /\ phase[UpgradedWriter(u)] = "waiting"

\* The event loop runs its jobs, and whoever has the lock unlocks it, an upgradeable
\* reader after the upgrade it asked for.
Fairness == /\ WF_vars(Resume)
            /\ \A h \in AllReaders : WF_vars(~Upgrading(h) /\ UnlockReader(h))
            /\ \A w \in AllWriters : WF_vars(UnlockWriter(w))

Spec == Init /\ [][Next]_vars

FairSpec == Spec /\ Fairness

-----------------------------------------------------------------------------
Holding(S) == {h \in S : phase[h] = "holding"}

\* The types, and that a handle is in one queue or due to go on, once, exactly while
\* its client awaits it.
TypeOK ==
    /\ _readers \subseteq AllReaders
    /\ _writer \in AllWriters \cup {None}
    /\ _upgradeable \in Upgradeables \cup {None}
    /\ _readerQueue \in Seq(AllReaders) /\ _writerQueue \in Seq(AllWriters)
    /\ jobs \in Seq(Handles) /\ signaled \subseteq Waiting(jobs)
    /\ phase \in [Handles -> {"out", "waiting", "holding"}]
    /\ Once(_readerQueue) /\ Once(_writerQueue) /\ Once(jobs)
    /\ Waiting(jobs) \cap (Waiting(_readerQueue) \cup Waiting(_writerQueue)) = {}
    /\ {h \in Handles : phase[h] = "waiting"} =
          Waiting(jobs) \cup Waiting(_readerQueue) \cup Waiting(_writerQueue)

\* What clients have been promised is what the lock has on record, the writer is
\* alone, and the lock knows which of its readers is the upgradeable one.
Exclusion ==
    /\ _readers = Holding(AllReaders)
    /\ Holding(AllWriters) = {_writer} \ {None}
    /\ _writer # None => _readers = {}
    /\ _readers \cap Upgradeables = {_upgradeable} \ {None}

\* As long as no client upgrades, a request waits only while somebody has the lock or
\* a resolved request is about to go on: the wakeup is never lost, whatever was
\* canceled or came in between.
NoLostWakeup ==
    Waiting(_readerQueue) \cup Waiting(_writerQueue) # {} =>
        _readers # {} \/ _writer # None \/ jobs # <<>>

\* From some time on nobody asks for the lock any more.
RequestsStop == <>[][\A h \in Handles : ~Lock(h)]_vars

\* Once the requests stop, everyone who waits gets the lock or is turned away.
EveryoneServed ==
    RequestsStop => \A h \in Handles : phase[h] = "waiting" ~> phase[h] # "waiting"

\* The lock is an AbstractReadersWriter: every call and job is a step of it or none.
Abstract == INSTANCE AbstractReadersWriter WITH Writers <- AllWriters

ImplementsReadersWriter == Abstract!Spec

\* upgrade() is documented to wait for and take a write lock: it ends some time, if
\* all others let go of the lock.
UpgradeEnds ==
    \A u \in Upgradeables : Upgrading(u) ~> ~Upgrading(u)
=============================================================================
