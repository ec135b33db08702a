SPECIFICATION ThreadingSpec
CONSTANTS
    Agents = {a1, a2, a3}
    MaxCount = 3
INVARIANTS AllTypeOK MutualExclusion NoLostWakeup SignalConserved NobodySleepsSignaled
           ManualNobodyStranded CountdownExact
PROPERTIES ImplementsLockable LockWins SignalsRelease
           ReturnsWithLock TrueMeansCondition
\* All agents may sleep, or have met the throwing constructor, at once.
CHECK_DEADLOCK FALSE
