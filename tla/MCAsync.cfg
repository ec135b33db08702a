SPECIFICATION AllSpec
CONSTANTS
    Handles = {h1, h2, h3, h4, h5}
    Tasks = {t1, t2, t3}
    Items = {i1, i2, i3}
    None = None
    UsingBlocks = FALSE
    HasAction = TRUE
    MaxParticipants = 3
    MaxArrivals = 4
    MaxFinishes = 2
    MaxCount = 2
    MaxPermits = 4
    MaxSignals = 3
INVARIANTS AllTypeOK MutualExclusion BarrierPhasesInTurn ItemsDelivered NobodyWaitsInVain
PROPERTIES NoBarging WaitersServed ImplementsLockable
\* Every reader may have been served and every item put.
CHECK_DEADLOCK FALSE
