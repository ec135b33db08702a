SPECIFICATION IntervalSpec
CONSTANTS
    Values = {0, 1, 2, 3, 4, 5, 6, 7}
    SyncKinds = {}
    Ascending = TRUE
INVARIANTS OffsetsWithin
CHECK_DEADLOCK FALSE
