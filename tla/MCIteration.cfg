SPECIFICATION Spec
CONSTANTS
    Values = {0, 1, 2, 3, 4, 5, 6, 7}
    SyncKinds = {}
    Ascending = FALSE
INVARIANTS Means SourcesClosed NothingReadInVain KindsDeclared NodesKeepTheirTree
CHECK_DEADLOCK FALSE
