SPECIFICATION FairSpec
CONSTANTS
    Agents = {a1, a2}
    MaxCount = 1
PROPERTY ReleaseReturns
\* Agents may all sleep in wait().
CHECK_DEADLOCK FALSE
