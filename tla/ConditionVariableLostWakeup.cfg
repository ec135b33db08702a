SPECIFICATION FairSpec
CONSTANTS
    Agents = {a1, a2}
PROPERTIES WaitEndsOnceReady
\* All agents may be inside wait() at once: nothing is left to do.
CHECK_DEADLOCK FALSE
