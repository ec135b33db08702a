SPECIFICATION FairSpec
CONSTANTS
    Readers = {r1}
    Upgradeables = {u1, u2}
    Writers = {w1, w2}
    None = None
    CallsUpgrade = FALSE
INVARIANTS Exclusion NoLostWakeup
PROPERTIES EveryoneServed ImplementsReadersWriter
