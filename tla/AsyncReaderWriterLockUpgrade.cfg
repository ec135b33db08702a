SPECIFICATION FairSpec
CONSTANTS
    Readers = {r1}
    Upgradeables = {u1}
    Writers = {}
    None = None
    CallsUpgrade = TRUE
PROPERTIES UpgradeEnds
\* An upgrade that nobody can grant leaves nothing to do.
CHECK_DEADLOCK FALSE
