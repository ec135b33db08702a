SPECIFICATION Spec
CONSTANTS
    Handles = {h1, h2, h3}
    None = None
    UsingBlocks = TRUE
INVARIANTS MutualExclusion
