SPECIFICATION MapSpec
CONSTANTS
    tokenA = tokenA  tokenB = tokenB  tokenLinked = tokenLinked  tokenAll = tokenAll  tokenRace = tokenRace
    Roots = {tokenA, tokenB}
    Linked = {tokenLinked, tokenAll, tokenRace}
    Kind <- MCKind
    Signals <- MCSignals
    Callbacks = {c1, c2}
    Stacks = {s1, s2}  Scopes = {scope1}  Nulls = {null}  Plain = {plain}  Disposable = {d1}
    MaxResources = 2  MaxAdded = 3
    Functions = {f, g}  MaxWraps = 2  MaxEmits = 2
    Readers = {r1, r2}
    Delays = {delay1, delay2}
    Arguments = {f0, f1, f2}  MaxDepth = 3  MaxClears = 2
INVARIANTS KeysAreKeys
\* The map may be at its bounds.
CHECK_DEADLOCK FALSE
