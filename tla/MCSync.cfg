SPECIFICATION Spec
CONSTANTS
    o1 = o1
    o2 = o2
    Objects = {o1, o2}
    None = None
    Lists <- OneList
    HASH <- HashOneList
    Threads = {t1, t2, t3}
    Blocks = {b1, b2}
    Rank <- AnyOrder
    MaxLock = 2
    MaxMisuse = 2
SYMMETRY Symmetry
INVARIANT MutualExclusion
INVARIANT OneBlockPerObject
INVARIANT ThreadCountExact
INVARIANT UsedIsCounted
INVARIANT DepthMatchesCache
INVARIANT WaitsOnlyForItsObject
CHECK_DEADLOCK FALSE
