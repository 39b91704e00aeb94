SPECIFICATION Spec
CONSTANTS
    sup = sup
    sub = sub
    s1 = s1
    s2 = s2
    None = None
    Classes = {sup, sub}
    Sels = {s1, s2}
    Threads = {t1, t2}
    Caches = {k1, k2, k3, k4}
    Super <- Hierarchy
    HASH <- LastSlot
    Methods <- OnlyS1
    InitSize = 2
    MaxVersion = 1
    Threshold = 1
SYMMETRY Symmetry
INVARIANT DispatchesCurrent
INVARIANT CachesAreCurrent
INVARIANT CachesAreSound
INVARIANT ReadsNoFreedCache
