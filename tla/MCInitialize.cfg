SPECIFICATION FairSpec
CONSTANTS
    root = root
    left = left
    leaf = leaf
    right = right
    Classes = {root, left, leaf, right}
    Threads = {t1, t2}
    None = None
    Super <- Hierarchy
    Bodies <- BothPrograms
INVARIANT NeverFatal
INVARIANT OneInitializer
INVARIANT ContiguousSubtree
INVARIANT OthersWait
INVARIANT SleepersAreWoken
PROPERTY AllDispatched
CHECK_DEADLOCK FALSE
