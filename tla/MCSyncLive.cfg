SPECIFICATION FairSpec
CONSTANTS
    o1 = o1
    o2 = o2
    Objects = {o1, o2}
    None = None
    Lists <- OneList
    HASH <- HashOneList
    Threads = {t1, t2}
    Blocks = {b1, b2}
    Rank <- O1ThenO2
    MaxLock = 1
    MaxMisuse = 0
PROPERTY ImplementsRecursiveLock
PROPERTY CallsReturn
