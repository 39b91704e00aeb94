CONSTANTS
    nil = nil
    t1 = t1
    t2 = t2
    v1 = v1
    v2 = v2
    c1 = c1
    c2 = c2
    o = o
    k = k
    Threads <- MCThreads
    Objects <- MCObjectsStored
    GOODPOWER = 1
    Slots <- MCSlots
    Nonatomic <- MCNonatomic
    User <- MCUser
    Shared <- MCShared
    Local <- MCLocal
    Owners = {o}
    Classes = {c1, c2}
    Keys = {k}
    Policies <- MCPolicies
    Uses <- MCUses
SPECIFICATION Spec
SYMMETRY Symmetry
INVARIANTS
    CountsAreReferences
    StructsAreWhole
    CopiersDoNotDeadlock
    AssociationsEndWithTheirObject
