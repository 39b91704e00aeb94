SPECIFICATION DebuggerSpec
CONSTANTS
    Traced = {t1, t2, t3}
    Nobody = Nobody
    MaxDepth = 2
    MaxCount = 2
SYMMETRY Symmetry
INVARIANT LocksAreAccounted
