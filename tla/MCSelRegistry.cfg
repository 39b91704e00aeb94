CONSTANTS
    NULL = NULL
    t1 = t1
    t2 = t2
    Threads <- MCThreads
    Names <- MCNames
    Registered <- MCRegistered
    Asked <- MCAsked
    Batches <- MCBatches
    Bundles = FALSE
    Builtins <- MCBuiltins
    NUM_NONBUILTIN_SELS = 3
SPECIFICATION Spec
SYMMETRY Symmetry
INVARIANTS
    ProbeEnds
PROPERTY
    ImplementsInterning
