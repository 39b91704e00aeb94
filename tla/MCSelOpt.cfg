CONSTANTS
    Keys <- MCKeys
    Inputs <- MCInputs
    Hashes <- MCHashes
    NoKey = NoKey
    RETRY_INITKEY = 2
    RETRY_PERFECT = 2
    SCRAMBLE_LEN = 3
    CeilPow2 <- MCCeilPow2
    Upper <- MCUpper
    Lower <- MCLower
    Xor <- MCXor
    Permute <- MCPermute
    Sizes = {1085, 2000}
    Far = {{}, {"of 24"}}
    OverShift <- MCOverShift
    Unlucky = {1, 57, 2, 18}
SPECIFICATION SSpec
INVARIANTS
    IsPerfect
    RetriedSaltIsDistinct
    QueueFits
    FindsExactly
    HashLosesNothing
CHECK_DEADLOCK FALSE
