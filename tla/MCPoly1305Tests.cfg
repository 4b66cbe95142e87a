CONSTANTS
    LIMB_BITS = 6
    R_MASK <- MCTestClamp
    Keys <- MCTestKeys
    Chunks <- MCTestChunks
    Blocks1 <- MCBlocks1
    Shorts <- MCShorts
SPECIFICATION TestSpec
INVARIANT TestsPass
CHECK_DEADLOCK FALSE
