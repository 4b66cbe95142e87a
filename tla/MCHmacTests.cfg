CONSTANTS
    k1 = k1
    k2 = k2
    b1 = b1
    b2 = b2
    Keys <- MCKeys
    Bytes <- MCBytes
    Chunks <- MCChunks
SPECIFICATION TestSpec
INVARIANT TestsPass
CHECK_DEADLOCK FALSE
