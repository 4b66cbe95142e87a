CONSTANTS
    LIMB_BITS = 6
    Keys <- MCKeys
    Chunks <- MCHeadroomChunks
    R_MASK <- MCRMask
SPECIFICATION BoundedSpec
INVARIANT Headroom
CHECK_DEADLOCK FALSE
