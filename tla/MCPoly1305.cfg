CONSTANTS
    LIMB_BITS = 6
    Keys <- MCKeys
    Chunks <- MCChunks
    R_MASK <- MCRMask
SPECIFICATION BoundedSpec
INVARIANT TypeOK
PROPERTY ImplementsPoly1305Spec
CHECK_DEADLOCK FALSE
