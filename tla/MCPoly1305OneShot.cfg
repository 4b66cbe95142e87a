CONSTANTS
    LIMB_BITS = 6
    R_MASK <- MCClampMask
    Keys <- MCKeys
    Data <- MCData
    Expected <- MCExpected
SPECIFICATION Spec
INVARIANT OneShotIsMac
CHECK_DEADLOCK FALSE
