CONSTANTS
    k1 = k1
    k2 = k2
    b1 = b1
    b2 = b2
    Keys <- MCKeys
    Bytes <- MCBytes
    Chunks <- MCChunks
SYMMETRY Symmetry
SPECIFICATION Spec
CONSTRAINT StateBound
INVARIANT DropWipesKeyMaterial
CHECK_DEADLOCK FALSE
