SPECIFICATION Spec
CONSTANTS
    K = 2
    N = 3
    Ring = 2
    MaxBlocks = 4
    MaxSession = 2
INVARIANTS
    Genuine
    NothingWithheld
PROPERTIES
    InOrder
