CONSTANTS
    t1 = t1
    t2 = t2
    t3 = t3
    b1 = b1
    b2 = b2
    b3 = b3
    Threads <- MCThreads
    Blocks <- MCBlocks
    Sizes <- MCSizes
    Long = 2
    Prefix = 2
    Width = 32
    Usable <- MCUsable
    MaxMissed = 6

SPECIFICATION Spec

SYMMETRY Symmetry

INVARIANTS
    TypeOK
    Balanced
