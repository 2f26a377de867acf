CONSTANT
    IntMax <- MCIntMax

SPECIFICATION Spec

INVARIANT
    TestsExact
