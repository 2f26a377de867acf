CONSTANTS
    l1 = l1
    l2 = l2
    n1 = n1
    n2 = n2
    n3 = n3
    n4 = n4
    a1 = a1
    a2 = a2
    b1 = b1
    b2 = b2
    a = a
    b = b
    Names <- MCNames
    Nodes <- MCNodes
    Objects <- MCObjects
    Data <- MCData
    Content <- MCContent
    Null = Null
    HasDup = TRUE

SPECIFICATION Spec

SYMMETRY Symmetry

INVARIANTS
    TypeOK
    WellLinked
    IndexBothEnds
    IterComplete
    ValuesHeld

PROPERTY
    ListsSpec
