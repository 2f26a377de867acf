CONSTANTS
    app1 = app1
    app2 = app2
    k1 = k1
    k2 = k2
    text1 = text1
    bytes1 = bytes1
    Callers <- MCCallers
    Keys <- MCKeys
    Texts <- MCTexts
    Ints <- MCWide
    Messages <- MCMessages
    Cut <- MCCut
    Number <- MCNumber
    NoValue = NoValue
    Cleared = Cleared
    NoCommand = NoCommand
    IntBits = 3

SPECIFICATION Spec

PROPERTY
    KeyValueSpec
