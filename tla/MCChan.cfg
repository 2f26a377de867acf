CONSTANTS
    t1 = t1
    t2 = t2
    c1 = c1
    c2 = c2
    o1 = o1
    Threads <- MCThreads
    Channels <- MCChannels
    Ops <- MCOps
    Garbled = Garbled
    NoThread = NoThread
    NoChan = NoChan
    NoData = NoData
    MaxMsgs = 2

SPECIFICATION Spec
SYMMETRY Symmetry

INVARIANTS
    TypeOK
    MutualExclusion
    NoLockLeaked
    MsgIsCurrent

PROPERTIES
    MailboxSpec
