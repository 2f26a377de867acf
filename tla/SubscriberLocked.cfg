CONSTANTS
    redis = redis
    app1 = app1
    app2 = app2
    o1 = o1
    RedisThread = redis
    AppThreads <- MCTwoApps
    Channels <- MCChannels
    Pushed <- MCChannels
    Ops <- MCOps
    Garbled = Garbled
    NoThread = NoThread
    NoData = NoData
    Discipline = "locked"
    MaxQueue = 2

SPECIFICATION Spec
SYMMETRY Symmetry

CHECK_DEADLOCK FALSE

PROPERTY
    ChanSpec
