CONSTANTS
    redis = redis
    app1 = app1
    app2 = app2
    o1 = o1
    RedisThread = redis
    AppThreads <- MCOneApp
    Channels <- MCChannels
    Pushed <- MCChannels
    Ops <- MCOps
    Garbled = Garbled
    NoThread = NoThread
    NoData = NoData
    Discipline = "locked"
    MaxQueue = 2

SPECIFICATION FairSpec

CHECK_DEADLOCK FALSE

PROPERTY
    EveryMessageDispatched
