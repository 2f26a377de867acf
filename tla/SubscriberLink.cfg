CONSTANTS
    redis = redis
    app = app
    c1 = c1
    c2 = c2
    RedisThread = redis
    AppThreads <- MCApps
    Channels <- MCChannels
    Publish = Publish
    MaxPushes = 1

SPECIFICATION FairSpec

INVARIANTS
    TypeOK
    ReaderServed
    

PROPERTIES
    RecvRecovers
    EveryCommandReturns
    
