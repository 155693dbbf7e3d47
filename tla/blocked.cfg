SPECIFICATION FairSpec
CONSTANTS
    Sock = {s1}
    Meta = {m1}
    NoSock = NoSock
    Dsn = {0, 1}
    RingSize = 2
    SkListSize = 1
    DaSize = 2
    MaxWait = 1
    LearnRate = 1
    Percent = 1
    OneSec = 3
    Wrap = 5
    MaxQueue = 2
PROPERTY DoesNotBlock
