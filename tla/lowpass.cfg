SPECIFICATION Spec
CONSTANTS
    Sock = {s1, s2}
    Meta = {m1, m2}
    NoSock = NoSock
    Dsn = {0, 1}
    RingSize = 2
    SkListSize = 2
    DaSize = 1
    MaxWait = 1
    LearnRate = 1
    Percent = 1
    OneSec = 2
    Wrap = 5
    MaxQueue = 2
SYMMETRY Alike
INVARIANT TypeOK
INVARIANT HoldsBriefly
INVARIANT OneSockPerDsn
