SPECIFICATION FairSpec
CONSTANTS
    w1 = w1
    w2 = w2
    a = a
    b = b
    Worker = {w1}
    Thread = {a, b}
    WorkerOf <- SameWorker
    Token = {t1}
    NoToken = NoToken
    NoThread = NoThread
    CacheType = "SimpleCache"
    SessionTTL = 2
    MaxLag = 1
    FailMax = 2
    ResetTimeout = 3
INVARIANTS
    OneCallPerWorker
    IndInv
PROPERTIES
    CallPolicyHolds
    WorkerAnswers
    BreakerRecovers
