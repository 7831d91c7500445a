SPECIFICATION Spec
CONSTANTS
    w1 = w1
    w2 = w2
    a = a
    b = b
    Worker = {w1, w2}
    Thread = {a, b}
    WorkerOf <- ThreadPerWorker
    Token = {t1}
    NoToken = NoToken
    NoThread = NoThread
    CacheType = "RedisCache"
    SessionTTL = 3
    MaxLag = 1
    FailMax = 2
    ResetTimeout = 2
INVARIANTS
    TypeOK
    EntriesExpire
PROPERTIES
    StaleAdmissionBounded
    ForgottenForGood
    RefusedForACause
    ClientsSeePromise
