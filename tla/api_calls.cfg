SPECIFICATION FairSpec
CONSTANTS
    Calls = {c1, c2}
    c1 = c1
    c2 = c2
    Uses <- MCUses
    Answering = {c1}
    RefreshStatuses = {200, 501}
INVARIANTS
    TypeOK
    IndInv
    ExpiredIsToldForACause
    ForbiddenIsToldForACause
PROPERTIES
    CallsAreRemoteCalls
    LeavesForACause
    LibCallsSettle
    BrowserCallsSettle
