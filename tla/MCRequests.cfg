CONSTANTS
    Key = {k1, k2}
    Req = {r1, r2}
    NoReq = NoReq
    NoKey = NoKey
    TTL = 1
    MaxEntries = 1
    Client = {c1, c2, c3}
    Rate = 2
    Frac = 2
    ClientTTL = 5
    CleanupInterval = 2
    MaxClients = 2
    Call = {m1, m2}
    Token = {t1, t2}
SPECIFICATION MCSpec
INVARIANTS
    StaleBounded
    SingleFlight
    ForgettingIsTimely
    NoSessionLeft
    UsesAreKept
PROPERTIES EveryGetReturns
