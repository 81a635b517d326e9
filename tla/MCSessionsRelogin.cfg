CONSTANTS
    Users = {u1}
    RefreshTokens = {t1, t2, t3}
    ResetTokens = {k1, k2}
    Requests = {r1, r2}
    Nobody = Nobody
    NoToken = NoToken
    Ttl = 3
    MaxClock = 3
    MaxSent = 4
    NoCookie = NoCookie
SPECIFICATION ApiSpec
SYMMETRY Symmetry
INVARIANT ForcedReloginEverywhere
CHECK_DEADLOCK FALSE
