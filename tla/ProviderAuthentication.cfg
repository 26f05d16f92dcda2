SPECIFICATION Spec
CONSTANTS
    NoSettings = NoSettings
    k1 = k1
    k2 = k2
    Kid = {k1, k2}
    Token <- MCToken
    Verification = {v1, v2}
    NoToken = NoToken
    Interval = 2
    CacheSeconds = 2
    FetchTimeout = 1
    TokenSkew = 0
    Origin = {o1}
    Elsewhere = Elsewhere
    Call = {c1, c2}
    SignIns = 2
    TransactionTtl = 2
    SessionTtl = 2
    MaxAuthnAge = 1
    Epoch = 2
    MaxTime = 5
INVARIANT AdmittedDeploymentsAreSound
INVARIANT SessionsAreBound
INVARIANT HeldKeysServe
PROPERTY KeysAreCurrent
PROPERTY RotationIsSeen
PROPERTY CallsAreAnswered
CHECK_DEADLOCK FALSE
