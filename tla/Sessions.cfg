SPECIFICATION ClientSpec
CONSTANTS
    w1 = w1
    w2 = w2
    u1 = u1
    c1 = c1
    c2 = c2
    Caller = {c1, c2}
    AuthCodes <- BothCodes
    User = {u1}
    Worker = {w1, w2}
    Threshold = 2
    Duration = 1
    MaxCount = 4
    AccessTTL = 1
    Skew = 1
    Grace = 1
    LoginLimit = 2
    Mixes <- FiveMixes
    MaxSessions = 2
    MaxPassword = 2
    MaxSecret = 2
    MaxFaults = 1
SYMMETRY Symmetric
INVARIANTS
    GuessesBounded
    OldPasswordsSessionsEnd
    SecretInUseWasProven
    HeldIsUsable
    ExchangesBounded
PROPERTIES
    LoggedOutStaysOut
    FactorStaysOn
