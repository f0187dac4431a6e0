SPECIFICATION Spec
CONSTANTS
    w1 = w1
    w2 = w2
    e1 = e1
    e2 = e2
    s1 = s1
    s2 = s2
    c1 = c1
    c2 = c2
    Worker = {w1, w2}
    Email = {e1, e2}
    Subject = {s1, s2}
    Scene = {"register", "reset_password"}
    CodeValue = {c1, c2}
    AttemptLimit = 2
    SendLimit = 1
    AdminEmails = {e1}
    AllowedEmails = {}
    AllowedDomains = {e1}
    SeedRoles = {"ops"}
    Nothing = Nothing
    MaxCodes = 1
    MaxAccounts = 2
    MaxStates = 1
    MaxFaults = 1
SYMMETRY Symmetric
INVARIANTS
    AccountsAreProven
    GuessesBounded
    CountersExpire
