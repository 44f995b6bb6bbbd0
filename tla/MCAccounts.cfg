SPECIFICATION MCSpec
CONSTANTS
    u1 = u1
    u2 = u2
    p1 = p1
    p2 = p2
    t1 = t1
    w1 = w1
    w2 = w2
    None = None
    Users = {u1, u2}
    Passwords = {p1, p2}
    Tokens = {t1}
    Workers = {w1, w2}
    InitialStores <- MCInitialStores
    RequestedRoles <- MCRequestedRoles
    SMTPConfigured = TRUE
    MaxSessions = 1
SYMMETRY MCSymmetry
INVARIANTS HTypeOK RoleProvenance PasswordProvenance
