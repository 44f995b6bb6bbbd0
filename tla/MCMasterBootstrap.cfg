SPECIFICATION BSpec
CONSTANTS
    a = a
    b = b
    p1 = p1
    t1 = t1
    w1 = w1
    w2 = w2
    None = None
    Users = {a, b}
    Passwords = {p1}
    Tokens = {t1}
    Workers = {w1, w2}
    InitialStores <- MCInitialStores
    RequestedRoles = {"registered"}
    SMTPConfigured = TRUE
    MaxSessions = 1
    Masters = {a, b, None}
    MasterPassword = p1
    StoreMayFail = TRUE
SYMMETRY MCSymmetry
INVARIANTS AtMostOneMaster OnlyConfiguredMaster
PROPERTY BootEstablishesMaster
