SPECIFICATION BSpec
CONSTANTS
    a = a
    b = b
    p1 = p1
    t1 = t1
    w1 = w1
    w2 = w2
    None = None
    Users = {a, b}
    Passwords = {p1}
    Tokens = {}
    Workers = {w1}
    InitialStores <- MCInitialStores
    RequestedRoles = {"registered"}
    SMTPConfigured = TRUE
    MaxSessions = 1
    Masters = {a, b}
    MasterPassword = p1
    StoreMayFail = FALSE
INVARIANT ExactlyOneMaster
