SPECIFICATION RSpec
CONSTANTS
    mod = mod
    user = user
    p1 = p1
    p2 = p2
    t1 = t1
    w1 = w1
    w2 = w2
    None = None
    Users = {mod, user}
    Passwords = {p1, p2}
    Tokens = {t1}
    Workers = {w1, w2}
    InitialStores <- MCInitialStores
    RequestedRoles = {"member", "subscriber"}
    SMTPConfigured = TRUE
    MaxSessions = 1
PROPERTY WebhookPromotes
