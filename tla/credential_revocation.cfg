CONSTANTS
    None = None
    Creds = {c1, c2}
    Desks = {d1, d2}
    Clients = {k1}
    Addresses = {h1}
    Sandbox = TRUE
    RateLimit = 1
    MaxOps = 4
    MaxRequests = 2
    MaxAdvances = 1

SPECIFICATION AccessSpec

INVARIANTS RevocationStands
CHECK_DEADLOCK FALSE
