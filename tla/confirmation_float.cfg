CONSTANTS
    r1 = r1  r2 = r2  r3 = r3  r4 = r4  r5 = r5  t1 = t1
    p1 = p1  p2 = p2  p3 = p3  p4 = p4  A = A  B = B  x = x  y = y  f1 = f1  f2 = f2  m1 = m1  m2 = m2
    c1 = c1  c2 = c2  c3 = c3  e1 = e1  e2 = e2  i1 = i1  i2 = i2
    None = None
    Requests = {r1, r2}
    Transfers = {}
    Quote <- OneFloatQuotes
    Transfer <- NoTransfers
    Funds <- TwoFunds
    Float <- OneFloat
    ValueCap <- TwoCaps
    Closing = {}
    MaxInFlight = 2
    Offers <- MCOffers
    Amounts = {3, 20, 29, 31, 51, 60}
    Callers = {c1, c2, c3}
    References = {e1, e2}
    Intents = {i1, i2}
    Unconfirmed = 2

SPECIFICATION SceneSpec

INVARIANTS FloatNeverExceeded
CHECK_DEADLOCK FALSE
