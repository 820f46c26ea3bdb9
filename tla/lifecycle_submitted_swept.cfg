CONSTANTS
    d1 = d1  d2 = d2  c1 = c1  p1 = p1  p2 = p2  w1 = w1  w2 = w2  r1 = r1
    None = None
    Txns = {d1}
    Disbursements = {d1}
    FallbackPayouts = {}
    Providers = {p1}
    Workers = {w1}
    Requests = {r1}
    Amount <- MCAmount
    Funding = 2
    MaxHops = 5
    CodeAttempts = 1
    MaxWrong = 0
    JobAttempts = 1
    Together <- MCTogether
    MaxDeaths = 1

SPECIFICATION FairSpec

PROPERTIES SubmittedIsSwept
