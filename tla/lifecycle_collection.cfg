CONSTANTS
    d1 = d1  d2 = d2  c1 = c1  p1 = p1  p2 = p2  w1 = w1  w2 = w2  r1 = r1
    None = None
    Txns = {c1}
    Disbursements = {}
    FallbackPayouts = {}
    Providers = {p1, p2}
    Workers = {w1}
    Requests = {r1}
    Amount <- MCAmount
    Funding = 0
    MaxHops = 1
    CodeAttempts = 1
    MaxWrong = 0
    JobAttempts = 2
    Together <- MCTogether
    MaxDeaths = 1

SPECIFICATION FairSpec
PROPERTIES AcknowledgedIsConcluded QueuedIsSubmitted ImplementsContract
