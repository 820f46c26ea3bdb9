CONSTANTS
    fc = fc  fd = fd  a1 = a1  a2 = a2  out = out  in = in  sweep = sweep  cash1 = cash1  cash2 = cash2
    topup = topup  grant = grant  fix = fix
    q1 = q1  k1 = k1  i1 = i1  b1 = b1  b2 = b2  w1 = w1  w2 = w2
    c1 = c1  c2 = c2  c3 = c3  a = a  v = v  w = w
    None = None
    Floats = {fc, fd}
    Collecting = fc
    Payments <- MCPayments
    Transfers <- MCTransfers
    Cashouts <- MCCashouts
    Fundings <- MCFundings
    Adjustments <- MCAdjustments
    Overrides = {3}
    Admins = {a1, a2}
    InitialBooks <- MCBooks
    CashoutThreshold = 1
    AdjustmentThreshold = 0
    TargetHours = 8
    MinimumHours = 4
    MaxOperations = 2
    Txns = {q1}
    Conditions = {k1}
    Large = {q1}
    Overcharged = {q1}
    Outcomes = {"succeeded"}
    ReportSteps <- MCSteps
    Imports = {i1}
    Reviewers = {b1, b2}
    Executors = {w1, w2}
    Ahead = {1}
    MaxClock = 1
    MaxRuns = 2
    MaxLosses = 1
    MaxDecisions = 3
    Calls = {c1, c2, c3}
    Asked <- MCAsked
    Nested = {}
    Attempts = 3
    MaxCodes = 2

SPECIFICATION OfficeSpec

INVARIANTS BooksAgree CashoutsHold DiscrepanciesHold CodesServe
PROPERTIES OfficeConcludes
CHECK_DEADLOCK FALSE
