CONSTANTS
    c1 = c1  c2 = c2  d1 = d1  d2 = d2  k1 = k1  h1 = h1  a0 = a0  b1 = b1  b2 = b2  w1 = w1  w2 = w2
    s1 = s1  s2 = s2  p1 = p1  p2 = p2  p3 = p3  owner = owner  desk = desk  manage = manage  support = support
    r1 = r1  r2 = r2  g1 = g1  t1 = t1  t2 = t2  e1 = e1  n1 = n1  n2 = n2  dp1 = dp1  dp2 = dp2  y1 = y1  y2 = y2
    x1 = x1  x2 = x2  pa = pa  f1 = f1  f2 = f2  plain = plain  padded = padded
    None = None
    Creds = {c1, c2}
    Desks = {d1, d2}
    Clients = {k1}
    Addresses = {h1}
    Sandbox = TRUE
    RateLimit = 1
    MaxOps = 4
    MaxRequests = 2
    MaxAdvances = 1
    Admins = {a0}
    Browsers = {b1, b2}
    Passwords = {w1, w2}
    TotpSecrets = {s1, s2}
    Waived = FALSE
    Failures = 2
    MaxTries = 5
    MaxDeeds = 1
    People = {p1, p2, p3}
    Founders = {p1, p2}
    Roles = {owner, desk}
    Permissions = {manage, support}
    Sensitive = {manage}
    ManageRoles = manage
    Owner = owner
    MaxAsked = 3
    Routes = {r1, r2}
    Grants = {g1}
    GrantRoute <- MCGrantRoute
    Writers = {t1, t2}
    MaxTime = 1
    MaxBegun = 2
    Categories = {e1}
    Groups = {n1, n2}
    Setters = {t1, t2}
    MaxRoutings = 3
    Files = {1, 2, 3}
    AppendOnly = {2, 3}
    Deploys = {dp1, dp2}
    Release <- MCRelease
    Keys = {y1, y2}
    Secrets = {s1}
    MaxChanges = 1
    Rows = {1, 2, 3}
    Page = 1
    MaxInstant = 3
    MaxBegins = 3
    ListRows = {1, 2}
    Searches = {"all", "some"}
    Matching <- MCMatching
    Sizes = {1}
    MaxPage = 2
    MaxFetches = 3
    MaxEdits = 1
    Charted = {1, 2, 3}
    ChartedAs <- MCChartedAs
    Alerts = {"route", "held", "stuck"}
    AlertOf <- MCAlertOf
    Accounts = {pa}
    Since <- MCSince
    Histories <- MCHistories
    Figures <- MCFigures
    Shown = 2
    MinPoint = 2
    MinSample = 2
    LastHour = 3
    MaxMoves = 2
    Forms = {f1, f2}
    Values = {plain, padded}
    Fresh = padded
    Parsed <- MCParsed
    Held = {plain}
    Attempts = 2
    MaxCalls = 3

SPECIFICATION ConsoleSpec
SYMMETRY SameForms

INVARIANTS ServedIsUsable RolesAreAgreed OperatorsAgree DeploymentsHold ShownIsHeld FormsServe
CHECK_DEADLOCK FALSE
