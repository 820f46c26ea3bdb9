CONSTANTS
    s1 = s1  s2 = s2  n1 = n1  a1 = a1  k1 = k1  h1 = h1  h2 = h2  ev = ev
    None = None
    Slots = {s1, s2}
    Kinds = {"notification.deliver", "sweep.tick"}
    Recurring = {"sweep.tick"}
    Keyed = {"sweep.tick"}
    Subjects = {n1}
    Deliveries = {n1}
    MaxAttempts <- MCMaxAttempts
    MaxTries = 2
    MaxJobs = 4
    MaxLosses = 1
    Accounts = {a1}
    Conditions = {k1}
    Callers = {h1, h2}
    Evaluator = ev
    Heard = {"warning", "critical"}
    Failures = 2
    MaxAlerts = 2
    MaxDeaths = 1
    MaxMoves = 4

SPECIFICATION WorkSpec

INVARIANTS PendingIsCarried RetriesHold RecurringKept OrdersStand
PROPERTIES DeliveryConcludes AlertsAreTold
