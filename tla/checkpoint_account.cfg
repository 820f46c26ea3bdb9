CONSTANTS
    a1 = a1  a2 = a2  b1 = b1  s1 = s1  s2 = s2  k1 = k1  k2 = k2
    None = None
    Creditors = {a1, a2}
    Debtors = {b1}
    Spenders = {s1, s2}
    Checkpointers = {k1, k2}
    MaxPostings = 5

SPECIFICATION Spec
SYMMETRY Symmetry
INVARIANTS CountedOnce LatestShowsEveryLoss ReservationsAreSeen NeverOverspent
