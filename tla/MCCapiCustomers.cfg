\* Two requests at a time, on two processes
SPECIFICATION MCSpec
CONSTANTS
    Procs = {p1, p2}
    Customers = {c1, Other}
    Other = Other
    Digests = {d1, d2}
    Reqs = {r1, r2}
    None = None
    Expiry = 1
    Timeout = 1
SYMMETRY Symmetry
INVARIANT LoginCurrent
INVARIANT UpdateSeen
INVARIANT CreateTruthful
INVARIANT OperatorsExist
