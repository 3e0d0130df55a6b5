SPECIFICATION Spec
CONSTANTS
    e1 = e1
    e2 = e2
    e3 = e3
    Emails = {e1, e2, e3}
    Addresses = {a1, a2}
    Users = {u1}
    Requests = {r1, r2}
    Domain <- DomainOf
    GoodDomains <- Good
    None = None
    Allowed = 1
    MaxRequests = 4
    MaxFaults = 1
SYMMETRY Symmetry
CHECK_DEADLOCK FALSE
INVARIANTS TypeOK ServedOncePerCooldown OpenWithinLimit HeldBackMeansMailed OnlyGoodDomains
