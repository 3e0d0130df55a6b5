SPECIFICATION Spec
CONSTANTS
    e1 = e1
    e2 = e2
    Emails = {e1, e2}
    Order <- ListOrder
    PageSize = 1
    Calls = {c1, c2}
    Workers = {w1, w2}
    None = None
    MaxRequests = 2
    MaxFaults = 1
CHECK_DEADLOCK FALSE
INVARIANTS TypeOK AnswersHonest CopiesBounded
PROPERTY NewsletterReaches
