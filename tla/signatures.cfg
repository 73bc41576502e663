SPECIFICATION Spec
SYMMETRY Swaps
CONSTANTS
    Quotes = {q1}
    Contracts = {c1}
    Handlers = {h1, h2}
    NoRow = NoRow
    MaxRequests = 3
    Requests = {r1, r2}
    Clerks = {k1, k2}
    MaxVisits = 6
INVARIANTS
    EnvelopePath
    SignedHasEvidence
    SignedDecides
CHECK_DEADLOCK FALSE
