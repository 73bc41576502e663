SPECIFICATION DocSpec
SYMMETRY Swaps
CONSTANTS
    Quotes = {q1, q2, q3}
    Contracts = {c1, c2}
    Handlers = {h1, h2}
    MaxRequests = 7
    NoRow = NoRow
INVARIANTS
    StampsTellPath
    NumbersNeverReused
    RevisionsChained
    ContractFromAccepted
    AmendmentsBounded
CHECK_DEADLOCK FALSE
