SPECIFICATION DocSpec
CONSTANTS
    Quotes = {q1}
    Contracts = {c1}
    Handlers = {h1, h2}
    NoRow = NoRow
    MaxRequests = 5
PROPERTY
    OnlyLegalTransitions
CHECK_DEADLOCK FALSE
