SPECIFICATION Spec
CONSTANTS
    Quotes = {q1}
    Contracts = {c1}
    Handlers = {h1}
    NoRow = NoRow
    MaxRequests = 3
    Requests = {r1}
    Clerks = {k1, k2}
    MaxVisits = 4
PROPERTY
    TerminalStays
CHECK_DEADLOCK FALSE
