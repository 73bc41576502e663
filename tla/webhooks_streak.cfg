SPECIFICATION DocsSpec
CONSTANTS
  p1 = p1
  j1 = j1
  j2 = j2
  a1 = a1
  a2 = a2
  NoEndpoint = NoEndpoint
  Endpoints <- OneEndpoint
  Jobs <- TwoJobs
  Admins <- NoAdmin
  WebhookMaxTries = 3
  ArqMaxTries = 2
  DlqTries = 3
  Threshold = 2
  MaxCrashes = 0
  MaxRequests = 0
INVARIANTS  StreakPauses
CHECK_DEADLOCK FALSE
