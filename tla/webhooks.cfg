SPECIFICATION FairSpec
CONSTANTS
  p1 = p1
  j1 = j1
  j2 = j2
  a1 = a1
  a2 = a2
  NoEndpoint = NoEndpoint
  Endpoints <- OneEndpoint
  Jobs <- TwoJobs
  Admins <- TwoAdmins
  WebhookMaxTries = 3
  ArqMaxTries = 2
  DlqTries = 3
  Threshold = 2
  MaxCrashes = 1
  MaxRequests = 2
INVARIANTS  InFlightEndpointExists  DeliveryLogSound  CounterBacked
PROPERTIES  JobsEnd
CHECK_DEADLOCK FALSE
CONSTRAINT Roles
