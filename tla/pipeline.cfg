SPECIFICATION FairSpec
CONSTANTS
  e1 = e1
  w1 = w1
  p1 = p1
  j1 = j1
  j2 = j2
  j3 = j3
  NoEvent = NoEvent
  NoEndpoint = NoEndpoint
  Events <- OneEvent
  Workers <- OneSweep
  NumSubscribers = 2
  Unknown <- Nobody
  Unparsable <- Nobody
  MaxAttempts = 2
  BatchSize = 1
  LastRecord = 0
  MaxTime = 2
  MaxLost = 1
  Endpoints <- OneEndpoint
  Jobs <- ThreeJobs
  Admins <- Nobody
  WebhookMaxTries = 2
  ArqMaxTries = 1
  DlqTries = 2
  Threshold = 2
  MaxCrashes = 0
  MaxRequests = 0
  FanoutAt = 1
  Platform <- Nobody
  Matching <- AllMatch
INVARIANTS
  DuplicateJobsAccounted
  OnlyCommittedPosted
PROPERTIES
  EveryFitEndpointHears
CHECK_DEADLOCK FALSE
