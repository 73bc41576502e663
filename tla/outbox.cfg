SPECIFICATION FairSpec
CONSTANTS
  e1 = e1
  e2 = e2
  e3 = e3
  w1 = w1
  w2 = w2
  NoEvent = NoEvent
  Events <- ThreeEvents
  Workers <- TwoSweeps
  NumSubscribers = 2
  Unknown <- JustE2
  Unparsable <- JustE3
  MaxAttempts = 2
  BatchSize = 2
  LastRecord = 0
  MaxTime = 3
  MaxLost = 1
INVARIANTS
  ProcessedMeansHandled
  DispatchesAccounted
PROPERTIES
  SettledIsFinal
  DeliverySpec
  EventuallySettled
CHECK_DEADLOCK FALSE
