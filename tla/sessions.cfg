SPECIFICATION FairSpec
CONSTANTS
  b1 = b1
  t1 = t1
  t2 = t2
  Gone = Gone
  Browsers <- OneBrowser
  Tabs <- TwoTabs
  BrowserOf <- Together
  MaxCalls = 2
  MaxFaults = 1
  MaxTicks = 1
INVARIANTS  ReuseAccounted  LogoutEnds  OwnSessionKept
PROPERTIES  CallsSettle
CHECK_DEADLOCK FALSE
