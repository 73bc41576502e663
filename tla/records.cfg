SPECIFICATION Spec
CONSTANTS
  r1 = r1
  t1 = t1
  t2 = t2
  sys = sys
  Recs <- OneRow
  Tabs <- TwoTabs
  Starts <- AloneOrSameForm
  System = sys
  MaxCalls = 5
  MaxFaults = 1
INVARIANTS  SameVersionSameContent  LossAccounted  GuessesEnd
CHECK_DEADLOCK FALSE
