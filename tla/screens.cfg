SPECIFICATION Spec
CONSTANTS
  r1 = r1
  r2 = r2
  p1 = p1
  p2 = p2
  Nobody = Nobody
  Pages <- AllPages
  Rows <- TwoRows
  Params <- TwoParams
  MaxActs = 3
INVARIANTS
    OwnChangesShown  FilterShown  NeverTwice  LocksEnd  SavedOnce
    SecretCurrent
CONSTRAINT  WorthIt
SYMMETRY  Swaps
CHECK_DEADLOCK FALSE
