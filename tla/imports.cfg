SPECIFICATION Spec
CONSTANTS
    i1 = i1
    i2 = i2
    e1 = e1
    e2 = e2
    p1 = p1
    p2 = p2
    None = None
    Bad = Bad
    Imports <- TwoUploads
    Emails <- TwoEmails
    Phones <- TwoPhones
    Start <- OneRecord
    ByHand <- HandKeys
    Files <- ThreeFiles
    DailyCap = 2
    MaxTries = 2
    MaxFaults = 2
    MaxHand = 1
INVARIANTS
    ImportedOnce
    SettledTable
    TwinsAccounted
    CollisionsAccounted
    NoneStranded
PROPERTY
    ImportsEnd
CHECK_DEADLOCK FALSE
