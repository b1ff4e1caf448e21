SPECIFICATION FairSpec
CONSTANTS
  Jobs = {j1}
  MaxCrashes = 1
INVARIANTS TypeOK
PROPERTIES ReapsOnlyInactive ResultKept InactiveGoes
CHECK_DEADLOCK FALSE
