SPECIFICATION FairSpec
CONSTANTS
  Routines = {r1}
  Kinds <- MCKinds
  Ids = {1, 2}
  MaxConcurrent = 1
  MaxRoutines = 2
  Callers = {u1}
  MaxLeaks = 1
  MaxWaiting = 1
  MaxCrashes = 1
INVARIANTS TypeOK CounterExact
PROPERTIES SyncNeverRaces RunsEnd DueFires
