SPECIFICATION FairSpec
CONSTANTS
  MaxIterations = 3
  MaxNudges = 1
  MaxObligations = 1
  MaxErrors = 2
  MaxTokens = 2
  MaxCost = 2
  RequireAction = FALSE
  Mailbox = 2
  MaxSignals = 2
INVARIANTS TypeOK IterationsBounded OutcomeMatchesState
PROPERTIES TerminalStays RunEnds
