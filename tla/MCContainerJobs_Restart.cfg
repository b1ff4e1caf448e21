SPECIFICATION Spec
CONSTANTS
  Jobs = {j1}
  MaxCrashes = 1
PROPERTY RestartedSurvives
CHECK_DEADLOCK FALSE
