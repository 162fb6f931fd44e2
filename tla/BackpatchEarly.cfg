CONSTANTS
  MaxCalls = 4
  Fragments <- OneFragment
  EarlyBooleans = TRUE
SPECIFICATION Spec
CHECK_DEADLOCK FALSE
INVARIANT MeaningPreserved
