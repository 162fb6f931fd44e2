CONSTANTS
  MaxCalls = 4
  Fragments <- AllFragments
  EarlyBooleans = FALSE
SPECIFICATION Spec
CHECK_DEADLOCK FALSE
INVARIANTS PatchedOnce MeaningPreserved JumpsStayInFunction
