CONSTANTS
  Word = 8
  Strings <- MCStrings
  Numerals <- MCNumerals
  Fragments <- AllFragments
  Stores <- MCStores
SPECIFICATION Spec
CHECK_DEADLOCK FALSE
INVARIANT MeaningPreserved
