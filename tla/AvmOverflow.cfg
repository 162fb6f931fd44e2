SPECIFICATION Spec
CONSTANTS
  Word = 128
  StackSize = 26
  Strings <- MCStrings
  Numerals <- MCNumerals
  Inputs <- MCInputs
  Programs <- RecursionPrograms
INVARIANT NeverWild
