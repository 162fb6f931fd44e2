SPECIFICATION Spec
CONSTANTS
  Word = 128
  Strings <- MCStrings
  Numerals <- MCNumerals
  QuadLists <- AllQuads
  TotalGlobals = 1
  MaxInstructions = 9
  FuncStackSize = 2
  RetListSize = 2
  MaxConsts <- FewConsts
INVARIANTS
  TypeOK
  OpenFunctions
  FlowPreserved
  OutputWellFormed
  OperandsPreserved
