SPECIFICATION FairHSpec
CONSTANTS
  Word = 128
  StackSize = 31
  Strings <- MCStrings
  Numerals <- MCNumerals
  Inputs <- MCInputs
  Programs <- AllPrograms
INVARIANTS
  TypeOK
  FramesIntact
  FramesDisjoint
  FrameCurrent
  OperandsInFrame
PROPERTIES
  ReturnsToCaller
  LibrarySeesFrame
  ImplementsActivations
  Stops
