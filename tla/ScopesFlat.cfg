SPECIFICATION Spec
CONSTANTS
  Names <- MCNames
  Builtins <- MCBuiltins
  MaxSymbols = 4
  MaxDepth = 2
  MaxNesting = 1
INVARIANTS
  TypeOK
  OwnStorage
  OwnFrame
PROPERTIES
  FrameHoldsLocals
  TempsAreNew
  ImplementsLexicalScopes
