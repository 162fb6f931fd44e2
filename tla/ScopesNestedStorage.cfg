SPECIFICATION Spec
CONSTANTS
  Names = {"x"}
  Builtins <- NoBuiltins
  MaxSymbols = 5
  MaxDepth = 2
  MaxNesting = 2
INVARIANT OwnStorage
