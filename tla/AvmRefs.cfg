CONSTANTS
  Addresses = {a, b, c}
  Cells = {x, y}
  PlainKeys = {k}
  TableKeys = {a}
  Uses <- MCUses
  Counts = 7
  Scalar = Scalar
  Absent = Absent
SPECIFICATION Spec
INVARIANTS CountsCoverReferences NoDanglingReference OnlyOwnCellIsWild UnreferencedIsFreed
PROPERTY DestructionEnds
