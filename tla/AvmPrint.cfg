CONSTANTS
  Tables <- MCTables
  Scalars <- MCScalars
  ArrayKeys <- MCArrayKeys
  Contents <- MCContents
  MaxDepth = 3
SPECIFICATION Spec
CHECK_DEADLOCK FALSE
INVARIANTS TypeOK ShowsEveryPath
PROPERTY PrintEnds
