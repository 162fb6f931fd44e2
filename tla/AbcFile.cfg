CONSTANTS
  Programs <- MCPrograms
  ByteSize = 32
  IntLen = 2
  DblLen = 3
  Magic = 165
  StrBuf = 4
SPECIFICATION Spec
CHECK_DEADLOCK FALSE
INVARIANTS ReadBack TruncatedIsPrefix
PROPERTY LoaderEnds
