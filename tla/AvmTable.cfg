CONSTANTS
  Word = 8
  Strings <- MCStrings
  Numerals <- MCNumerals
  Keys <- MCKeys
  Elems <- MCElems
  HashSize = 2
  HashNum <- MCHashNum
  HashStr <- MCHashStr
  StrOrder <- MCStrOrder
SPECIFICATION Spec
INVARIANTS OneBucketPerKey LookupsAgree MembersListedOnce PrintDependsOnMap
PROPERTY ImplementsTables
