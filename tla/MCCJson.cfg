SPECIFICATION Spec
CONSTANTS
  Names <- MCNames
  Values <- MCValues
  Ids <- MCIds
  StrIds <- MCStrIds
  MaxNodes = 3
  MaxRoots = 2
  MaxLost = 1
  MaxText = 7
  MaxFail = 8
INVARIANTS MemoryIsAccounted CopiesAreEqual ReadsJson
CHECK_DEADLOCK FALSE
VIEW Canonical
