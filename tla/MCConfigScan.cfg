SPECIFICATION Spec
CONSTANTS
  Nil = Nil
  Disk <- MCDisk
  Directories <- MCDirectories
  Texts <- MCTexts
  TopNames <- MCTopNames
  MaxDepth = 3
  MaxReads = 3
INVARIANTS
  IncludeIsTextual
  ErrorIsInPlace
PROPERTY ReadsEndClean
CHECK_DEADLOCK FALSE
