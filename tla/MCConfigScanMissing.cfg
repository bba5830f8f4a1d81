SPECIFICATION Spec
CONSTANTS
  Nil = Nil
  Disk <- MCDisk
  Directories <- MCDirectories
  Texts <- MCTexts
  TopNames <- MissingTopNames
  MaxDepth = 3
  MaxReads = 2
INVARIANT MissingFileIsReported
CHECK_DEADLOCK FALSE
