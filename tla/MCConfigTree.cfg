SPECIFICATION Spec
CONSTANTS
  Nil = Nil
  a = a
  b = b
  bad = bad
  h1 = h1
  Inspected = 4
  Ids = {1, 2, 3, 4, 5}
  Chunk = 2
  ValidNames <- MCValid
  IntBits = 4
  LongBits = 7
  FloatBits = 2
  DoubleBits = 5
  Names <- MCNames
  Hooks = {h1}
  AddTypes <- MCTypes
  Inputs <- MCInputs
INVARIANTS
  TreeIntact
  NoSilentTruncation
PROPERTIES
  FailedCallsChangeNothing
  HooksGoWithTheirSettings
  OnlyAddMixesArrays
VIEW Canonical
