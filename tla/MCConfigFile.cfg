SPECIFICATION RTSpec
CONSTANTS
  Nil = Nil
  a = a
  b = b
  Ids = {1, 2, 3, 4, 5, 6, 7}
  Chunk = 2
  ValidNames <- MCValid
  IntBits = 6
  LongBits = 8
  FloatBits = 5
  DoubleBits = 7
  Tokens <- MCTokens
  MaxTokens = 10
  YYINITDEPTH = 4
  YYMAXDEPTH = 14
  MaxSettings = 4
  BuildTypes <- MCBuildTypes
  Elements <- MCElements
  Semicolons = FALSE
  DefaultHex = FALSE
INVARIANTS
  ParsesTheLanguage
  ActionsFitTheParse
PROPERTY SurvivesTheFile
CHECK_DEADLOCK FALSE
