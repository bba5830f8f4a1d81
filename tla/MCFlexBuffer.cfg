SPECIFICATION Spec
CONSTANTS
  Texts <- MCTexts
  Included <- MCIncluded
  Written <- MCWritten
  YY_BUF_SIZE = 2
  YY_READ_BUF_SIZE = 2
INVARIANT LongestMatchOfTheWhole
PROPERTY WrittenScansAsItsType
