SPECIFICATION FairSpec
CONSTANTS
  Tcc <- MCTcc
  Items <- MCItems
  ItemOf <- MCItemOf
  Count <- MCCount
  InitStock <- MCInitStock
  Conn = {c1, c2}
  None = None
INVARIANTS SeenIsCurrent Conservation NoOversell AnswersDurable
PROPERTIES StockMovesWithReservation StockSpec CallsReturn
