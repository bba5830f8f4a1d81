CONSTANTS
  s1 = s1
  s2 = s2
  item1 = item1
  Items = {item1}
  NoEvent = NoEvent
  InitStock <- MCInitStock
  Sagas = {s1, s2}
  ItemOf <- MCItemOf
  Count <- MCCount
  QueueSize = 1
SPECIFICATION FairSpec
INVARIANTS FinishedIsBought CanceledIsUndone AtRestIsWhole StockIsAccounted NeverJammed
PROPERTIES ImplementsPattern EverySagaEnds
CHECK_DEADLOCK FALSE
