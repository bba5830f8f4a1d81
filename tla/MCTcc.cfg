SPECIFICATION FairSpec
CONSTANTS
  Tcc <- MCTcc
  Items <- MCItems
  ItemOf <- MCItemOf
  Count <- MCCount
  InitStock <- MCInitStock
INVARIANTS NeverSplit FinishedIsSettled NormalOrderHoldsStock SoldWithinStock StuckOnlyByFault
PROPERTIES FollowsDecision ImplementsPurchase EveryPurchaseFinishes
CHECK_DEADLOCK FALSE
