CONSTANTS
  lamp = lamp
  rug = rug
  ghost = ghost
  Requests = {r1, r2}
  ProductIds <- MCProductIds
  Products <- MCProducts
  Carts <- MCCarts
  Restocks = {5}
  InitialStock <- MCStock
  PoolSize = 2
  MaxUpdates = 1
SPECIFICATION FairSpec
INVARIANTS
  CheckoutInv
  CommittedOrderIsComplete
  AnswerMatchesOutcome
  WaitsAreResolved
PROPERTIES
  ImplementsLedger
  LockedStockIsStable
  EveryRequestIsAnswered
  CommittedOrderIsProcessed
CHECK_DEADLOCK FALSE
