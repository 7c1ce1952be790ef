CONSTANTS
  lamp = lamp
  k1 = k1
  id1 = id1
  Absent = Absent
  Requests = {r1, r2}
  ProductIds <- MCProducts
  Products <- MCProducts
  Carts <- MCCarts
  Restocks = {5}
  InitialStock <- MCStock
  PoolSize = 1
  MaxUpdates = 0
  Keys = {k1}
  RequestIds = {id1}
  Inputs <- MCInputs
  Faults = {"expiry", "crash", "storeError"}
  MaxFailures = 1
SPECIFICATION PurchaseFairSpec
INVARIANTS
  PurchaseInv
  ConfirmedOrderExists
  SecondPaymentNeedsOverlap
PROPERTIES
  LocksAreGivenBack
  EveryPurchaseIsAnswered
CHECK_DEADLOCK FALSE
