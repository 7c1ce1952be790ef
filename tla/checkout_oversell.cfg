CONSTANTS
  lamp = lamp
  rug = rug
  ghost = ghost
  Requests = {r1, r2}
  ProductIds <- MCProductIds
  Products <- MCProducts
  Carts <- MCOneLine
  Restocks = {5}
  InitialStock <- MCStock
  PoolSize = 2
  MaxUpdates = 0
SPECIFICATION Spec
INVARIANT StockNonNegative
CHECK_DEADLOCK FALSE
