CONSTANTS
  Products = {p1, p2}
  Sellers = {s1, s2}
  Readers = {b1}
  Writers = {w1, w2}
  MaxLog = 3
SPECIFICATION FairSpec
INVARIANTS
  CatalogInv
  CachedRowIsReal
  StaleOnlyInWindow
  NeverResurrected
  OwnerIsConstant
  ListingIsSnapshot
PROPERTY
  EventuallyFresh
CHECK_DEADLOCK FALSE
