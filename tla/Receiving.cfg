SPECIFICATION Spec
CONSTANTS
  c1 = c1
  c2 = c2
  p1 = p1
  p2 = p2
  a = a
  b = b
  r1 = r1
  r2 = r2
  r3 = r3
  r4 = r4
  Purchases = {c1, c2}
  Products = {p1, p2}
  Suppliers = {a, b}
  Receipts = {r1, r2, r3}
  Items <- MCItems
  Costed <- MCCosted
  Currency <- MCCurrency
  SupplierOf <- MCSupplierOf
  Quantities = {1, 2}
  Prices = {95000, 100000, 120000}
  Unit = 100
  MaxAdded = 1
  ResolveCommits = TRUE
SYMMETRY Symmetry
INVARIANTS
  QuantityConserved
  PendingResolvable
  OnePrimaryListing
  ObservedOnce
  CompleteIsDelivered
PROPERTIES
  PriceChangesByDecision
  PriceWithinRange
CHECK_DEADLOCK FALSE
