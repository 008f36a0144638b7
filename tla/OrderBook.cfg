SPECIFICATION Spec
CONSTANTS
  o1 = o1
  o2 = o2
  l1 = l1
  l2 = l2
  Orders <- MCOrders
  Lines <- MCLines
  Targets = {"pending", "ordered", "shipped", "at_forwarder", "arrived", "delivered", "cancelled"}
SYMMETRY Symmetry
INVARIANTS
  StatusDerived
  DraftIsEmpty
  TotalCoversActive
PROPERTIES
  ImmutableOrdersFrozen
  TerminalItemsFrozen
CHECK_DEADLOCK FALSE
