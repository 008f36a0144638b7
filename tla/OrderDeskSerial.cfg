SPECIFICATION Spec
CONSTANTS
  o1 = o1
  o2 = o2
  l1 = l1
  l2 = l2
  l3 = l3
  s1 = s1
  s2 = s2
  Orders = {o1, o2}
  Lines = {l1, l2}
  Sessions = {s1}
  Targets = {"shipped", "delivered", "cancelled"}
  Ops = {"create_order", "update_order", "update_order_item_status", "confirm", "reject", "apply", "reapply", "derive_status"}
PROPERTIES
  SerialIsOrderBook
CHECK_DEADLOCK FALSE
