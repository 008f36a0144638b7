---------------------------- MODULE OrderStatuses ----------------------------
(***************************************************************************)
(* The two status vocabularies of the order book and the two copies of the *)
(* rule that derives an order's status from its lines: the Python function *)
(* app/orders/service.py::derive_order_status and the PL/pgSQL function of *)
(* the same name behind the trigger on orders_order_item (ADR-006).  The   *)
(* rule looks at which statuses occur among the lines, never at how often, *)
(* so both are functions of a set.                                         *)
(***************************************************************************)
EXTENDS Integers

ItemStatus == {"pending", "ordered", "shipped", "at_forwarder",
               "arrived", "delivered", "cancelled"}

OrderStatus == {"draft", "confirmed", "in_procurement", "shipped_by_supplier",
                "received_by_forwarder", "arrived", "delivered", "cancelled"}

IMMUTABLE_ITEM_STATUSES == {"delivered", "cancelled"}
IMMUTABLE_ORDER_STATUSES == {"confirmed", "delivered", "cancelled"}

(* -------------------------- the Python copy ---------------------------- *)

ITEM_STATUS_WEIGHT(s) ==
  CASE s = "pending"      -> 0
    [] s = "ordered"      -> 1
    [] s = "shipped"      -> 2
    [] s = "at_forwarder" -> 3
    [] s = "arrived"      -> 4
    [] s = "delivered"    -> 5
    [] s = "cancelled"    -> 99

ITEM_TO_ORDER_STATUS_MAP(s) ==
  CASE s = "pending"      -> "in_procurement"
    [] s = "ordered"      -> "in_procurement"
    [] s = "shipped"      -> "shipped_by_supplier"
    [] s = "at_forwarder" -> "received_by_forwarder"
    [] s = "arrived"      -> "arrived"
    [] s = "delivered"    -> "delivered"

Earliest(S) ==
  CHOOSE s \in S : \A t \in S : ITEM_STATUS_WEIGHT(s) <= ITEM_STATUS_WEIGHT(t)

\* Raises ValueError on an empty list: callers test for emptiness first.
PyDeriveOrderStatus(S) ==
  LET active == S \ {"cancelled"}
  IN  IF active = {} THEN "cancelled"
      ELSE ITEM_TO_ORDER_STATUS_MAP(Earliest(active))

(* --------------------------- the SQL copy ------------------------------ *)

\* Mutant: labels added later by ALTER TYPE ... ADD VALUE sort last.
EnumPositionAppended(s) ==
  CASE s = "pending"      -> 1
    [] s = "ordered"      -> 2
    [] s = "shipped"      -> 3
    [] s = "delivered"    -> 4
    [] s = "cancelled"    -> 5
    [] s = "at_forwarder" -> 6
    [] s = "arrived"      -> 7

\* A Postgres enum sorts in the order CREATE TYPE lists its labels.
EnumPosition(s) ==
  CASE s = "pending"      -> 1
    [] s = "ordered"      -> 2
    [] s = "shipped"      -> 3
    [] s = "at_forwarder" -> 4
    [] s = "arrived"      -> 5
    [] s = "delivered"    -> 6
    [] s = "cancelled"    -> 7

\* MIN(status) over a non-empty set of statuses.
EnumMin(S) == CHOOSE s \in S : \A t \in S : EnumPosition(s) <= EnumPosition(t)

\* Mutant: the item's status stored as it is, without the map.
DeriveUnmapped(S) ==
  LET active == S \ {"cancelled"}
  IN  CASE active = {} /\ S # {} -> "cancelled"
        [] active = {} /\ S = {} -> "draft"
        [] active # {} -> EnumMin(active)

DeriveOrderStatus(S) ==
  LET active == S \ {"cancelled"}
      least  == EnumMin(active)
  IN  CASE active = {} /\ S # {} -> "cancelled"
        [] active = {} /\ S = {} -> "draft"
        [] active # {} /\ least \in {"pending", "ordered"} -> "in_procurement"
        [] active # {} /\ least = "shipped"      -> "shipped_by_supplier"
        [] active # {} /\ least = "at_forwarder" -> "received_by_forwarder"
        [] active # {} /\ least = "arrived"      -> "arrived"
        [] active # {} /\ least = "delivered"    -> "delivered"
=============================================================================
