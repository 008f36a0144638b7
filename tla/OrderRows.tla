------------------------------- MODULE OrderRows -------------------------------
(***************************************************************************)
(* Orders and their lines as rows: orders_order and orders_order_item, and *)
(* what a statement on the lines makes of them.                            *)
(*                                                                         *)
(* A row that is not there has status NoRow; ids are never reused, so a    *)
(* removed order is Deleted for good.  A line is identified by its order   *)
(* and a line number: no code moves a line to another order.               *)
(***************************************************************************)
EXTENDS OrderStatuses

CONSTANTS Orders,   \* ids of orders
          Lines,    \* line numbers within an order
          Targets   \* item statuses an operator asks for

ASSUME TargetsAssumption == Targets \subseteq ItemStatus

NoRow == "no_row"
Deleted == "deleted"

Row == OrderStatus \cup {NoRow, Deleted}
Line == ItemStatus \cup {NoRow}

StatusesOf(ln) == {ln[l] : l \in Lines} \ {NoRow}
PresentIn(ln) == {l \in Lines : ln[l] # NoRow}
ActiveIn(ln) == {l \in Lines : ln[l] \notin {NoRow, "cancelled"}}
NoLines == [l \in Lines |-> NoRow]

\* The lines of an order after the lines in L were inserted as pending.
Inserted(ln, L) == [l \in Lines |-> IF l \in L THEN "pending" ELSE ln[l]]

\* What trg_order_item_derive_status leaves in orders_order.status.
Triggered(ln) == DeriveOrderStatus(StatusesOf(ln))

\* Mutant: a trigger that does not fire AFTER INSERT.
DraftUntriggered(L) == "draft"

\* An order the analyzer inserts as a draft, after its lines in L were added.
DraftWith(L) == IF L = {} THEN "draft" ELSE Triggered(Inserted(NoLines, L))
=============================================================================
