------------------------------- MODULE OrderBook -------------------------------
(***************************************************************************)
(* The order book as its tools present it: orders and their lines in the   *)
(* database, every tool call one indivisible step.  This is what the       *)
(* database holds when nobody else is connected; OrderDesk refines it into *)
(* statements and row locks.                                               *)
(*                                                                         *)
(* Money is abstracted to the set of lines an order's total_price was      *)
(* summed over.                                                            *)
(***************************************************************************)
EXTENDS OrderRows

VARIABLES ostat,    \* orders_order.status
          istat,    \* orders_order_item.status, per order and line
          total,    \* the lines orders_order.total_price was summed over
          journal   \* orders listed in analysis_created_entities

vars == <<ostat, istat, total, journal>>

Exists(o) == ostat[o] \in OrderStatus

TypeOK ==
  /\ ostat \in [Orders -> Row]
  /\ istat \in [Orders -> [Lines -> Line]]
  /\ total \in [Orders -> SUBSET Lines]
  /\ journal \in SUBSET Orders

Init ==
  /\ ostat = [o \in Orders |-> NoRow]
  /\ istat = [o \in Orders |-> NoLines]
  /\ total = [o \in Orders |-> {}]
  /\ journal = {}

(* ------------------------------ operations ----------------------------- *)

\* create_order: the row is inserted as confirmed, each inserted line fires the
\* trigger, the total covers every line.
CreateOrder(o, L) ==
  /\ ostat[o] = NoRow
  /\ L # {}
  /\ istat' = [istat EXCEPT ![o] = Inserted(NoLines, L)]
  /\ ostat' = [ostat EXCEPT ![o] = Triggered(Inserted(NoLines, L))]
  /\ total' = [total EXCEPT ![o] = L]
  /\ UNCHANGED journal

\* Mutant: the total of the call's own lines only.
AddItemsOwnTotal(o, L) ==
  /\ Exists(o)
  /\ ostat[o] \notin IMMUTABLE_ORDER_STATUSES
  /\ L # {} /\ L \cap PresentIn(istat[o]) = {}
  /\ istat' = [istat EXCEPT ![o] = Inserted(istat[o], L)]
  /\ ostat' = [ostat EXCEPT ![o] = Triggered(Inserted(istat[o], L))]
  /\ total' = [total EXCEPT ![o] = L]
  /\ UNCHANGED journal

\* Mutant: lines added to an order in any status.
AddItemsAlways(o, L) ==
  /\ Exists(o)
  /\ L # {} /\ L \cap PresentIn(istat[o]) = {}
  /\ istat' = [istat EXCEPT ![o] = Inserted(istat[o], L)]
  /\ ostat' = [ostat EXCEPT ![o] = Triggered(Inserted(istat[o], L))]
  /\ total' = [total EXCEPT ![o] = ActiveIn(Inserted(istat[o], L))]
  /\ UNCHANGED journal

\* update_order
AddItems(o, L) ==
  /\ Exists(o)
  /\ ostat[o] \notin IMMUTABLE_ORDER_STATUSES
  /\ L # {} /\ L \cap PresentIn(istat[o]) = {}
  /\ istat' = [istat EXCEPT ![o] = Inserted(istat[o], L)]
  /\ ostat' = [ostat EXCEPT ![o] = Triggered(Inserted(istat[o], L))]
  /\ total' = [total EXCEPT ![o] = ActiveIn(Inserted(istat[o], L))]
  /\ UNCHANGED journal

\* Mutant: the lookup also finds delivered and cancelled lines.
SetAnyStatus(o, l, to) ==
  /\ istat[o][l] # NoRow
  /\ istat' = [istat EXCEPT ![o][l] = to]
  /\ ostat' = [ostat EXCEPT ![o] = Triggered([istat[o] EXCEPT ![l] = to])]
  /\ UNCHANGED <<total, journal>>

\* update_order_item_status: any status to any status, backwards included;
\* total_price is left as it was.
SetItemStatus(o, l, to) ==
  /\ istat[o][l] \notin {NoRow} \cup IMMUTABLE_ITEM_STATUSES
  /\ istat' = [istat EXCEPT ![o][l] = to]
  /\ ostat' = [ostat EXCEPT ![o] = Triggered([istat[o] EXCEPT ![l] = to])]
  /\ UNCHANGED <<total, journal>>

\* verify_draft_order, action "confirm"
ConfirmDraft(o) ==
  /\ ostat[o] = "draft"
  /\ ostat' = [ostat EXCEPT ![o] = "confirmed"]
  /\ UNCHANGED <<istat, total, journal>>

\* verify_draft_order, action "reject": the lines go with their order (ON DELETE
\* CASCADE); the journal row has no foreign key and stays.
RejectDraft(o) ==
  /\ ostat[o] = "draft"
  /\ ostat' = [ostat EXCEPT ![o] = Deleted]
  /\ istat' = [istat EXCEPT ![o] = NoLines]
  /\ total' = [total EXCEPT ![o] = {}]
  /\ UNCHANGED journal

\* The orders of J that delete_created_entities removes from the order book.
RolledBack(J) == {o \in J : ostat[o] \in {"draft", "in_procurement"}}

\* apply_analysis_to_customer.  With force, the orders J this analyzer version
\* created from this chat before are rolled back first; then each actionable
\* order n of the extract becomes a draft row and a journal row, with a line for
\* every confidently matched item in lines[n].  total_price stays NULL.
ApplyAnalysis(J, lines) ==
  LET new == DOMAIN lines
      out == RolledBack(J)
  IN  /\ J \subseteq journal
      /\ \A n \in new : ostat[n] = NoRow
      /\ ostat' = [o \in Orders |-> IF o \in new THEN DraftWith(lines[o])
                                     ELSE IF o \in out THEN Deleted ELSE ostat[o]]
      /\ istat' = [o \in Orders |-> IF o \in new THEN Inserted(NoLines, lines[o])
                                     ELSE IF o \in out THEN NoLines ELSE istat[o]]
      /\ total' = [o \in Orders |-> IF o \in out THEN {} ELSE total[o]]
      /\ journal' = (journal \ J) \cup new

\* POST /orders/{id}/derive-status: nothing is written when there is no line.
DeriveEndpoint(o) ==
  /\ Exists(o)
  /\ ostat' = IF StatusesOf(istat[o]) = {} THEN ostat
              ELSE [ostat EXCEPT ![o] = PyDeriveOrderStatus(StatusesOf(istat[o]))]
  /\ UNCHANGED <<istat, total, journal>>

Next ==
  \/ \E o \in Orders, L \in SUBSET Lines :
       CreateOrder(o, L) \/ AddItems(o, L)
  \/ \E o \in Orders, l \in Lines, to \in Targets : SetItemStatus(o, l, to)
  \/ \E o \in Orders : ConfirmDraft(o) \/ RejectDraft(o) \/ DeriveEndpoint(o)
  \/ \E J, N \in SUBSET Orders : \E lines \in [N -> SUBSET Lines] :
       ApplyAnalysis(J, lines)

Spec == Init /\ [][Next]_vars

(* ------------------------------ properties ----------------------------- *)

\* The stored status of an order with lines is the one the application's own
\* function computes from the lines it has now.  README.md:172 promises it of the
\* trigger; the two copies of the rule have to agree for it to hold.
StatusDerived ==
  \A o \in Orders : PresentIn(istat[o]) # {} =>
    ostat[o] = PyDeriveOrderStatus(StatusesOf(istat[o]))

\* A draft is an order without lines, an order without lines is a draft or a draft
\* that was confirmed, and there is no line without its order: what
\* verify_draft_order may delete or confirm never has a line to lose.
DraftIsEmpty ==
  \A o \in Orders :
    /\ ostat[o] \in {"draft", "confirmed", NoRow, Deleted}
         => PresentIn(istat[o]) = {}
    /\ PresentIn(istat[o]) = {}
         => ostat[o] \in {"draft", "confirmed", NoRow, Deleted}

\* Once computed, total_price covers every line that is not cancelled: later
\* status changes and later additions leave no active line outside the total.
TotalCoversActive ==
  \A o \in Orders : total[o] # {} => /\ ActiveIn(istat[o]) \subseteq total[o]
                                     /\ total[o] \subseteq PresentIn(istat[o])

\* "Statuses after which the record must not be mutated" (app/orders/models.py:80):
\* an order in one of them keeps its status, its lines and its total for ever.
\* update_order_item_status never looks at the order's status, so this rests on
\* what the derived status says about the lines.
ImmutableOrdersFrozen ==
  [][\A o \in Orders : ostat[o] \in IMMUTABLE_ORDER_STATUSES =>
       ostat'[o] = ostat[o] /\ istat'[o] = istat[o] /\ total'[o] = total[o]]_vars

\* A delivered or cancelled line changes only by disappearing with its order, and
\* then the order was an analyzer's, taken back by a forced re-apply.
TerminalItemsFrozen ==
  [][\A o \in Orders, l \in Lines :
       istat[o][l] \in IMMUTABLE_ITEM_STATUSES /\ istat'[o][l] # istat[o][l]
         => ostat'[o] = Deleted /\ o \in journal /\ o \notin journal']_vars
=============================================================================
