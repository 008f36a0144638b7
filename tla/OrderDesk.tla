------------------------------- MODULE OrderDesk -------------------------------
(***************************************************************************)
(* The order tools as the database runs them: every call is a transaction  *)
(* of a session, READ COMMITTED, statement by statement, with the row      *)
(* locks Postgres takes.  The MCP server of AnythingLLM, Cowork's, the     *)
(* analysis worker and the API are all such sessions.                      *)
(*                                                                         *)
(* ostat, istat, total and journal are the committed rows.  txn[s] is the  *)
(* open transaction of s with its uncommitted writes: ost and oli overlay  *)
(* the committed order row and its lines, NoRow standing for "not          *)
(* written".  Rows a transaction creates for a new order are invisible to  *)
(* everybody else until it commits, so they appear with its commit.        *)
(***************************************************************************)
EXTENDS OrderRows

CONSTANTS Sessions,
          Ops       \* the tools in use, a subset of AllOps

AllOps == {"create_order", "update_order", "update_order_item_status",
           "confirm", "reject", "apply", "reapply", "derive_status"}

ASSUME OpsAssumption == Ops \subseteq AllOps

VARIABLES ostat, istat, total, journal, txn

rows == <<ostat, istat, total, journal>>
vars == <<ostat, istat, total, journal, txn>>

\* The same tools with every call indivisible.
Book == INSTANCE OrderBook

Idle == [pc |-> "idle"]

Steps == {"idle", "write", "insert", "derive", "compare", "store", "sum",
          "set_total", "confirm", "delete", "cascade", "py_derive", "commit"}

Open(s) == txn[s].pc # "idle"
Exists(o) == ostat[o] \in OrderStatus

\* The transaction op on order o, about the lines L (to be set to status to, or
\* to be inserted), standing before step pc.
Begun(op, o, L, to, pc) ==
  [pc |-> pc, op |-> op, ord |-> o, old |-> ostat[o], lines |-> L, to |-> to,
   left |-> L, ost |-> NoRow, oli |-> NoLines, new |-> NoRow,
   summed |-> FALSE, sum |-> {}]

Txn == [pc : Steps \ {"idle"}, op : AllOps, ord : Orders, old : Row,
        lines : SUBSET Lines, to : ItemStatus, left : SUBSET Lines, ost : Row,
        oli : [Lines -> Line], new : OrderStatus \cup {NoRow},
        summed : BOOLEAN, sum : SUBSET Lines]

\* What the transaction itself sees: its own writes over the committed rows.
OrderSeen(t) == IF t.ost = NoRow THEN ostat[t.ord] ELSE t.ost
LinesSeen(t) == [l \in Lines |-> IF t.oli[l] = NoRow THEN istat[t.ord][l] ELSE t.oli[l]]

(* -------------------------------- locks -------------------------------- *)

HoldsOrder(t) == t.ost # NoRow \/ t.summed
\* An inserted line is seen by nobody else, so nobody waits for it.
HoldsLine(t, l) == /\ istat[t.ord][l] # NoRow
                   /\ t.oli[l] # NoRow \/ (t.ost = Deleted /\ t.pc = "commit")
\* Mutant: lines without a foreign key to their order.
HoldsNoKey(t) == FALSE

\* The foreign key of an inserted line keeps its order from being deleted.
HoldsKey(t) == t.op = "update_order" /\ t.left # t.lines

\* DELETE ... WHERE id, and for the rollback of an analysis also WHERE status.
Deletes(t) == /\ t.pc = "delete"
              /\ t.op = "reapply" => ostat[t.ord] \in {"draft", "in_procurement"}

\* The next statement of s waits for a lock of r.
Waits(s, r) ==
  LET t == txn[s]
      u == txn[r]
  IN  /\ s # r /\ Open(s) /\ Open(r) /\ t.ord = u.ord
      /\ \/ t.pc = "write" /\ \E l \in t.lines : HoldsLine(u, l)
         \/ t.pc = "insert" /\ u.ost = Deleted
         \/ t.pc \in {"store", "set_total", "confirm"} /\ HoldsOrder(u)
         \/ Deletes(t) /\ (HoldsOrder(u) \/ HoldsKey(u))
         \/ t.pc = "cascade" /\ \E l \in Lines : HoldsLine(u, l)

At(s, pc) == txn[s].pc = pc /\ \A r \in Sessions : ~Waits(s, r)

(* --------------------------- starting a call --------------------------- *)

TypeOK ==
  /\ ostat \in [Orders -> Row]
  /\ istat \in [Orders -> [Lines -> Line]]
  /\ total \in [Orders -> SUBSET Lines]
  /\ journal \in SUBSET Orders
  /\ txn \in [Sessions -> {Idle} \cup Txn]

Init == Book!Init /\ txn = [s \in Sessions |-> Idle]

Begin(s, op, o, L, to, pc) ==
  /\ op \in Ops
  /\ ~Open(s)
  /\ txn' = [txn EXCEPT ![s] = Begun(op, o, L, to, pc)]
  /\ UNCHANGED rows

\* update_order_item_status looks the line up without a lock.
LookupItem(s, o, l, to) ==
  /\ istat[o][l] \notin {NoRow} \cup IMMUTABLE_ITEM_STATUSES
  /\ Begin(s, "update_order_item_status", o, {l}, to, "write")

\* update_order reads the status once; ids for the new rows come from a sequence,
\* so no two transactions insert the same line.
ReadOrder(s, o, L) ==
  /\ Exists(o) /\ ostat[o] \notin IMMUTABLE_ORDER_STATUSES
  /\ L # {} /\ L \cap PresentIn(istat[o]) = {}
  /\ \A r \in Sessions : Open(r) /\ txn[r].ord = o /\ txn[r].op = "update_order"
                           => L \cap txn[r].lines = {}
  /\ Begin(s, "update_order", o, L, "pending", "insert")

\* verify_draft_order checks that the order is a draft, then decides.
GetDraft(s, o) ==
  /\ ostat[o] = "draft"
  /\ \/ Begin(s, "confirm", o, {}, "pending", "confirm")
     \/ Begin(s, "reject", o, {}, "pending", "delete")

\* apply_analysis_to_customer(force=True) on a chat whose analysis created o.
ListCreated(s, o) ==
  /\ o \in journal
  /\ Begin(s, "reapply", o, {}, "pending", "delete")

\* POST /orders/{id}/derive-status loads the order, then the lines.
LoadOrder(s, o) ==
  /\ Exists(o)
  /\ Begin(s, "derive_status", o, {}, "pending", "py_derive")

\* create_order, and an analysis applied for the first time, write only rows nobody
\* else can see before they commit: one step is as good as many.
CreateOrder(s, o, L) ==
  /\ "create_order" \in Ops /\ ~Open(s)
  /\ Book!CreateOrder(o, L)
  /\ UNCHANGED txn

ApplyFirst(s, lines) ==
  /\ "apply" \in Ops /\ ~Open(s)
  /\ Book!ApplyAnalysis({}, lines)
  /\ UNCHANGED txn

(* ------------------------------ statements ----------------------------- *)

Goto(s, t) == txn' = [txn EXCEPT ![s] = t] /\ UNCHANGED rows

\* After the trigger of one row: the next row, the total, or the commit.
AfterTrigger(t) ==
  IF t.op # "update_order" THEN "commit"
  ELSE IF t.left = {} THEN "sum" ELSE "insert"

\* UPDATE orders_order_item ... WHERE id: the status is not looked at again, and a
\* line that was deleted meanwhile is no error.
WriteItem(s) ==
  LET t == txn[s]
  IN  /\ At(s, "write")
      /\ \E l \in t.lines :
           Goto(s, IF istat[t.ord][l] = NoRow THEN [t EXCEPT !.pc = "commit"]
                   ELSE [t EXCEPT !.oli[l] = t.to, !.pc = "derive"])

\* Mutant: a failed insert is tried again.
InsertRetried(s) ==
  LET t == txn[s]
  IN  /\ At(s, "insert")
      /\ \E l \in t.left :
           Goto(s, IF ~Exists(t.ord) THEN t
                   ELSE [t EXCEPT !.oli[l] = "pending", !.left = @ \ {l},
                                  !.pc = "derive"])

\* INSERT INTO orders_order_item; a missing order violates the foreign key and the
\* call rolls back.
InsertItem(s) ==
  LET t == txn[s]
  IN  /\ At(s, "insert")
      /\ \E l \in t.left :
           Goto(s, IF ~Exists(t.ord) THEN Idle
                   ELSE [t EXCEPT !.oli[l] = "pending", !.left = @ \ {l},
                                  !.pc = "derive"])

\* The trigger: derive from the lines this transaction sees ...
Derive(s) ==
  LET t == txn[s]
  IN  /\ At(s, "derive")
      /\ Goto(s, [t EXCEPT !.new = Triggered(LinesSeen(t)), !.pc = "compare"])

\* ... read the order's status in a statement of its own ...
Compare(s) ==
  LET t == txn[s]
  IN  /\ At(s, "compare")
      /\ Goto(s, [t EXCEPT !.pc = IF OrderSeen(t) = t.new THEN AfterTrigger(t)
                                  ELSE "store"])

\* ... and update it when it differs.
Store(s) ==
  LET t == txn[s]
  IN  /\ At(s, "store")
      /\ Goto(s, IF ~Exists(t.ord) THEN Idle
                 ELSE [t EXCEPT !.ost = t.new, !.pc = AfterTrigger(t)])

\* Mutant: the sum is read by a connection of its own.
SumCommitted(s) ==
  LET t == txn[s]
  IN  /\ At(s, "sum")
      /\ Goto(s, [t EXCEPT !.sum = ActiveIn(istat[t.ord]), !.pc = "set_total"])

SumTotal(s) ==
  LET t == txn[s]
  IN  /\ At(s, "sum")
      /\ Goto(s, [t EXCEPT !.sum = ActiveIn(LinesSeen(t)), !.pc = "set_total"])

\* Mutant: the lines are priced again after the order's total was stored.
SetTotalThenLines(s) ==
  LET t == txn[s]
  IN  /\ At(s, "set_total")
      /\ Goto(s, [t EXCEPT !.summed = TRUE, !.lines = PresentIn(istat[t.ord]),
                           !.pc = "write"])

SetTotal(s) ==
  LET t == txn[s]
  IN  /\ At(s, "set_total")
      /\ Goto(s, [t EXCEPT !.summed = TRUE, !.pc = "commit"])

\* The ORM writes the status of the order it read; no row is an error.
ConfirmOrder(s) ==
  LET t == txn[s]
  IN  /\ At(s, "confirm")
      /\ Goto(s, IF ~Exists(t.ord) THEN Idle
                 ELSE [t EXCEPT !.ost = "confirmed", !.pc = "commit"])

\* DELETE FROM orders_order, then its lines row by row (ON DELETE CASCADE).
DeleteOrder(s) ==
  LET t == txn[s]
  IN  /\ At(s, "delete")
      /\ Goto(s, IF Exists(t.ord) /\ Deletes(t)
                 THEN [t EXCEPT !.ost = Deleted, !.pc = "cascade"]
                 ELSE [t EXCEPT !.pc = "commit"])

CascadeItems(s) ==
  At(s, "cascade") /\ Goto(s, [txn[s] EXCEPT !.pc = "commit"])

\* update_order_status_from_items: no line, no write; no change, no write.
PyDerive(s) ==
  LET t == txn[s]
      S == StatusesOf(istat[t.ord])
  IN  /\ At(s, "py_derive")
      /\ Goto(s, IF S = {} \/ PyDeriveOrderStatus(S) = t.old
                 THEN [t EXCEPT !.pc = "commit"]
                 ELSE [t EXCEPT !.new = PyDeriveOrderStatus(S), !.pc = "store"])

\* The commit publishes the overlay.  That of a forced re-apply also publishes the
\* orders in DOMAIN lines, created after the rollback.
Commit(s, lines) ==
  LET t == txn[s]
      new == DOMAIN lines
  IN  /\ At(s, "commit")
      /\ t.op # "reapply" => new = {}
      /\ \A n \in new : ostat[n] = NoRow
      /\ ostat' = [o \in Orders |-> IF o \in new THEN DraftWith(lines[o])
                                    ELSE IF o = t.ord THEN OrderSeen(t) ELSE ostat[o]]
      /\ istat' = [o \in Orders |-> IF o \in new THEN Inserted(NoLines, lines[o])
                                    ELSE IF o # t.ord THEN istat[o]
                                    ELSE IF t.ost = Deleted THEN NoLines
                                    ELSE LinesSeen(t)]
      /\ total' = [total EXCEPT ![t.ord] = IF t.ost = Deleted THEN {}
                                           ELSE IF t.summed THEN t.sum ELSE @]
      /\ journal' = IF t.op = "reapply" THEN (journal \ {t.ord}) \cup new ELSE journal
      /\ txn' = [txn EXCEPT ![s] = Idle]

\* An exception, a killed process or a lost connection: nothing was written.
Rollback(s) == Open(s) /\ Goto(s, Idle)

\* Postgres breaks a circle of waiters by failing one of them.
DeadlockVictim(s) ==
  /\ \E r \in Sessions : Waits(s, r) /\ Waits(r, s)
  /\ Goto(s, Idle)

Call(s) ==
  \/ \E o \in Orders, l \in Lines, to \in Targets : LookupItem(s, o, l, to)
  \/ \E o \in Orders, L \in SUBSET Lines : ReadOrder(s, o, L) \/ CreateOrder(s, o, L)
  \/ \E o \in Orders : GetDraft(s, o) \/ ListCreated(s, o) \/ LoadOrder(s, o)
  \/ \E o \in Orders : \E lines \in [{o} -> SUBSET Lines] : ApplyFirst(s, lines)

Statement(s) ==
  \/ WriteItem(s) \/ InsertItem(s) \/ Derive(s) \/ Compare(s) \/ Store(s)
  \/ SumTotal(s) \/ SetTotal(s) \/ ConfirmOrder(s) \/ DeleteOrder(s)
  \/ CascadeItems(s) \/ PyDerive(s)
  \/ \E N \in SUBSET Orders : \E lines \in [N -> SUBSET Lines] : Commit(s, lines)

Next == \E s \in Sessions : Call(s) \/ Statement(s) \/ Rollback(s) \/ DeadlockVictim(s)

Spec == Init /\ [][Next]_vars

\* A statement that can run does run; Postgres queues the waiters of a lock, so one
\* that can run again and again is not passed over for ever.
Fairness == \A s \in Sessions : SF_vars(Statement(s)) /\ WF_vars(DeadlockVictim(s))

FairSpec == Spec /\ Fairness

(* ------------------------------ properties ----------------------------- *)

\* Whatever the sessions do at the same time, a draft has no line, an order that
\* is not there has none either (no orphan survives the cascade), and an order
\* without lines is a draft or was confirmed as one.
DraftsHaveNoLine ==
  \A o \in Orders :
    /\ ostat[o] \in {"draft", NoRow, Deleted} => PresentIn(istat[o]) = {}
    /\ PresentIn(istat[o]) = {}
         => ostat[o] \in {"draft", "confirmed", NoRow, Deleted}

\* Every tool locks lines before their order, except that DELETE locks the order
\* first and its lines afterwards: two sessions wait for each other only if one of
\* them is deleting.
CircularWaitsDelete ==
  \A s, r \in Sessions :
    Waits(s, r) /\ Waits(r, s)
      => \E t \in {txn[s], txn[r]} : t.pc = "cascade" /\ t.ost = Deleted

\* Every call comes to its end: no session waits for ever, deadlocks included.
EveryCallEnds == \A s \in Sessions : Open(s) ~> ~Open(s)

\* A single session is the order book: its calls are indivisible.
SerialIsOrderBook == Book!Spec

(* Statements of the documentation that sessions side by side break.       *)

\* "... so the order's status is guaranteed to be consistent" (README.md:172).
StatusDerived == Book!StatusDerived
=============================================================================
