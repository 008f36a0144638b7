---------------------------- MODULE OrderDeskProofs ----------------------------
(* Any number of sessions, orders and lines: the row locks, in the order the tools *)
(* take them, keep drafts without lines, and only a DELETE can be part of a circle *)
(* of two waiters.  A transaction's writes are judged before they are published:   *)
(* what it has written, what it relies on in the committed rows, and what no other *)
(* open transaction may have done meanwhile.  With a single session the statements *)
(* implement the order book.                                                       *)
EXTENDS OrderDesk, OrderRowsProofs

(* ------------------------------ the invariant ---------------------------- *)

\* The steps of each tool.
StepsOf(op) ==
  CASE op = "update_order_item_status" -> {"write", "derive", "compare", "store", "commit"}
    [] op = "update_order" -> {"insert", "derive", "compare", "store", "sum", "set_total", "commit"}
    [] op = "confirm" -> {"confirm", "commit"}
    [] op \in {"reject", "reapply"} -> {"delete", "cascade", "commit"}
    [] op = "derive_status" -> {"py_derive", "store", "commit"}
    [] OTHER -> {}

Removed == {"draft", NoRow, Deleted}

\* What a transaction has written when it stands at a step.
WritesOK(t) ==
  /\ t.pc \in StepsOf(t.op)
  /\ t.pc \in {"write", "confirm", "delete", "py_derive"} => t.ost = NoRow /\ t.oli = NoLines
  /\ t.pc = "cascade" => t.ost = Deleted
  /\ t.ost = Deleted => t.op \in {"reject", "reapply"}
  /\ t.op \in {"reject", "reapply"} => t.ost \in {NoRow, Deleted}
  /\ t.op = "confirm" => t.ost \in {NoRow, "confirmed"}
  /\ t.ost # "draft"
  /\ t.pc \in {"compare", "store"} => t.new \notin Removed
  /\ t.summed => t.op = "update_order" /\ t.pc = "commit"
  /\ t.op \notin {"update_order", "update_order_item_status"} => t.oli = NoLines
  /\ t.op = "update_order_item_status" /\ (t.pc \in {"derive", "compare", "store"} \/ t.ost # NoRow) =>
       PresentIn(t.oli) # {}
  /\ t.op = "update_order" =>
       /\ PresentIn(t.oli) = t.lines \ t.left
       /\ t.left \subseteq t.lines
       /\ t.left = t.lines => t.pc = "insert" /\ t.ost = NoRow

\* What it relies on in the committed rows: its locks keep them as they are.
RowsOK(t) ==
  /\ ostat[t.ord] # NoRow
  /\ t.ost \in OrderStatus => Exists(t.ord)
  /\ t.op = "update_order_item_status" => PresentIn(t.oli) \subseteq PresentIn(istat[t.ord])
  /\ t.op = "update_order" /\ t.left # t.lines =>
       /\ Exists(t.ord)
       /\ t.ost = NoRow /\ t.pc \in {"insert", "sum", "set_total", "commit"}
            => ostat[t.ord] # "draft"
  /\ t.op = "derive_status" /\ (t.pc = "store" \/ t.ost # NoRow) /\ Exists(t.ord) =>
       PresentIn(istat[t.ord]) # {}

\* What two transactions on one order cannot have done both.
Apart(t, u) ==
  /\ ~(HoldsOrder(t) /\ HoldsOrder(u))
  /\ t.ost = Deleted => ~HoldsKey(u) /\ (t.pc = "commit" => u.oli = NoLines)

Inv ==
  /\ TypeOK
  /\ DraftsHaveNoLine
  /\ \A o \in journal : ostat[o] # NoRow
  /\ \A s \in Sessions : Open(s) => WritesOK(txn[s]) /\ RowsOK(txn[s])
  /\ \A s, r \in Sessions :
       s # r /\ Open(s) /\ Open(r) /\ txn[s].ord = txn[r].ord => Apart(txn[s], txn[r])

(* ---------------------------- what is known of it ------------------------ *)

\* An open session has a transaction that is as the invariant says.
LEMMA TxnFacts ==
  ASSUME Inv, NEW s \in Sessions, Open(s)
  PROVE  txn[s] \in Txn /\ WritesOK(txn[s]) /\ RowsOK(txn[s])
<1>1. txn[s] \in {Idle} \cup Txn /\ txn[s] # Idle
  BY DEF Inv, TypeOK, Open, Idle
<1> QED BY <1>1 DEF Inv

\* A transaction is not the absence of one.
LEMMA TxnOpen == ASSUME NEW t \in Txn PROVE t.pc # "idle" /\ t # Idle /\ t.ord \in Orders
BY DEF Txn, Idle

\* Who stands at a step and may take it holds against every other on its order.
LEMMA NoWait ==
  ASSUME NEW pc \in Steps \ {"idle"}, NEW s \in Sessions, At(s, pc),
         NEW r \in Sessions, r # s, Open(r), txn[r].ord = txn[s].ord
  PROVE  /\ pc = "write" => \A l \in txn[s].lines : ~HoldsLine(txn[r], l)
         /\ pc = "insert" => txn[r].ost # Deleted
         /\ pc \in {"store", "set_total", "confirm"} => ~HoldsOrder(txn[r])
         /\ Deletes(txn[s]) => ~HoldsOrder(txn[r]) /\ ~HoldsKey(txn[r])
         /\ pc = "cascade" => \A l \in Lines : ~HoldsLine(txn[r], l)
<1>1. txn[s].pc = pc /\ ~Waits(s, r) /\ Open(s)
  BY DEF At, Open
<1> QED BY <1>1 DEF Waits

\* The lines a transaction sees are the committed ones and those it has written.
LEMMA SeenLines ==
  ASSUME TypeOK, NEW t \in Txn
  PROVE  /\ LinesSeen(t) \in [Lines -> Line] /\ istat[t.ord] \in [Lines -> Line]
         /\ PresentIn(LinesSeen(t)) = PresentIn(istat[t.ord]) \cup PresentIn(t.oli)
<1>1. istat[t.ord] \in [Lines -> Line] /\ t.oli \in [Lines -> Line]
  BY DEF TypeOK, Txn
<1> QED BY <1>1 DEF LinesSeen, PresentIn

(* -------------------- a step of a session that shows nothing ------------- *)

\* A session goes on, or begins, without a row changing for the others.
LEMMA GoesOn ==
  ASSUME Inv, NEW s \in Sessions, NEW t \in Txn, UNCHANGED rows, txn' = [txn EXCEPT ![s] = t],
         WritesOK(t), RowsOK(t),
         \A r \in Sessions : r # s /\ Open(r) /\ txn[r].ord = t.ord
                               => Apart(t, txn[r]) /\ Apart(txn[r], t)
  PROVE  Inv'
<1>1. ostat' = ostat /\ istat' = istat /\ total' = total /\ journal' = journal
  BY DEF rows
<1>2. /\ txn' \in [Sessions -> {Idle} \cup Txn]
      /\ txn'[s] = t /\ \A r \in Sessions : r # s => txn'[r] = txn[r]
  BY DEF Inv, TypeOK
<1>3. TypeOK' /\ DraftsHaveNoLine' /\ \A o \in journal' : ostat'[o] # NoRow
  BY <1>1, <1>2 DEF Inv, TypeOK, DraftsHaveNoLine
<1>4. ASSUME NEW r \in Sessions, Open(r)' PROVE WritesOK(txn'[r]) /\ RowsOK(txn[r])'
  <2>1. CASE r = s
    BY <1>1, <1>2, <2>1 DEF RowsOK, Exists
  <2>2. CASE r # s
    BY <1>1, <1>2, <1>4, <2>2 DEF Inv, Open, RowsOK, Exists
  <2> QED BY <2>1, <2>2
<1>5. ASSUME NEW q \in Sessions, NEW r \in Sessions, q # r, Open(q)', Open(r)',
             txn'[q].ord = txn'[r].ord
      PROVE  Apart(txn'[q], txn'[r])
  <2>1. CASE q # s /\ r # s
    BY <1>2, <1>5, <2>1 DEF Inv, Open
  <2>2. CASE q = s
    BY <1>2, <1>5, <2>2 DEF Open
  <2>3. CASE r = s
    BY <1>2, <1>5, <2>3 DEF Open
  <2> QED BY <2>1, <2>2, <2>3
<1> QED BY <1>3, <1>4, <1>5 DEF Inv, WritesOK, RowsOK, Apart, HoldsOrder, HoldsKey

\* A transaction that ends without a trace.
LEMMA Stops ==
  ASSUME Inv, NEW s \in Sessions, Goto(s, Idle)
  PROVE  Inv'
<1>1. ostat' = ostat /\ istat' = istat /\ total' = total /\ journal' = journal
  BY DEF rows, Goto
<1>2. /\ txn' \in [Sessions -> {Idle} \cup Txn]
      /\ txn'[s] = Idle /\ \A r \in Sessions : r # s => txn'[r] = txn[r]
  BY DEF Inv, TypeOK, Goto
<1>3. TypeOK' /\ DraftsHaveNoLine' /\ \A o \in journal' : ostat'[o] # NoRow
  BY <1>1, <1>2 DEF Inv, TypeOK, DraftsHaveNoLine
<1>4. \A r \in Sessions : Open(r)' => r # s /\ Open(r)
  BY <1>2 DEF Open, Idle
<1>5. ASSUME NEW r \in Sessions, Open(r)' PROVE WritesOK(txn'[r]) /\ RowsOK(txn[r])'
  BY <1>1, <1>2, <1>4, <1>5 DEF Inv, RowsOK, Exists
<1>6. ASSUME NEW q \in Sessions, NEW r \in Sessions, q # r, Open(q)', Open(r)',
             txn'[q].ord = txn'[r].ord
      PROVE  Apart(txn'[q], txn'[r])
  BY <1>2, <1>4, <1>6 DEF Inv
<1> QED BY <1>3, <1>5, <1>6 DEF Inv, WritesOK, RowsOK, Apart, HoldsOrder, HoldsKey

\* A transaction takes a step after which it has no lock it did not have, and lacks none.
LEMMA GoesOnAlike ==
  ASSUME Inv, NEW s \in Sessions, Open(s), NEW t \in Txn, UNCHANGED rows,
         txn' = [txn EXCEPT ![s] = t], WritesOK(t), RowsOK(t),
         t.ord = txn[s].ord, t.ost = txn[s].ost, t.oli = txn[s].oli,
         HoldsOrder(t) <=> HoldsOrder(txn[s]), HoldsKey(t) <=> HoldsKey(txn[s]),
         t.ost = Deleted => t.pc # "commit"
  PROVE  Inv'
<1>1. ASSUME NEW r \in Sessions, r # s, Open(r), txn[r].ord = t.ord
      PROVE  Apart(t, txn[r]) /\ Apart(txn[r], t)
  <2>1. Apart(txn[s], txn[r]) /\ Apart(txn[r], txn[s])
    BY <1>1 DEF Inv
  <2> QED BY <2>1 DEF Apart
<1> QED BY <1>1, GoesOn

(* ---------------------------- calls that begin --------------------------- *)

\* A transaction that has written nothing is apart from every other.
LEMMA NothingWritten ==
  ASSUME NEW t, t.ost = NoRow, t.oli = NoLines, ~t.summed, ~HoldsKey(t), NEW u
  PROVE  Apart(t, u) /\ Apart(u, t)
BY StatusNames DEF Apart, HoldsOrder

\* What Begin leaves is a transaction that has written nothing.
LEMMA Begins ==
  ASSUME Inv, NEW s \in Sessions, NEW op \in AllOps, NEW o \in Orders, NEW L \in SUBSET Lines,
         NEW to \in ItemStatus, NEW pc \in {"write", "insert", "confirm", "delete", "py_derive"},
         pc \in StepsOf(op), op = "update_order" => L # {}, ostat[o] # NoRow,
         Begin(s, op, o, L, to, pc)
  PROVE  Inv'
<1>1. PICK t : t = Begun(op, o, L, to, pc)
  OBVIOUS
<1>2. /\ t.pc = pc /\ t.op = op /\ t.ord = o /\ t.lines = L /\ t.left = L /\ t.ost = NoRow
      /\ t.oli = NoLines /\ t.summed = FALSE
  BY <1>1 DEF Begun
<1>3. t \in Txn
  <2>1. ostat[o] \in Row /\ NoLines \in [Lines -> Line]
    BY NoLinesFacts DEF Inv, TypeOK
  <2>2. pc \in Steps \ {"idle"} /\ NoRow \in Row
    BY DEF Steps, Row
  <2> QED BY <1>1, <2>1, <2>2 DEF Begun, Txn
<1>4. ~HoldsKey(t)
  BY <1>2 DEF HoldsKey
<1>5. WritesOK(t)
  BY <1>2, NoLinesFacts, StatusNames DEF WritesOK, StepsOf
<1>6. RowsOK(t)
  BY <1>2, NoLinesFacts, StatusNames DEF RowsOK
<1>7. UNCHANGED rows /\ txn' = [txn EXCEPT ![s] = t]
  BY <1>1 DEF Begin
<1>8. \A r \in Sessions : Apart(t, txn[r]) /\ Apart(txn[r], t)
  BY <1>2, <1>4, NothingWritten
<1> QED BY <1>3, <1>5, <1>6, <1>7, <1>8, GoesOn

LEMMA LookupItemInv ==
  ASSUME Inv, NEW s \in Sessions, NEW o \in Orders, NEW l \in Lines, NEW to \in Targets,
         LookupItem(s, o, l, to)
  PROVE  Inv'
<1>1. istat[o][l] # NoRow /\ Begin(s, "update_order_item_status", o, {l}, to, "write")
  BY DEF LookupItem
<1>2. ostat[o] # NoRow
  BY <1>1 DEF Inv, DraftsHaveNoLine, PresentIn
<1>3. to \in ItemStatus /\ "update_order_item_status" \in AllOps /\ {l} \in SUBSET Lines
      /\ "write" \in StepsOf("update_order_item_status")
  BY TargetsAssumption DEF AllOps, StepsOf
<1> QED BY <1>1, <1>2, <1>3, Begins

LEMMA ReadOrderInv ==
  ASSUME Inv, NEW s \in Sessions, NEW o \in Orders, NEW L \in SUBSET Lines, ReadOrder(s, o, L)
  PROVE  Inv'
<1>1. /\ ostat[o] # NoRow /\ L # {} /\ "pending" \in ItemStatus /\ "update_order" \in AllOps
      /\ "insert" \in StepsOf("update_order") /\ Begin(s, "update_order", o, L, "pending", "insert")
  BY StatusNames DEF ReadOrder, Exists, AllOps, StepsOf, ItemStatus
<1> QED BY <1>1, Begins

LEMMA GetDraftInv ==
  ASSUME Inv, NEW s \in Sessions, NEW o \in Orders, GetDraft(s, o)
  PROVE  Inv'
<1>1. /\ ostat[o] # NoRow /\ "pending" \in ItemStatus
      /\ {"confirm", "reject"} \subseteq AllOps /\ {} \in SUBSET Lines
      /\ "confirm" \in StepsOf("confirm") /\ "delete" \in StepsOf("reject")
  BY DEF GetDraft, AllOps, StepsOf, ItemStatus, NoRow
<1>2. CASE Begin(s, "confirm", o, {}, "pending", "confirm")
  BY <1>1, <1>2, Begins
<1>3. CASE Begin(s, "reject", o, {}, "pending", "delete")
  BY <1>1, <1>3, Begins
<1> QED BY <1>2, <1>3 DEF GetDraft

LEMMA ListCreatedInv ==
  ASSUME Inv, NEW s \in Sessions, NEW o \in Orders, ListCreated(s, o)
  PROVE  Inv'
<1>1. /\ ostat[o] # NoRow /\ "pending" \in ItemStatus /\ "reapply" \in AllOps
      /\ {} \in SUBSET Lines /\ "delete" \in StepsOf("reapply")
  BY DEF ListCreated, AllOps, StepsOf, ItemStatus, Inv
<1> QED BY <1>1, Begins DEF ListCreated

LEMMA LoadOrderInv ==
  ASSUME Inv, NEW s \in Sessions, NEW o \in Orders, LoadOrder(s, o)
  PROVE  Inv'
<1>1. /\ ostat[o] # NoRow /\ "pending" \in ItemStatus /\ "derive_status" \in AllOps
      /\ {} \in SUBSET Lines /\ "py_derive" \in StepsOf("derive_status")
  BY StatusNames DEF LoadOrder, Exists, AllOps, StepsOf, ItemStatus
<1> QED BY <1>1, Begins DEF LoadOrder

(* ------------------------------- statements ------------------------------ *)

\* The statements on lines: UPDATE of one, and INSERT.
LEMMA WriteItemInv == ASSUME Inv, NEW s \in Sessions, WriteItem(s) PROVE Inv'
<1>1. At(s, "write") /\ Open(s) /\ "write" \in Steps \ {"idle"}
  BY DEF WriteItem, At, Open, Steps
<1>2. PICK t \in Txn : t = txn[s] /\ WritesOK(t) /\ RowsOK(t)
  BY <1>1, TxnFacts
<1>3. PICK l \in t.lines :
        Goto(s, IF istat[t.ord][l] = NoRow THEN [t EXCEPT !.pc = "commit"]
                ELSE [t EXCEPT !.oli[l] = t.to, !.pc = "derive"])
  BY <1>2 DEF WriteItem
<1>4. /\ t.pc = "write" /\ t.op = "update_order_item_status" /\ t.ost = NoRow /\ t.oli = NoLines
      /\ t.summed = FALSE /\ l \in Lines /\ t.to \in ItemStatus
  BY <1>1, <1>2 DEF At, WritesOK, StepsOf, AllOps, Txn
<1>5. CASE istat[t.ord][l] = NoRow
  <2>1. PICK t2 : t2 = [t EXCEPT !.pc = "commit"]
    OBVIOUS
  <2>2. t2 \in Txn /\ t2.pc = "commit" /\ t2.ost = t.ost /\ t2.oli = t.oli /\ t2.summed = t.summed
        /\ t2.ord = t.ord /\ t2.op = t.op /\ t2.left = t.left /\ t2.lines = t.lines
    BY <2>1 DEF Txn, Steps
  <2>3. UNCHANGED rows /\ txn' = [txn EXCEPT ![s] = t2]
    BY <1>3, <1>5, <2>1 DEF Goto
  <2>4. WritesOK(t2)
    BY <1>4, <2>2, StatusNames DEF WritesOK, StepsOf
  <2>5. RowsOK(t2)
    BY <1>2, <1>4, <2>2 DEF RowsOK
  <2>6. (HoldsOrder(t2) <=> HoldsOrder(t)) /\ (HoldsKey(t2) <=> HoldsKey(t)) /\ t2.ost # Deleted
    BY <1>4, <2>2 DEF HoldsOrder, HoldsKey, NoRow, Deleted
  <2> QED BY <1>1, <1>2, <2>2, <2>3, <2>4, <2>5, <2>6, GoesOnAlike
<1>6. CASE istat[t.ord][l] # NoRow
  <2>1. PICK t2 : t2 = [t EXCEPT !.oli[l] = t.to, !.pc = "derive"]
    OBVIOUS
  <2>2. t2 \in Txn /\ t2.pc = "derive" /\ t2.ost = t.ost /\ t2.oli = [NoLines EXCEPT ![l] = t.to]
        /\ t2.summed = t.summed /\ t2.ord = t.ord /\ t2.op = t.op
        /\ t2.left = t.left /\ t2.lines = t.lines
    BY <1>4, <2>1 DEF Txn, Steps, Line
  <2>3. UNCHANGED rows /\ txn' = [txn EXCEPT ![s] = t2]
    BY <1>3, <1>6, <2>1 DEF Goto
  <2>4. PresentIn(t2.oli) = {l}
    BY <1>4, <2>2, StatusNames DEF PresentIn, NoLines
  <2>5. WritesOK(t2)
    BY <1>4, <2>2, <2>4, StatusNames DEF WritesOK, StepsOf
  <2>6. RowsOK(t2)
    BY <1>2, <1>4, <1>6, <2>2, <2>4 DEF RowsOK, PresentIn
  <2>7. ASSUME NEW r \in Sessions, r # s, Open(r), txn[r].ord = t2.ord
        PROVE  Apart(t2, txn[r]) /\ Apart(txn[r], t2)
    <3>1. Apart(txn[r], t)
      BY <1>1, <1>2, <2>2, <2>7 DEF Inv
    <3>2. ~HoldsLine(txn[r], l)
      BY <1>1, <1>2, <2>2, <2>7, NoWait
    <3>3. ~(txn[r].ost = Deleted /\ txn[r].pc = "commit")
      BY <1>6, <2>2, <2>7, <3>2 DEF HoldsLine
    <3>4. ~HoldsOrder(t2) /\ t2.ost # Deleted /\ ~HoldsKey(t2)
      BY <1>4, <2>2 DEF HoldsOrder, HoldsKey, NoRow, Deleted
    <3> QED BY <3>3, <3>4 DEF Apart
  <2> QED BY <1>1, <2>2, <2>3, <2>5, <2>6, <2>7, GoesOn
<1> QED BY <1>5, <1>6

LEMMA InsertItemInv == ASSUME Inv, NEW s \in Sessions, InsertItem(s) PROVE Inv'
<1>1. At(s, "insert") /\ Open(s) /\ "insert" \in Steps \ {"idle"}
  BY DEF InsertItem, At, Open, Steps
<1>2. PICK t \in Txn : t = txn[s] /\ WritesOK(t) /\ RowsOK(t)
  BY <1>1, TxnFacts
<1>3. PICK l \in t.left :
        Goto(s, IF ~Exists(t.ord) THEN Idle
                ELSE [t EXCEPT !.oli[l] = "pending", !.left = @ \ {l}, !.pc = "derive"])
  BY <1>2 DEF InsertItem
<1>4. CASE ~Exists(t.ord)
  BY <1>3, <1>4, Stops
<1>5. CASE Exists(t.ord)
  <2>1. /\ t.pc = "insert" /\ t.op = "update_order" /\ t.ost # Deleted /\ t.summed = FALSE
        /\ l \in Lines /\ t.oli \in [Lines -> Line] /\ t.left \in SUBSET t.lines
        /\ PresentIn(t.oli) = t.lines \ t.left /\ "pending" \in Line /\ t.ost # "draft"
    BY <1>1, <1>2 DEF At, WritesOK, StepsOf, AllOps, Txn, Line, ItemStatus
  <2>2. PICK t2 : t2 = [t EXCEPT !.oli[l] = "pending", !.left = @ \ {l}, !.pc = "derive"]
    OBVIOUS
  <2>3. t2 \in Txn /\ t2.pc = "derive" /\ t2.ost = t.ost /\ t2.oli = [t.oli EXCEPT ![l] = "pending"]
        /\ t2.summed = t.summed /\ t2.ord = t.ord /\ t2.op = t.op
        /\ t2.left = t.left \ {l} /\ t2.lines = t.lines
    BY <2>1, <2>2 DEF Txn, Steps
  <2>4. UNCHANGED rows /\ txn' = [txn EXCEPT ![s] = t2]
    BY <1>3, <1>5, <2>2 DEF Goto
  <2>5. PresentIn(t2.oli) = t2.lines \ t2.left /\ t2.left # t2.lines
    BY <2>1, <2>3, StatusNames DEF PresentIn, NoRow
  <2>6. WritesOK(t2)
    BY <2>1, <2>3, <2>5, StatusNames DEF WritesOK, StepsOf
  <2>7. RowsOK(t2)
    BY <1>2, <1>5, <2>1, <2>3, <2>5 DEF RowsOK
  <2>8. ASSUME NEW r \in Sessions, r # s, Open(r), txn[r].ord = t2.ord
        PROVE  Apart(t2, txn[r]) /\ Apart(txn[r], t2)
    <3>1. Apart(txn[r], t)
      BY <1>1, <1>2, <2>3, <2>8 DEF Inv
    <3>2. txn[r].ost # Deleted
      BY <1>1, <1>2, <2>3, <2>8, NoWait
    <3> QED BY <2>1, <2>3, <3>1, <3>2 DEF Apart, HoldsOrder
  <2> QED BY <1>1, <2>3, <2>4, <2>6, <2>7, <2>8, GoesOn
<1> QED BY <1>4, <1>5

\* The trigger, statement by statement.
LEMMA DeriveInv == ASSUME Inv, NEW s \in Sessions, Derive(s) PROVE Inv'
<1>1. At(s, "derive") /\ Open(s)
  BY DEF Derive, At, Open
<1>2. PICK t \in Txn : t = txn[s] /\ WritesOK(t) /\ RowsOK(t)
  BY <1>1, TxnFacts
<1>3. PICK new : new = Triggered(LinesSeen(t))
  OBVIOUS
<1>4. t.pc = "derive" /\ t.op \in {"update_order", "update_order_item_status"} /\ t.oli \in [Lines -> Line]
  BY <1>1, <1>2 DEF At, WritesOK, StepsOf, AllOps, Txn
<1>5. PresentIn(t.oli) # {}
  BY <1>2, <1>4 DEF WritesOK
<1>6. new \in OrderStatus /\ new # "draft"
  <2>1. TypeOK
    BY DEF Inv
  <2> QED BY <1>3, <1>5, <2>1, SeenLines, TriggeredFacts
<1>7. PICK t2 : t2 = [t EXCEPT !.new = new, !.pc = "compare"]
  OBVIOUS
<1>8. /\ t2 \in Txn /\ t2.pc = "compare" /\ t2.ost = t.ost /\ t2.oli = t.oli /\ t2.summed = t.summed
      /\ t2.ord = t.ord /\ t2.op = t.op /\ t2.left = t.left /\ t2.lines = t.lines /\ t2.new = new
  BY <1>6, <1>7 DEF Txn, Steps
<1>9. UNCHANGED rows /\ txn' = [txn EXCEPT ![s] = t2]
  BY <1>2, <1>3, <1>7 DEF Derive, Goto
<1>10. WritesOK(t2)
  BY <1>2, <1>4, <1>5, <1>6, <1>8, StatusNames DEF WritesOK, StepsOf, Removed
<1>11. RowsOK(t2)
  BY <1>2, <1>4, <1>8 DEF RowsOK
<1>12. (HoldsOrder(t2) <=> HoldsOrder(t)) /\ (HoldsKey(t2) <=> HoldsKey(t))
  BY <1>8 DEF HoldsOrder, HoldsKey
<1> QED BY <1>1, <1>2, <1>8, <1>9, <1>10, <1>11, <1>12, GoesOnAlike

LEMMA CompareInv == ASSUME Inv, NEW s \in Sessions, Compare(s) PROVE Inv'
<1>1. At(s, "compare") /\ Open(s)
  BY DEF Compare, At, Open
<1>2. PICK t \in Txn : t = txn[s] /\ WritesOK(t) /\ RowsOK(t)
  BY <1>1, TxnFacts
<1>3. /\ t.pc = "compare" /\ t.op \in {"update_order", "update_order_item_status"} /\ t.new \notin Removed
      /\ t.ost # Deleted /\ t.summed = FALSE
  BY <1>1, <1>2 DEF At, WritesOK, StepsOf, AllOps, Txn
<1>4. PICK pc : pc = IF OrderSeen(t) = t.new THEN AfterTrigger(t) ELSE "store"
  OBVIOUS
<1>5. /\ pc = "store" \/ (t.op = "update_order_item_status" /\ pc = "commit")
         \/ (t.op = "update_order" /\ pc \in {"sum", "insert"})
      /\ pc # "store" => OrderSeen(t) = t.new
  BY <1>3, <1>4 DEF AfterTrigger
<1>6. PICK t2 : t2 = [t EXCEPT !.pc = pc]
  OBVIOUS
<1>7. /\ t2 \in Txn /\ t2.pc = pc /\ t2.ost = t.ost /\ t2.oli = t.oli /\ t2.summed = t.summed
      /\ t2.ord = t.ord /\ t2.op = t.op /\ t2.left = t.left /\ t2.lines = t.lines /\ t2.new = t.new
  BY <1>5, <1>6 DEF Txn, Steps
<1>8. UNCHANGED rows /\ txn' = [txn EXCEPT ![s] = t2]
  BY <1>2, <1>4, <1>6 DEF Compare, Goto
<1>9. WritesOK(t2)
  BY <1>2, <1>3, <1>5, <1>7 DEF WritesOK, StepsOf
<1>10. RowsOK(t2)
  <2>1. t.ost = NoRow /\ pc # "store" => ostat[t.ord] # "draft"
    BY <1>3, <1>5 DEF OrderSeen, Removed
  <2> QED BY <1>2, <1>3, <1>5, <1>7, <2>1 DEF RowsOK
<1>11. (HoldsOrder(t2) <=> HoldsOrder(t)) /\ (HoldsKey(t2) <=> HoldsKey(t))
  BY <1>7 DEF HoldsOrder, HoldsKey
<1> QED BY <1>1, <1>2, <1>3, <1>7, <1>8, <1>9, <1>10, <1>11, GoesOnAlike

\* Who comes to hold the order's row, and does not delete it, is apart from the others:
\* nobody held it.
LEMMA TakesOrder ==
  ASSUME Inv, NEW pc \in {"store", "set_total", "confirm"}, NEW s \in Sessions, At(s, pc),
         NEW t \in Txn, t.ord = txn[s].ord, t.ost # Deleted,
         NEW r \in Sessions, r # s, Open(r), txn[r].ord = t.ord
  PROVE  Apart(t, txn[r]) /\ Apart(txn[r], t)
<1>1. pc \in Steps \ {"idle"}
  BY DEF Steps
<1>2. ~HoldsOrder(txn[r])
  BY <1>1, NoWait
<1> QED BY <1>2, StatusNames DEF Apart, HoldsOrder, NoRow, Deleted

LEMMA StoreInv == ASSUME Inv, NEW s \in Sessions, Store(s) PROVE Inv'
<1>1. At(s, "store") /\ Open(s)
  BY DEF Store, At, Open
<1>2. PICK t \in Txn : t = txn[s] /\ WritesOK(t) /\ RowsOK(t)
  BY <1>1, TxnFacts
<1>3. /\ t.pc = "store" /\ t.op \in {"update_order", "update_order_item_status", "derive_status"}
      /\ t.new \notin Removed /\ t.summed = FALSE /\ t.new \in OrderStatus
  BY <1>1, <1>2 DEF At, WritesOK, StepsOf, AllOps, Txn, Removed
<1>4. CASE ~Exists(t.ord)
  BY <1>2, <1>4, Stops DEF Store
<1>5. CASE Exists(t.ord)
  <2>1. PICK pc : pc = AfterTrigger(t)
    OBVIOUS
  <2>2. \/ t.op # "update_order" /\ pc = "commit"
        \/ t.op = "update_order" /\ pc \in {"sum", "insert"}
    BY <2>1 DEF AfterTrigger
  <2>3. PICK t2 : t2 = [t EXCEPT !.ost = t.new, !.pc = pc]
    OBVIOUS
  <2>4. /\ t2 \in Txn /\ t2.pc = pc /\ t2.ost = t.new /\ t2.oli = t.oli /\ t2.summed = t.summed
        /\ t2.ord = t.ord /\ t2.op = t.op /\ t2.left = t.left /\ t2.lines = t.lines
    BY <1>3, <2>2, <2>3 DEF Txn, Steps, Row
  <2>5. UNCHANGED rows /\ txn' = [txn EXCEPT ![s] = t2]
    BY <1>2, <1>5, <2>1, <2>3 DEF Store, Goto
  <2>6. WritesOK(t2)
    BY <1>2, <1>3, <2>2, <2>4 DEF WritesOK, StepsOf, Removed
  <2>7. RowsOK(t2)
    BY <1>2, <1>3, <1>5, <2>4 DEF RowsOK, Removed
  <2>8. t2.ost # Deleted
    BY <1>3, <2>4 DEF Removed
  <2> QED BY <1>1, <1>2, <2>4, <2>5, <2>6, <2>7, <2>8, TakesOrder, GoesOn
<1> QED BY <1>4, <1>5

\* The total.
LEMMA SumTotalInv == ASSUME Inv, NEW s \in Sessions, SumTotal(s) PROVE Inv'
<1>1. At(s, "sum") /\ Open(s)
  BY DEF SumTotal, At, Open
<1>2. PICK t \in Txn : t = txn[s] /\ WritesOK(t) /\ RowsOK(t)
  BY <1>1, TxnFacts
<1>3. t.pc = "sum" /\ t.op = "update_order" /\ t.ost # Deleted
  BY <1>1, <1>2 DEF At, WritesOK, StepsOf, AllOps, Txn
<1>4. PICK t2 : t2 = [t EXCEPT !.sum = ActiveIn(LinesSeen(t)), !.pc = "set_total"]
  OBVIOUS
<1>5. /\ t2 \in Txn /\ t2.pc = "set_total" /\ t2.ost = t.ost /\ t2.oli = t.oli /\ t2.summed = t.summed
      /\ t2.ord = t.ord /\ t2.op = t.op /\ t2.left = t.left /\ t2.lines = t.lines
  BY <1>4 DEF Txn, Steps, ActiveIn
<1>6. UNCHANGED rows /\ txn' = [txn EXCEPT ![s] = t2]
  BY <1>2, <1>4 DEF SumTotal, Goto
<1>7. WritesOK(t2)
  BY <1>2, <1>3, <1>5 DEF WritesOK, StepsOf
<1>8. RowsOK(t2)
  BY <1>2, <1>3, <1>5 DEF RowsOK
<1>9. (HoldsOrder(t2) <=> HoldsOrder(t)) /\ (HoldsKey(t2) <=> HoldsKey(t))
  BY <1>5 DEF HoldsOrder, HoldsKey
<1> QED BY <1>1, <1>2, <1>3, <1>5, <1>6, <1>7, <1>8, <1>9, GoesOnAlike

LEMMA SetTotalInv == ASSUME Inv, NEW s \in Sessions, SetTotal(s) PROVE Inv'
<1>1. At(s, "set_total") /\ Open(s)
  BY DEF SetTotal, At, Open
<1>2. PICK t \in Txn : t = txn[s] /\ WritesOK(t) /\ RowsOK(t)
  BY <1>1, TxnFacts
<1>3. t.pc = "set_total" /\ t.op = "update_order" /\ t.ost # Deleted
  BY <1>1, <1>2 DEF At, WritesOK, StepsOf, AllOps, Txn
<1>4. PICK t2 : t2 = [t EXCEPT !.summed = TRUE, !.pc = "commit"]
  OBVIOUS
<1>5. /\ t2 \in Txn /\ t2.pc = "commit" /\ t2.ost = t.ost /\ t2.oli = t.oli /\ t2.summed = TRUE
      /\ t2.ord = t.ord /\ t2.op = t.op /\ t2.left = t.left /\ t2.lines = t.lines
  BY <1>4 DEF Txn, Steps
<1>6. UNCHANGED rows /\ txn' = [txn EXCEPT ![s] = t2]
  BY <1>2, <1>4 DEF SetTotal, Goto
<1>7. WritesOK(t2)
  BY <1>2, <1>3, <1>5 DEF WritesOK, StepsOf
<1>8. RowsOK(t2)
  BY <1>2, <1>3, <1>5 DEF RowsOK
<1> QED BY <1>1, <1>2, <1>3, <1>5, <1>6, <1>7, <1>8, TakesOrder, GoesOn

LEMMA ConfirmOrderInv == ASSUME Inv, NEW s \in Sessions, ConfirmOrder(s) PROVE Inv'
<1>1. At(s, "confirm") /\ Open(s)
  BY DEF ConfirmOrder, At, Open
<1>2. PICK t \in Txn : t = txn[s] /\ WritesOK(t) /\ RowsOK(t)
  BY <1>1, TxnFacts
<1>3. t.pc = "confirm" /\ t.op = "confirm" /\ t.summed = FALSE
  BY <1>1, <1>2 DEF At, WritesOK, StepsOf, AllOps, Txn
<1>4. CASE ~Exists(t.ord)
  BY <1>2, <1>4, Stops DEF ConfirmOrder
<1>5. CASE Exists(t.ord)
  <2>1. PICK t2 : t2 = [t EXCEPT !.ost = "confirmed", !.pc = "commit"]
    OBVIOUS
  <2>2. /\ t2 \in Txn /\ t2.pc = "commit" /\ t2.ost = "confirmed" /\ t2.oli = t.oli
        /\ t2.summed = t.summed /\ t2.ord = t.ord /\ t2.op = t.op
    BY <2>1, StatusNames DEF Txn, Steps, Row
  <2>3. UNCHANGED rows /\ txn' = [txn EXCEPT ![s] = t2]
    BY <1>2, <1>5, <2>1 DEF ConfirmOrder, Goto
  <2>4. WritesOK(t2)
    BY <1>2, <1>3, <2>2 DEF WritesOK, StepsOf, Deleted
  <2>5. RowsOK(t2)
    BY <1>2, <1>3, <1>5, <2>2 DEF RowsOK
  <2>6. t2.ost # Deleted
    BY <2>2 DEF Deleted
  <2> QED BY <1>1, <1>2, <2>2, <2>3, <2>4, <2>5, <2>6, TakesOrder, GoesOn
<1> QED BY <1>4, <1>5

\* DELETE, its cascade, and the endpoint.
LEMMA DeleteOrderInv == ASSUME Inv, NEW s \in Sessions, DeleteOrder(s) PROVE Inv'
<1>1. At(s, "delete") /\ Open(s) /\ "delete" \in Steps \ {"idle"}
  BY DEF DeleteOrder, At, Open, Steps
<1>2. PICK t \in Txn : t = txn[s] /\ WritesOK(t) /\ RowsOK(t)
  BY <1>1, TxnFacts
<1>3. /\ t.pc = "delete" /\ t.op \in {"reject", "reapply"} /\ t.summed = FALSE /\ t.ost = NoRow
      /\ t.oli = NoLines
  BY <1>1, <1>2 DEF At, WritesOK, StepsOf, AllOps, Txn
<1>4. CASE Exists(t.ord) /\ Deletes(t)
  <2>1. PICK t2 : t2 = [t EXCEPT !.ost = Deleted, !.pc = "cascade"]
    OBVIOUS
  <2>2. /\ t2 \in Txn /\ t2.pc = "cascade" /\ t2.ost = Deleted /\ t2.oli = t.oli
        /\ t2.summed = t.summed /\ t2.ord = t.ord /\ t2.op = t.op
    BY <2>1 DEF Txn, Steps, Row
  <2>3. UNCHANGED rows /\ txn' = [txn EXCEPT ![s] = t2]
    BY <1>2, <1>4, <2>1 DEF DeleteOrder, Goto
  <2>4. WritesOK(t2)
    BY <1>2, <1>3, <2>2 DEF WritesOK, StepsOf, Deleted
  <2>5. RowsOK(t2)
    BY <1>2, <1>3, <2>2, StatusNames DEF RowsOK
  <2>6. ASSUME NEW r \in Sessions, r # s, Open(r), txn[r].ord = t2.ord
        PROVE  Apart(t2, txn[r]) /\ Apart(txn[r], t2)
    <3>1. ~HoldsOrder(txn[r]) /\ ~HoldsKey(txn[r])
      BY <1>1, <1>2, <1>4, <2>2, <2>6, NoWait
    <3> QED BY <2>2, <3>1 DEF Apart, HoldsOrder, NoRow, Deleted
  <2> QED BY <1>1, <2>2, <2>3, <2>4, <2>5, <2>6, GoesOn
<1>5. CASE ~(Exists(t.ord) /\ Deletes(t))
  <2>1. PICK t2 : t2 = [t EXCEPT !.pc = "commit"]
    OBVIOUS
  <2>2. /\ t2 \in Txn /\ t2.pc = "commit" /\ t2.ost = t.ost /\ t2.oli = t.oli
        /\ t2.summed = t.summed /\ t2.ord = t.ord /\ t2.op = t.op
        /\ t2.left = t.left /\ t2.lines = t.lines
    BY <2>1 DEF Txn, Steps
  <2>3. UNCHANGED rows /\ txn' = [txn EXCEPT ![s] = t2]
    BY <1>2, <1>5, <2>1 DEF DeleteOrder, Goto
  <2>4. WritesOK(t2)
    BY <1>2, <1>3, <2>2 DEF WritesOK, StepsOf
  <2>5. RowsOK(t2)
    BY <1>2, <1>3, <2>2 DEF RowsOK
  <2>6. (HoldsOrder(t2) <=> HoldsOrder(t)) /\ (HoldsKey(t2) <=> HoldsKey(t)) /\ t2.ost # Deleted
    BY <1>3, <2>2 DEF HoldsOrder, HoldsKey, NoRow, Deleted
  <2> QED BY <1>1, <1>2, <2>2, <2>3, <2>4, <2>5, <2>6, GoesOnAlike
<1> QED BY <1>4, <1>5

LEMMA CascadeItemsInv == ASSUME Inv, NEW s \in Sessions, CascadeItems(s) PROVE Inv'
<1>1. At(s, "cascade") /\ Open(s) /\ "cascade" \in Steps \ {"idle"}
  BY DEF CascadeItems, At, Open, Steps
<1>2. PICK t \in Txn : t = txn[s] /\ WritesOK(t) /\ RowsOK(t)
  BY <1>1, TxnFacts
<1>3. /\ t.pc = "cascade" /\ t.op \in {"reject", "reapply"} /\ t.summed = FALSE /\ t.ost = Deleted
  BY <1>1, <1>2 DEF At, WritesOK, StepsOf, AllOps, Txn
<1>4. PICK t2 : t2 = [t EXCEPT !.pc = "commit"]
  OBVIOUS
<1>5. /\ t2 \in Txn /\ t2.pc = "commit" /\ t2.ost = t.ost /\ t2.oli = t.oli
      /\ t2.summed = t.summed /\ t2.ord = t.ord /\ t2.op = t.op
  BY <1>4 DEF Txn, Steps
<1>6. UNCHANGED rows /\ txn' = [txn EXCEPT ![s] = t2]
  BY <1>2, <1>4 DEF CascadeItems, Goto
<1>7. WritesOK(t2)
  BY <1>2, <1>3, <1>5 DEF WritesOK, StepsOf
<1>8. RowsOK(t2)
  BY <1>2, <1>3, <1>5 DEF RowsOK
<1>9. ASSUME NEW r \in Sessions, r # s, Open(r), txn[r].ord = t2.ord
      PROVE  Apart(t2, txn[r]) /\ Apart(txn[r], t2)
  <2>1. PICK u \in Txn : u = txn[r] /\ WritesOK(u) /\ RowsOK(u)
    BY <1>9, TxnFacts
  <2>2. Apart(t, u) /\ Apart(u, t)
    BY <1>1, <1>2, <1>5, <1>9, <2>1 DEF Inv
  <2>3. \A l \in Lines : istat[t.ord][l] # NoRow => u.oli[l] = NoRow
    BY <1>1, <1>2, <1>5, <1>9, <2>1, NoWait DEF HoldsLine
  <2>4. u.op # "update_order" \/ u.left = u.lines
    BY <1>3, <2>2 DEF Apart, HoldsKey
  <2>5. PresentIn(u.oli) = {}
    <3>1. CASE u.op = "update_order_item_status"
      BY <1>2, <1>5, <1>9, <2>1, <2>3, <3>1 DEF RowsOK, PresentIn
    <3>2. CASE u.op = "update_order"
      BY <2>1, <2>4, <3>2 DEF WritesOK
    <3>3. CASE u.op \notin {"update_order_item_status", "update_order"}
      BY <2>1, <3>3, NoLinesFacts DEF WritesOK
    <3> QED BY <3>1, <3>2, <3>3
  <2>6. u.oli = NoLines
    BY <2>5 DEF PresentIn, NoLines, Txn
  <2>7. Apart(t2, u)
    BY <1>3, <1>5, <2>2, <2>6 DEF Apart, HoldsOrder
  <2>8. u.ost # Deleted
    BY <1>3, <2>2 DEF Apart, HoldsOrder, NoRow, Deleted
  <2> QED BY <1>5, <2>1, <2>2, <2>7, <2>8 DEF Apart, HoldsOrder
<1> QED BY <1>1, <1>5, <1>6, <1>7, <1>8, <1>9, GoesOn

LEMMA PyDeriveInv == ASSUME Inv, NEW s \in Sessions, PyDerive(s) PROVE Inv'
<1>1. At(s, "py_derive") /\ Open(s)
  BY DEF PyDerive, At, Open
<1>2. PICK t \in Txn : t = txn[s] /\ WritesOK(t) /\ RowsOK(t)
  BY <1>1, TxnFacts
<1>3. PICK S : S = StatusesOf(istat[t.ord])
  OBVIOUS
<1>4. t.pc = "py_derive" /\ t.op = "derive_status" /\ t.summed = FALSE /\ t.ost = NoRow
  BY <1>1, <1>2 DEF At, WritesOK, StepsOf, AllOps, Txn
<1>5. CASE S = {} \/ PyDeriveOrderStatus(S) = t.old
  <2>1. PICK t2 : t2 = [t EXCEPT !.pc = "commit"]
    OBVIOUS
  <2>2. /\ t2 \in Txn /\ t2.pc = "commit" /\ t2.ost = t.ost /\ t2.oli = t.oli
        /\ t2.summed = t.summed /\ t2.ord = t.ord /\ t2.op = t.op
        /\ t2.left = t.left /\ t2.lines = t.lines
    BY <2>1 DEF Txn, Steps
  <2>3. UNCHANGED rows /\ txn' = [txn EXCEPT ![s] = t2]
    BY <1>2, <1>3, <1>5, <2>1 DEF PyDerive, Goto
  <2>4. WritesOK(t2)
    BY <1>2, <1>4, <2>2 DEF WritesOK, StepsOf
  <2>5. RowsOK(t2)
    BY <1>2, <1>4, <2>2 DEF RowsOK
  <2>6. (HoldsOrder(t2) <=> HoldsOrder(t)) /\ (HoldsKey(t2) <=> HoldsKey(t)) /\ t2.ost # Deleted
    BY <1>4, <2>2 DEF HoldsOrder, HoldsKey, NoRow, Deleted
  <2> QED BY <1>1, <1>2, <2>2, <2>3, <2>4, <2>5, <2>6, GoesOnAlike
<1>6. CASE ~(S = {} \/ PyDeriveOrderStatus(S) = t.old)
  <2>1. istat[t.ord] \in [Lines -> Line]
    BY DEF Inv, TypeOK, Txn
  <2>2. PICK new : new = PyDeriveOrderStatus(S)
    OBVIOUS
  <2>3. new \in OrderStatus \ {"draft"} /\ PresentIn(istat[t.ord]) # {}
    BY <1>3, <1>6, <2>1, <2>2, StatusesType, DerivationsAgree, DerivedStatus
  <2>4. PICK t2 : t2 = [t EXCEPT !.new = new, !.pc = "store"]
    OBVIOUS
  <2>5. /\ t2 \in Txn /\ t2.pc = "store" /\ t2.ost = t.ost /\ t2.oli = t.oli /\ t2.new = new
        /\ t2.summed = t.summed /\ t2.ord = t.ord /\ t2.op = t.op
        /\ t2.left = t.left /\ t2.lines = t.lines
    BY <2>3, <2>4 DEF Txn, Steps
  <2>6. UNCHANGED rows /\ txn' = [txn EXCEPT ![s] = t2]
    BY <1>2, <1>3, <1>6, <2>2, <2>4 DEF PyDerive, Goto
  <2>7. WritesOK(t2)
    BY <1>2, <1>4, <2>3, <2>5, StatusNames DEF WritesOK, StepsOf, Removed
  <2>8. RowsOK(t2)
    BY <1>2, <1>4, <2>3, <2>5 DEF RowsOK
  <2>9. (HoldsOrder(t2) <=> HoldsOrder(t)) /\ (HoldsKey(t2) <=> HoldsKey(t)) /\ t2.ost # Deleted
    BY <1>4, <2>5 DEF HoldsOrder, HoldsKey, NoRow, Deleted
  <2> QED BY <1>1, <1>2, <2>5, <2>6, <2>7, <2>8, <2>9, GoesOnAlike
<1> QED BY <1>5, <1>6

(* ---------------------------- what is published -------------------------- *)

\* The rows of an order change, but what another transaction relies on stays.
LEMMA RowsStay ==
  ASSUME NEW u \in Txn, RowsOK(u), ostat'[u.ord] # NoRow, Exists(u.ord)' <=> Exists(u.ord),
         Exists(u.ord) /\ ostat[u.ord] # "draft" => ostat'[u.ord] # "draft",
         PresentIn(istat[u.ord]) \subseteq PresentIn(istat'[u.ord])
  PROVE  RowsOK(u)'
BY DEF RowsOK, PresentIn

\* One that has written nothing relies on the order's id only.
LEMMA UnwrittenStay ==
  ASSUME NEW u \in Txn, RowsOK(u), u.ost = NoRow, u.oli = NoLines, ~HoldsKey(u),
         ostat'[u.ord] = Deleted
  PROVE  RowsOK(u)'
BY StatusNames, NoLinesFacts DEF RowsOK, HoldsKey, Exists

\* Rows are published and every session either stays as it was or is idle.
LEMMA Publishes ==
  ASSUME Inv, NEW live \in SUBSET Sessions, TypeOK', DraftsHaveNoLine',
         \A o \in journal' : ostat'[o] # NoRow,
         \A r \in live : Open(r) /\ txn'[r] = txn[r],
         \A r \in Sessions : Open(r)' => r \in live,
         \A r \in live : RowsOK(txn[r])'
  PROVE  Inv'
<1>1. ASSUME NEW r \in Sessions, Open(r)' PROVE WritesOK(txn[r])' /\ RowsOK(txn[r])'
  BY <1>1 DEF Inv, WritesOK
<1>2. ASSUME NEW q \in Sessions, NEW r \in Sessions, q # r, Open(q)', Open(r)',
             txn'[q].ord = txn'[r].ord
      PROVE  Apart(txn[q], txn[r])'
  BY <1>2 DEF Inv, Apart, HoldsOrder, HoldsKey
<1> QED BY <1>1, <1>2 DEF Inv

\* What the commit of a transaction that did not delete leaves of its order.
LEMMA CommitShape ==
  ASSUME Inv, NEW s \in Sessions, NEW t \in Txn, t = txn[s], Open(s), t.pc = "commit",
         t.ost # Deleted
  PROVE  /\ OrderSeen(t) \in Row /\ OrderSeen(t) # NoRow
         /\ OrderSeen(t) \in OrderStatus <=> Exists(t.ord)
         /\ ostat[t.ord] # "draft" => OrderSeen(t) # "draft"
         /\ PresentIn(istat[t.ord]) \subseteq PresentIn(LinesSeen(t))
         /\ OrderSeen(t) \in Removed => PresentIn(LinesSeen(t)) = {}
         /\ PresentIn(LinesSeen(t)) = {} => OrderSeen(t) \in Removed \cup {"confirmed"}
<1>1. WritesOK(t) /\ RowsOK(t) /\ TypeOK
  BY TxnFacts DEF Inv
<1>2. /\ t.op \in {"update_order_item_status", "update_order", "confirm", "reject", "reapply",
                   "derive_status"}
      /\ t.ost \in Row /\ t.ord \in Orders /\ ostat[t.ord] \in Row
  BY <1>1 DEF WritesOK, StepsOf, AllOps, Txn, TypeOK
<1>3. PresentIn(LinesSeen(t)) = PresentIn(istat[t.ord]) \cup PresentIn(t.oli)
  BY <1>1, SeenLines
<1>4. /\ ostat[t.ord] \in Removed => PresentIn(istat[t.ord]) = {}
      /\ PresentIn(istat[t.ord]) = {} => ostat[t.ord] \in Removed \cup {"confirmed"}
  BY <1>2 DEF Inv, DraftsHaveNoLine, Removed
<1>5. CASE t.ost = NoRow
  <2>1. OrderSeen(t) = ostat[t.ord] /\ ostat[t.ord] # NoRow
    BY <1>1, <1>5 DEF OrderSeen, RowsOK
  <2>2. CASE t.op = "update_order"
    <3>1. t.left # t.lines /\ PresentIn(t.oli) # {}
      BY <1>1, <2>2 DEF WritesOK
    <3>2. ostat[t.ord] \notin Removed
      BY <1>1, <1>5, <2>2, <3>1, StatusNames DEF RowsOK, Removed, Exists
    <3> QED BY <1>2, <1>3, <2>1, <3>1, <3>2 DEF Exists
  <2>3. CASE t.op # "update_order"
    <3>1. PresentIn(t.oli) \subseteq PresentIn(istat[t.ord])
      BY <1>1, <1>2, <2>3, NoLinesFacts DEF WritesOK, RowsOK
    <3>2. PresentIn(LinesSeen(t)) = PresentIn(istat[t.ord])
      BY <1>3, <3>1
    <3> QED BY <1>2, <1>4, <2>1, <3>2 DEF Exists
  <2> QED BY <2>2, <2>3
<1>6. CASE t.ost # NoRow
  <2>1. OrderSeen(t) = t.ost /\ t.ost \in OrderStatus /\ t.ost \notin Removed
    BY <1>1, <1>2, <1>6, StatusNames DEF OrderSeen, WritesOK, Row, Removed
  <2>2. Exists(t.ord)
    BY <1>1, <2>1 DEF RowsOK
  <2>3. PresentIn(LinesSeen(t)) = {} => t.ost = "confirmed"
    <3>1. CASE t.op = "confirm"
      BY <1>1, <1>6, <3>1 DEF WritesOK
    <3>2. CASE t.op \in {"update_order", "update_order_item_status"}
      <4>1. PresentIn(t.oli) # {}
        BY <1>1, <1>6, <3>2 DEF WritesOK
      <4> QED BY <1>3, <4>1
    <3>3. CASE t.op = "derive_status"
      BY <1>1, <1>3, <1>6, <2>2, <3>3 DEF RowsOK
    <3>4. CASE t.op \in {"reject", "reapply"}
      BY <1>1, <1>6, <3>4 DEF WritesOK
    <3> QED BY <1>2, <3>1, <3>2, <3>3, <3>4
  <2> QED BY <1>2, <1>3, <2>1, <2>2, <2>3, StatusNames DEF Removed
<1> QED BY <1>5, <1>6

\* A row that is not there has no transaction, and no lines.
LEMMA AbsentOrder ==
  ASSUME Inv, NEW o \in Orders, ostat[o] = NoRow
  PROVE  \A r \in Sessions : Open(r) => txn[r].ord # o
BY TxnFacts DEF RowsOK

LEMMA CommitInv ==
  ASSUME Inv, NEW s \in Sessions, NEW N \in SUBSET Orders, NEW lines \in [N -> SUBSET Lines],
         Commit(s, lines)
  PROVE  Inv'
<1>1. At(s, "commit") /\ Open(s)
  BY DEF Commit, At, Open
<1>2. PICK t \in Txn : t = txn[s] /\ WritesOK(t) /\ RowsOK(t)
  BY <1>1, TxnFacts
<1>3. /\ t.pc = "commit" /\ t.ord \in Orders /\ t.sum \in SUBSET Lines /\ DOMAIN lines = N
      /\ \A n \in N : ostat[n] = NoRow
      /\ t.ord \notin N
  BY <1>1, <1>2 DEF Commit, At, Txn, RowsOK
<1>4. /\ \A o \in N : ostat'[o] = DraftWith(lines[o]) /\ istat'[o] = Inserted(NoLines, lines[o])
      /\ ostat'[t.ord] = OrderSeen(t)
      /\ istat'[t.ord] = IF t.ost = Deleted THEN NoLines ELSE LinesSeen(t)
      /\ \A o \in Orders \ (N \cup {t.ord}) : ostat'[o] = ostat[o] /\ istat'[o] = istat[o]
  BY <1>2, <1>3 DEF Commit
<1>5. /\ DOMAIN ostat' = Orders /\ DOMAIN istat' = Orders
      /\ ostat' = [o \in Orders |-> ostat'[o]] /\ istat' = [o \in Orders |-> istat'[o]]
  BY DEF Commit
<1>6. TypeOK /\ DraftsHaveNoLine /\ (\A o \in journal : ostat[o] # NoRow)
  BY DEF Inv
<1>7. /\ t.ost = Deleted => ostat'[t.ord] = Deleted /\ istat'[t.ord] = NoLines
      /\ t.ost # Deleted => istat'[t.ord] = LinesSeen(t)
  BY <1>4, StatusNames DEF OrderSeen
<1>8. LinesSeen(t) \in [Lines -> Line]
  BY <1>6, SeenLines
<1>9. ASSUME NEW o \in N
      PROVE  /\ ostat'[o] \in OrderStatus /\ istat'[o] \in [Lines -> Line]
             /\ ostat'[o] \in Removed => PresentIn(istat'[o]) = {}
             /\ PresentIn(istat'[o]) = {} => ostat'[o] \in Removed
  BY <1>4, DraftWithFacts, StatusNames DEF Removed
<1>10. /\ ostat'[t.ord] \in Row \ {NoRow} /\ istat'[t.ord] \in [Lines -> Line]
       /\ ostat'[t.ord] \in Removed => PresentIn(istat'[t.ord]) = {}
       /\ PresentIn(istat'[t.ord]) = {} => ostat'[t.ord] \in Removed \cup {"confirmed"}
  <2>1. CASE t.ost = Deleted
    BY <1>7, <2>1, NoLinesFacts, StatusNames DEF Row, Removed
  <2>2. CASE t.ost # Deleted
    BY <1>1, <1>2, <1>3, <1>4, <1>7, <1>8, <2>2, CommitShape
  <2> QED BY <2>1, <2>2
<1>11. ASSUME NEW o \in Orders \ (N \cup {t.ord})
       PROVE  /\ ostat'[o] = ostat[o] /\ ostat'[o] \in Row /\ istat'[o] \in [Lines -> Line]
              /\ ostat'[o] \in Removed => PresentIn(istat'[o]) = {}
              /\ PresentIn(istat'[o]) = {} => ostat'[o] \in Removed \cup {"confirmed"}
  <2>1. ostat[o] \in Row /\ istat[o] \in [Lines -> Line]
    BY <1>6 DEF TypeOK
  <2>2. /\ ostat[o] \in Removed => PresentIn(istat[o]) = {}
        /\ PresentIn(istat[o]) = {} => ostat[o] \in Removed \cup {"confirmed"}
    BY <1>6 DEF DraftsHaveNoLine, Removed
  <2> QED BY <1>4, <2>1, <2>2
<1>12. \A o \in Orders : /\ ostat'[o] \in Row /\ istat'[o] \in [Lines -> Line]
                         /\ ostat'[o] \in Removed => PresentIn(istat'[o]) = {}
                         /\ PresentIn(istat'[o]) = {} => ostat'[o] \in Removed \cup {"confirmed"}
                         /\ ostat[o] # NoRow => ostat'[o] # NoRow
  <2>1. \A o \in Orders : o \in N \/ o = t.ord \/ o \in Orders \ (N \cup {t.ord})
    OBVIOUS
  <2> QED BY <1>3, <1>9, <1>10, <1>11, <2>1, StatusNames DEF Row
<1>13. /\ txn' \in [Sessions -> {Idle} \cup Txn]
       /\ txn'[s] = Idle /\ \A r \in Sessions : r # s => txn'[r] = txn[r]
  BY <1>6 DEF Commit, TypeOK
<1>14. TypeOK'
  <2>1. ostat' \in [Orders -> Row] /\ istat' \in [Orders -> [Lines -> Line]]
    BY <1>5, <1>12
  <2>2. total' \in [Orders -> SUBSET Lines]
    BY <1>2, <1>3, <1>6 DEF Commit, TypeOK
  <2>3. journal' \in SUBSET Orders
    BY <1>2, <1>3, <1>6 DEF Commit, TypeOK
  <2> QED BY <1>13, <2>1, <2>2, <2>3 DEF TypeOK
<1>15. DraftsHaveNoLine'
  BY <1>12 DEF DraftsHaveNoLine, Removed, PresentIn
<1>16. \A o \in journal' : ostat'[o] # NoRow
  <2>1. journal' \subseteq journal \cup N
    BY <1>3 DEF Commit
  <2>2. journal \subseteq Orders
    BY <1>6 DEF TypeOK
  <2> QED BY <1>6, <1>9, <1>12, <2>1, <2>2, StatusNames
<1>17. PICK live : live = {r \in Sessions : r # s /\ Open(r)}
  OBVIOUS
<1>18. ASSUME NEW r \in live PROVE RowsOK(txn[r])'
  <2>1. PICK u \in Txn : u = txn[r] /\ RowsOK(u)
    BY <1>17, TxnFacts
  <2>2. u.ord \in Orders /\ u.ord \notin N /\ txn'[r] = u
    BY <1>3, <1>13, <1>17, <2>1, AbsentOrder DEF Txn
  <2>3. CASE u.ord # t.ord
    BY <1>4, <2>1, <2>2, <2>3 DEF RowsOK, Exists, PresentIn
  <2>4. CASE u.ord = t.ord /\ t.ost = Deleted
    <3>1. Apart(t, u)
      BY <1>1, <1>2, <1>17, <2>1, <2>4 DEF Inv
    <3>2. u.oli = NoLines /\ ~HoldsKey(u) /\ u.ost = NoRow
      BY <1>3, <2>4, <3>1, StatusNames DEF Apart, HoldsOrder
    <3>3. RowsOK(u)'
      BY <1>7, <2>1, <2>4, <3>2, UnwrittenStay
    <3> QED BY <2>2, <3>3 DEF RowsOK, Exists
  <2>5. CASE u.ord = t.ord /\ t.ost # Deleted
    <3>1. /\ ostat'[u.ord] # NoRow /\ (Exists(u.ord)' <=> Exists(u.ord))
          /\ ostat[u.ord] # "draft" => ostat'[u.ord] # "draft"
          /\ PresentIn(istat[u.ord]) \subseteq PresentIn(istat'[u.ord])
      BY <1>1, <1>2, <1>3, <1>4, <1>7, <2>5, CommitShape DEF Exists
    <3>2. RowsOK(u)'
      BY <2>1, <3>1, RowsStay
    <3> QED BY <2>2, <3>2 DEF RowsOK, Exists
  <2> QED BY <2>3, <2>4, <2>5
<1>19. /\ live \subseteq Sessions /\ \A r \in live : Open(r) /\ txn'[r] = txn[r]
       /\ \A r \in Sessions : Open(r)' => r \in live
  BY <1>13, <1>17 DEF Open, Idle
<1> QED BY <1>14, <1>15, <1>16, <1>18, <1>19, Publishes

(* ------------------- rows nobody else can see, and the rest -------------- *)

\* An order appears, with its lines, where there was no row; no transaction is about it.
LEMMA Appears ==
  ASSUME Inv, NEW o \in Orders, txn' = txn,
         ostat' \in [Orders -> Row], istat' \in [Orders -> [Lines -> Line]],
         total' \in [Orders -> SUBSET Lines], journal' \subseteq journal \cup {o},
         ostat[o] = NoRow, ostat'[o] \in OrderStatus, ostat'[o] = "draft" <=> PresentIn(istat'[o]) = {},
         \A p \in Orders : p # o => ostat'[p] = ostat[p] /\ istat'[p] = istat[p]
  PROVE  Inv'
<1>1. TypeOK /\ DraftsHaveNoLine /\ (\A p \in journal : ostat[p] # NoRow)
  BY DEF Inv
<1>2. TypeOK'
  BY <1>1 DEF TypeOK
<1>3. DraftsHaveNoLine'
  BY <1>1, StatusNames DEF DraftsHaveNoLine, PresentIn
<1>4. \A p \in journal' : ostat'[p] # NoRow
  BY <1>1, <1>2, StatusNames DEF TypeOK
<1>5. PICK live : live = {r \in Sessions : Open(r)}
  OBVIOUS
<1>6. ASSUME NEW r \in live PROVE RowsOK(txn[r])'
  <2>1. PICK u \in Txn : u = txn[r] /\ RowsOK(u)
    BY <1>5, TxnFacts
  <2>2. u.ord \in Orders /\ u.ord # o
    BY <1>5, <2>1, AbsentOrder DEF Txn
  <2> QED BY <2>1, <2>2 DEF RowsOK, Exists, PresentIn
<1>7. live \subseteq Sessions /\ (\A r \in live : Open(r)) /\ \A r \in Sessions : Open(r)' => r \in live
  BY <1>5 DEF Open
<1> QED BY <1>2, <1>3, <1>4, <1>6, <1>7, Publishes

\* The order book's names for the rows are these.
LEMMA SameNames ==
  /\ Book!NoRow = NoRow /\ Book!NoLines = NoLines
  /\ \A L : Book!Inserted(Book!NoLines, L) = Inserted(NoLines, L)
  /\ \A ln : Book!Triggered(ln) = Triggered(ln)
  /\ \A L : Book!DraftWith(L) = DraftWith(L)
<1>1. Book!NoRow = NoRow /\ Book!NoLines = NoLines
  BY DEF Book!NoRow, NoRow, Book!NoLines, NoLines
<1>2. \A L : Book!Inserted(Book!NoLines, L) = Inserted(NoLines, L)
  BY <1>1 DEF Book!Inserted, Inserted
<1>3. \A ln : Book!Triggered(ln) = Triggered(ln)
  BY <1>1 DEF Book!Triggered, Triggered, Book!StatusesOf, StatusesOf, Book!DeriveOrderStatus,
     DeriveOrderStatus, Book!EnumMin, EnumMin, Book!EnumPosition, EnumPosition
<1>4. \A L : Book!DraftWith(L) = DraftWith(L)
  BY <1>2, <1>3 DEF Book!DraftWith, DraftWith
<1> QED BY <1>1, <1>2, <1>3, <1>4

LEMMA CreateOrderInv ==
  ASSUME Inv, NEW s \in Sessions, NEW o \in Orders, NEW L \in SUBSET Lines, CreateOrder(s, o, L)
  PROVE  Inv'
<1>1. /\ ostat[o] = NoRow /\ L # {}
      /\ istat' = [istat EXCEPT ![o] = Inserted(NoLines, L)]
      /\ ostat' = [ostat EXCEPT ![o] = Triggered(Inserted(NoLines, L))]
      /\ total' = [total EXCEPT ![o] = L]
      /\ journal' = journal /\ UNCHANGED txn
  BY SameNames DEF CreateOrder, Book!CreateOrder
<1>2. TypeOK
  BY DEF Inv
<1>3. Inserted(NoLines, L) \in [Lines -> Line] /\ PresentIn(Inserted(NoLines, L)) = L
  BY <1>1, NewLinesFacts
<1>4. Triggered(Inserted(NoLines, L)) \in OrderStatus \ {"draft"}
  BY <1>1, <1>3, TriggeredFacts
<1>5. /\ ostat' \in [Orders -> Row] /\ istat' \in [Orders -> [Lines -> Line]]
      /\ total' \in [Orders -> SUBSET Lines] /\ journal' \subseteq journal \cup {o}
  BY <1>1, <1>2, <1>3, <1>4 DEF TypeOK, Row
<1>6. ostat'[o] = Triggered(Inserted(NoLines, L)) /\ istat'[o] = Inserted(NoLines, L)
  BY <1>1, <1>2 DEF TypeOK
<1>7. /\ ostat[o] = NoRow /\ ostat'[o] \in OrderStatus /\ txn' = txn
      /\ ostat'[o] = "draft" <=> PresentIn(istat'[o]) = {}
  BY <1>1, <1>3, <1>4, <1>6
<1>8. \A p \in Orders : p # o => ostat'[p] = ostat[p] /\ istat'[p] = istat[p]
  BY <1>1, <1>2 DEF TypeOK
<1> QED BY <1>5, <1>7, <1>8, Appears

LEMMA ApplyFirstInv ==
  ASSUME Inv, NEW s \in Sessions, NEW o \in Orders, NEW lines \in [{o} -> SUBSET Lines],
         ApplyFirst(s, lines)
  PROVE  Inv'
<1>1. Book!RolledBack({}) = {} /\ DOMAIN lines = {o}
  BY DEF Book!RolledBack
<1>2. /\ ostat[o] = NoRow /\ UNCHANGED txn
      /\ ostat' = [p \in Orders |-> IF p \in {o} THEN DraftWith(lines[p]) ELSE ostat[p]]
      /\ istat' = [p \in Orders |-> IF p \in {o} THEN Inserted(NoLines, lines[p]) ELSE istat[p]]
      /\ total' = [p \in Orders |-> total[p]]
      /\ journal' = journal \cup {o}
  BY <1>1, SameNames DEF ApplyFirst, Book!ApplyAnalysis
<1>3. TypeOK
  BY DEF Inv
<1>4. PICK L \in SUBSET Lines : L = lines[o]
  OBVIOUS
<1>5. /\ DraftWith(L) \in OrderStatus /\ Inserted(NoLines, L) \in [Lines -> Line]
      /\ PresentIn(Inserted(NoLines, L)) = L
      /\ L = {} <=> DraftWith(L) = "draft"
  BY DraftWithFacts
<1>6. /\ ostat' \in [Orders -> Row] /\ istat' \in [Orders -> [Lines -> Line]]
      /\ total' \in [Orders -> SUBSET Lines] /\ journal' \subseteq journal \cup {o}
  BY <1>2, <1>3, <1>4, <1>5 DEF TypeOK, Row
<1>7. ostat'[o] = DraftWith(L) /\ istat'[o] = Inserted(NoLines, L)
  BY <1>2, <1>4
<1>8. /\ ostat[o] = NoRow /\ ostat'[o] \in OrderStatus /\ txn' = txn
      /\ ostat'[o] = "draft" <=> PresentIn(istat'[o]) = {}
  BY <1>2, <1>5, <1>7
<1>9. \A p \in Orders : p # o => ostat'[p] = ostat[p] /\ istat'[p] = istat[p]
  BY <1>2
<1> QED BY <1>6, <1>8, <1>9, Appears

LEMMA InitInv == Init => Inv
<1> SUFFICES ASSUME Init PROVE Inv OBVIOUS
<1>1. /\ ostat = [o \in Orders |-> NoRow] /\ istat = [o \in Orders |-> NoLines]
      /\ total = [o \in Orders |-> {}] /\ journal = {} /\ txn = [s \in Sessions |-> Idle]
  BY SameNames DEF Init, Book!Init
<1>2. TypeOK
  BY <1>1, NoLinesFacts DEF TypeOK, Row
<1>3. DraftsHaveNoLine
  BY <1>1, NoLinesFacts DEF DraftsHaveNoLine
<1>4. \A s \in Sessions : ~Open(s)
  BY <1>1 DEF Open, Idle
<1> QED BY <1>1, <1>2, <1>3, <1>4 DEF Inv

LEMMA CallInv == ASSUME Inv, NEW s \in Sessions, Call(s) PROVE Inv'
<1>1. ASSUME NEW o \in Orders, NEW l \in Lines, NEW to \in Targets, LookupItem(s, o, l, to)
      PROVE  Inv'
  BY <1>1, LookupItemInv
<1>2. ASSUME NEW o \in Orders, NEW L \in SUBSET Lines, ReadOrder(s, o, L) \/ CreateOrder(s, o, L)
      PROVE  Inv'
  BY <1>2, ReadOrderInv, CreateOrderInv
<1>3. ASSUME NEW o \in Orders, GetDraft(s, o) \/ ListCreated(s, o) \/ LoadOrder(s, o)
      PROVE  Inv'
  BY <1>3, GetDraftInv, ListCreatedInv, LoadOrderInv
<1>4. ASSUME NEW o \in Orders, NEW lines \in [{o} -> SUBSET Lines], ApplyFirst(s, lines)
      PROVE  Inv'
  BY <1>4, ApplyFirstInv
<1> QED BY <1>1, <1>2, <1>3, <1>4 DEF Call

LEMMA StatementInv == ASSUME Inv, NEW s \in Sessions, Statement(s) PROVE Inv'
<1>1. ASSUME NEW N \in SUBSET Orders, NEW lines \in [N -> SUBSET Lines], Commit(s, lines)
      PROVE  Inv'
  BY <1>1, CommitInv
<1> QED
  BY <1>1, WriteItemInv, InsertItemInv, DeriveInv, CompareInv, StoreInv, SumTotalInv, SetTotalInv,
     ConfirmOrderInv, DeleteOrderInv, CascadeItemsInv, PyDeriveInv DEF Statement

\* A transaction that is rolled back, by its own or as the victim of a deadlock, leaves
\* the others what they rely on; so does a step of nobody.
LEMMA NextInv == Inv /\ [Next]_vars => Inv'
<1> SUFFICES ASSUME Inv, [Next]_vars PROVE Inv' OBVIOUS
<1>1. ASSUME NEW s \in Sessions, Call(s) PROVE Inv'
  BY <1>1, CallInv
<1>2. ASSUME NEW s \in Sessions, Statement(s) PROVE Inv'
  BY <1>2, StatementInv
<1>3. ASSUME NEW s \in Sessions, Rollback(s) \/ DeadlockVictim(s) PROVE Inv'
  BY <1>3, Stops DEF Rollback, DeadlockVictim
<1>4. CASE UNCHANGED vars
  <2>1. UNCHANGED <<ostat, istat, total, journal, txn>>
    BY <1>4 DEF vars
  <2>2. TypeOK' /\ DraftsHaveNoLine' /\ \A o \in journal' : ostat'[o] # NoRow
    BY <2>1 DEF Inv, TypeOK, DraftsHaveNoLine
  <2>3. PICK live : live = {r \in Sessions : Open(r)}
    OBVIOUS
  <2>4. \A r \in live : RowsOK(txn[r])'
    BY <2>1, <2>3 DEF Inv, RowsOK, Exists
  <2>5. \A r \in Sessions : Open(r)' => r \in live
    BY <2>1, <2>3 DEF Open
  <2> QED BY <2>1, <2>2, <2>3, <2>4, <2>5, Publishes
<1> QED BY <1>1, <1>2, <1>3, <1>4 DEF Next

(* --------------------------- who waits for whom -------------------------- *)

\* A transaction before its first statement that locks something makes nobody wait.
LEMMA HoldsNothing ==
  ASSUME NEW t \in Txn, WritesOK(t), t.pc \in {"write", "delete", "confirm"}
  PROVE  ~HoldsOrder(t) /\ ~HoldsKey(t) /\ t.ost # Deleted /\ \A l \in Lines : ~HoldsLine(t, l)
<1>1. t.ost = NoRow /\ t.oli = NoLines /\ t.summed = FALSE /\ t.op # "update_order"
  BY DEF WritesOK, StepsOf, AllOps, Txn
<1> QED BY <1>1, StatusNames DEF HoldsOrder, HoldsKey, HoldsLine, NoLines

\* Who deleted an order stands at the cascade or the commit.
LEMMA DeletedSteps ==
  ASSUME NEW t \in Txn, WritesOK(t), t.ost = Deleted
  PROVE  t.pc \in {"cascade", "commit"}
BY StatusNames DEF WritesOK, StepsOf

\* Two that wait for each other: one of them stands at the cascade of a DELETE.
LEMMA WaitsCircular ==
  ASSUME Inv, NEW s \in Sessions, NEW r \in Sessions, Waits(s, r), Waits(r, s)
  PROVE  txn[s].pc = "cascade" \/ txn[r].pc = "cascade"
<1>1. PICK t \in Txn, u \in Txn : t = txn[s] /\ u = txn[r] /\ WritesOK(t) /\ WritesOK(u)
  BY TxnFacts DEF Waits
<1>2. /\ t.ord = u.ord /\ s # r /\ Open(s) /\ Open(r) /\ t.lines \subseteq Lines /\ u.lines \subseteq Lines
  BY <1>1 DEF Waits, Txn
<1>3. Apart(t, u) /\ Apart(u, t)
  BY <1>1, <1>2 DEF Inv
<1>4. \/ t.pc = "write" /\ \E l \in t.lines : HoldsLine(u, l)
      \/ t.pc = "insert" /\ u.ost = Deleted
      \/ t.pc \in {"store", "set_total", "confirm"} /\ HoldsOrder(u)
      \/ t.pc = "delete" /\ (HoldsOrder(u) \/ HoldsKey(u))
      \/ t.pc = "cascade"
  BY <1>1 DEF Waits, Deletes
<1>5. \/ u.pc = "write" /\ \E l \in u.lines : HoldsLine(t, l)
      \/ u.pc = "insert" /\ t.ost = Deleted
      \/ u.pc \in {"store", "set_total", "confirm"} /\ HoldsOrder(t)
      \/ u.pc = "delete" /\ (HoldsOrder(t) \/ HoldsKey(t))
      \/ u.pc = "cascade"
  BY <1>1 DEF Waits, Deletes
<1>6. t.pc \in {"write", "delete", "confirm"} => u.pc = "cascade"
  BY <1>1, <1>2, <1>5, HoldsNothing
<1>7. u.pc \in {"write", "delete", "confirm"} => t.pc = "cascade"
  BY <1>1, <1>2, <1>4, HoldsNothing
<1>8. t.pc = "insert" => u.pc = "cascade"
  BY <1>1, <1>4, <1>5, DeletedSteps
<1>9. u.pc = "insert" => t.pc = "cascade"
  BY <1>1, <1>4, <1>5, DeletedSteps
<1>10. ~(t.pc \in {"store", "set_total"} /\ u.pc \in {"store", "set_total"})
  BY <1>3, <1>4, <1>5 DEF Apart
<1> QED BY <1>1, <1>4, <1>5, <1>6, <1>7, <1>8, <1>9, <1>10

(* ------------------------------- theorems -------------------------------- *)

\* The inductive invariant holds in every reachable state.
THEOREM Invariance == Spec => []Inv
BY InitInv, NextInv, PTL DEF Spec

\* The rows and the open transactions keep their types.
THEOREM TypeCorrect == Spec => []TypeOK
<1>1. Inv => TypeOK
  BY DEF Inv
<1> QED BY <1>1, Invariance, PTL

\* However many sessions work on an order at the same time, a committed draft has no
\* line, no line survives its order, and an order without lines is a draft or was
\* confirmed as one.
THEOREM DraftsStayEmpty == Spec => []DraftsHaveNoLine
<1>1. Inv => DraftsHaveNoLine
  BY DEF Inv
<1> QED BY <1>1, Invariance, PTL

\* Of two sessions that wait for each other, one is deleting the order.
THEOREM OnlyDeletesDeadlock == Spec => []CircularWaitsDelete
<1>1. Inv => CircularWaitsDelete
  <2> SUFFICES ASSUME Inv, NEW s \in Sessions, NEW r \in Sessions, Waits(s, r), Waits(r, s)
               PROVE  \E t \in {txn[s], txn[r]} : t.pc = "cascade" /\ t.ost = Deleted
    BY DEF CircularWaitsDelete
  <2>1. WritesOK(txn[s]) /\ WritesOK(txn[r])
    BY TxnFacts DEF Waits
  <2>2. txn[s].pc = "cascade" \/ txn[r].pc = "cascade"
    BY WaitsCircular
  <2> QED BY <2>1, <2>2 DEF WritesOK
<1> QED BY <1>1, Invariance, PTL

(* --------------------------- a single session ---------------------------- *)

\* What the call found when it began, and nobody can have changed.
Asked(t) ==
  /\ t.op = "update_order_item_status" =>
       \E l \in t.lines : t.lines = {l} /\ istat[t.ord][l] \notin {NoRow} \cup IMMUTABLE_ITEM_STATUSES
  /\ t.op = "update_order" =>
       /\ Exists(t.ord) /\ ostat[t.ord] \notin IMMUTABLE_ORDER_STATUSES
       /\ t.lines # {} /\ t.lines \cap PresentIn(istat[t.ord]) = {}
  /\ t.op \in {"confirm", "reject"} => ostat[t.ord] = "draft"
  /\ t.op = "reapply" => t.ord \in journal
  /\ t.op = "derive_status" => Exists(t.ord) /\ t.old = ostat[t.ord]

\* The lines it sees are those it found, with its own writes.
LinesWritten(t) ==
  /\ t.op = "update_order_item_status" =>
       /\ t.to \in Targets
       /\ t.pc # "write" => LinesSeen(t) = [l \in Lines |-> IF l \in t.lines THEN t.to
                                                            ELSE istat[t.ord][l]]
  /\ t.op = "update_order" => LinesSeen(t) = Inserted(istat[t.ord], t.lines \ t.left)
  /\ t.op = "update_order" /\ t.pc \in {"sum", "set_total", "commit"} => t.left = {}

\* The order's status is the derived one between the trigger's runs.
OrderWritten(t) ==
  /\ t.op \in {"update_order", "update_order_item_status"} =>
       /\ t.pc \in {"compare", "store"} => t.new = Triggered(LinesSeen(t))
       /\ t.pc \in {"sum", "set_total", "commit"} => OrderSeen(t) = Triggered(LinesSeen(t))
  /\ t.op = "confirm" /\ t.pc = "commit" => t.ost = "confirmed"
  /\ t.op = "reject" /\ t.pc = "commit" => t.ost = Deleted
  /\ t.op = "reapply" /\ t.pc # "delete" =>
       (t.ost = Deleted <=> ostat[t.ord] \in {"draft", "in_procurement"})
  /\ t.op = "derive_status" /\ t.pc # "py_derive" =>
       LET S == StatusesOf(istat[t.ord])
           new == IF S = {} THEN ostat[t.ord] ELSE PyDeriveOrderStatus(S)
       IN  IF t.pc = "store" THEN t.new = new ELSE OrderSeen(t) = new

TotalWritten(t) ==
  t.op = "update_order" =>
    /\ t.pc \in {"set_total", "commit"} => t.sum = ActiveIn(LinesSeen(t))
    /\ t.summed <=> t.pc = "commit"

Alone(t) == Asked(t) /\ LinesWritten(t) /\ OrderWritten(t) /\ TotalWritten(t)

AloneInv == \A s \in Sessions : Open(s) => Alone(txn[s])

\* The statement of a session that is alone: what it found is still there.
LEMMA AloneGoesOn ==
  ASSUME TypeOK, NEW s, Sessions = {s}, UNCHANGED rows, NEW t,
         txn' = [txn EXCEPT ![s] = t], Alone(t) \/ t = Idle
  PROVE  AloneInv'
<1>1. ostat' = ostat /\ istat' = istat /\ journal' = journal
  BY DEF rows
<1>2. txn'[s] = t
  BY DEF TypeOK
<1>3. ASSUME Alone(t) PROVE Alone(txn[s])'
  BY <1>1, <1>2, <1>3 DEF Alone, Asked, LinesWritten, OrderWritten, TotalWritten, Exists,
     LinesSeen, OrderSeen
<1> QED BY <1>2, <1>3 DEF AloneInv, Open, Idle

\* A call that begins, and calls that show nothing before they commit.
LEMMA BeginsAlone ==
  ASSUME Inv, NEW s, Sessions = {s}, NEW op \in AllOps, NEW o \in Orders, NEW L \in SUBSET Lines,
         NEW to, NEW pc \in {"write", "insert", "confirm", "delete", "py_derive"},
         pc \in StepsOf(op), Begin(s, op, o, L, to, pc), Asked(Begun(op, o, L, to, pc)),
         op = "update_order_item_status" => to \in Targets
  PROVE  AloneInv'
<1>1. PICK t : t = Begun(op, o, L, to, pc)
  OBVIOUS
<1>2. /\ t.pc = pc /\ t.op = op /\ t.ord = o /\ t.lines = L /\ t.left = L /\ t.ost = NoRow
      /\ t.oli = NoLines /\ t.summed = FALSE /\ t.to = to
  BY <1>1 DEF Begun
<1>3. UNCHANGED rows /\ txn' = [txn EXCEPT ![s] = t]
  BY <1>1 DEF Begin
<1>4. /\ op = "update_order_item_status" <=> pc = "write"
      /\ op = "update_order" <=> pc = "insert"
      /\ op = "derive_status" <=> pc = "py_derive"
      /\ op = "confirm" <=> pc = "confirm"
      /\ op \in {"reject", "reapply"} <=> pc = "delete"
  BY DEF StepsOf, AllOps
<1>5. istat[o] \in [Lines -> Line]
  BY DEF Inv, TypeOK
<1>6. LinesWritten(t)
  <2>1. op = "update_order" => LinesSeen(t) = Inserted(istat[o], L \ L)
    BY <1>2, <1>5 DEF LinesSeen, Inserted, NoLines
  <2> QED BY <1>2, <1>4, <2>1 DEF LinesWritten
<1>7. OrderWritten(t) /\ TotalWritten(t)
  BY <1>2, <1>4 DEF OrderWritten, TotalWritten
<1> QED BY <1>1, <1>3, <1>6, <1>7, AloneGoesOn DEF Inv, Alone

LEMMA CallAlone ==
  ASSUME Inv, AloneInv, NEW s, Sessions = {s}, Call(s)
  PROVE  AloneInv'
<1>1. ASSUME NEW o \in Orders, NEW l \in Lines, NEW to \in Targets, LookupItem(s, o, l, to)
      PROVE  AloneInv'
  <2>1. Begin(s, "update_order_item_status", o, {l}, to, "write")
    BY <1>1 DEF LookupItem
  <2>2. Asked(Begun("update_order_item_status", o, {l}, to, "write"))
    BY <1>1 DEF LookupItem, Asked, Begun
  <2>3. /\ "update_order_item_status" \in AllOps /\ {l} \in SUBSET Lines
        /\ "write" \in StepsOf("update_order_item_status")
    BY DEF AllOps, StepsOf
  <2> QED BY <2>1, <2>2, <2>3, BeginsAlone
<1>2. ASSUME NEW o \in Orders, NEW L \in SUBSET Lines, ReadOrder(s, o, L)
      PROVE  AloneInv'
  <2>1. Begin(s, "update_order", o, L, "pending", "insert")
    BY <1>2 DEF ReadOrder
  <2>2. Asked(Begun("update_order", o, L, "pending", "insert"))
    BY <1>2 DEF ReadOrder, Asked, Begun
  <2>3. "update_order" \in AllOps /\ "insert" \in StepsOf("update_order")
    BY DEF AllOps, StepsOf
  <2> QED BY <2>1, <2>2, <2>3, BeginsAlone
<1>3. ASSUME NEW o \in Orders, GetDraft(s, o) PROVE AloneInv'
  <2>1. /\ {"confirm", "reject"} \subseteq AllOps /\ {} \in SUBSET Lines
        /\ "confirm" \in StepsOf("confirm") /\ "delete" \in StepsOf("reject")
    BY DEF AllOps, StepsOf
  <2>2. CASE Begin(s, "confirm", o, {}, "pending", "confirm")
    <3>1. Asked(Begun("confirm", o, {}, "pending", "confirm"))
      BY <1>3 DEF GetDraft, Asked, Begun
    <3> QED BY <2>1, <2>2, <3>1, BeginsAlone
  <2>3. CASE Begin(s, "reject", o, {}, "pending", "delete")
    <3>1. Asked(Begun("reject", o, {}, "pending", "delete"))
      BY <1>3 DEF GetDraft, Asked, Begun
    <3> QED BY <2>1, <2>3, <3>1, BeginsAlone
  <2> QED BY <1>3, <2>2, <2>3 DEF GetDraft
<1>4. ASSUME NEW o \in Orders, ListCreated(s, o) PROVE AloneInv'
  <2>1. Begin(s, "reapply", o, {}, "pending", "delete")
    BY <1>4 DEF ListCreated
  <2>2. Asked(Begun("reapply", o, {}, "pending", "delete"))
    BY <1>4 DEF ListCreated, Asked, Begun
  <2>3. "reapply" \in AllOps /\ "delete" \in StepsOf("reapply") /\ {} \in SUBSET Lines
    BY DEF AllOps, StepsOf
  <2> QED BY <2>1, <2>2, <2>3, BeginsAlone
<1>5. ASSUME NEW o \in Orders, LoadOrder(s, o) PROVE AloneInv'
  <2>1. Begin(s, "derive_status", o, {}, "pending", "py_derive")
    BY <1>5 DEF LoadOrder
  <2>2. Asked(Begun("derive_status", o, {}, "pending", "py_derive"))
    BY <1>5 DEF LoadOrder, Asked, Begun
  <2>3. "derive_status" \in AllOps /\ "py_derive" \in StepsOf("derive_status") /\ {} \in SUBSET Lines
    BY DEF AllOps, StepsOf
  <2> QED BY <2>1, <2>2, <2>3, BeginsAlone
<1>6. ASSUME NEW o, NEW L, CreateOrder(s, o, L) PROVE AloneInv'
  BY <1>6 DEF CreateOrder, AloneInv, Open
<1>7. ASSUME NEW lines, ApplyFirst(s, lines) PROVE AloneInv'
  BY <1>7 DEF ApplyFirst, AloneInv, Open
<1> QED BY <1>1, <1>2, <1>3, <1>4, <1>5, <1>6, <1>7 DEF Call

\* The statements of a tool on lines.
LEMMA WriteItemAlone ==
  ASSUME Inv, AloneInv, NEW s, Sessions = {s}, WriteItem(s) PROVE AloneInv'
<1>1. At(s, "write") /\ Open(s) /\ TypeOK
  BY DEF WriteItem, At, Open, Inv
<1>2. PICK t \in Txn : t = txn[s] /\ WritesOK(t) /\ Alone(t)
  BY <1>1, TxnFacts DEF AloneInv
<1>3. /\ t.pc = "write" /\ t.op = "update_order_item_status" /\ t.oli = NoLines
      /\ t.ost = NoRow /\ t.to \in Targets /\ t.to \in ItemStatus
  BY <1>1, <1>2, TargetsAssumption DEF At, WritesOK, StepsOf, AllOps, Txn, Alone, LinesWritten
<1>4. PICK l \in t.lines :
        Goto(s, IF istat[t.ord][l] = NoRow THEN [t EXCEPT !.pc = "commit"]
                ELSE [t EXCEPT !.oli[l] = t.to, !.pc = "derive"])
  BY <1>2 DEF WriteItem
<1>5. t.lines = {l} /\ istat[t.ord][l] \notin {NoRow} \cup IMMUTABLE_ITEM_STATUSES /\ l \in Lines
  BY <1>2, <1>3 DEF Alone, Asked, Txn
<1>6. PICK t2 : t2 = [t EXCEPT !.oli[l] = t.to, !.pc = "derive"]
  OBVIOUS
<1>7. /\ t2.pc = "derive" /\ t2.op = t.op /\ t2.ord = t.ord /\ t2.lines = t.lines /\ t2.to = t.to
      /\ t2.oli = [NoLines EXCEPT ![l] = t.to] /\ t2.ost = t.ost
  BY <1>3, <1>6 DEF Txn
<1>8. UNCHANGED rows /\ txn' = [txn EXCEPT ![s] = t2]
  BY <1>4, <1>5, <1>6 DEF Goto
<1>9. LinesSeen(t2) = [m \in Lines |-> IF m \in t2.lines THEN t2.to ELSE istat[t2.ord][m]]
  BY <1>3, <1>5, <1>7, StatusNames DEF LinesSeen, NoLines
<1>10. Asked(t2)
  BY <1>3, <1>5, <1>7 DEF Asked
<1>11. LinesWritten(t2) /\ OrderWritten(t2) /\ TotalWritten(t2)
  BY <1>3, <1>7, <1>9 DEF LinesWritten, OrderWritten, TotalWritten
<1> QED BY <1>1, <1>8, <1>10, <1>11, AloneGoesOn DEF Alone

LEMMA InsertItemAlone ==
  ASSUME Inv, AloneInv, NEW s, Sessions = {s}, InsertItem(s) PROVE AloneInv'
<1>1. At(s, "insert") /\ Open(s) /\ TypeOK
  BY DEF InsertItem, At, Open, Inv
<1>2. PICK t \in Txn : t = txn[s] /\ WritesOK(t) /\ Alone(t)
  BY <1>1, TxnFacts DEF AloneInv
<1>3. /\ t.pc = "insert" /\ t.op = "update_order" /\ t.oli \in [Lines -> Line]
      /\ t.lines \subseteq Lines /\ t.left \subseteq t.lines /\ t.summed = FALSE
      /\ istat[t.ord] \in [Lines -> Line] /\ Exists(t.ord)
  BY <1>1, <1>2 DEF At, WritesOK, StepsOf, AllOps, Txn, Alone, Asked, TypeOK, TotalWritten
<1>4. PICK l \in t.left :
        Goto(s, IF ~Exists(t.ord) THEN Idle
                ELSE [t EXCEPT !.oli[l] = "pending", !.left = @ \ {l}, !.pc = "derive"])
  BY <1>2 DEF InsertItem
<1>5. PICK t2 : t2 = [t EXCEPT !.oli[l] = "pending", !.left = @ \ {l}, !.pc = "derive"]
  OBVIOUS
<1>6. /\ t2.pc = "derive" /\ t2.op = t.op /\ t2.ord = t.ord /\ t2.lines = t.lines
      /\ t2.oli = [t.oli EXCEPT ![l] = "pending"] /\ t2.left = t.left \ {l} /\ t2.summed = t.summed
  BY <1>5 DEF Txn
<1>7. UNCHANGED rows /\ txn' = [txn EXCEPT ![s] = t2]
  BY <1>3, <1>4, <1>5 DEF Goto
<1>8. LinesSeen(t) = Inserted(istat[t.ord], t.lines \ t.left)
  BY <1>2, <1>3 DEF Alone, LinesWritten
<1>9. ASSUME NEW m \in Lines
      PROVE  LinesSeen(t2)[m] = Inserted(istat[t.ord], t2.lines \ t2.left)[m]
  <2>1. CASE m = l
    BY <1>3, <1>6, <2>1, StatusNames DEF LinesSeen, Inserted, NoRow
  <2>2. CASE m # l
    <3>1. LinesSeen(t2)[m] = LinesSeen(t)[m]
      BY <1>3, <1>6, <2>2 DEF LinesSeen
    <3>2. m \in t2.lines \ t2.left <=> m \in t.lines \ t.left
      BY <1>6, <2>2
    <3> QED BY <1>8, <3>1, <3>2 DEF Inserted
  <2> QED BY <2>1, <2>2
<1>10. LinesSeen(t2) = Inserted(istat[t2.ord], t2.lines \ t2.left)
  BY <1>6, <1>9 DEF LinesSeen, Inserted
<1>11. Asked(t2)
  BY <1>2, <1>3, <1>6 DEF Alone, Asked
<1>12. LinesWritten(t2) /\ OrderWritten(t2) /\ TotalWritten(t2)
  BY <1>3, <1>6, <1>10 DEF LinesWritten, OrderWritten, TotalWritten
<1> QED BY <1>1, <1>7, <1>11, <1>12, AloneGoesOn DEF Alone

\* The trigger.
LEMMA DeriveAlone ==
  ASSUME Inv, AloneInv, NEW s, Sessions = {s}, Derive(s) PROVE AloneInv'
<1>1. At(s, "derive") /\ Open(s) /\ TypeOK
  BY DEF Derive, At, Open, Inv
<1>2. PICK t \in Txn : t = txn[s] /\ WritesOK(t) /\ Alone(t)
  BY <1>1, TxnFacts DEF AloneInv
<1>3. t.pc = "derive" /\ t.op \in {"update_order", "update_order_item_status"}
  BY <1>1, <1>2 DEF At, WritesOK, StepsOf, AllOps, Txn
<1>4. PICK t2 : t2 = [t EXCEPT !.new = Triggered(LinesSeen(t)), !.pc = "compare"]
  OBVIOUS
<1>5. /\ t2.pc = "compare" /\ t2.op = t.op /\ t2.ord = t.ord /\ t2.lines = t.lines /\ t2.to = t.to
      /\ t2.oli = t.oli /\ t2.left = t.left /\ t2.summed = t.summed /\ t2.ost = t.ost
      /\ t2.new = Triggered(LinesSeen(t))
  BY <1>4 DEF Txn
<1>6. UNCHANGED rows /\ txn' = [txn EXCEPT ![s] = t2]
  BY <1>2, <1>4 DEF Derive, Goto
<1>7. LinesSeen(t2) = LinesSeen(t)
  BY <1>5 DEF LinesSeen
<1>8. Asked(t2)
  BY <1>2, <1>3, <1>5 DEF Alone, Asked
<1>9. LinesWritten(t2) /\ OrderWritten(t2) /\ TotalWritten(t2)
  BY <1>2, <1>3, <1>5, <1>7 DEF Alone, LinesWritten, OrderWritten, TotalWritten
<1> QED BY <1>1, <1>6, <1>8, <1>9, AloneGoesOn DEF Alone

LEMMA CompareAlone ==
  ASSUME Inv, AloneInv, NEW s, Sessions = {s}, Compare(s) PROVE AloneInv'
<1>1. At(s, "compare") /\ Open(s) /\ TypeOK
  BY DEF Compare, At, Open, Inv
<1>2. PICK t \in Txn : t = txn[s] /\ WritesOK(t) /\ Alone(t)
  BY <1>1, TxnFacts DEF AloneInv
<1>3. t.pc = "compare" /\ t.op \in {"update_order", "update_order_item_status"}
  BY <1>1, <1>2 DEF At, WritesOK, StepsOf, AllOps, Txn
<1>4. PICK pc : pc = IF OrderSeen(t) = t.new THEN AfterTrigger(t) ELSE "store"
  OBVIOUS
<1>5. PICK t2 : t2 = [t EXCEPT !.pc = pc]
  OBVIOUS
<1>6. /\ t2.pc = pc /\ t2.op = t.op /\ t2.ord = t.ord /\ t2.lines = t.lines /\ t2.to = t.to
      /\ t2.oli = t.oli /\ t2.left = t.left /\ t2.summed = t.summed /\ t2.ost = t.ost
      /\ t2.new = t.new
  BY <1>5 DEF Txn
<1>7. UNCHANGED rows /\ txn' = [txn EXCEPT ![s] = t2]
  BY <1>2, <1>4, <1>5 DEF Compare, Goto
<1>8. LinesSeen(t2) = LinesSeen(t) /\ OrderSeen(t2) = OrderSeen(t)
  BY <1>6 DEF LinesSeen, OrderSeen
<1>9. t.new = Triggered(LinesSeen(t))
  BY <1>2, <1>3 DEF Alone, OrderWritten
<1>10. \/ pc = "store"
       \/ t.op = "update_order_item_status" /\ pc = "commit" /\ OrderSeen(t) = t.new
       \/ t.op = "update_order" /\ pc = "sum" /\ t.left = {} /\ OrderSeen(t) = t.new
       \/ t.op = "update_order" /\ pc = "insert"
  BY <1>3, <1>4 DEF AfterTrigger
<1>11. Asked(t2)
  BY <1>2, <1>3, <1>6 DEF Alone, Asked
<1>12. LinesWritten(t2)
  BY <1>2, <1>3, <1>6, <1>8, <1>10 DEF Alone, LinesWritten
<1>13. OrderWritten(t2) /\ TotalWritten(t2)
  BY <1>2, <1>3, <1>6, <1>8, <1>9, <1>10 DEF Alone, OrderWritten, TotalWritten
<1> QED BY <1>1, <1>7, <1>11, <1>12, <1>13, AloneGoesOn DEF Alone

LEMMA StoreAlone ==
  ASSUME Inv, AloneInv, NEW s, Sessions = {s}, Store(s) PROVE AloneInv'
<1>1. At(s, "store") /\ Open(s) /\ TypeOK
  BY DEF Store, At, Open, Inv
<1>2. PICK t \in Txn : t = txn[s] /\ WritesOK(t) /\ Alone(t)
  BY <1>1, TxnFacts DEF AloneInv
<1>3. /\ t.pc = "store" /\ t.op \in {"update_order", "update_order_item_status", "derive_status"}
      /\ t.new # NoRow
  BY <1>1, <1>2 DEF At, WritesOK, StepsOf, AllOps, Txn, Removed
<1>4. CASE ~Exists(t.ord)
  BY <1>1, <1>2, <1>4, AloneGoesOn DEF Store, Goto
<1>5. CASE Exists(t.ord)
  <2>1. PICK pc : pc = AfterTrigger(t)
    OBVIOUS
  <2>2. PICK t2 : t2 = [t EXCEPT !.ost = t.new, !.pc = pc]
    OBVIOUS
  <2>3. /\ t2.pc = pc /\ t2.op = t.op /\ t2.ord = t.ord /\ t2.lines = t.lines /\ t2.to = t.to
        /\ t2.oli = t.oli /\ t2.left = t.left /\ t2.summed = t.summed /\ t2.ost = t.new
        /\ t2.old = t.old
    BY <2>2 DEF Txn
  <2>4. UNCHANGED rows /\ txn' = [txn EXCEPT ![s] = t2]
    BY <1>2, <1>5, <2>1, <2>2 DEF Store, Goto
  <2>5. LinesSeen(t2) = LinesSeen(t) /\ OrderSeen(t2) = t.new
    BY <1>3, <2>3 DEF LinesSeen, OrderSeen
  <2>6. \/ t.op # "update_order" /\ pc = "commit"
        \/ t.op = "update_order" /\ pc = "sum" /\ t.left = {}
        \/ t.op = "update_order" /\ pc = "insert"
    BY <2>1 DEF AfterTrigger
  <2>7. Asked(t2)
    BY <1>2, <1>3, <2>3 DEF Alone, Asked
  <2>8. LinesWritten(t2)
    BY <1>2, <1>3, <2>3, <2>5, <2>6 DEF Alone, LinesWritten
  <2>9. OrderWritten(t2)
    BY <1>2, <1>3, <2>3, <2>5, <2>6 DEF Alone, OrderWritten
  <2>10. TotalWritten(t2)
    BY <1>2, <1>3, <2>3, <2>6 DEF Alone, TotalWritten
  <2> QED BY <1>1, <2>4, <2>7, <2>8, <2>9, <2>10, AloneGoesOn DEF Alone
<1> QED BY <1>4, <1>5

\* The total.
LEMMA SumTotalAlone ==
  ASSUME Inv, AloneInv, NEW s, Sessions = {s}, SumTotal(s) PROVE AloneInv'
<1>1. At(s, "sum") /\ Open(s) /\ TypeOK
  BY DEF SumTotal, At, Open, Inv
<1>2. PICK t \in Txn : t = txn[s] /\ WritesOK(t) /\ Alone(t)
  BY <1>1, TxnFacts DEF AloneInv
<1>3. t.pc = "sum" /\ t.op = "update_order" /\ t.summed = FALSE
  BY <1>1, <1>2 DEF At, WritesOK, StepsOf, AllOps, Txn
<1>4. PICK t2 : t2 = [t EXCEPT !.sum = ActiveIn(LinesSeen(t)), !.pc = "set_total"]
  OBVIOUS
<1>5. /\ t2.pc = "set_total" /\ t2.op = t.op /\ t2.ord = t.ord /\ t2.lines = t.lines
      /\ t2.oli = t.oli /\ t2.left = t.left /\ t2.summed = t.summed /\ t2.ost = t.ost
      /\ t2.sum = ActiveIn(LinesSeen(t))
  BY <1>4 DEF Txn
<1>6. UNCHANGED rows /\ txn' = [txn EXCEPT ![s] = t2]
  BY <1>2, <1>4 DEF SumTotal, Goto
<1>7. LinesSeen(t2) = LinesSeen(t) /\ OrderSeen(t2) = OrderSeen(t)
  BY <1>5 DEF LinesSeen, OrderSeen
<1>8. Asked(t2)
  BY <1>2, <1>3, <1>5 DEF Alone, Asked
<1>9. LinesWritten(t2) /\ OrderWritten(t2) /\ TotalWritten(t2)
  BY <1>2, <1>3, <1>5, <1>7 DEF Alone, LinesWritten, OrderWritten, TotalWritten
<1> QED BY <1>1, <1>6, <1>8, <1>9, AloneGoesOn DEF Alone

LEMMA SetTotalAlone ==
  ASSUME Inv, AloneInv, NEW s, Sessions = {s}, SetTotal(s) PROVE AloneInv'
<1>1. At(s, "set_total") /\ Open(s) /\ TypeOK
  BY DEF SetTotal, At, Open, Inv
<1>2. PICK t \in Txn : t = txn[s] /\ WritesOK(t) /\ Alone(t)
  BY <1>1, TxnFacts DEF AloneInv
<1>3. t.pc = "set_total" /\ t.op = "update_order"
  BY <1>1, <1>2 DEF At, WritesOK, StepsOf, AllOps, Txn
<1>4. PICK t2 : t2 = [t EXCEPT !.summed = TRUE, !.pc = "commit"]
  OBVIOUS
<1>5. /\ t2.pc = "commit" /\ t2.op = t.op /\ t2.ord = t.ord /\ t2.lines = t.lines
      /\ t2.oli = t.oli /\ t2.left = t.left /\ t2.summed = TRUE /\ t2.ost = t.ost
      /\ t2.sum = t.sum
  BY <1>4 DEF Txn
<1>6. UNCHANGED rows /\ txn' = [txn EXCEPT ![s] = t2]
  BY <1>2, <1>4 DEF SetTotal, Goto
<1>7. LinesSeen(t2) = LinesSeen(t) /\ OrderSeen(t2) = OrderSeen(t)
  BY <1>5 DEF LinesSeen, OrderSeen
<1>8. Asked(t2)
  BY <1>2, <1>3, <1>5 DEF Alone, Asked
<1>9. LinesWritten(t2) /\ OrderWritten(t2) /\ TotalWritten(t2)
  BY <1>2, <1>3, <1>5, <1>7 DEF Alone, LinesWritten, OrderWritten, TotalWritten
<1> QED BY <1>1, <1>6, <1>8, <1>9, AloneGoesOn DEF Alone

\* The statements on an order.
LEMMA ConfirmOrderAlone ==
  ASSUME Inv, AloneInv, NEW s, Sessions = {s}, ConfirmOrder(s) PROVE AloneInv'
<1>1. At(s, "confirm") /\ Open(s) /\ TypeOK
  BY DEF ConfirmOrder, At, Open, Inv
<1>2. PICK t \in Txn : t = txn[s] /\ WritesOK(t) /\ Alone(t)
  BY <1>1, TxnFacts DEF AloneInv
<1>3. t.pc = "confirm" /\ t.op = "confirm" /\ Exists(t.ord)
  BY <1>1, <1>2, StatusNames DEF At, WritesOK, StepsOf, AllOps, Txn, Alone, Asked, Exists
<1>4. PICK t2 : t2 = [t EXCEPT !.ost = "confirmed", !.pc = "commit"]
  OBVIOUS
<1>5. t2.pc = "commit" /\ t2.op = t.op /\ t2.ord = t.ord /\ t2.ost = "confirmed"
  BY <1>4 DEF Txn
<1>6. UNCHANGED rows /\ txn' = [txn EXCEPT ![s] = t2]
  BY <1>2, <1>3, <1>4 DEF ConfirmOrder, Goto
<1>7. Asked(t2)
  BY <1>2, <1>3, <1>5 DEF Alone, Asked
<1>8. LinesWritten(t2) /\ OrderWritten(t2) /\ TotalWritten(t2)
  BY <1>3, <1>5 DEF LinesWritten, OrderWritten, TotalWritten
<1> QED BY <1>1, <1>6, <1>7, <1>8, AloneGoesOn DEF Alone

LEMMA DeleteOrderAlone ==
  ASSUME Inv, AloneInv, NEW s, Sessions = {s}, DeleteOrder(s) PROVE AloneInv'
<1>1. At(s, "delete") /\ Open(s) /\ TypeOK
  BY DEF DeleteOrder, At, Open, Inv
<1>2. PICK t \in Txn : t = txn[s] /\ WritesOK(t) /\ Alone(t)
  BY <1>1, TxnFacts DEF AloneInv
<1>3. t.pc = "delete" /\ t.op \in {"reject", "reapply"} /\ t.ost = NoRow
  BY <1>1, <1>2 DEF At, WritesOK, StepsOf, AllOps, Txn
<1>4. PICK pc, ost : IF Exists(t.ord) /\ Deletes(t) THEN pc = "cascade" /\ ost = Deleted
                     ELSE pc = "commit" /\ ost = NoRow
  OBVIOUS
<1>5. PICK t2 : t2 = [t EXCEPT !.ost = ost, !.pc = pc]
  OBVIOUS
<1>6. t2.pc = pc /\ t2.op = t.op /\ t2.ord = t.ord /\ t2.ost = ost
  BY <1>5 DEF Txn
<1>7. UNCHANGED rows /\ txn' = [txn EXCEPT ![s] = t2]
  <2>1. pc = "commit" => t2 = [t EXCEPT !.pc = "commit"]
    BY <1>3, <1>4, <1>5 DEF Txn
  <2> QED BY <1>2, <1>4, <1>5, <2>1 DEF DeleteOrder, Goto
<1>8. Asked(t2)
  BY <1>2, <1>3, <1>6 DEF Alone, Asked
<1>9. t.op = "reject" => pc = "cascade"
  BY <1>2, <1>3, <1>4, StatusNames DEF Alone, Asked, Deletes, Exists
<1>10. t.op = "reapply" => (pc = "cascade" <=> ostat[t.ord] \in {"draft", "in_procurement"})
  BY <1>2, <1>3, <1>4, StatusNames DEF Deletes, Exists
<1>11. LinesWritten(t2) /\ OrderWritten(t2) /\ TotalWritten(t2)
  BY <1>3, <1>4, <1>6, <1>9, <1>10, StatusNames DEF LinesWritten, OrderWritten, TotalWritten
<1> QED BY <1>1, <1>7, <1>8, <1>11, AloneGoesOn DEF Alone

LEMMA CascadeItemsAlone ==
  ASSUME Inv, AloneInv, NEW s, Sessions = {s}, CascadeItems(s) PROVE AloneInv'
<1>1. At(s, "cascade") /\ Open(s) /\ TypeOK
  BY DEF CascadeItems, At, Open, Inv
<1>2. PICK t \in Txn : t = txn[s] /\ WritesOK(t) /\ Alone(t)
  BY <1>1, TxnFacts DEF AloneInv
<1>3. t.pc = "cascade" /\ t.op \in {"reject", "reapply"} /\ t.ost = Deleted
  BY <1>1, <1>2 DEF At, WritesOK, StepsOf, AllOps, Txn
<1>4. PICK t2 : t2 = [t EXCEPT !.pc = "commit"]
  OBVIOUS
<1>5. t2.pc = "commit" /\ t2.op = t.op /\ t2.ord = t.ord /\ t2.ost = t.ost
  BY <1>4 DEF Txn
<1>6. UNCHANGED rows /\ txn' = [txn EXCEPT ![s] = t2]
  BY <1>2, <1>4 DEF CascadeItems, Goto
<1>7. Asked(t2)
  BY <1>2, <1>3, <1>5 DEF Alone, Asked
<1>8. LinesWritten(t2) /\ OrderWritten(t2) /\ TotalWritten(t2)
  BY <1>2, <1>3, <1>5 DEF Alone, LinesWritten, OrderWritten, TotalWritten
<1> QED BY <1>1, <1>6, <1>7, <1>8, AloneGoesOn DEF Alone

\* The endpoint.
LEMMA PyDeriveAlone ==
  ASSUME Inv, AloneInv, NEW s, Sessions = {s}, PyDerive(s) PROVE AloneInv'
<1>1. At(s, "py_derive") /\ Open(s) /\ TypeOK
  BY DEF PyDerive, At, Open, Inv
<1>2. PICK t \in Txn : t = txn[s] /\ WritesOK(t) /\ Alone(t)
  BY <1>1, TxnFacts DEF AloneInv
<1>3. PICK S : S = StatusesOf(istat[t.ord])
  OBVIOUS
<1>4. /\ t.pc = "py_derive" /\ t.op = "derive_status" /\ t.ost = NoRow /\ t.old = ostat[t.ord]
  BY <1>1, <1>2 DEF At, WritesOK, StepsOf, AllOps, Txn, Alone, Asked
<1>5. CASE S = {} \/ PyDeriveOrderStatus(S) = t.old
  <2>1. PICK t2 : t2 = [t EXCEPT !.pc = "commit"]
    OBVIOUS
  <2>2. /\ t2.pc = "commit" /\ t2.op = t.op /\ t2.ord = t.ord /\ t2.ost = t.ost /\ t2.old = t.old
    BY <2>1 DEF Txn
  <2>3. UNCHANGED rows /\ txn' = [txn EXCEPT ![s] = t2]
    BY <1>2, <1>3, <1>5, <2>1 DEF PyDerive, Goto
  <2>4. Asked(t2)
    BY <1>2, <1>4, <2>2 DEF Alone, Asked
  <2>5. OrderSeen(t2) = IF S = {} THEN ostat[t2.ord] ELSE PyDeriveOrderStatus(S)
    BY <1>4, <1>5, <2>2 DEF OrderSeen
  <2>6. LinesWritten(t2) /\ OrderWritten(t2) /\ TotalWritten(t2)
    BY <1>3, <1>4, <2>2, <2>5 DEF LinesWritten, OrderWritten, TotalWritten
  <2> QED BY <1>1, <2>3, <2>4, <2>6, AloneGoesOn DEF Alone
<1>6. CASE ~(S = {} \/ PyDeriveOrderStatus(S) = t.old)
  <2>1. PICK t2 : t2 = [t EXCEPT !.new = PyDeriveOrderStatus(S), !.pc = "store"]
    OBVIOUS
  <2>2. /\ t2.pc = "store" /\ t2.op = t.op /\ t2.ord = t.ord /\ t2.old = t.old
        /\ t2.new = PyDeriveOrderStatus(S)
    BY <2>1 DEF Txn
  <2>3. UNCHANGED rows /\ txn' = [txn EXCEPT ![s] = t2]
    BY <1>2, <1>3, <1>6, <2>1 DEF PyDerive, Goto
  <2>4. Asked(t2)
    BY <1>2, <1>4, <2>2 DEF Alone, Asked
  <2>5. LinesWritten(t2) /\ OrderWritten(t2) /\ TotalWritten(t2)
    BY <1>3, <1>4, <1>6, <2>2 DEF LinesWritten, OrderWritten, TotalWritten
  <2> QED BY <1>1, <2>3, <2>4, <2>5, AloneGoesOn DEF Alone
<1> QED BY <1>5, <1>6

\* Every step of a session that is alone.
LEMMA NextAlone ==
  ASSUME NEW s, Sessions = {s}, Inv, AloneInv, [Next]_vars
  PROVE  AloneInv'
<1>1. CASE Call(s)
  BY <1>1, CallAlone
<1>2. ASSUME NEW lines, Commit(s, lines) PROVE AloneInv'
  BY <1>2 DEF Commit, AloneInv, Open, Idle, Inv, TypeOK
<1>3. CASE Statement(s)
  BY <1>2, <1>3, WriteItemAlone, InsertItemAlone, DeriveAlone, CompareAlone, StoreAlone,
     SumTotalAlone, SetTotalAlone, ConfirmOrderAlone, DeleteOrderAlone, CascadeItemsAlone,
     PyDeriveAlone DEF Statement
<1>4. CASE Rollback(s) \/ DeadlockVictim(s)
  BY <1>4, AloneGoesOn DEF Rollback, DeadlockVictim, Goto, Inv
<1>5. CASE UNCHANGED vars
  BY <1>5 DEF vars, AloneInv, Open, Alone, Asked, LinesWritten, OrderWritten, TotalWritten,
     Exists, LinesSeen, OrderSeen
<1> QED BY <1>1, <1>3, <1>4, <1>5 DEF Next

\* More of the order book's names.
LEMMA SameRules ==
  /\ Book!Deleted = Deleted /\ Book!OrderStatus = OrderStatus
  /\ Book!IMMUTABLE_ITEM_STATUSES = IMMUTABLE_ITEM_STATUSES
  /\ Book!IMMUTABLE_ORDER_STATUSES = IMMUTABLE_ORDER_STATUSES
  /\ \A ln : Book!PresentIn(ln) = PresentIn(ln) /\ Book!ActiveIn(ln) = ActiveIn(ln)
  /\ \A ln : Book!StatusesOf(ln) = StatusesOf(ln)
  /\ \A ln, L : Book!Inserted(ln, L) = Inserted(ln, L)
  /\ \A S : Book!PyDeriveOrderStatus(S) = PyDeriveOrderStatus(S)
<1>1. Book!NoRow = NoRow
  BY SameNames
<1>2. \A ln : Book!PresentIn(ln) = PresentIn(ln) /\ Book!ActiveIn(ln) = ActiveIn(ln)
  BY <1>1 DEF Book!PresentIn, PresentIn, Book!ActiveIn, ActiveIn
<1>3. \A ln : Book!StatusesOf(ln) = StatusesOf(ln)
  BY <1>1 DEF Book!StatusesOf, StatusesOf
<1>4. \A ln, L : Book!Inserted(ln, L) = Inserted(ln, L)
  BY DEF Book!Inserted, Inserted
<1>5. \A S : Book!PyDeriveOrderStatus(S) = PyDeriveOrderStatus(S)
  BY DEF Book!PyDeriveOrderStatus, PyDeriveOrderStatus, Book!Earliest, Earliest,
     Book!ITEM_STATUS_WEIGHT, ITEM_STATUS_WEIGHT,
     Book!ITEM_TO_ORDER_STATUS_MAP, ITEM_TO_ORDER_STATUS_MAP
<1>6. /\ Book!Deleted = Deleted /\ Book!OrderStatus = OrderStatus
      /\ Book!IMMUTABLE_ITEM_STATUSES = IMMUTABLE_ITEM_STATUSES
      /\ Book!IMMUTABLE_ORDER_STATUSES = IMMUTABLE_ORDER_STATUSES
  BY DEF Book!Deleted, Deleted, Book!OrderStatus, OrderStatus,
     Book!IMMUTABLE_ITEM_STATUSES, IMMUTABLE_ITEM_STATUSES,
     Book!IMMUTABLE_ORDER_STATUSES, IMMUTABLE_ORDER_STATUSES
<1> QED BY <1>2, <1>3, <1>4, <1>5, <1>6

\* The rows a commit leaves when it creates no order.
LEMMA CommitRows ==
  ASSUME TypeOK, NEW s \in Sessions, NEW lines, Commit(s, lines), NEW t \in Txn, t = txn[s],
         DOMAIN lines = {}
  PROVE  /\ ostat' = [ostat EXCEPT ![t.ord] = OrderSeen(t)]
         /\ t.ost = Deleted => istat' = [istat EXCEPT ![t.ord] = NoLines]
                               /\ total' = [total EXCEPT ![t.ord] = {}]
         /\ t.ost # Deleted => istat' = [istat EXCEPT ![t.ord] = LinesSeen(t)]
         /\ t.ost # Deleted /\ t.summed => total' = [total EXCEPT ![t.ord] = t.sum]
         /\ t.ost # Deleted /\ ~t.summed => total' = total
         /\ t.op # "reapply" => journal' = journal
BY DEF Commit, TypeOK, Txn

\* The commit of each tool is the order book's call.
LEMMA CommitRefines ==
  ASSUME NEW s, Sessions = {s}, Inv, AloneInv,
         NEW N \in SUBSET Orders, NEW lines \in [N -> SUBSET Lines], Commit(s, lines)
  PROVE  Book!Next \/ UNCHANGED rows
<1>1. At(s, "commit") /\ Open(s) /\ TypeOK
  BY DEF Commit, At, Open, Inv
<1>2. PICK t \in Txn : t = txn[s] /\ WritesOK(t) /\ Alone(t)
  BY <1>1, TxnFacts DEF AloneInv
<1>3. /\ t.op \in {"update_order_item_status", "update_order", "confirm", "reject", "reapply",
                   "derive_status"}
      /\ t.pc = "commit" /\ t.ord \in Orders /\ t.lines \in SUBSET Lines
      /\ istat[t.ord] \in [Lines -> Line] /\ DOMAIN lines = N
  BY <1>1, <1>2 DEF At, WritesOK, StepsOf, AllOps, Txn, TypeOK
<1>4. t.op # "reapply" => DOMAIN lines = {}
  BY <1>2 DEF Commit
<1>5. t.op # "update_order" => t.summed = FALSE
  BY <1>2 DEF WritesOK, Txn
<1>6. t.oli = NoLines => LinesSeen(t) = istat[t.ord]
  BY <1>3 DEF LinesSeen, NoLines
<1>7. CASE t.op = "update_order_item_status"
  <2>1. PICK l \in Lines : /\ t.lines = {l}
                           /\ istat[t.ord][l] \notin {NoRow} \cup IMMUTABLE_ITEM_STATUSES
    BY <1>2, <1>3, <1>7 DEF Alone, Asked
  <2>2. t.to \in Targets /\ LinesSeen(t) = [istat[t.ord] EXCEPT ![l] = t.to]
    BY <1>2, <1>3, <1>7, <2>1 DEF Alone, LinesWritten
  <2>3. OrderSeen(t) = Triggered([istat[t.ord] EXCEPT ![l] = t.to]) /\ t.ost # Deleted
    BY <1>2, <1>3, <1>7, <2>2 DEF Alone, OrderWritten, WritesOK
  <2>4. /\ ostat' = [ostat EXCEPT ![t.ord] = Triggered([istat[t.ord] EXCEPT ![l] = t.to])]
        /\ istat' = [istat EXCEPT ![t.ord] = [istat[t.ord] EXCEPT ![l] = t.to]]
        /\ total' = total /\ journal' = journal
    BY <1>1, <1>2, <1>4, <1>5, <1>7, <2>2, <2>3, CommitRows
  <2>5. Book!SetItemStatus(t.ord, l, t.to)
    BY <1>1, <1>3, <2>1, <2>4, SameNames, SameRules DEF Book!SetItemStatus
  <2> QED BY <1>3, <2>2, <2>5 DEF Book!Next
<1>8. CASE t.op = "update_order"
  <2>1. /\ Exists(t.ord) /\ ostat[t.ord] \notin IMMUTABLE_ORDER_STATUSES
        /\ t.lines # {} /\ t.lines \cap PresentIn(istat[t.ord]) = {}
    BY <1>2, <1>8 DEF Alone, Asked
  <2>2. LinesSeen(t) = Inserted(istat[t.ord], t.lines)
    <3>1. t.left = {} /\ t.lines \ {} = t.lines
      BY <1>2, <1>3, <1>8 DEF Alone, LinesWritten
    <3> QED BY <1>2, <1>8, <3>1 DEF Alone, LinesWritten
  <2>3. /\ OrderSeen(t) = Triggered(LinesSeen(t)) /\ t.sum = ActiveIn(LinesSeen(t)) /\ t.summed
        /\ t.ost # Deleted
    BY <1>2, <1>3, <1>8 DEF Alone, OrderWritten, TotalWritten, WritesOK
  <2>4. /\ ostat' = [ostat EXCEPT ![t.ord] = Triggered(Inserted(istat[t.ord], t.lines))]
        /\ istat' = [istat EXCEPT ![t.ord] = Inserted(istat[t.ord], t.lines)]
        /\ total' = [total EXCEPT ![t.ord] = ActiveIn(Inserted(istat[t.ord], t.lines))]
        /\ journal' = journal
    BY <1>1, <1>2, <1>4, <1>8, <2>2, <2>3, CommitRows
  <2>5. Book!AddItems(t.ord, t.lines)
    BY <2>1, <2>4, SameNames, SameRules DEF Book!AddItems, Book!Exists, Exists
  <2> QED BY <1>3, <2>5 DEF Book!Next
<1>9. CASE t.op = "confirm"
  <2>1. ostat[t.ord] = "draft" /\ t.ost = "confirmed" /\ t.ost # Deleted /\ OrderSeen(t) = "confirmed"
    BY <1>2, <1>3, <1>9, StatusNames DEF Alone, Asked, OrderWritten, OrderSeen, Deleted, NoRow
  <2>2. LinesSeen(t) = istat[t.ord]
    BY <1>2, <1>6, <1>9 DEF WritesOK
  <2>3. /\ ostat' = [ostat EXCEPT ![t.ord] = "confirmed"] /\ istat' = istat
        /\ total' = total /\ journal' = journal
    <3>1. [istat EXCEPT ![t.ord] = istat[t.ord]] = istat
      BY <1>1, <1>3 DEF TypeOK
    <3> QED BY <1>1, <1>2, <1>4, <1>5, <1>9, <2>1, <2>2, <3>1, CommitRows
  <2>4. Book!ConfirmDraft(t.ord)
    BY <2>1, <2>3 DEF Book!ConfirmDraft
  <2> QED BY <1>3, <2>4 DEF Book!Next
<1>10. CASE t.op = "reject"
  <2>1. ostat[t.ord] = "draft" /\ t.ost = Deleted /\ OrderSeen(t) = Deleted
    BY <1>2, <1>3, <1>10, StatusNames DEF Alone, Asked, OrderWritten, OrderSeen
  <2>2. /\ ostat' = [ostat EXCEPT ![t.ord] = Deleted] /\ istat' = [istat EXCEPT ![t.ord] = NoLines]
        /\ total' = [total EXCEPT ![t.ord] = {}] /\ journal' = journal
    BY <1>1, <1>2, <1>4, <1>10, <2>1, CommitRows
  <2>3. Book!RejectDraft(t.ord)
    BY <2>1, <2>2, SameNames, SameRules DEF Book!RejectDraft
  <2> QED BY <1>3, <2>3 DEF Book!Next
<1>11. CASE t.op = "reapply"
  <2>1. t.ord \in journal /\ (t.ost = Deleted <=> ostat[t.ord] \in {"draft", "in_procurement"})
    BY <1>2, <1>3, <1>11 DEF Alone, Asked, OrderWritten
  <2>2. t.ost \in {NoRow, Deleted} /\ LinesSeen(t) = istat[t.ord] /\ t.summed = FALSE
    BY <1>2, <1>5, <1>6, <1>11 DEF WritesOK
  <2>3. PICK out : out = IF t.ost = Deleted THEN {t.ord} ELSE {}
    OBVIOUS
  <2>4. Book!RolledBack({t.ord}) = out
    BY <2>1, <2>3 DEF Book!RolledBack
  <2>5. OrderSeen(t) = IF t.ord \in out THEN Deleted ELSE ostat[t.ord]
    BY <2>2, <2>3, StatusNames DEF OrderSeen
  <2>6. /\ ostat' = [o \in Orders |-> IF o \in N THEN DraftWith(lines[o])
                                      ELSE IF o \in out THEN Deleted ELSE ostat[o]]
        /\ istat' = [o \in Orders |-> IF o \in N THEN Inserted(NoLines, lines[o])
                                      ELSE IF o \in out THEN NoLines ELSE istat[o]]
    BY <1>2, <1>3, <2>2, <2>3, <2>5 DEF Commit
  <2>7. total' = [o \in Orders |-> IF o \in out THEN {} ELSE total[o]]
    BY <1>1, <1>2, <1>3, <2>2, <2>3 DEF Commit, TypeOK
  <2>8. /\ journal' = (journal \ {t.ord}) \cup N /\ {t.ord} \subseteq journal
        /\ \A n \in N : ostat[n] = NoRow
    BY <1>2, <1>3, <1>11, <2>1 DEF Commit
  <2>9. Book!ApplyAnalysis({t.ord}, lines)
    BY <1>3, <2>4, <2>6, <2>7, <2>8, SameNames, SameRules DEF Book!ApplyAnalysis
  <2>10. {t.ord} \in SUBSET Orders
    BY <1>3
  <2> QED BY <2>9, <2>10 DEF Book!Next
<1>12. CASE t.op = "derive_status"
  <2>1. PICK S : S = StatusesOf(istat[t.ord])
    OBVIOUS
  <2>2. /\ Exists(t.ord)
        /\ OrderSeen(t) = IF S = {} THEN ostat[t.ord] ELSE PyDeriveOrderStatus(S)
    BY <1>2, <1>3, <1>12, <2>1 DEF Alone, Asked, OrderWritten
  <2>3. LinesSeen(t) = istat[t.ord] /\ t.ost # Deleted
    BY <1>2, <1>6, <1>12 DEF WritesOK
  <2>4. ostat' = [ostat EXCEPT ![t.ord] = OrderSeen(t)] /\ istat' = istat
        /\ total' = total /\ journal' = journal
    <3>1. [istat EXCEPT ![t.ord] = istat[t.ord]] = istat
      BY <1>1, <1>3 DEF TypeOK
    <3> QED BY <1>1, <1>2, <1>4, <1>5, <1>12, <2>3, <3>1, CommitRows
  <2>5. ostat' = IF S = {} THEN ostat ELSE [ostat EXCEPT ![t.ord] = PyDeriveOrderStatus(S)]
    <3>1. [ostat EXCEPT ![t.ord] = ostat[t.ord]] = ostat
      BY <1>1, <1>3 DEF TypeOK
    <3> QED BY <2>2, <2>4, <3>1
  <2>6. Book!DeriveEndpoint(t.ord)
    BY <2>1, <2>2, <2>4, <2>5, SameRules DEF Book!DeriveEndpoint, Book!Exists, Exists
  <2> QED BY <1>3, <2>6 DEF Book!Next
<1> QED BY <1>3, <1>7, <1>8, <1>9, <1>10, <1>11, <1>12

\* Every step of a session that is alone is a call of the order book, or shows nothing.
LEMMA StepRefines ==
  ASSUME NEW s, Sessions = {s}, Inv, AloneInv, [Next]_vars
  PROVE  [Book!Next]_(Book!vars)
<1>1. UNCHANGED rows => UNCHANGED Book!vars
  BY DEF rows, Book!vars
<1>2. CASE Call(s)
  <2>1. ASSUME NEW o \in Orders, NEW L \in SUBSET Lines, CreateOrder(s, o, L)
        PROVE  Book!Next
    BY <2>1 DEF CreateOrder, Book!Next
  <2>2. ASSUME NEW o \in Orders, NEW lines \in [{o} -> SUBSET Lines], ApplyFirst(s, lines)
        PROVE  Book!Next
    <3>1. {} \in SUBSET Orders /\ {o} \in SUBSET Orders /\ Book!ApplyAnalysis({}, lines)
      BY <2>2 DEF ApplyFirst
    <3> QED BY <3>1 DEF Book!Next
  <2>3. ASSUME NEW op, NEW o, NEW L, NEW to, NEW pc, Begin(s, op, o, L, to, pc)
        PROVE  UNCHANGED rows
    BY <2>3 DEF Begin
  <2> QED BY <1>1, <1>2, <2>1, <2>2, <2>3
          DEF Call, LookupItem, ReadOrder, GetDraft, ListCreated, LoadOrder
<1>3. CASE Statement(s)
  <2>1. ASSUME NEW N \in SUBSET Orders, NEW lines \in [N -> SUBSET Lines], Commit(s, lines)
        PROVE  Book!Next \/ UNCHANGED rows
    BY <2>1, CommitRefines
  <2> QED BY <1>1, <1>3, <2>1
          DEF Statement, Goto, WriteItem, InsertItem, Derive, Compare, Store, SumTotal, SetTotal,
          ConfirmOrder, DeleteOrder, CascadeItems, PyDerive
<1>4. CASE Rollback(s) \/ DeadlockVictim(s)
  BY <1>1, <1>4 DEF Rollback, DeadlockVictim, Goto
<1>5. CASE UNCHANGED vars
  BY <1>1, <1>5 DEF vars, rows
<1> QED BY <1>2, <1>3, <1>4, <1>5 DEF Next

\* With one session the statements, locks and commits implement the order book, whose
\* calls are indivisible: each call appears at its commit, or not at all.
THEOREM AloneIsOrderBook ==
  ASSUME NEW s, Sessions = {s}
  PROVE  Spec => SerialIsOrderBook
<1>1. Init => Book!Init /\ AloneInv
  BY DEF Init, AloneInv, Open, Idle
<1>2. Inv /\ AloneInv /\ [Next]_vars => AloneInv'
  BY NextAlone
<1>3. Inv /\ AloneInv /\ [Next]_vars => [Book!Next]_(Book!vars)
  BY StepRefines
<1> QED BY <1>1, <1>2, <1>3, Invariance, PTL DEF Spec, SerialIsOrderBook, Book!Spec
=============================================================================
