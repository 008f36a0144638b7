---------------------------- MODULE OrderBookProofs ----------------------------
(***************************************************************************)
(* The order book keeps its invariants for any orders, lines and targets.  *)
(* The invariant is inductive as a conjunction: that a final order has     *)
(* only final lines (ImmutableOrdersFrozen) comes from StatusDerived, and  *)
(* that a confirmed order has no line to change from DraftIsEmpty.         *)
(***************************************************************************)
EXTENDS OrderBook, OrderRowsProofs

Inv == TypeOK /\ StatusDerived /\ DraftIsEmpty /\ TotalCoversActive

(* ----------------------------- induction ------------------------------- *)

\* An empty database satisfies the invariant.
LEMMA InitInv == Init => Inv
<1> SUFFICES ASSUME Init PROVE Inv OBVIOUS
<1>1. TypeOK
  BY NoLinesFacts DEF Init, TypeOK, Row
<1>2. \A o \in Orders : ostat[o] = NoRow /\ istat[o] = NoLines /\ total[o] = {}
  BY DEF Init
<1> QED
  BY <1>1, <1>2, NoLinesFacts
  DEF Inv, StatusDerived, DraftIsEmpty, TotalCoversActive

\* What a step has to establish of the one order it writes.
OrderInv(st, ln, tot) ==
  /\ st \in Row /\ ln \in [Lines -> Line] /\ tot \in SUBSET Lines
  /\ PresentIn(ln) # {} => st = PyDeriveOrderStatus(StatusesOf(ln))
  /\ st \in {"draft", "confirmed", NoRow, Deleted} <=> PresentIn(ln) = {}
  /\ tot # {} => ActiveIn(ln) \subseteq tot /\ tot \subseteq PresentIn(ln)

\* The invariant is its type part and OrderInv of every order.
LEMMA InvPerOrder ==
  Inv <=> /\ ostat \in [Orders -> Row]
          /\ istat \in [Orders -> [Lines -> Line]]
          /\ total \in [Orders -> SUBSET Lines]
          /\ journal \in SUBSET Orders
          /\ \A o \in Orders : OrderInv(ostat[o], istat[o], total[o])
BY DEF Inv, TypeOK, StatusDerived, DraftIsEmpty, TotalCoversActive, OrderInv

\* A step that writes one order, or none, is judged on that order alone.
LEMMA OneOrder ==
  ASSUME Inv, NEW o \in Orders, NEW st, NEW ln, NEW tot,
         OrderInv(st, ln, tot),
         ostat' = [ostat EXCEPT ![o] = st],
         istat' = [istat EXCEPT ![o] = ln],
         total' = [total EXCEPT ![o] = tot],
         journal' \in SUBSET Orders
  PROVE  Inv'
<1>1. /\ ostat' \in [Orders -> Row]
      /\ istat' \in [Orders -> [Lines -> Line]]
      /\ total' \in [Orders -> SUBSET Lines]
  BY InvPerOrder DEF OrderInv
<1>2. ASSUME NEW p \in Orders PROVE OrderInv(ostat'[p], istat'[p], total'[p])
  <2>1. CASE p = o
    BY <2>1, InvPerOrder
  <2>2. CASE p # o
    <3>1. ostat'[p] = ostat[p] /\ istat'[p] = istat[p] /\ total'[p] = total[p]
      BY <2>2, InvPerOrder
    <3> QED BY <3>1, InvPerOrder
  <2> QED BY <2>1, <2>2
<1> QED
  BY <1>1, <1>2
  DEF Inv, TypeOK, StatusDerived, DraftIsEmpty, TotalCoversActive, OrderInv

\* An order whose row is missing or final in the pipeline, seen as OrderInv sees it.
LEMMA OrderFacts ==
  ASSUME Inv, NEW o \in Orders
  PROVE  /\ OrderInv(ostat[o], istat[o], total[o])
         /\ ostat[o] = [ostat EXCEPT ![o] = ostat[o]][o]
         /\ ostat = [ostat EXCEPT ![o] = ostat[o]]
         /\ istat = [istat EXCEPT ![o] = istat[o]]
         /\ total = [total EXCEPT ![o] = total[o]]
         /\ journal \in SUBSET Orders
BY InvPerOrder

\* create_order keeps the invariant.
LEMMA CreateOrderInv ==
  ASSUME Inv, NEW o \in Orders, NEW L \in SUBSET Lines, CreateOrder(o, L)
  PROVE  Inv'
<1> DEFINE ln == Inserted(NoLines, L)
<1>1. /\ ln \in [Lines -> Line] /\ PresentIn(ln) = L /\ ActiveIn(ln) = L
      /\ L # {}
  BY NewLinesFacts DEF CreateOrder
<1>2. OrderInv(Triggered(ln), ln, L)
  BY <1>1, TriggeredFacts, StatusNames DEF OrderInv, Row
<1> QED BY <1>2, OneOrder, OrderFacts DEF CreateOrder

\* update_order keeps the invariant: the new lines are pending, so the order is
\* in procurement afterwards, and its total is summed over all active lines.
LEMMA AddItemsInv ==
  ASSUME Inv, NEW o \in Orders, NEW L \in SUBSET Lines, AddItems(o, L)
  PROVE  Inv'
<1> DEFINE ln == Inserted(istat[o], L)
<1>1. /\ ln \in [Lines -> Line] /\ PresentIn(ln) # {}
      /\ ActiveIn(ln) \subseteq PresentIn(ln) /\ ActiveIn(ln) \in SUBSET Lines
  BY OrderFacts, InsertedFacts, StatusesType DEF AddItems, OrderInv, ActiveIn
<1>2. OrderInv(Triggered(ln), ln, ActiveIn(ln))
  BY <1>1, TriggeredFacts, StatusNames DEF OrderInv, Row
<1> QED BY <1>2, OneOrder, OrderFacts DEF AddItems

\* update_order_item_status keeps the invariant: it removes no line, so the order
\* stays derived, and a total summed before still covers what is active.
LEMMA SetItemStatusInv ==
  ASSUME Inv, NEW o \in Orders, NEW l \in Lines, NEW to \in Targets,
         SetItemStatus(o, l, to)
  PROVE  Inv'
<1> DEFINE ln == [istat[o] EXCEPT ![l] = to]
<1>1. /\ to \in ItemStatus /\ to # NoRow
      /\ istat[o] \in [Lines -> Line]
  BY TargetsAssumption, StatusNames, OrderFacts DEF OrderInv
<1>2. ln \in [Lines -> Line]
  BY <1>1 DEF Line
<1>3. /\ l \in ActiveIn(istat[o])
      /\ PresentIn(ln) = PresentIn(istat[o])
      /\ ActiveIn(ln) \subseteq ActiveIn(istat[o])
  BY <1>1 DEF SetItemStatus, PresentIn, ActiveIn, IMMUTABLE_ITEM_STATUSES
<1>4. PresentIn(ln) # {}
  BY <1>1, <1>3, StatusesType
<1>5. OrderInv(Triggered(ln), ln, total[o])
  BY <1>2, <1>3, <1>4, TriggeredFacts, OrderFacts, StatusNames DEF OrderInv, Row
<1>6. istat' = [istat EXCEPT ![o] = ln]
  BY DEF SetItemStatus
<1>7. /\ ostat' = [ostat EXCEPT ![o] = Triggered(ln)]
      /\ total' = [total EXCEPT ![o] = total[o]]
      /\ journal' \in SUBSET Orders
  BY OrderFacts DEF SetItemStatus
<1> HIDE DEF ln
<1> QED BY <1>5, <1>6, <1>7, OneOrder

\* Confirming keeps the invariant: a draft has no line.
LEMMA ConfirmDraftInv ==
  ASSUME Inv, NEW o \in Orders, ConfirmDraft(o)
  PROVE  Inv'
<1>1. OrderInv("confirmed", istat[o], total[o])
  BY OrderFacts, StatusNames DEF ConfirmDraft, OrderInv, Row
<1>2. /\ ostat' = [ostat EXCEPT ![o] = "confirmed"]
      /\ istat' = [istat EXCEPT ![o] = istat[o]]
      /\ total' = [total EXCEPT ![o] = total[o]]
      /\ journal' \in SUBSET Orders
  BY OrderFacts DEF ConfirmDraft
<1> QED BY <1>1, <1>2, OneOrder

\* Rejecting keeps the invariant: the lines go with their order.
LEMMA RejectDraftInv ==
  ASSUME Inv, NEW o \in Orders, RejectDraft(o)
  PROVE  Inv'
<1>1. OrderInv(Deleted, NoLines, {})
  BY NoLinesFacts, StatusNames DEF OrderInv, Row
<1>2. journal' \in SUBSET Orders
  BY OrderFacts DEF RejectDraft
<1> QED BY <1>1, <1>2, OneOrder DEF RejectDraft

\* Applying an analysis keeps the invariant: new orders are derived from their
\* lines, rolled back ones disappear with theirs.
LEMMA ApplyAnalysisInv ==
  ASSUME Inv, NEW J \in SUBSET Orders, NEW N \in SUBSET Orders,
         NEW lines \in [N -> SUBSET Lines], ApplyAnalysis(J, lines)
  PROVE  Inv'
<1>1. OrderInv(Deleted, NoLines, {})
  BY NoLinesFacts, StatusNames DEF OrderInv, Row
<1>2. ASSUME NEW o \in Orders
      PROVE  OrderInv(ostat'[o], istat'[o], total'[o])
  <2>1. CASE o \in N
    <3>1. ostat[o] = NoRow /\ o \notin RolledBack(J)
      BY <2>1, StatusNames DEF ApplyAnalysis, RolledBack
    <3>2. total[o] = {}
      BY <3>1, InvPerOrder DEF OrderInv
    <3>3. /\ ostat'[o] = DraftWith(lines[o])
          /\ istat'[o] = Inserted(NoLines, lines[o])
          /\ total'[o] = {}
          /\ lines[o] \in SUBSET Lines
      BY <2>1, <3>1, <3>2 DEF ApplyAnalysis
    <3>4. OrderInv(DraftWith(lines[o]), Inserted(NoLines, lines[o]), {})
      BY <3>3, DraftWithFacts, StatusNames DEF OrderInv, Row
    <3> QED BY <3>3, <3>4
  <2>2. CASE o \notin N /\ o \in RolledBack(J)
    BY <1>1, <2>2 DEF ApplyAnalysis
  <2>3. CASE o \notin N /\ o \notin RolledBack(J)
    BY <2>3, InvPerOrder DEF ApplyAnalysis
  <2> QED BY <2>1, <2>2, <2>3
<1>3. \A o \in Orders : /\ ostat'[o] \in Row /\ istat'[o] \in [Lines -> Line]
                        /\ total'[o] \in SUBSET Lines
  BY <1>2 DEF OrderInv
<1>4. /\ ostat' \in [Orders -> Row]
      /\ istat' \in [Orders -> [Lines -> Line]]
      /\ total' \in [Orders -> SUBSET Lines]
      /\ journal' \in SUBSET Orders
  BY <1>3, InvPerOrder DEF ApplyAnalysis
<1> QED
  BY <1>2, <1>4
  DEF Inv, TypeOK, StatusDerived, DraftIsEmpty, TotalCoversActive, OrderInv

\* The deprecated endpoint keeps the invariant: the Python rule is the SQL rule.
LEMMA DeriveEndpointInv ==
  ASSUME Inv, NEW o \in Orders, DeriveEndpoint(o)
  PROVE  Inv' /\ UNCHANGED vars
<1>1. ostat' = ostat
  BY OrderFacts, StatusesType DEF DeriveEndpoint, OrderInv
<1>2. UNCHANGED vars
  BY <1>1 DEF DeriveEndpoint, vars
<1> QED
  BY <1>2
  DEF vars, Inv, TypeOK, StatusDerived, DraftIsEmpty, TotalCoversActive

\* Every step keeps the invariant.
LEMMA NextInv == Inv /\ [Next]_vars => Inv'
<1> SUFFICES ASSUME Inv, [Next]_vars PROVE Inv' OBVIOUS
<1>1. ASSUME NEW o \in Orders, NEW L \in SUBSET Lines,
             CreateOrder(o, L) \/ AddItems(o, L)
      PROVE  Inv'
  BY <1>1, CreateOrderInv, AddItemsInv
<1>2. ASSUME NEW o \in Orders, NEW l \in Lines, NEW to \in Targets,
             SetItemStatus(o, l, to)
      PROVE  Inv'
  BY <1>2, SetItemStatusInv
<1>3. ASSUME NEW o \in Orders, ConfirmDraft(o) PROVE Inv'
  BY <1>3, ConfirmDraftInv
<1>4. ASSUME NEW o \in Orders, RejectDraft(o) PROVE Inv'
  BY <1>4, RejectDraftInv
<1>5. ASSUME NEW o \in Orders, DeriveEndpoint(o) PROVE Inv'
  BY <1>5, DeriveEndpointInv
<1>6. ASSUME NEW J \in SUBSET Orders, NEW N \in SUBSET Orders,
             NEW lines \in [N -> SUBSET Lines], ApplyAnalysis(J, lines)
      PROVE  Inv'
  BY <1>6, ApplyAnalysisInv
<1>7. CASE UNCHANGED vars
  BY <1>7 DEF vars, Inv, TypeOK, StatusDerived, DraftIsEmpty, TotalCoversActive
<1> QED BY <1>1, <1>2, <1>3, <1>4, <1>5, <1>6, <1>7 DEF Next

(* ------------------------------ theorems ------------------------------- *)

\* The inductive invariant holds in every reachable state.
THEOREM Invariance == Spec => []Inv
BY InitInv, NextInv, PTL DEF Spec

\* The variables keep their types.
THEOREM TypeCorrect == Spec => []TypeOK
<1>1. Inv => TypeOK
  BY DEF Inv
<1> QED BY <1>1, Invariance, PTL

\* The stored status of an order with lines is always the derived one.
THEOREM StatusIsDerived == Spec => []StatusDerived
<1>1. Inv => StatusDerived
  BY DEF Inv
<1> QED BY <1>1, Invariance, PTL

\* A draft never has a line.
THEOREM DraftsAreEmpty == Spec => []DraftIsEmpty
<1>1. Inv => DraftIsEmpty
  BY DEF Inv
<1> QED BY <1>1, Invariance, PTL

\* total_price, once computed, covers every active line.
THEOREM TotalIsComplete == Spec => []TotalCoversActive
<1>1. Inv => TotalCoversActive
  BY DEF Inv
<1> QED BY <1>1, Invariance, PTL

\* An order in an immutable status has no line an operator may still change.
LEMMA ImmutableHasNoOpenLine ==
  ASSUME Inv, NEW o \in Orders, ostat[o] \in IMMUTABLE_ORDER_STATUSES,
         NEW l \in Lines
  PROVE  istat[o][l] \in {NoRow} \cup IMMUTABLE_ITEM_STATUSES
<1> DEFINE S == StatusesOf(istat[o])
<1>1. /\ S \in SUBSET ItemStatus
      /\ S = {} <=> PresentIn(istat[o]) = {}
  BY OrderFacts, StatusesType DEF OrderInv
<1>2. CASE S = {}
  BY <1>2 DEF StatusesOf
<1>3. CASE S # {}
  <2>1. DeriveOrderStatus(S) \in IMMUTABLE_ORDER_STATUSES
    BY <1>1, <1>3, OrderFacts, DerivationsAgree DEF OrderInv
  <2>2. S \subseteq IMMUTABLE_ITEM_STATUSES
    BY <1>1, <1>3, <2>1, DerivedFinal
  <2> QED BY <2>2 DEF StatusesOf
<1> QED BY <1>2, <1>3

\* An order in an immutable status is never written again.
THEOREM ImmutableOrders == Spec => ImmutableOrdersFrozen
<1> DEFINE Frozen(o) == ostat'[o] = ostat[o] /\ istat'[o] = istat[o]
                                            /\ total'[o] = total[o]
<1>1. ASSUME Inv, [Next]_vars, NEW o \in Orders,
             ostat[o] \in IMMUTABLE_ORDER_STATUSES
      PROVE  Frozen(o)
  <2>1. /\ ostat[o] \notin {NoRow, Deleted, "draft", "in_procurement"}
        /\ ostat \in [Orders -> Row] /\ istat \in [Orders -> [Lines -> Line]]
        /\ total \in [Orders -> SUBSET Lines]
    BY <1>1, InvPerOrder DEF IMMUTABLE_ORDER_STATUSES, NoRow, Deleted
  <2>2. ASSUME NEW p \in Orders, NEW L \in SUBSET Lines,
               CreateOrder(p, L) \/ AddItems(p, L)
        PROVE  Frozen(o)
    <3>1. p # o
      BY <1>1, <2>1, <2>2 DEF CreateOrder, AddItems
    <3> QED BY <2>1, <2>2, <3>1 DEF CreateOrder, AddItems
  <2>3. ASSUME NEW p \in Orders, NEW l \in Lines, NEW to \in Targets,
               SetItemStatus(p, l, to)
        PROVE  Frozen(o)
    <3>1. p # o
      BY <1>1, <2>3, ImmutableHasNoOpenLine DEF SetItemStatus
    <3> QED BY <2>1, <2>3, <3>1 DEF SetItemStatus
  <2>4. ASSUME NEW p \in Orders, ConfirmDraft(p) \/ RejectDraft(p)
        PROVE  Frozen(o)
    <3>1. p # o
      BY <2>1, <2>4 DEF ConfirmDraft, RejectDraft
    <3> QED BY <2>1, <2>4, <3>1 DEF ConfirmDraft, RejectDraft
  <2>5. ASSUME NEW p \in Orders, DeriveEndpoint(p) PROVE Frozen(o)
    BY <1>1, <2>5, DeriveEndpointInv DEF vars
  <2>6. ASSUME NEW J \in SUBSET Orders, NEW N \in SUBSET Orders,
               NEW lines \in [N -> SUBSET Lines], ApplyAnalysis(J, lines)
        PROVE  Frozen(o)
    <3>1. o \notin RolledBack(J) /\ o \notin N
      BY <2>1, <2>6 DEF RolledBack, ApplyAnalysis
    <3> QED BY <2>6, <3>1 DEF ApplyAnalysis
  <2>7. CASE UNCHANGED vars
    BY <2>7 DEF vars
  <2> QED BY <1>1, <2>2, <2>3, <2>4, <2>5, <2>6, <2>7 DEF Next
<1>2. Inv /\ [Next]_vars =>
        [\A o \in Orders : ostat[o] \in IMMUTABLE_ORDER_STATUSES => Frozen(o)]_vars
  BY <1>1
<1> QED BY <1>2, Invariance, PTL DEF Spec, ImmutableOrdersFrozen

\* A final line changes only by being rolled back with an analyzer's order.
THEOREM TerminalItems == Spec => TerminalItemsFrozen
<1> DEFINE Kept(o, l) == istat[o][l] \in IMMUTABLE_ITEM_STATUSES
                           /\ istat'[o][l] # istat[o][l]
                         => ostat'[o] = Deleted /\ o \in journal /\ o \notin journal'
<1>1. ASSUME Inv, [Next]_vars, NEW o \in Orders, NEW l \in Lines,
             istat[o][l] \in IMMUTABLE_ITEM_STATUSES, istat'[o][l] # istat[o][l]
      PROVE  ostat'[o] = Deleted /\ o \in journal /\ o \notin journal'
  <2>1. /\ istat \in [Orders -> [Lines -> Line]] /\ ostat \in [Orders -> Row]
        /\ l \in PresentIn(istat[o])
        /\ ostat[o] \notin {NoRow, "draft"}
    BY <1>1, InvPerOrder
    DEF PresentIn, OrderInv, IMMUTABLE_ITEM_STATUSES, NoRow
  <2>2. ASSUME NEW p \in Orders, NEW L \in SUBSET Lines,
               CreateOrder(p, L)
        PROVE  FALSE
    BY <1>1, <2>1, <2>2 DEF CreateOrder
  <2>3. ASSUME NEW p \in Orders, NEW L \in SUBSET Lines, AddItems(p, L)
        PROVE  FALSE
    BY <1>1, <2>1, <2>3 DEF AddItems, Inserted
  <2>4. ASSUME NEW p \in Orders, NEW k \in Lines, NEW to \in Targets,
               SetItemStatus(p, k, to)
        PROVE  FALSE
    BY <1>1, <2>1, <2>4 DEF SetItemStatus
  <2>5. ASSUME NEW p \in Orders,
               ConfirmDraft(p) \/ RejectDraft(p) \/ DeriveEndpoint(p)
        PROVE  FALSE
    BY <1>1, <2>1, <2>5 DEF ConfirmDraft, RejectDraft, DeriveEndpoint
  <2>6. ASSUME NEW J \in SUBSET Orders, NEW N \in SUBSET Orders,
               NEW lines \in [N -> SUBSET Lines], ApplyAnalysis(J, lines)
        PROVE  ostat'[o] = Deleted /\ o \in journal /\ o \notin journal'
    <3>1. o \notin N /\ o \in RolledBack(J)
      BY <1>1, <2>1, <2>6 DEF ApplyAnalysis
    <3> QED BY <2>6, <3>1 DEF ApplyAnalysis, RolledBack
  <2>7. CASE UNCHANGED vars
    BY <1>1, <2>7 DEF vars
  <2> QED BY <1>1, <2>2, <2>3, <2>4, <2>5, <2>6, <2>7 DEF Next
<1>2. Inv /\ [Next]_vars => [\A o \in Orders, l \in Lines : Kept(o, l)]_vars
  BY <1>1
<1> QED BY <1>2, Invariance, PTL DEF Spec, TerminalItemsFrozen
=============================================================================
