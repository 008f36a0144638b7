-------------------------- MODULE OrderRowsProofs --------------------------
(***************************************************************************)
(* Facts about the status rules and the line functions, for any set of     *)
(* line numbers: the two copies of the derivation rule agree, and what the *)
(* derived status says about the lines.                                    *)
(***************************************************************************)
EXTENDS OrderRows, TLAPS

ActiveStatus == ItemStatus \ {"cancelled"}

\* The weight table of the Python code and the label order of the Postgres enum
\* rank the active statuses alike.
LEMMA WeightsFollowEnum ==
  ASSUME NEW s \in ActiveStatus
  PROVE  ITEM_STATUS_WEIGHT(s) = EnumPosition(s) - 1 /\ EnumPosition(s) \in 1..6
BY DEF ActiveStatus, ItemStatus, ITEM_STATUS_WEIGHT, EnumPosition

\* Every non-empty set of active statuses has a least label.
LEMMA EnumMinIsLeast ==
  ASSUME NEW S \in SUBSET ActiveStatus, S # {}
  PROVE  /\ EnumMin(S) \in S
         /\ \A t \in S : EnumPosition(EnumMin(S)) <= EnumPosition(t)
<1>1. \E s \in S : \A t \in S : EnumPosition(s) <= EnumPosition(t)
  BY DEF EnumPosition, ItemStatus, ActiveStatus
<1> QED BY <1>1 DEF EnumMin

\* The two choices of the earliest line are the same choice.
LEMMA EarliestIsEnumMin ==
  ASSUME NEW S \in SUBSET ActiveStatus, S # {}
  PROVE  Earliest(S) = EnumMin(S)
<1>1. \A s, t \in S : ITEM_STATUS_WEIGHT(s) <= ITEM_STATUS_WEIGHT(t)
                        <=> EnumPosition(s) <= EnumPosition(t)
  BY WeightsFollowEnum
<1>2. \A s \in S : (\A t \in S : ITEM_STATUS_WEIGHT(s) <= ITEM_STATUS_WEIGHT(t))
                     <=> (\A t \in S : EnumPosition(s) <= EnumPosition(t))
  BY <1>1
<1> QED BY <1>2 DEF Earliest, EnumMin

\* The SQL and the Python copy of the rule agree on every order that has a line.
THEOREM DerivationsAgree ==
  ASSUME NEW S \in SUBSET ItemStatus, S # {}
  PROVE  PyDeriveOrderStatus(S) = DeriveOrderStatus(S)
<1> DEFINE active == S \ {"cancelled"}
<1>1. CASE active = {}
  BY <1>1 DEF PyDeriveOrderStatus, DeriveOrderStatus
<1>2. CASE active # {}
  <2>1. /\ active \in SUBSET ActiveStatus
        /\ EnumMin(active) \in active
    BY <1>2, EnumMinIsLeast DEF ActiveStatus
  <2>2. PyDeriveOrderStatus(S) = ITEM_TO_ORDER_STATUS_MAP(EnumMin(active))
    BY <1>2, <2>1, EarliestIsEnumMin DEF PyDeriveOrderStatus
  <2> QED
    BY <1>2, <2>1, <2>2
    DEF DeriveOrderStatus, ITEM_TO_ORDER_STATUS_MAP, ActiveStatus, ItemStatus
<1> QED BY <1>1, <1>2

\* An order with lines is never derived to draft or confirmed.
LEMMA DerivedStatus ==
  ASSUME NEW S \in SUBSET ItemStatus, S # {}
  PROVE  DeriveOrderStatus(S) \in OrderStatus \ {"draft", "confirmed"}
<1> DEFINE active == S \ {"cancelled"}
<1>1. CASE active = {}
  BY <1>1 DEF DeriveOrderStatus, OrderStatus
<1>2. CASE active # {}
  <2>1. EnumMin(active) \in active
    BY <1>2, EnumMinIsLeast DEF ActiveStatus
  <2> QED BY <1>2, <2>1 DEF DeriveOrderStatus, OrderStatus, ItemStatus
<1> QED BY <1>1, <1>2

\* An order derived to a final status has only final lines.
LEMMA DerivedFinal ==
  ASSUME NEW S \in SUBSET ItemStatus, S # {},
         DeriveOrderStatus(S) \in IMMUTABLE_ORDER_STATUSES
  PROVE  S \subseteq IMMUTABLE_ITEM_STATUSES
<1> DEFINE active == S \ {"cancelled"}
<1>1. CASE active = {}
  BY <1>1 DEF IMMUTABLE_ITEM_STATUSES
<1>2. CASE active # {}
  <2>1. /\ active \in SUBSET ActiveStatus
        /\ EnumMin(active) \in active
        /\ \A t \in active : EnumPosition(EnumMin(active)) <= EnumPosition(t)
    BY <1>2, EnumMinIsLeast DEF ActiveStatus
  <2>2. EnumMin(active) = "delivered"
    BY <1>2, <2>1
    DEF DeriveOrderStatus, IMMUTABLE_ORDER_STATUSES, ItemStatus
  <2>3. \A t \in active : t = "delivered"
    BY <2>1, <2>2 DEF EnumPosition, ItemStatus
  <2> QED BY <2>3 DEF IMMUTABLE_ITEM_STATUSES
<1> QED BY <1>1, <1>2

\* A pending line keeps its order in procurement, whatever the others are.
LEMMA DerivedPending ==
  ASSUME NEW S \in SUBSET ItemStatus, "pending" \in S
  PROVE  DeriveOrderStatus(S) = "in_procurement"
<1> DEFINE active == S \ {"cancelled"}
<1>1. /\ active # {} /\ "pending" \in active
      /\ EnumMin(active) \in active
      /\ \A t \in active : EnumPosition(EnumMin(active)) <= EnumPosition(t)
  BY EnumMinIsLeast DEF ActiveStatus
<1>2. EnumMin(active) = "pending"
  BY <1>1 DEF EnumPosition, ItemStatus
<1> QED BY <1>1, <1>2 DEF DeriveOrderStatus

(* ------------------------ facts about line functions ------------------- *)

\* The statuses of an order's lines are item statuses.
LEMMA StatusesType ==
  ASSUME NEW ln \in [Lines -> Line]
  PROVE  /\ StatusesOf(ln) \in SUBSET ItemStatus
         /\ StatusesOf(ln) = {} <=> PresentIn(ln) = {}
         /\ ActiveIn(ln) \subseteq PresentIn(ln)
BY DEF StatusesOf, PresentIn, ActiveIn, Line

\* An order without lines has no statuses.
LEMMA NoLinesFacts ==
  /\ NoLines \in [Lines -> Line]
  /\ PresentIn(NoLines) = {} /\ ActiveIn(NoLines) = {} /\ StatusesOf(NoLines) = {}
BY DEF NoLines, Line, PresentIn, ActiveIn, StatusesOf

\* Inserting lines makes them present, active and pending, and touches no other.
LEMMA InsertedFacts ==
  ASSUME NEW ln \in [Lines -> Line], NEW L \in SUBSET Lines, L # {}
  PROVE  /\ Inserted(ln, L) \in [Lines -> Line]
         /\ PresentIn(Inserted(ln, L)) = PresentIn(ln) \cup L
         /\ ActiveIn(Inserted(ln, L)) = ActiveIn(ln) \cup L
         /\ Triggered(Inserted(ln, L)) = "in_procurement"
<1>1. Inserted(ln, L) \in [Lines -> Line]
  BY DEF Inserted, Line, ItemStatus
<1>2. "pending" \in StatusesOf(Inserted(ln, L))
  BY DEF Inserted, StatusesOf, NoRow
<1>3. Triggered(Inserted(ln, L)) = "in_procurement"
  BY <1>1, <1>2, StatusesType, DerivedPending DEF Triggered
<1>4. PresentIn(Inserted(ln, L)) = PresentIn(ln) \cup L
  BY DEF Inserted, PresentIn, NoRow
<1>5. ActiveIn(Inserted(ln, L)) = ActiveIn(ln) \cup L
  BY DEF Inserted, ActiveIn, NoRow
<1> QED BY <1>1, <1>3, <1>4, <1>5

\* What inserting lines into an order without any leaves.
LEMMA NewLinesFacts ==
  ASSUME NEW L \in SUBSET Lines, L # {}
  PROVE  /\ Inserted(NoLines, L) \in [Lines -> Line]
         /\ PresentIn(Inserted(NoLines, L)) = L
         /\ ActiveIn(Inserted(NoLines, L)) = L
<1>1. NoLines \in [Lines -> Line] /\ PresentIn(NoLines) = {} /\ ActiveIn(NoLines) = {}
  BY NoLinesFacts
<1>2. /\ Inserted(NoLines, L) \in [Lines -> Line]
      /\ PresentIn(Inserted(NoLines, L)) = PresentIn(NoLines) \cup L
      /\ ActiveIn(Inserted(NoLines, L)) = ActiveIn(NoLines) \cup L
  BY <1>1, InsertedFacts
<1>3. {} \cup L = L
  OBVIOUS
<1> QED BY <1>1, <1>2, <1>3

\* What the trigger writes is what the Python function would compute, and never
\* the status of an order without lines.
LEMMA TriggeredFacts ==
  ASSUME NEW ln \in [Lines -> Line], PresentIn(ln) # {}
  PROVE  /\ Triggered(ln) = PyDeriveOrderStatus(StatusesOf(ln))
         /\ Triggered(ln) \in OrderStatus \ {"draft", "confirmed"}
BY StatusesType, DerivationsAgree, DerivedStatus DEF Triggered

\* The sentinels for a missing and a removed row are no statuses.
LEMMA StatusNames ==
  /\ NoRow \notin OrderStatus /\ Deleted \notin OrderStatus
  /\ NoRow \notin ItemStatus /\ NoRow # Deleted
  /\ {"draft", "confirmed", "in_procurement"} \subseteq OrderStatus
BY DEF OrderStatus, ItemStatus, NoRow, Deleted

\* The order the analyzer creates, whatever lines it starts with.
LEMMA DraftWithFacts ==
  ASSUME NEW L \in SUBSET Lines
  PROVE  /\ DraftWith(L) \in OrderStatus
         /\ Inserted(NoLines, L) \in [Lines -> Line]
         /\ PresentIn(Inserted(NoLines, L)) = L
         /\ L = {} => DraftWith(L) = "draft"
         /\ L # {} => /\ DraftWith(L) = PyDeriveOrderStatus(StatusesOf(Inserted(NoLines, L)))
                      /\ DraftWith(L) \notin {"draft", "confirmed"}
<1>1. CASE L = {}
  <2>1. Inserted(NoLines, L) = NoLines
    BY <1>1 DEF Inserted, NoLines
  <2> QED BY <1>1, <2>1, NoLinesFacts, StatusNames DEF DraftWith
<1>2. CASE L # {}
  <2>1. /\ Inserted(NoLines, L) \in [Lines -> Line]
        /\ PresentIn(Inserted(NoLines, L)) = L
    BY <1>2, NewLinesFacts
  <2> QED BY <1>2, <2>1, TriggeredFacts DEF DraftWith
<1> QED BY <1>1, <1>2
=============================================================================
