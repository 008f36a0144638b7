------------------------------- MODULE Receiving -------------------------------
(***************************************************************************)
(* Goods coming in: receive_stock with the hooks of ADR-007 and ADR-008 in *)
(* app/warehouse, app/procurement and app/catalog, add_to_stock,           *)
(* set_exchange_rate and resolve_price_resolution, every call one step.    *)
(*                                                                         *)
(* A purchase and its items are rows an operator entered and no code       *)
(* changes, so they are constants, at most one item per product.  There is *)
(* one foreign currency and one stock location, the default one.  What the *)
(* formula makes of a receipt depends on cost, rate and the weight the     *)
(* operator gives, so any price of Prices may come out.                    *)
(***************************************************************************)
EXTENDS Pricing, FiniteSetsExt

CONSTANTS
  Purchases, Products, Suppliers, Receipts,
  Items,          \* purchase -> the products it has a purchase_item for
  Costed,         \* purchase -> those with a unit_cost
  Currency,       \* purchase -> "RUB", "FCY" or "NULL"
  SupplierOf,     \* purchase -> supplier
  Quantities,     \* quantities a call may give
  Prices,         \* prices the formula may give, which it rounds
  MaxAdded,       \* bound on what add_to_stock adds of one product
  ResolveCommits  \* whether what calls resolve_price_resolution commits

ASSUME ReceivingAssumption ==
  /\ Items \in [Purchases -> SUBSET Products]
  /\ Costed \in [Purchases -> SUBSET Products]
  /\ \A c \in Purchases : Costed[c] \subseteq Items[c] /\ IsFiniteSet(Items[c])
  /\ Currency \in [Purchases -> {"RUB", "FCY", "NULL"}]
  /\ SupplierOf \in [Purchases -> Suppliers]
  /\ IsFiniteSet(Receipts)
  /\ Quantities \subseteq Nat \ {0}
  /\ Prices \subseteq Nat /\ \A price \in Prices : Rounded(price) = price
  /\ MaxAdded \in Nat
  /\ ResolveCommits \in BOOLEAN

VARIABLES
  purchase,   \* procurement_purchase.status
  rate,       \* a pricing_exchange_rate row exists
  receipt,    \* warehouse_receipt_item rows, with the price calculated for them
  stock,      \* warehouse_stock_item rows by product
  pending,    \* receipts in warehouse_pending_price_resolution
  listing,    \* product -> suppliers in catalog_product_listing
  primary,    \* product -> the suppliers whose listing is the primary one
  observed,   \* purchase and product -> its catalog_listing_price rows
  added,      \* product -> what add_to_stock added to it so far
  answered    \* receipts resolve_price_resolution has answered "ok" for

vars == <<purchase, rate, receipt, stock, pending, listing, primary, observed,
          added, answered>>

NoPrice == -1   \* price_calculation_id IS NULL, or no calculation was made

Receipt == [purchase : Purchases, product : Products, qty : Nat \ {0},
            price : Nat \cup {NoPrice}]
Stock == [qty : Nat, price : Nat \cup {NoPrice}]

TypeOK ==
  /\ purchase \in [Purchases -> {"open", "delivered", "cancelled"}]
  /\ rate \in BOOLEAN
  /\ DOMAIN receipt \subseteq Receipts /\ receipt \in [DOMAIN receipt -> Receipt]
  /\ DOMAIN stock \subseteq Products /\ stock \in [DOMAIN stock -> Stock]
  /\ pending \in SUBSET Receipts
  /\ listing \in [Products -> SUBSET Suppliers]
  /\ primary \in [Products -> SUBSET Suppliers]
  /\ observed \in [Purchases -> [Products -> Nat]]
  /\ added \in [Products -> Nat]
  /\ answered \in SUBSET Receipts

Init ==
  /\ purchase \in [Purchases -> {"open", "cancelled"}]
  /\ rate \in BOOLEAN
  /\ receipt = <<>> /\ stock = <<>>
  /\ pending = {} /\ answered = {}
  /\ listing = [p \in Products |-> {}]
  /\ primary = [p \in Products |-> {}]
  /\ observed = [c \in Purchases |-> [p \in Products |-> 0]]
  /\ added = [p \in Products |-> 0]

(* ------------------------------- the hook ------------------------------ *)

\* What the hook needs to calculate a price; without it the receipt is kept and
\* nothing else happens.
CanPrice(c, p) == /\ p \in Costed[c]
                  /\ Currency[c] # "NULL"
                  /\ Currency[c] = "FCY" => rate

Put(f, k, v) == [i \in DOMAIN f \cup {k} |-> IF i = k THEN v ELSE f[i]]

Near(price, existing) ==
  /\ price - existing <= RoundingStep(existing)
  /\ existing - price <= RoundingStep(existing)

HasPrice(p) == p \in DOMAIN stock /\ stock[p].price # NoPrice

\* Mutant: a stock row without a price conflicts too.
ConflictAnyRow(p, price) == p \in DOMAIN stock /\ ~Near(price, stock[p].price)

Conflict(p, price) == HasPrice(p) /\ ~Near(price, stock[p].price)

\* Mutant: a row without a price is replaced, as if this were the first receipt.
MergedAnew(p, q, price) ==
  IF ~HasPrice(p) THEN [qty |-> q, price |-> price]
  ELSE [stock[p] EXCEPT !.qty = @ + q]

\* Mutant: the last receipt sets the price.
MergedRepriced(p, q, price) ==
  IF p \notin DOMAIN stock THEN [qty |-> q, price |-> price]
  ELSE [qty |-> stock[p].qty + q, price |-> price]

\* The stock row after a priced receipt that is no conflict.
Merged(p, q, price) ==
  IF p \notin DOMAIN stock THEN [qty |-> q, price |-> price]
  ELSE IF ~HasPrice(p) THEN [qty |-> stock[p].qty + q, price |-> price]
  ELSE [stock[p] EXCEPT !.qty = @ + q]

\* Mutant: every new listing is made the primary one.
RecordAllPrimary(c, P) ==
  /\ listing' = [p \in Products |-> IF p \in P THEN listing[p] \cup {SupplierOf[c]}
                                    ELSE listing[p]]
  /\ primary' = [p \in Products |-> IF p \in P THEN primary[p] \cup {SupplierOf[c]}
                                    ELSE primary[p]]
  /\ observed' = [observed EXCEPT ![c] = [p \in Products |->
                    IF p \in P /\ @[p] = 0 THEN 1 ELSE @[p]]]

\* Mutant: no look for an observation already there.
RecordAgain(c, P) ==
  /\ listing' = [p \in Products |-> IF p \in P THEN listing[p] \cup {SupplierOf[c]}
                                    ELSE listing[p]]
  /\ primary' = [p \in Products |-> IF p \in P /\ listing[p] = {} THEN {SupplierOf[c]}
                                    ELSE primary[p]]
  /\ observed' = [observed EXCEPT ![c] = [p \in Products |->
                    IF p \in P THEN @[p] + 1 ELSE @[p]]]

\* record_listing_price_from_purchase for each product of P.
RecordListingPrices(c, P) ==
  /\ listing' = [p \in Products |-> IF p \in P THEN listing[p] \cup {SupplierOf[c]}
                                    ELSE listing[p]]
  /\ primary' = [p \in Products |-> IF p \in P /\ listing[p] = {} THEN {SupplierOf[c]}
                                    ELSE primary[p]]
  /\ observed' = [observed EXCEPT ![c] = [p \in Products |->
                    IF p \in P /\ @[p] = 0 THEN 1 ELSE @[p]]]

(* ------------------------------ operations ----------------------------- *)

ReceivedFor(c) == {receipt[r].product : r \in {i \in DOMAIN receipt : receipt[i].purchase = c}}

\* Mutant: counted before the new receipt is flushed.
CompletesBefore(c, p) ==
  /\ purchase[c] # "delivered"
  /\ Items[c] # {}
  /\ Cardinality(ReceivedFor(c)) >= Cardinality(Items[c])

\* receive_stock counts distinct received products against distinct purchased ones.
Completes(c, p) ==
  /\ purchase[c] # "delivered"
  /\ Items[c] # {}
  /\ Cardinality(ReceivedFor(c) \cup {p}) >= Cardinality(Items[c])

\* The products on_purchase_delivered records a listing price for.
Listable(c) == IF Currency[c] = "NULL" THEN {} ELSE Costed[c]

ReceiveStock(r, c, p, q, price) ==
  /\ r \notin DOMAIN receipt
  /\ purchase[c] # "cancelled"
  /\ price = NoPrice <=> ~CanPrice(c, p)
  /\ receipt' = Put(receipt, r, [purchase |-> c, product |-> p, qty |-> q, price |-> price])
  /\ \/ /\ price = NoPrice \/ Conflict(p, price)
        /\ UNCHANGED stock
     \/ /\ price # NoPrice /\ ~Conflict(p, price)
        /\ stock' = Put(stock, p, Merged(p, q, price))
  /\ pending' = IF price # NoPrice /\ Conflict(p, price) THEN pending \cup {r} ELSE pending
  /\ purchase' = IF Completes(c, p) THEN [purchase EXCEPT ![c] = "delivered"] ELSE purchase
  /\ RecordListingPrices(c, (IF price = NoPrice THEN {} ELSE {p})
                            \cup (IF Completes(c, p) THEN Listable(c) ELSE {}))
  /\ UNCHANGED <<rate, added, answered>>

\* add_to_stock: no receipt, no price.
AddToStock(p, q) ==
  /\ added[p] + q <= MaxAdded
  /\ stock' = Put(stock, p, IF p \in DOMAIN stock THEN [stock[p] EXCEPT !.qty = @ + q]
                            ELSE [qty |-> q, price |-> NoPrice])
  /\ added' = [added EXCEPT ![p] = @ + q]
  /\ UNCHANGED <<purchase, rate, receipt, pending, listing, primary, observed, answered>>

SetExchangeRate ==
  /\ rate' = TRUE
  /\ UNCHANGED <<purchase, receipt, stock, pending, listing, primary, observed, added,
                 answered>>

ResolutionChoices == {"keep_old", "use_new", "weighted_average"}

\* Mutant: the average taken over the quantity in stock alone.
ResolvedOverStock(r, choice) ==
  LET s == stock[receipt[r].product]
  IN  CASE choice = "keep_old" -> s.price
        [] choice = "use_new"  -> receipt[r].price
        [] choice = "weighted_average" ->
             Rounded(HalfUp(s.qty * s.price + receipt[r].qty * receipt[r].price, s.qty))

ResolvedPrice(r, choice) ==
  LET s == stock[receipt[r].product]
  IN  CASE choice = "keep_old" -> s.price
        [] choice = "use_new"  -> receipt[r].price
        [] choice = "weighted_average" ->
             WeightedPrice(s.qty, s.price, receipt[r].qty, receipt[r].price)

\* resolve_price_resolution flushes and answers "ok"; it never commits, and the
\* server closes the session it ran in.
ResolvePrice(r, choice) ==
  LET p == receipt[r].product
  IN  /\ r \in pending
      /\ answered' = answered \cup {r}
      /\ pending' = IF ResolveCommits THEN pending \ {r} ELSE pending
      /\ stock' = IF ResolveCommits
                  THEN Put(stock, p, [qty |-> stock[p].qty + receipt[r].qty,
                                      price |-> ResolvedPrice(r, choice)])
                  ELSE stock
      /\ UNCHANGED <<purchase, rate, receipt, listing, primary, observed, added>>

Next ==
  \/ \E r \in Receipts, c \in Purchases, p \in Products, q \in Quantities,
        price \in Prices \cup {NoPrice} : ReceiveStock(r, c, p, q, price)
  \/ \E p \in Products, q \in Quantities : AddToStock(p, q)
  \/ SetExchangeRate
  \/ \E r \in Receipts, choice \in ResolutionChoices : ResolvePrice(r, choice)

Spec == Init /\ [][Next]_vars

(* ------------------------------ properties ----------------------------- *)

InStock(p) == IF p \in DOMAIN stock THEN stock[p].qty ELSE 0
PricedReceipts(p) == {r \in DOMAIN receipt : receipt[r].product = p /\ receipt[r].price # NoPrice}

\* No unit is lost or counted twice between the receipt, the stock row and the
\* queue of conflicts, whatever is resolved in whatever order.
QuantityConserved ==
  \A p \in Products :
    InStock(p) = added[p]
      + MapThenSumSet(LAMBDA r : receipt[r].qty, PricedReceipts(p) \ pending)

\* A queued conflict can always be resolved: its receipt, the stock row and both
\* prices it will be weighed by exist (resolve_price_resolution reads them with
\* scalar_one, and add_to_stock makes rows without a price).
PendingResolvable ==
  \A r \in pending :
    /\ r \in DOMAIN receipt /\ receipt[r].price # NoPrice
    /\ HasPrice(receipt[r].product)

\* A product that is listed has one primary listing, the first one it got.
OnePrimaryListing ==
  \A p \in Products :
    /\ listing[p] # {} => \E s \in listing[p] : primary[p] = {s}
    /\ listing[p] = {} => primary[p] = {}

\* A purchase is observed at most once per product however many receipts and hooks
\* report it; every priced receipt and, once delivered, every costed item is.
ObservedOnce ==
  /\ \A c \in Purchases, p \in Products : observed[c][p] <= 1
  /\ \A r \in DOMAIN receipt :
       receipt[r].price # NoPrice => observed[receipt[r].purchase][receipt[r].product] = 1
  /\ \A c \in Purchases, p \in Products :
       purchase[c] = "delivered" /\ p \in Listable(c) => observed[c][p] = 1

\* "If all items of the purchase are received it is moved to delivered"
\* (crm-mcp/tools/receive_stock.py:26).
CompleteIsDelivered ==
  \A c \in Purchases :
    Items[c] # {} /\ Items[c] \subseteq ReceivedFor(c) => purchase[c] = "delivered"

\* ADR-008: no receipt and no addition changes the selling price of goods on the
\* shelf; only the resolution of a queued conflict does.
PriceChangesByDecision ==
  [][\A p \in DOMAIN stock :
       stock[p].price # NoPrice /\ stock'[p].price # stock[p].price
         => \E r \in pending : r \notin pending' /\ receipt[r].product = p]_vars

\* A resolution never leaves the range of the two prices it weighs, and rounding
\* keeps what was already rounded.
PriceWithinRange ==
  [][\A r \in pending \ pending' :
       LET old == stock[receipt[r].product].price
           new == receipt[r].price
           got == stock'[receipt[r].product].price
       IN  (old <= got /\ got <= new) \/ (new <= got /\ got <= old)]_vars

(* Statements of the documentation that the code does not keep.            *)

\* resolve_price_resolution "resolves the price conflict" and "is atomic"
\* (crm-mcp/tools/resolve_price_resolution.py:20-23): a conflict it answered "ok"
\* for is no longer queued.
AnsweredIsResolved == answered \cap pending = {}
=============================================================================
