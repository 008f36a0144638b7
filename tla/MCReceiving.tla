------------------------------ MODULE MCReceiving ------------------------------
(* Receiving for TLC: two purchases that share a product, from two suppliers. *)
EXTENDS Receiving, Discounts

CONSTANTS c1, c2, p1, p2, a, b, r1, r2, r3, r4

MCItems == c1 :> {p1, p2} @@ c2 :> {p1}
MCCosted == c1 :> {p1} @@ c2 :> {p1}
MCCurrency == c1 :> "FCY" @@ c2 :> "RUB"
MCSupplierOf == c1 :> a @@ c2 :> b

\* Receipts are interchangeable; purchases and products are not.
Symmetry == Permutations(Receipts)

\* The shares of an order's discount add up to it exactly; each item but the last is
\* at most half a unit off its part, and the last takes up to that of all the others.
ASSUME SharesAddUp ==
  \A n \in 1..3, percent \in {0, 30, 50} : \A prices \in [1..n -> {0, 1, 3}] :
    LET total == Total(prices)
        discount == OrderDiscount(prices, percent)
    IN  \A shares \in [1..n -> -1..discount] :
          IsAllocation(shares, prices, percent) =>
            /\ total # 0 => Total(shares) = discount
            /\ \A i \in 1..n :
                 LET off == shares[i] * total - prices[i] * discount
                     most == IF i < n THEN 1 ELSE n - 1
                 IN  2 * off <= most * total /\ -2 * off <= most * total

\* The average of two lots is the price a conflict is resolved with, before it is
\* rounded.
ASSUME AverageOfTwoLots ==
  \A q1, q2 \in 1..3, p1x, p2x \in {0, 1, 5, 8} :
    LET kopeck == Unit \div 100
        avg == WeightedAverage(<<p1x * Unit, p2x * Unit>>, <<q1, q2>>)
    IN  Rounded(HalfUp(avg[1], avg[2] * kopeck) * kopeck)
          = WeightedPrice(q1, p1x * Unit, q2, p2x * Unit)
=============================================================================
