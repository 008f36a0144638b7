------------------------------- MODULE Discounts -------------------------------
(***************************************************************************)
(* How the discount of an order is spread over its items                   *)
(* (app/pricing/service.py), in the units of Pricing.                      *)
(***************************************************************************)
EXTENDS Pricing, SequencesExt

Total(prices) == FoldLeft(+, 0, prices)

\* calculate_weighted_price, as a fraction: the average is not rounded.
WeightedAverage(prices, quantities) ==
  <<Total([i \in DOMAIN prices |-> prices[i] * quantities[i]]), Total(quantities)>>

OrderDiscount(prices, percent) == HalfUp(Total(prices) * percent, 100)

\* price / total is cut to 28 digits before it is multiplied: an exact half may
\* fall to either side.
IsShare(share, price, total, discount) ==
  \/ share = HalfUp(price * discount, total)
  \/ 2 * (price * discount - share * total) = total

\* allocate_order_discount: the last item gets what is left.
IsAllocation(shares, prices, percent) ==
  LET total == Total(prices)
      discount == OrderDiscount(prices, percent)
  IN  /\ DOMAIN shares = DOMAIN prices
      /\ IF total = 0 THEN \A i \in DOMAIN prices : shares[i] = 0
         ELSE \A i \in DOMAIN prices :
                IF i = Len(prices) THEN shares[i] = discount - Total(Front(shares))
                ELSE IsShare(shares[i], prices[i], total, discount)
=============================================================================
