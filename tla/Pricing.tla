-------------------------------- MODULE Pricing --------------------------------
(***************************************************************************)
(* The price formulas of ADR-004 and ADR-008 as functions of whole numbers *)
(* of the smallest unit the code keeps: app/pricing/service.py and the     *)
(* private copies in crm-mcp/tools/resolve_price_resolution.py.            *)
(***************************************************************************)
EXTENDS Integers, Sequences

CONSTANT Unit   \* smallest units in a rouble, 10^4 in the code (Decimal 0.0001)

\* Whole kopecks can be written in it.
ASSUME UnitAssumption == Unit \in Nat /\ Unit >= 100 /\ Unit % 100 = 0

\* quantize(..., ROUND_HALF_UP) of n / d, both non-negative.
HalfUp(n, d) == (2 * n + d) \div (2 * d)

\* The least multiple of step that is not below p (ROUND_CEILING).
ApplyRounding(p, step) == ((p + step - 1) \div step) * step

Threshold == 1000 * Unit

RoundingStep(p) == IF p < Threshold THEN 10 * Unit ELSE 100 * Unit

Rounded(p) == ApplyRounding(p, RoundingStep(p))

(* ------------------------------ base costs ----------------------------- *)

\* Amounts in a foreign currency, rates and weights have the same precision.
Converted(amount, rate) == HalfUp(amount * rate, Unit)

RetailBaseCost(cost, foreign, weight, perKg, rate) ==
  (IF foreign THEN Converted(cost, rate) ELSE cost)
    + HalfUp(weight * perKg * rate, Unit * Unit)

\* legs and fees: the sums of those that are given.
ManufacturerBaseCost(cost, rate, legs, fees) == Converted(cost, rate) + legs + fees

ApplyMargin(base, margin) == base + HalfUp(base * margin, 100)

ApplyDiscount(subtotal, discount) == subtotal - HalfUp(subtotal * discount, 100)

PreRoundPrice(base, margin, discount) == ApplyDiscount(ApplyMargin(base, margin), discount)

FinalPrice(base, margin, discount) == Rounded(PreRoundPrice(base, margin, discount))

(* --------------------------- weighted average -------------------------- *)

\* Quantized to kopecks, then rounded by the step of the average itself.
WeightedPrice(q1, p1, q2, p2) ==
  LET kopeck == Unit \div 100
      raw == HalfUp(q1 * p1 + q2 * p2, (q1 + q2) * kopeck) * kopeck
  IN  Rounded(raw)
=============================================================================
