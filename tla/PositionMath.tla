---------------------------- MODULE PositionMath ----------------------------
(***************************************************************************)
(* The arithmetic of apps/engine/src/services/exchange-engine.ts on        *)
(* margins, average prices and liquidation prices.                         *)
(*                                                                         *)
(* The engine computes in IEEE doubles.  Amounts of money are whole numbers*)
(* of a unit as fine as an order's equity may be; Cent of them are the     *)
(* hundredth to which prices and margins are rounded (toFixed(2)), and what*)
(* the engine does not round keeps its units.  Quotients and sums of money *)
(* are exact here before they are rounded, half away from zero: the last   *)
(* bits of a double, and the side a tie falls on, are left out.            *)
(*                                                                         *)
(* Quantities are whole numbers of a unit of their own, a power of two     *)
(* (double), and their sums are not rounded by the engine: NearestDouble is*)
(* what a double makes of them.                                            *)
(***************************************************************************)
EXTENDS Integers

CONSTANT Cent   \* units of money in a hundredth
ASSUME CentAssumption == Cent \in Nat \ {0}

LONG == "LONG"
SHORT == "SHORT"
PositionTypes == {LONG, SHORT}

Opposite(type) == IF type = LONG THEN SHORT ELSE LONG

Abs(n) == IF n < 0 THEN -n ELSE n

\* The integer nearest to num / den, for den > 0.
NearestQuotient(num, den) ==
  IF num >= 0
    THEN (2 * num + den) \div (2 * den)
    ELSE -((den - 2 * num) \div (2 * den))

\* num / den in whole hundredths: getRoudedNumber of a quotient.
RoundedQuotient(num, den) == Cent * NearestQuotient(num, Cent * den)

\* The double nearest to n where all whole numbers up to the power of two
\* `exact` are doubles, and beyond it every second one, every fourth, ...
NearestDouble(exact, n) ==
  LET gap  == CHOOSE g \in {2 ^ k : k \in 1..n} : n <= exact * g /\ exact * g < 2 * n
      down == n \div gap
      over == 2 * (n % gap)
  IN  IF n <= exact THEN n
      ELSE gap * (IF over > gap \/ (over = gap /\ down % 2 = 1) THEN down + 1 ELSE down)

\* The part of a margin that belongs to filledQty of totalQty.
RelativeMargin(totalMargin, totalQty, filledQty) ==
  RoundedQuotient(totalMargin * filledQty, totalQty)

WeightedAveragePrice(pastQty, pastPrice, newQty, newPrice) ==
  RoundedQuotient(pastQty * pastPrice + newQty * newPrice, pastQty + newQty)

\* maintenanceMarginPercentage: 0.01, so 99% of the margin may be lost.
MaxLossPercent == 99

LiquidationPrice(margin, qty, type, averagePrice) ==
  LET loss == MaxLossPercent * margin
      notional == 100 * qty * averagePrice
  IN  RoundedQuotient(IF type = LONG THEN notional - loss ELSE notional + loss,
                      100 * qty)
=============================================================================
