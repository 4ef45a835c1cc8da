---------------------------- MODULE QuoteLadder ----------------------------
(***************************************************************************)
(* The arithmetic of the market maker: which orders it wants to rest       *)
(* (buildLadder) and what separates them from those that do (reconcileLadder) *)
(* of apps/market-maker/src/services/quote-ladder.ts.                      *)
(*                                                                         *)
(* A price is a whole number of ticks and a quantity a whole number of size*)
(* increments, which is what floorToTick, ceilToTick and roundQty make of  *)
(* them; the prices before that are fractions over Scale.  The per-price   *)
(* size jitter is 1 (MM_SIZE_JITTER = 0), the size growth 0 (its default). *)
(***************************************************************************)
EXTENDS Integers, Sequences, SequencesExt, FiniteSetsExt

CONSTANTS
  Levels,        \* MM_LEVELS
  SpreadBps,     \* MM_SPREAD_BPS
  LevelStepBps,  \* MM_LEVEL_STEP_BPS
  SkewBps,       \* MM_SKEW_BPS
  RequoteBps,    \* MM_REQUOTE_BPS
  BaseNotional,  \* MM_BASE_NOTIONAL
  MaxInventory   \* MM_MAX_INVENTORY_NOTIONAL

ASSUME LadderAssumption ==
  /\ Levels \in Nat \ {0} /\ SpreadBps \in Nat \ {0} /\ LevelStepBps \in Nat \ {0}
  /\ SkewBps \in Nat /\ RequoteBps \in Nat
  /\ BaseNotional \in Nat \ {0} /\ MaxInventory \in Nat \ {0}

BPS == 10000
Sides == {"LONG", "SHORT"}

-----------------------------------------------------------------------------
(* buildLadder.                                                            *)

\* bound: the powers of two a price in ticks may be nearest to.
Octaves == {1, 2, 4, 8, 16, 32, 64, 128, 256, 512, 1024, 2048, 4096, 8192, 16384}

\* The one nearest to the anchor on a logarithmic scale: its logarithm, rounded.
Octave(mark) == Max({o \in Octaves : o * o <= 2 * mark * mark})

\* In ticks: the requested step, rounded, and never below one tick.
GridSize(mark) ==
  Max({1, (2 * Octave(mark) * LevelStepBps + BPS) \div (2 * BPS)})

\* signedInventoryNotional clamped to [-1, 1], over MaxInventory.
NormalisedInventory(mark, held) ==
  LET notional == held * mark
  IN IF notional > MaxInventory THEN MaxInventory
     ELSE IF notional < -MaxInventory THEN -MaxInventory ELSE notional

\* What reference prices are fractions of.
Scale == 2 * BPS * MaxInventory

BidRef(mark, held) ==
  mark * (Scale - SpreadBps * MaxInventory - 2 * NormalisedInventory(mark, held) * SkewBps)

AskRef(mark, held) ==
  mark * (Scale + SpreadBps * MaxInventory - 2 * NormalisedInventory(mark, held) * SkewBps)

\* floorToTick and ceilToTick, with the grid cell for a tick.
FloorTo(value, grid) == grid * (value \div (grid * Scale))
CeilTo(value, grid) == -(grid * ((-value) \div (grid * Scale)))

\* A mutant of Touch: the references are snapped inwards.
TouchInwards(side, mark, held) ==
  IF side = "LONG" THEN CeilTo(BidRef(mark, held), GridSize(mark))
                   ELSE FloorTo(AskRef(mark, held), GridSize(mark))

\* The reference snapped outwards onto the grid.
Touch(side, mark, held) ==
  IF side = "LONG" THEN FloorTo(BidRef(mark, held), GridSize(mark))
                   ELSE CeilTo(AskRef(mark, held), GridSize(mark))

\* roundQty: down to the size increment, and never to nothing.
RoundQty(price) == Max({1, BaseNotional \div price})

Direction(side) == IF side = "LONG" THEN -1 ELSE 1

\* The rungs of one side, by level; those that would be at or below zero are skipped.
Rung(side, level, mark, held) ==
  Touch(side, mark, held) + Direction(side) * level * GridSize(mark)

QuoteAt(side, price) == [side |-> side, price |-> price, qty |-> RoundQty(price)]

LadderOf(side, mark, held) ==
  {QuoteAt(side, Rung(side, level, mark, held)) :
     level \in {l \in 0..Levels - 1 : Rung(side, l, mark, held) > 0}}

BuildLadder(mark, held) ==
  LadderOf("LONG", mark, held) \cup LadderOf("SHORT", mark, held)

-----------------------------------------------------------------------------
(* reconcileLadder.  An order is [id, side, price, left].                  *)

Distance(order, quote) ==
  IF order.price > quote.price THEN order.price - quote.price ELSE quote.price - order.price

\* requoteTolerance: the tighter of a share of the price and 0.45 of the gap.
WithinTolerance(order, quote, gap) ==
  /\ BPS * Distance(order, quote) <= quote.price * RequoteBps
  /\ 100 * Distance(order, quote) <= 45 * gap

\* The size of a rung may drift by a quarter before it is replaced.
SizeDrifted(order, quote) ==
  LET drift == IF order.left > quote.qty THEN order.left - quote.qty ELSE quote.qty - order.left
  IN 4 * drift > quote.qty

\* Inside first: the highest bid, the lowest ask.
Inner(a, b) ==
  \/ (IF a.side = "LONG" THEN a.price > b.price ELSE a.price < b.price)
  \/ a.price = b.price /\ a.id < b.id

\* The order nearest to a quote; of two equally near, the inner one.
Nearest(available, quote) ==
  CHOOSE o \in available : \A p \in available \ {o} :
    \/ Distance(o, quote) < Distance(p, quote)
    \/ Distance(o, quote) = Distance(p, quote) /\ Inner(o, p)

\* Which order each rung of a side claims, the rungs taking their turn inside-out.
Claims(side, desired, resting, gap) ==
  LET rungs == SetToSortSeq({q \in desired : q.side = side},
                            LAMBDA a, b : IF side = "LONG" THEN a.price > b.price
                                                           ELSE a.price < b.price)
      Claim(claims, quote) ==
        LET available == {o \in resting : o.side = side} \ {c[2] : c \in claims}
            nearest == Nearest(available, quote)
        IN IF available # {} /\ WithinTolerance(nearest, quote, gap)
             THEN claims \cup {<<quote, nearest>>} ELSE claims
  IN FoldLeft(Claim, {}, rungs)

\* A mutant of Adopted: a rung that has been partly filled is left as it is.
AdoptedAnySize(desired, resting, gap) ==
  UNION {Claims(side, desired, resting, gap) : side \in Sides}

\* The claims that stand: the order has the size the rung wants.
Adopted(desired, resting, gap) ==
  {c \in UNION {Claims(side, desired, resting, gap) : side \in Sides} : ~SizeDrifted(c[2], c[1])}

\* What is left: every order that no rung has adopted.
ToCancel(resting, adopted) == {o \in resting : \A c \in adopted : c[2] # o}

\* Every rung without an order, but never onto a price that an adopted order holds.
ToPlace(desired, adopted) ==
  {q \in desired : \A c \in adopted :
     c[1] # q /\ ~(c[2].side = q.side /\ c[2].price = q.price)}
=============================================================================
