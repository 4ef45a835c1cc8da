\* Margin-free closes, spot price sweeps and funding.  With these prices every
\* funding payment is a whole number of units.
CONSTANTS
  Users = {alice, bob}
  LimitPrices = {10}
  Quantities = {1, 2}
  Margins = {0, 10}
  Slippages = {}
  Deposits = {20}
  SpotPrices = {5, 25}
  SeedPrice = 5
  AllowedLeverage = 5
  Cent = 1
  ExactUpTo = 16
  MaxOrders = 5
  MaxDeposited = 20
  MaxFundings = 1
SPECIFICATION Spec
SYMMETRY Symmetry
INVARIANTS OpenInterestBalanced
PROPERTIES SweepTakesCrossedPositions FundingIsZeroSum
CHECK_DEADLOCK FALSE
