\* Violated: see the findings in PROJECT.json.
CONSTANTS
  Users = {alice, bob}
  LimitPrices = {10}
  Quantities = {1, 2}
  Margins = {0, 10}
  Slippages = {0}
  Deposits = {20}
  SpotPrices = {}
  SeedPrice = 10
  AllowedLeverage = 5
  Cent = 1
  ExactUpTo = 16
  MaxOrders = 4
  MaxDeposited = 20
  MaxFundings = 0
SPECIFICATION Spec
SYMMETRY Symmetry
INVARIANT LiquidationPriceOnLosingSide
CHECK_DEADLOCK FALSE
