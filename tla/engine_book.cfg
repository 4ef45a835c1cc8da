\* Matching, resting, cancelling and netting; the spot price stays where it is.
CONSTANTS
  Users = {alice, bob}
  LimitPrices = {9, 12}
  Quantities = {1, 2}
  Margins = {10}
  Slippages = {100}
  Deposits = {40}
  SpotPrices = {}
  SeedPrice = 9
  AllowedLeverage = 5
  Cent = 3
  ExactUpTo = 8
  MaxOrders = 4
  MaxDeposited = 40
  MaxFundings = 0
SPECIFICATION EngineBookSpec
SYMMETRY Symmetry
INVARIANTS TypeOK LevelOffersWhatRests UntradedMarginIsCovered WriterAgreesWithBook
PROPERTIES BookIsPriceTimeBook
CHECK_DEADLOCK FALSE
