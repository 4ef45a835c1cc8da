SPECIFICATION Spec
CONSTANTS
  Prices = {100}
  Last = 101
  Funds = {3367}
  Unit = 100
  Grain = 3
  Slippages = {1}
  Sizes = {1}
  Positions = {0, 3}
  Leverages = {3}
  Cap = 3
  MaxOrders = 2
  MaxMoves = 1
CONSTRAINT FieldsRest
CHECK_DEADLOCK FALSE
INVARIANTS TypeOK OutcomeIsTruthful
PROPERTIES CloseNeverAddsRisk FreshTicketIsAdmitted
