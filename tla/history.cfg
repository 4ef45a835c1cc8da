SPECIFICATION Spec
CONSTANTS
  a1 = a1
  a2 = a2
  bots = bots
  o1 = o1
  o2 = o2
  o3 = o3
  o4 = o4
  Orders = {o1, o2, o3, o4}
  Accounts = {a1, a2}
  Traders = {a1}
  Bots = bots
  PageSize = 1
  Micros = 2
  MaxFills = 3
  MaxLoads = 2
SYMMETRY Symmetry
INVARIANTS TypeOK HistoryIsUnbroken HumanTradesSurvive
CHECK_DEADLOCK FALSE
