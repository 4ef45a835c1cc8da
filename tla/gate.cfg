SPECIFICATION GateSpec
CONSTANTS
  c1 = c1
  c2 = c2
  c3 = c3
  c4 = c4
  Calls = {c1, c2, c3, c4}
  Limit = 2
  MaxExpiries = 1
  MaxBreaks = 1
CHECK_DEADLOCK FALSE
INVARIANTS SlotsAreAccounted
PROPERTIES HangsOnlyWhenFull
