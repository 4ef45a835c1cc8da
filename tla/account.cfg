SPECIFICATION Spec
CONSTANTS
  o1 = o1
  o2 = o2
  Orders = {o1}
  Views = {"orders", "positions", "account"}
  MaxBuffer = 2
  MaxDeposits = 1
  MaxReplies = 3
  MaxFaults = 1
CONSTRAINT ShortRace
CHECK_DEADLOCK FALSE
INVARIANTS TypeOK ScreenSettles AnnouncedOnce
