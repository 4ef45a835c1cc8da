SPECIFICATION Spec
CONSTANTS
  Prices = {90, 96}
  Slots = {1, 2, 3, 4, 5, 6, 7, 8}
  Levels = 1
  SpreadBps = 200
  LevelStepBps = 370
  SkewBps = 200
  RequoteBps = 300
  BaseNotional = 185
  MaxInventory = 200
  MaxEvents = 2
  MaxLag = 1
INVARIANTS TypeOK QuotesNeverCross
PROPERTIES CrossesOnlyWhatItCouldNotSee LadderFollowsTheFeed
