SPECIFICATION Spec
CONSTANTS
  o1 = o1
  Orders = {o1}
  Quantity = 2
  MaxReplies = 3
  MaxCrashes = 1
  MaxDrops = 1
  MaxRepeats = 1
CHECK_DEADLOCK FALSE
INVARIANTS TypeOK FillsWrittenOnce NothingIsSkipped RowSaysWhatEngineSaid
PROPERTIES RefusedOrdersAreRetired
