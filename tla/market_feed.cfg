SPECIFICATION FeedSpec
CONSTANTS
  m1 = m1
  m2 = m2
  Markets = {m1, m2}
  First = m1
  MaxBuffer = 3
  MaxTrades = 1
  MaxUpdates = 2
  MaxEvents = 2
INVARIANTS FeedTypeOK TapeIsFaithful
PROPERTIES BookOnlyAdvances FeedRecovers
CHECK_DEADLOCK FALSE
