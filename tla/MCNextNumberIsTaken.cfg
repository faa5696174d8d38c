SPECIFICATION LedgerSpec
CONSTANTS
  alice = alice
  bob = bob
  own = own
  other = other
  Keys = {alice, bob}
  NoKey = NoKey
  Communities = {own, other}
  NoCommunity = NoCommunity
  MaxU32 = 3
  SecondsPerDay = 2
  NoTransaction = NoTransaction
  SegmentSizes <- AnswerSizes
  Arrivals <- ClockGoesBack
  Filters <- DaySpans
  Pages <- NoPages
INVARIANTS NextNumberIsTaken
CHECK_DEADLOCK FALSE
