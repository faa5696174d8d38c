SPECIFICATION LedgerSpec
CONSTANTS
  alice = alice
  bob = bob
  own = own
  other = other
  Keys = {alice, bob}
  NoKey = NoKey
  Communities = {own, other}
  NoCommunity = NoCommunity
  MaxU32 = 3
  SecondsPerDay = 2
  NoTransaction = NoTransaction
  SegmentSizes <- AnswerSizes
  Arrivals <- AnswerArrivals
  Filters <- AnswerFilters
  Pages <- AnswerPages
INVARIANTS FiltersAnswerTheLedger PagesCutTheLedger DaysSpanTheLedger RegisterAgreesWithTheSegments
PROPERTIES ImplementsLedger
CHECK_DEADLOCK FALSE
