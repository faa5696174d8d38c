SPECIFICATION FairRetrySpec
CONSTANTS
  alice = alice
  bob = bob
  own = own
  other = other
  Keys = {alice, bob}
  NoKey = NoKey
  Communities = {own, other}
  NoCommunity = NoCommunity
  MaxU32 = 3
  SecondsPerDay = 2
  NoTransaction = NoTransaction
  SegmentSizes <- RetrySizes
  Arrivals <- RetryArrivals
INVARIANTS NoTypeIsWrittenTwice
PROPERTIES ClosedSegmentsStand RefusedGetsIn
CHECK_DEADLOCK FALSE
