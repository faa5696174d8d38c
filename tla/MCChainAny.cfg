SPECIFICATION Spec
CONSTANTS
  alice = alice
  bob = bob
  own = own
  other = other
  Keys = {alice, bob}
  NoKey = NoKey
  Communities = {own, other}
  NoCommunity = NoCommunity
  MaxU32 = 3
  SecondsPerDay = 2
  NoTransaction = NoTransaction
  SegmentSizes <- AnyCallerSizes
  Arrivals <- AnyCallerArrivals
INVARIANTS TypeOK SegmentsPartitionTheRun NothingIsTruncated WrittenIsReachable
PROPERTIES TypesAsOfStand
CHECK_DEADLOCK FALSE
