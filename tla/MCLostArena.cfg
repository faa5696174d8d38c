SPECIFICATION Spec
CONSTANTS
  b1 = b1
  b2 = b2
  Bodies = {b1, b2}
  NoBody = NoBody
  MaxNr = 3
  MaxArenas = 3
  HostMinds = TRUE
  Offers <- MCOffers
  Ranges <- MCRanges
INVARIANT EveryArenaIsReleasable
CHECK_DEADLOCK FALSE
