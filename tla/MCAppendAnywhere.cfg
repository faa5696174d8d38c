SPECIFICATION Spec
CONSTANTS
  b1 = b1
  b2 = b2
  Bodies = {b1, b2}
  NoBody = NoBody
  MaxNr = 3
  MaxArenas = 3
  HostMinds = FALSE
  Offers <- MCOffers
  Ranges <- MCRanges
PROPERTY AppendContinuesTheRun
CHECK_DEADLOCK FALSE
