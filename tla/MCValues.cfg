SPECIFICATION Spec
CONSTANTS
  MaxSecond = 8
  MaxNano = 3
  NanosPerSecond = 3
  EarliestConfirmation <- MCEarliest
  MaxTimespan = 1
  UseSodium = TRUE
  Candidates <- MCCandidates
  Places = 2
  MaxUnit = 657
  Digits = 3
  DecayStart = 2
  Values <- Units
  Precisions <- MCPrecisions
  BufferSizes <- MCBufferSizes
  Texts <- MCTexts
  Moments <- MCMoments
  Year = 13
  MaxHalvings = 3
  Powers = 5
  WindowBits = 2
  Windows = 2
  Durations <- MCDurations
INVARIANTS
  SuccessIsDeserved
  NoCopyIsLost
  TimestampsAreExact
  RoundingIsNearest
  PrintingStaysInside
  PrintedIsReadBack
  ReadIsNearest
  SpansAddUp
  FactorsMakeUpTheSpan
CHECK_DEADLOCK FALSE
