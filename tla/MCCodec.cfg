\* One field of a message, of a message in it, or of the body left out, repeated, overridden
\* or added on the way; or one member of the document, at its root or in an object under it,
\* gone, null, of another kind or spelling nothing.
CONSTANTS
  NULL = NULL
  Nil = Nil
  Garbage = 99
  ProtocolVersion = 3
  FieldNumbers = 16
  Word = 256
  MaxCount = 3
  MaxU32 = 255
  MaxAlloc = 450
  k1 = k1
  k2 = k2
  k3 = k3
  hash = hash
  signature = signature
  home = home
  abroad = abroad
  text = text
  Compositions <- MCCompositions
  Community = home
  BufferSizes = {12, 40}
  ChangeKinds = {"left out", "repeated", "overridden", "added"}
  EditKinds = {"gone", "null", "other kind", "other text", "not JSON"}
  EmptyClones = {"SUCCESS", "INVALID_PARAM"}
  EmptyMemos = {"SUCCESS", "INVALID_PARAM"}
  MaxFaults = 1
SPECIFICATION Spec
INVARIANTS
  SentIsReceived
  NoKeyIsMadeUp
  PeekedIsDecoded
  ArenaIsExact
  DocumentReadsBack
  NothingIsDefaulted
  RefusedLeavesNothing
  HintIsExact
  GettersAnswerTheBody
