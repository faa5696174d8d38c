CONSTANTS
  NULL = NULL
  Nil = Nil
  Garbage = 99
  ProtocolVersion = 3
  FieldNumbers = 16
  Word = 256
  MaxCount = 3
  MaxU32 = 255
  MaxAlloc = 450
  k1 = k1
  k2 = k2
  k3 = k3
  hash = hash
  signature = signature
  home = home
  abroad = abroad
  text = text
  Compositions <- MCCompositions
  Community = home
  BufferSizes = {12, 40}
  ChangeKinds = {}
  EditKinds = {}
  EmptyClones = {"SUCCESS"}
  EmptyMemos = {"SUCCESS"}
  MaxFaults = 0
SPECIFICATION Spec
INVARIANT
  SuccessMeansWhole
