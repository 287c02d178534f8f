SPECIFICATION Spec
CONSTANTS
  Window = 16
  Order = 2
  Unwritten <- Leftovers
  Behind = 97
  Inputs <- AllInputs
  Levels <- AllLevels
  MinBlock = 5
  SoftMax = 12
  SeqStore = 3
  MaxMatch = 9
  CheckAfter = 2
  RecalcAfter = 3
  MinLens <- FewLetters
  NearGreedy = 8
  NearLazy = 12
INVARIANT Replays
INVARIANT BlocksLong
INVARIANT LongestFound
