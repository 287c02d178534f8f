SPECIFICATION Spec
CONSTANTS
  Builds <- Machines
  Plans <- Inputs
  MinBlock = 7
  StoredMax = 14
  LenBytes = 1
  Avails <- Ends
  AnySymbols <- AnySymbol
  Cuts <- NearEnd
  Rooms <- Fits
  Openings <- AnyStreams
INVARIANT BoundEnough
INVARIANT OutputInside
INVARIANT CostCounted
INVARIANT BitsHeld
INVARIANT BuffersKept
INVARIANT OwnTables
INVARIANT RoundTrip
