SPECIFICATION CodesSpec
CONSTANTS
  Inputs <- AllInputs
  Sent <- AnyLengths
  MaxLen = 4
  TableBits = 2
CHECK_DEADLOCK FALSE
INVARIANT CodesSound
INVARIANT CodesOptimal
INVARIANT HeadersRead
INVARIANT TablesDecode
