SPECIFICATION ContextSpec
CONSTANTS
  NumTask = 2
  NumThread = 1
  PAGE_SIZE = 5
  MaxDepth = 2
  PcBound = 2
  Value = {0}
INVARIANT StacksBalance
PROPERTY OwnMachine
