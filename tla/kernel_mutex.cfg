SPECIFICATION KernelSpec
CONSTANTS
  ready_queue = ready_queue
  sleep_queue = sleep_queue
  NumTask = 4
  Locks = {0, 1}
  Sleepers = {1}
  Quitters = {2}
  Lockers = {1, 2, 3}
  Key <- ThreeKeys
  KeysOf <- TwoEach
  TimeBase = 2
  TimerInterval = 1
  MaxSleep = 1
  MaxTicks = 2
INVARIANT MutualExclusion
INVARIANT LockWordAgrees
INVARIANT KernelTypeOK
INVARIANT KeyNamesOneMutex
PROPERTY KeysStay
PROPERTY MutexSpec
