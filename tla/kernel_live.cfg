SPECIFICATION FairKernelSpec
CONSTANTS
  ready_queue = ready_queue
  sleep_queue = sleep_queue
  NumTask = 4
  Locks = {0}
  Sleepers = {1}
  Quitters = {}
  Lockers = {1, 2, 3}
  Key <- OneKey
  KeysOf <- AllOneKey
  TimeBase = 2
  TimerInterval = 1
  MaxSleep = 1
  MaxTicks = 3
PROPERTY WaitersServed
