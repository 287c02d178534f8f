SPECIFICATION Spec
CONSTANTS
  ready_queue = ready_queue
  sleep_queue = sleep_queue
  NumTask = 3
  NumThread = 2
  Threaders = {1}
  TimeBase = 2
  TimerInterval = 2
  MaxSleep = 1
  MaxTicks = 5
  Sleepers = {1, 2}
  Quitters = {1}
INVARIANT ListsWhole
INVARIANT OneTakesPart
INVARIANT RingsComplete
PROPERTY SchedulerSpec
