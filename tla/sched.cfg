SPECIFICATION TimeSpec
CONSTANTS
  ready_queue = ready_queue
  sleep_queue = sleep_queue
  Locks <- NoLocks
  NumTask = 3
  TimeBase = 3
  TimerInterval = 2
  MaxSleep = 2
  MaxTicks = 8
  Sleepers = {1, 2}
  Quitters = {2}
INVARIANT SchedTypeOK
INVARIANT NoTaskLost
INVARIANT CurrentRuns
INVARIANT RunsAwake
INVARIANT LessThanASecondEarly
PROPERTY ExitIsFinal
PROPERTY NoOvertaking
PROPERTY ReadyRuns
PROPERTY SleepersRun
