SPECIFICATION ImageSpec
CONSTANTS
  SECTOR_SIZE = 4
  TASK_SIZE = 9
  BootSizes = {3, 8}
  KernelSizes = {1, 4, 6, 9}
  ProgramSizes = {1, 2, 3, 4, 5, 6, 7, 8, 9}
  TaskNum = 2
CHECK_DEADLOCK FALSE
INVARIANT ProgramsLoaded
