SPECIFICATION FairSpec
CONSTANTS
  DevCount = 2
  g_dev_count = 2
  TailLines = 0
  Nonblock = TRUE
  RingCap = 2
  MaxWrites = 3
  MaxClock = 1
  Shows = {TRUE}
  ClockSteps = FALSE
  Clears = TRUE
  Faults = FALSE
CHECK_DEADLOCK FALSE
PROPERTY DumpExits
