SPECIFICATION FairSpec
CONSTANTS
  DevCount = 2
  g_dev_count = 2
  TailLines = 2
  Nonblock = TRUE
  RingCap = 3
  MaxWrites = 4
  MaxClock = 2
  Shows = {TRUE, FALSE}
  ClockSteps = TRUE
  Clears = FALSE
  Faults = FALSE
CHECK_DEADLOCK FALSE
INVARIANTS SameDeviceOrder HeadersLead TailExact
PROPERTY DumpExits
