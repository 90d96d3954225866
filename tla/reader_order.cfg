SPECIFICATION Spec
CONSTANTS
  DevCount = 2
  g_dev_count = 2
  TailLines = 0
  Nonblock = FALSE
  RingCap = 2
  MaxWrites = 4
  MaxClock = 2
  Shows = {TRUE}
  ClockSteps = FALSE
  Clears = TRUE
  Faults = TRUE
CHECK_DEADLOCK FALSE
INVARIANTS TypeOK OutputSorted TakenOnce QueuedLinesExact
PROPERTY OldestFirst
