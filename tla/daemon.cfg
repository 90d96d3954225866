SPECIFICATION FairSpec
CONSTANTS
  DevCount = 2
  RingCap = 2
  MaxWrites = 3
  MaxClock = 1
  Shows = {TRUE}
  Clears = TRUE
  KB = 3
  g_log_rotate_size_kbytes = 1
  g_max_rotated_logs = 1
  HeaderSize = 1
  LineSize = 2
  MaxCrashes = 1
  RenameFaults = FALSE
  Faults = TRUE
CHECK_DEADLOCK FALSE
INVARIANTS TypeOK RingAccounted DiskOrdered
PROPERTY EntriesSurface
