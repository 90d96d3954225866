SPECIFICATION Spec
CONSTANTS
  KB = 2
  g_log_rotate_size_kbytes = 2
  g_max_rotated_logs = 2
  g_dev_count = 2
  HeaderSize = 1
  LineSizes = {1, 3}
  MaxLines = 8
  MaxCrashes = 2
  RenameFaults = TRUE
  WriteFaults = TRUE
CHECK_DEADLOCK FALSE
INVARIANTS TypeOK FilesOrdered RotatedFull OnlyOldestLost ActiveFileBounded
