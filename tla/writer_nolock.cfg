SPECIFICATION Spec
CONSTANTS
  Thread = {t1, t2}
  NoThread = NoThread
  HavePthreads = FALSE
  WeakMemory = TRUE
  Present = {0, 1}
  OpenFaults = FALSE
  WriteFaults = TRUE
  EnvSet = TRUE
  EnvLevels = {3}
  LogNdebug = FALSE
  Families = {"RLOG", "SLOG", "ALOG"}
  Levels = {"E"}
  UseMaxId = TRUE
  MaxCalls = 2
CHECK_DEADLOCK FALSE
INVARIANTS KernelTableComplete Routed
