SPECIFICATION FairSpec
CONSTANTS
  Thread = {t1, t2}
  NoThread = NoThread
  HavePthreads = TRUE
  WeakMemory = TRUE
  Present = {0, 1, 3}
  OpenFaults = TRUE
  WriteFaults = TRUE
  EnvSet = TRUE
  EnvLevels <- WarnOrNegative
  LogNdebug = FALSE
  Families = {"SLOG", "ALOG"}
  Levels = {"D", "E"}
  UseMaxId = FALSE
  MaxCalls = 2
CHECK_DEADLOCK FALSE
INVARIANTS TypeOK OneOpenPerDevice InitCallersLogged LevelInForce KernelTableComplete
PROPERTIES DispatchSettles CallsReturn
