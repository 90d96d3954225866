SPECIFICATION Spec
CONSTANTS
  Thread = {t1, t2}
  NoThread = NoThread
  HavePthreads = TRUE
  WeakMemory = FALSE
  Present = {0, 1, 3}
  OpenFaults = FALSE
  WriteFaults = FALSE
  EnvSet = TRUE
  EnvLevels = {1}
  LogNdebug = FALSE
  Families = {"SLOG"}
  Levels = {"E"}
  UseMaxId = FALSE
  MaxCalls = 1
CHECK_DEADLOCK FALSE
INVARIANT InfoLogged
