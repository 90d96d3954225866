SPECIFICATION Spec
CONSTANTS
  LOG_BUF_SIZE = 5
  TagLengths = {0, 8, 100, 116, 122, 123, 4069, 4070, 4071, 4072, 4073, 4074, 4075, 4076}
  MaxText = 5
  PidWidth = 5
  SizeRange = 65536
CHECK_DEADLOCK FALSE
INVARIANTS TypeOK WithinBuffer LinesMatch TextShown LengthsSound
