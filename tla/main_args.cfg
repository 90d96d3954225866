SPECIFICATION Spec
CONSTANTS
  Tags = {"random", "crap"}
  Chars = {"w", "s", "*", "9", "0"}
  Names = {"main", "system", "apps"}
  Permissions = {{}, {"F"}, {"F", "R"}, {"F", "R", "W"}}
  Numbers = {0, 2}
  FormatStrings = {"threadtime", "other"}
  MaxArgs = 3
  Faults = TRUE
CHECK_DEADLOCK FALSE
INVARIANTS TypeOK ReaderConfigured HeadersIffSeveral ClearAllOrFail  LevelsResolved
