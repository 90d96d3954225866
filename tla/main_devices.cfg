SPECIFICATION Spec
CONSTANTS
  Tags = {"random", "crap"}
  Chars = {"w"}
  Names = {"main", "system", "apps"}
  Permissions = {{}, {"F", "R"}, {"F", "R", "W"}}
  Numbers = {0, 2}
  FormatStrings = {"threadtime", "other"}
  MaxArgs = 1
  Faults = FALSE
CHECK_DEADLOCK FALSE
INVARIANT AvailableListed
