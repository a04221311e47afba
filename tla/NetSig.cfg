SPECIFICATION AllSpec
CONSTANTS
  Files = 2
  PipeSize = 2
  MaxCommands = 4
INVARIANTS
  FilesRight
  OkMeansServed
PROPERTIES
  SessionsEnd
CHECK_DEADLOCK FALSE
