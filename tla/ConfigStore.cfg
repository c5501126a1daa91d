SPECIFICATION Spec
CONSTANTS
  Loop = Loop
  Web = Web
  Writer = Writer
  NoTask = NoTask
  Changers = {Web}
  Faults = {"cut", "copy", "write", "short", "lock", "supply"}
  MaxState = 2
  MaxFaults = 1
  MaxRequests = 1
INVARIANTS
  TypeOK
  SaveKept
  NothingForgotten
  BackupIsCurrent
