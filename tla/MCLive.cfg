SPECIFICATION Spec
CONSTANT Nil = Nil
PROPERTIES
  AskedIsDone
  NobodyWaits
CHECK_DEADLOCK FALSE
