SPECIFICATION Spec
CONSTANTS
  Sector = 2
  TcpWindow = 2
  HoldBelow = 4
  RingSize = 6
  Lengths = {7}
  Sinks = {"image", "file"}
  MaxSteps = 1
  MaxUploads = 1
INVARIANTS
  TypeOK
  RingKept
  NoOverflow
PROPERTIES
  Promised
