SPECIFICATION Spec
CONSTANTS
  Loop = Loop
  Web = Web
  Writer = Writer
  NoTask = NoTask
  Changers = {Web}
  Faults = {"write"}
  MaxState = 2
  MaxFaults = 1
  MaxRequests = 1
INVARIANT OneVerifies
