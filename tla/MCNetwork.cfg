SPECIFICATION Spec
CONSTANTS
  Nil = Nil
  a = a
  b = b
  c = c
  Topics = {a, b, c}
SYMMETRY TopicsAlike
INVARIANTS
  TypesOK
  MqttKept
  CertKept
  CheckInKept
  PeersRight
PROPERTIES
  ChatInOrder
CHECK_DEADLOCK FALSE
