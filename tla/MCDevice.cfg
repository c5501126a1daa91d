SPECIFICATION Spec
CONSTANT Nil = Nil
INVARIANTS
  TypesOK
  OneUser
  SecretsSealed
  TurnsKept
  NetApplied
  TimeHonest
CHECK_DEADLOCK FALSE
