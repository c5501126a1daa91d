SPECIFICATION Spec
CONSTANTS
  Nil = Nil
  a1 = a1
  a2 = a2
  Addrs = {a1, a2}
  Parts = {"WsPush", "WsRoster", "WsPage", "PresenceRoster", "PresenceLog"}
SYMMETRY AddrsAlike
INVARIANTS
  TypesOK
  NothingMissed
PROPERTIES
  ClientsRight
CHECK_DEADLOCK FALSE
