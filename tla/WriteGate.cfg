SPECIFICATION Spec
CONSTANTS
  Holders = {h1, h2}
  Blockers = {w1, w2}
  Triers = {t1}
  OnlyFree = {t1}
  Hurried = {w2}
  MinPause = 2
  MaxWindow = 2
  Idle = 3
  MaxWait = 1
  Pauses = {0, 3}
  MaxQueue = 2
INVARIANTS
  TypeOK
  Exclusive
  OnePerPause
  ForecastHonoured
