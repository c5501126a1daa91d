SPECIFICATION Spec
CONSTANTS
  Nil = Nil
  a1 = a1
  a2 = a2
  Addrs = {a1, a2}
  Parts = {"FilePage", "FormTab", "ManifestPage", "HistPanel", "HistSeries", "HistQuery"}
INVARIANTS
  TypesOK
  PagesTrue
  HistoryKept
CHECK_DEADLOCK FALSE
