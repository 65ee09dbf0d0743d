SPECIFICATION Spec
CONSTANTS
  u1 = u1
  u2 = u2
  u3 = u3
  w1 = w1
  Urls = {u1, u2}
  Words = {}
  Workers = {k1, k2}
  Langs <- MCOneLang
  LangOf <- MCLangOfCn
  Key <- MCKeyCn
  Article <- MCMarks3
  Todo0 = {u1, u2}
  Done0 = {}
  Filtered = TRUE
  CacheMax = 1
  None = None
  MaxInFlight = 1
  MaxSaves = 2
  MaxFaults = 1
  MaxCrashes = 2
INVARIANTS TypeOK NoTaskLost AgainAtMostOnce DoneAtBootHidden
PROPERTY PoolSpec
SYMMETRY WorkersSymmetric
