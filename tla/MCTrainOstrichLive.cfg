SPECIFICATION FairSpec
CONSTANTS
  u1 = u1
  u2 = u2
  u3 = u3
  w1 = w1
  Urls = {u1, u2, u3}
  Words = {}
  Workers = {k1}
  Langs <- MCLangs
  LangOf <- MCLangOf
  Key <- MCKey
  Article <- MCMarks3
  Todo0 = {u1, u2, u3}
  Done0 = {u2}
  Filtered = TRUE
  CacheMax = 1
  None = None
  MaxInFlight = 1
  MaxSaves = 2
  MaxFaults = 1
  MaxCrashes = 0
PROPERTIES EveryTaskDone LeftoverRemoved
