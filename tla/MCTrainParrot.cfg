SPECIFICATION FairSpec
CONSTANTS
  u1 = u1
  u2 = u2
  u3 = u3
  w1 = w1
  Urls = {u1, u2}
  Words = {w1}
  Workers = {k1}
  Langs <- MCOneLang
  LangOf <- MCLangOfCn
  Key <- MCKeyCn
  Article <- MCArticle
  Todo0 = {u1, u2}
  Done0 = {}
  Filtered = FALSE
  CacheMax = 2
  None = None
  MaxInFlight = 1
  MaxSaves = 8
  MaxFaults = 1
  MaxCrashes = 2
INVARIANTS CountedAreDone DictExact
PROPERTY EveryTaskDone
