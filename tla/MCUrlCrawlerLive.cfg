SPECIFICATION SpacedSpec
CONSTANTS
  s = s
  a = a
  b = b
  Urls = {s, a, b}
  Langs <- MCLangs
  LangOf <- MCLangOf
  Key <- MCKeyThree
  Seed <- MCSeed
  Batches <- MCTwoLinks
  CacheMax = 2
  None = None
  Torn = Torn
  MaxFaults = 1
  MaxCrashes = 0
PROPERTY EveryUrlCrawled
