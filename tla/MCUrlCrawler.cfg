SPECIFICATION Spec
CONSTANTS
  s = s
  a = a
  b = b
  Urls = {s, a}
  Langs <- MCLangs
  LangOf <- MCLangOf
  Key <- MCKey
  Seed <- MCSeed
  Batches <- MCTwoPages
  CacheMax = 2
  None = None
  Torn = Torn
  MaxFaults = 0
  MaxCrashes = 2
INVARIANT CrawledOnce
PROPERTIES KnownStaysKnown CompletedLinksKnown
