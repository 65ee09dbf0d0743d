SPECIFICATION FairSpec
CONSTANTS
  b1 = b1
  b2 = b2
  b3 = b3
  r1 = r1
  r2 = r2
  r3 = r3
  r4 = r4
  Blocks = {b1, b2, b3}
  Announcements <- MCAnnouncements
  Resources <- MCResources
  HasWords = {r1, r2, r4}
  Group <- MCGroup
  ResourceMax = 2
  App = "ostrich"
  None = None
  MaxFaults = 1
CHECK_DEADLOCK FALSE
INVARIANTS FinishedOncePerTake TaskLostOnlyBySplit
PROPERTIES FinishMeansDone ResultsBeforeReport EveryBlockReported
