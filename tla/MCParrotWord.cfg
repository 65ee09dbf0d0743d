SPECIFICATION Spec
CONSTANTS
  x = x
  y = y
  Longest = 6
  Preds = {0, 6}
  Words <- MCWords
  Size <- MCSize
  Stretches <- MCStretches
  Dicts <- MCDicts
  gWordLength = 6
  SizeMax = 32
  minWordRepeateTimes_ = 2
  ChunkWords = 2
  Space = Space
  MaxStretches = 1
INVARIANTS NoOverlap TurnedDownForHeavier
