SPECIFICATION Spec
CONSTANTS
  x = x
  y = y
  stop = stop
  ArticleMax = 6
  Chars <- MCChars
  Stops = {stop}
  Articles <- MCArticles
  maxWordLength_ = 3
  minWordRepeateTimes_ = 2
  ChunkWords = 2
  Ipfs = {TRUE, FALSE}
INVARIANTS PiecesSpell CountsExact RankingExact NothingRepeatedIsLost
