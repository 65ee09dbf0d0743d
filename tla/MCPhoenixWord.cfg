SPECIFICATION Spec
CONSTANTS
  x = x
  y = y
  z = z
  dash = dash
  wai = wai
  castdb = castdb
  wordDb = wordDb
  phraseDb = phraseDb
  Procs = {wai, castdb}
  Tools = {castdb}
  Dbs <- MCDbs
  Keys <- MCKeys
  Key <- MCKey
  Masters <- MCMasters
  Unit = 128
  None = None
  MaxCrashes = 1
  MaxDeploys = 1
  Worker = wai
  Kinds = {"phoenix", "ja", "cn"}
  WordDb = wordDb
  PhraseDb = phraseDb
  Dash = dash
  Texts <- MCTexts
  Gain = 64
  Inv <- MCInv
  InvGain <- MCInvGain
  MissInv = 256
  gWordLength = 3
  minWordRepeateTimes_ = 2
  MaxStretches = 1
INVARIANTS WholeOrPrefix Tiled WholeWordStays KnownTextWhole
