SPECIFICATION FairSpec
CONSTANTS
  m1 = m1
  m2 = m2
  m3 = m3
  m4 = m4
  Msgs = {m1, m2, m3, m4}
  Sender <- MCSender
  Size <- MCSize
  Rubbish = Rubbish
  None = None
  MaxErrors = 2
CHECK_DEADLOCK FALSE
INVARIANTS TwoReceives AloneIsRight NeverOlder
PROPERTY EverythingReceived
