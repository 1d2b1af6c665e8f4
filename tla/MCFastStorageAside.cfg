SPECIFICATION FSpec
CONSTANTS
  g = g
  a1 = a1
  b1 = b1
  b2 = b2
  Missing = Missing
  Unreadable = Unreadable
  Torn = Torn
  Genesis = g
  Tip <- MCTip
  Height <- MCHeight
  Work <- MCWork
  BlockAt <- MCBlockAt
  Mempool = {"m1"}
  Mainnet = TRUE
  StartGens = {1}
  MaxGen = 2
  MaxRev = 2
  MaxFaults = 2
PROPERTY
  StartupNeverReinitialises
CHECK_DEADLOCK FALSE
