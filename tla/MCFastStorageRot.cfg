SPECIFICATION FSpec
CONSTANTS
  g = g
  a1 = a1
  b1 = b1
  b2 = b2
  Missing = Missing
  Unreadable = Unreadable
  Torn = Torn
  Genesis = g
  Tip <- MCTip
  Height <- MCHeight
  Work <- MCWork
  BlockAt <- MCBlockAt
  Mempool = {"m1"}
  Mainnet = TRUE
  StartGens = {1}
  MaxGen = 2
  MaxRev = 2
  MaxFaults = 1
PROPERTY
  CommitsBuildOnWhatLoads
CHECK_DEADLOCK FALSE
