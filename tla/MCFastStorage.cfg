SPECIFICATION BothSpec
CONSTANTS
  g = g
  a1 = a1
  b1 = b1
  b2 = b2
  Missing = Missing
  Unreadable = Unreadable
  Torn = Torn
  Genesis = g
  Tip <- MCTip
  Height <- MCHeight
  Work <- MCWork
  BlockAt <- MCBlockAt
  Mempool = {"m1"}
  Mainnet = TRUE
  StartGens = {1}
  MaxGen = 3
  MaxRev = 2
  Proc = {node, gui}
  Pid = {p1, p2, p3, p4}
  ReusePids = FALSE
  MaxCrash = 2
  NoPid = NoPid
  NoLock = NoLock
INVARIANTS
  TypeOK
  Recoverable
  FallbackUsable
  FallbackNotAhead
  LeaseTypeOK
  OneWriterUnlessRaced
  HolderKeepsLock
PROPERTIES
  SiblingOnlyByReanchor
  ImplementsStore
  ComesToRest
  OrphanGoes
