SPECIFICATION AllSpec
CONSTANTS
  Payments = {p1, p2, p3}
  Senders = {w1}
  Heartbeat = n
  Confirmations = 2
  MaxRecords = 2
  MaxAge = 0
  LedgerBound = 2
  ClockBound = 1
  Threads = {t1, t2}
  Miners = {m1}
  Golden = {1}
  JobTtl = 2
  MaxCached = 2
  Batch = 2
  IssueBound = 3
  TipBound = 2
  TickBound = 3
  CpuThreads = 1
  Gpus <- MCGpus
  GpuLane <- MCGpuLane
  LastNonce = 4
  WorkGroup = 2
  Batches = {2, 4}
  ExtraBound = 1
  HeightBound = 1
  Byte = 4
  HashBytes = 4
  PowBits <- MCPowBits
  Spacing = 2
  Interval = 2
  LegacyFactor = 4
  V2Height = 5
  V2Window = 3
  V2Factor = 3
  HeaderBound = 6
  TimeBound = 7
  Peers = {a, b}
  Connections = {c1, c2, c3}
  NormalLimit = 1
  Reserve = 1
  MaxMessages = 2
  MaxSubmissions = 1
  Patience = 1
  MaxPeerErrors = 2
  g = g
  a1 = a1
  b1 = b1
  b2 = b2
  Missing = Missing
  Unreadable = Unreadable
  Torn = Torn
  Genesis = g
  Tip <- MCTip
  Height <- MCHeight
  Work <- MCWork
  BlockAt <- MCBlockAt
  Mempool = {"m1"}
  Mainnet = TRUE
  StartGens = {1}
  MaxGen = 2
  MaxRev = 2
  MaxFaults = 1
INVARIANTS
  JobsHonoured
  MinersDeliver
  RetargetSound
  LanesHonoured
  NothingOlderIsServed
  PointerLossIsCovered
PROPERTIES
  OutboxKept
  StartupNeverReinitialises
CHECK_DEADLOCK FALSE
