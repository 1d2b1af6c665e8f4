CONSTANTS
  g = g
  a = a
  b = b
  c = c
  y = y
  h = h
  w = w
  Main = Main
  None = None
  Genesis = g
  Block <- MCBlock
  Height <- MCHeight
  Work <- MCHeight
  BlockAt <- MCBlockAt
  Tx = {y}
  Own = {y}
  Mined <- MCMined
  Handler = {h}
  Writer = {w}
  Others = TRUE
  Mainnet = TRUE
  MaxInput = 3
SPECIFICATION FairSpec
INVARIANT TypeOK
INVARIANT MemoryNotAhead
PROPERTY MutexesReleased
PROPERTY QueueIsPublished
PROPERTY Converges
PROPERTY OutboxReturns
