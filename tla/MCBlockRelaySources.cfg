SPECIFICATION Spec
CONSTANTS
  g = g
  a = a
  c1 = c1
  c2 = c2
  Genesis = g
  Block <- MCBlock
  Height <- MCHeight
  Work <- MCWork
  BlockAt <- MCBlockAt
  Peer = {s, q}
  Official = {s}
  Web = Web
  Ack = Ack
  None = None
  Mainnet = TRUE
INVARIANT IndependentSources
