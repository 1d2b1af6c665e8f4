SPECIFICATION LeaseSpec
CONSTANTS
  Proc = {node, gui}
  Pid = {p1, p2, p3}
  ReusePids = TRUE
  MaxCrash = 2
  NoPid = NoPid
  NoLock = NoLock
INVARIANT
  OneWriter
