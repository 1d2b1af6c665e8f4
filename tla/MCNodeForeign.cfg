SPECIFICATION Spec
CONSTANTS
  Consensus <- MCConsensus
  Pool <- MCPool
  Jin <- MCJin
  Qns <- MCQns
  QnsLabel <- MCQnsLabel
  Lib <- MCLib
  TextBytes <- MCTextBytes
  Gov <- MCGov
  Policy <- MCPolicy
  AddressRank <- MCAddressRank
  TxRank <- MCTxRank
  Nodes <- MCNodes
  WalletOf <- MCWalletOf
  Scenes <- MCScenes
  Families = {"foreign"}
INVARIANT ConnectedChainsReplay
CHECK_DEADLOCK FALSE
