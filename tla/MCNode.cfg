SPECIFICATION Spec
CONSTANTS
  Consensus <- MCConsensus
  Pool <- MCPool
  Jin <- MCJin
  Qns <- MCQns
  QnsLabel <- MCQnsLabel
  Lib <- MCLib
  TextBytes <- MCTextBytes
  Gov <- MCGov
  Policy <- MCPolicy
  AddressRank <- MCAddressRank
  TxRank <- MCTxRank
  Nodes <- MCNodes
  WalletOf <- MCWalletOf
  Scenes <- MCScenes
  Families = {"names", "blast", "library", "edits", "jin", "sale", "pools", "governance", "profiles", "crowd", "pool_melt", "foreign"}
INVARIANTS
  TypeOK
  TemplatesConnect
  LedgersReplay
  CoinsAccounted
  JinAccounted
  MempoolMinable
  NamesRegisteredOnce
  WindowRespectsSlots
  PayoutsExact
  WalletBuildsAdmissible
PROPERTIES ReorgKeepsTransactions
CHECK_DEADLOCK FALSE
