SPECIFICATION FairStorageSpec
CONSTANTS
  t1 = t1
  t2 = t2
  t3 = t3
  c1 = c1
  None = None
  Zero = Zero
  Tx <- Tx1
  Config <- Configs
  GasPrices <- Prices
  BaseFee <- Fees
  Genesis = 1
  Second = 2
  NativeId <- Ids
  Word = 65536
  ChainVersion = 1
  StartBlock <- StartV1
  UninitializedLib = {3}
  Payload <- OnePrice
  Slots = {1, 3}
  StartSlot = 3
  StartBlockNum = 10
  InitLib = 11
  MaxLib = 13
  MaxProduced = 4
  MaxFailures = 0
  max_retry = 1
  trace_begin_block = 0
  Ancestor = Ancestor
  ForkSplitsSecond = TRUE
  BatchSize = 2
  Heights = {None}
  MaxRestarts = 1
INVARIANTS
  TransactionsMatch
  UpperBoundMatch
  PublishedMatch
  LibIsFinal
  ParentsInserted
  RestartComplete
  NeverExits
PROPERTIES
  LibMonotonic
  Finalized
  DatabaseCatchesUp
CHECK_DEADLOCK FALSE
