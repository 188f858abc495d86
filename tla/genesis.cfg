SPECIFICATION StorageSpec
CONSTANTS
  t1 = t1
  t2 = t2
  t3 = t3
  c1 = c1
  None = None
  Zero = Zero
  Tx <- Tx1
  Config <- Configs
  GasPrices <- Prices
  BaseFee <- Fees
  Genesis = 1
  Second = 2
  NativeId <- Ids
  Word = 65536
  ChainVersion = 0
  StartBlock <- StartGenesis
  UninitializedLib = {0}
  Payload <- Upgrades
  Slots = {1, 3}
  StartSlot = 1
  StartBlockNum = 10
  InitLib = 11
  MaxLib = 13
  MaxProduced = 3
  MaxFailures = 1
  max_retry = 1
  trace_begin_block = 0
  Ancestor = Ancestor
  ForkSplitsSecond = FALSE
  BatchSize = 2
  Heights = {None, 0}
  MaxRestarts = 1
INVARIANTS
  HeaderMatch
  OnlyEarlyConfigExits
  ConfigDurable
  TransactionsMatch
CHECK_DEADLOCK FALSE
