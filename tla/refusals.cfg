SPECIFICATION SystemSpec
CONSTANTS
  t1 = t1
  t2 = t2
  t3 = t3
  c1 = c1
  None = None
  Zero = Zero
  Tx <- Tx1
  Config <- Configs
  GasPrices <- Prices
  BaseFee <- Fees
  Genesis = 1
  Second = 2
  NativeId <- Ids
  Word = 65536
  ChainVersion = 1
  StartBlock <- StartGenesis
  UninitializedLib = {0}
  Payload <- Raises
  Slots = {1, 2}
  StartSlot = 1
  StartBlockNum = 10
  InitLib = 11
  MaxLib = 12
  MaxProduced = 4
  MaxFailures = 1
  max_retry = 1
  trace_begin_block = 0
  Ancestor = Ancestor
  ForkSplitsSecond = TRUE
INVARIANT
  OnlyStaleHeadersStop
CHECK_DEADLOCK FALSE
