SPECIFICATION SystemSpec
CONSTANTS
  t1 = t1
  t2 = t2
  t3 = t3
  c1 = c1
  None = None
  Zero = Zero
  Tx <- Tx1
  Config <- Configs
  GasPrices <- Prices
  BaseFee <- Fees
  Genesis = 1
  Second = 2
  NativeId <- Ids
  Word = 65536
  ChainVersion = 1
  StartBlock <- StartV1
  UninitializedLib = {0, 3}
  Payload <- OnePrice
  Slots = {1, 3}
  StartSlot = 3
  StartBlockNum = 10
  InitLib = 8
  MaxLib = 9
  MaxProduced = 2
  MaxFailures = 1
  max_retry = 1
  trace_begin_block = 0
  Ancestor = Ancestor
  ForkSplitsSecond = TRUE
INVARIANT
  NeverExits
CHECK_DEADLOCK FALSE
