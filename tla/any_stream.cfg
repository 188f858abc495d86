SPECIFICATION StreamSpec
CONSTANTS
  t1 = t1
  t2 = t2
  t3 = t3
  c1 = c1
  None = None
  Zero = Zero
  NativeId <- Ids
  Tx <- Txs
  Config <- Configs
  GasPrices <- Prices
  BaseFee <- Fees
  Second = 2
  StartBlockNum = 10
  Genesis = 3
  Word = 65536
  ChainVersion = 1
  StartBlock <- Start
  UninitializedLib = {0, 7}
  MaxPublished = 7
INVARIANTS
  TypeOK
  ListsReadable
  NativeLinked
  EvmLinked
  PublishedInOrder
  ConfigStored
CHECK_DEADLOCK FALSE
