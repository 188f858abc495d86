SPECIFICATION ShipSpec
CONSTANTS
  None = None
  Zero = Zero
  Ancestor = Ancestor
  NativeId <- Ids
  Tx = {}
  Config = {}
  GasPrices = {}
  Second = 2
  StartBlockNum = 10
  Payload <- Empty
  Slots = {1, 2}
  StartSlot = 2
  InitLib = 8
  MaxLib = 12
  MaxProduced = 3
  ForkSplitsSecond = TRUE
  max_retry = 1
  trace_begin_block = 10
  MaxFailures = 2
INVARIANTS
  ParentsReceived
  NothingIrreversibleTwice
CHECK_DEADLOCK FALSE
