SPECIFICATION Spec
CONSTANTS
  None = None
  Null = Null
  a = a
  a2 = a2
  b = b
  h1 = h1
  h2 = h2
  l1 = l1
  m1 = m1
  c1 = c1
  c2 = c2
  t1 = t1
  Body = {a, b}
  GrowthBody = {a, b}
  InitialChain <- TwoBlocks
  MaxBlocks = 6
  MaxReorgs = 0
  MaxErrors = 0
  DeepForks = TRUE
  Poll = {1, 2}
  HeadSub = {h1, h2}
  LogSub = {}
  MinedSub = {}
  Connection <- OnConnection
  Filter <- Filters
  Log <- LogOfB
  Transaction <- TransactionOfB
  max_logs_subs_per_connection = 1
  max_minedtx_subs_per_connection = 1
  MayUnsubscribe = TRUE
  Keep = 2
  Slack = 1
  LibAhead = 1
INVARIANT
  HeadsLinear
CHECK_DEADLOCK FALSE
