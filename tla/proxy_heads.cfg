SPECIFICATION FairSpec
CONSTANTS
  None = None
  Null = Null
  a = a
  a2 = a2
  b = b
  h1 = h1
  h2 = h2
  l1 = l1
  m1 = m1
  c1 = c1
  c2 = c2
  t1 = t1
  Body = {a, a2}
  GrowthBody = {a}
  InitialChain <- TwoBlocks
  MaxBlocks = 6
  MaxReorgs = 1
  MaxErrors = 1
  DeepForks = FALSE
  Poll = {1}
  HeadSub = {h1}
  LogSub = {l1}
  MinedSub = {}
  Connection <- OnConnection
  Filter <- Filters
  Log <- LogOfB
  Transaction <- TransactionOfB
  max_logs_subs_per_connection = 1
  max_minedtx_subs_per_connection = 1
  MayUnsubscribe = TRUE
  Keep = 3
  Slack = 0
  LibAhead = 1
INVARIANT
  HeadsLinkable
PROPERTY
  Follows
CHECK_DEADLOCK FALSE
