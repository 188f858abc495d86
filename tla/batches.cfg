SPECIFICATION FairWsSpec
CONSTANTS
  None = None
  Null = Null
  a = a
  a2 = a2
  b = b
  h1 = h1
  h2 = h2
  l1 = l1
  m1 = m1
  c1 = c1
  c2 = c2
  t1 = t1
  Body = {b}
  GrowthBody = {b}
  InitialChain <- TwoWithLogs
  MaxBlocks = 2
  MaxReorgs = 0
  MaxErrors = 0
  DeepForks = TRUE
  Poll = {1}
  HeadSub = {h1, h2}
  LogSub = {l1}
  MinedSub = {m1}
  Connection <- OnConnection
  Filter <- Filters
  Log <- LogOfB
  Transaction <- TransactionOfB
  max_logs_subs_per_connection = 1
  max_minedtx_subs_per_connection = 1
  MayUnsubscribe = TRUE
  Keep = 2
  Slack = 0
  LibAhead = 1
  Message <- Messages
  From <- Clients
  Calls <- Batches
INVARIANTS
  AnsweredOnce
  OrphansOvertaken
  ToldFirst
PROPERTY
  Responds
CHECK_DEADLOCK FALSE
