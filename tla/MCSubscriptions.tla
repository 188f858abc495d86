---------------------------- MODULE MCSubscriptions ----------------------------
(* Instances of SubscriptionServer for TLC *)
EXTENDS SubscriptionServer

CONSTANTS a, a2, b, h1, h2, l1, m1, c1, c2, t1

TwoBlocks == <<a, a>>
WithLog == <<a, b>>
TwoWithLogs == <<b, b>>

\* m1 has a connection of its own.
OnConnection == [s \in Sub |-> IF s = m1 THEN c2 ELSE c1]

\* Blocks with body b have a log and a transaction.
LogOfB == [body \in Body |-> IF body = b THEN [address |-> t1, topics |-> {t1}] ELSE None]

TransactionOfB == [body \in Body |-> IF body = b THEN [from |-> t1, to |-> None] ELSE None]

Filters == [s \in LogSub \cup MinedSub |->
  CASE s = l1 -> [address |-> None, topics |-> {t1}]
    [] s = m1 -> [includeRemoved |-> TRUE, addresses |-> {[from |-> t1, to |-> t1]}]]
=============================================================================
