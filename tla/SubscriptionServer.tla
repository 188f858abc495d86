-------------------------- MODULE SubscriptionServer --------------------------
(***************************************************************************)
(* subscription-server.js over the block monitor: newHeads, logs and       *)
(* minedTransactions subscriptions, and what to retract when a block is    *)
(* forked.  The handlers of the monitor's events run in the step that      *)
(* emits them: they await nothing but each other.                          *)
(***************************************************************************)
EXTENDS BlockMonitor, FiniteSets

CONSTANTS
  HeadSub, LogSub, MinedSub,     \* ids of subscriptions, each given once
  Connection,                    \* the connection of each subscription
  Filter,                        \* the filter of each logs and minedTransactions subscription
  Log,                           \* the log of the block with each body, or None
  Transaction,                   \* the transaction of the block with each body, or None
  max_logs_subs_per_connection, max_minedtx_subs_per_connection,
  MayUnsubscribe                 \* do clients unsubscribe or disconnect

\* The id of a subscription is of one kind.
ASSUME KindAssumption ==
  /\ HeadSub \cap LogSub = {} /\ HeadSub \cap MinedSub = {} /\ LogSub \cap MinedSub = {}

VARIABLES
  new_head_subs, logs_subs, mined_transactions_subs,  \* current subscriptions
  logs_sent,                 \* by number and subscription, the blocks whose logs were sent
  given,                     \* subscriptions made so far
  received                   \* by subscription, the messages sent for it

subscriptions == <<new_head_subs, logs_subs, mined_transactions_subs>>
server_vars == <<subscriptions, logs_sent, given, received>>
vars == <<monitor_vars, server_vars>>

Sub == HeadSub \cup LogSub \cup MinedSub

NoneSent == [s \in LogSub |-> <<>>]

Subscribed == new_head_subs \cup logs_subs \cup mined_transactions_subs

Init ==
  /\ MonitorInit
  /\ new_head_subs = {} /\ logs_subs = {} /\ mined_transactions_subs = {} /\ given = {}
  /\ logs_sent = [number \in 1 .. MaxBlocks |-> NoneSent]
  /\ received = [s \in Sub |-> <<>>]

-----------------------------------------------------------------------------
(* Events of the monitor *)

LogOf(block) == Log[Last(block)]

\* No filter by address is ever looked at: filters have the field address, and the
\* code reads addresses.  Not modelled are filters that a client gives that other field:
\* the code would throw on an undefined variable (lines 82-85).
logs_filter_match(filter, log) ==
  \/ filter.topics = None
  \/ filter.topics # None /\ filter.topics \cap log.topics # {}

Addressees(block) ==
  IF LogOf(block) = None THEN {}
  ELSE {s \in logs_subs : logs_filter_match(Filter[s], LogOf(block))}

\* An element of the filter by addresses names a sender, a receiver, or both.
Names(o, tx) == tx.from \in {o.from} \ {None} \/ tx.to \in {o.to} \ {None}


tx_filter_match(filter, tx, removed) ==
  /\ ~removed \/ filter.includeRemoved
  /\ \/ filter.addresses = None
     \/ filter.addresses # None /\ (\E o \in filter.addresses : Names(o, tx))

MinedAddressees(block, removed) ==
  LET tx == Transaction[Last(block)]
  IN  IF tx = None THEN {}
      ELSE {s \in mined_transactions_subs : tx_filter_match(Filter[s], tx, removed)}

Send(subs, message) ==
  received' = [s \in Sub |-> IF s \in subs THEN Append(received[s], message) ELSE received[s]]

handle_block_appended(block) ==
  /\ Send(new_head_subs \cup Addressees(block) \cup MinedAddressees(block, FALSE),
          [block |-> block, removed |-> FALSE])
  /\ logs_sent' = [logs_sent EXCEPT ![Len(block)] =
       [s \in LogSub |-> IF s \in Addressees(block) THEN Append(@[s], block) ELSE @[s]]]

\* What a fork makes the server send: each log sent for a block of this number, in the
\* message that announced it, whoever is subscribed now; then the transactions of the
\* block, to whom they concern now.
Retractions(block, logs) ==
  received' = [s \in Sub |->
    LET retracted == IF s \in LogSub THEN logs[s] ELSE <<>>
        mined     == s \in MinedAddressees(block, TRUE)
    IN  received[s]
          \o [i \in DOMAIN retracted |-> [block |-> retracted[i], removed |-> TRUE]]
          \o (IF mined THEN <<[block |-> block, removed |-> TRUE]>> ELSE <<>>)]

\* Wrong variant of handle_block_forked: the retracted logs are not forgotten.
fork_without_deleting(block) ==
  Retractions(block, logs_sent[Len(block)]) /\ UNCHANGED logs_sent

handle_block_forked(block) ==
  /\ Retractions(block, logs_sent[Len(block)])
  /\ logs_sent' = [logs_sent EXCEPT ![Len(block)] = NoneSent]

handle_block_removed(blocks) ==
  /\ logs_sent' = [number \in DOMAIN logs_sent |->
       IF \E b \in blocks : Len(b) = number THEN NoneSent ELSE logs_sent[number]]
  /\ UNCHANGED received

HandleEvents(events) ==
  CASE events = <<>>                   -> UNCHANGED <<received, logs_sent>>
    [] events # <<>> /\ Head(events).event = "appended" -> handle_block_appended(Head(events).block)
    [] events # <<>> /\ Head(events).event = "forked"   -> handle_block_forked(Head(events).block)
    [] OTHER                           -> handle_block_removed({e.block : e \in Range(events)})

-----------------------------------------------------------------------------
(* Requests of clients *)

check_start_monitor == IF run THEN UNCHANGED <<rpc_vars, reversible_blocks, run, timer, polls>>
                       ELSE start

check_stop_monitor ==
  IF run /\ Subscribed' = {}
  THEN stop ELSE UNCHANGED <<rpc_vars, reversible_blocks, run, timer, polls>>

Subscribe(s) ==
  /\ s \notin given
  /\ given' = given \cup {s}
  /\ check_start_monitor
  /\ emitted' = <<>>
  /\ UNCHANGED <<logs_sent, received>>

SameConnection(subs, s) == Cardinality({o \in subs : Connection[o] = Connection[s]})

\* One newHeads subscription per connection, and so many of the others; a handler throws
\* if there are more.
Allowed(s) ==
  CASE s \in HeadSub  -> SameConnection(new_head_subs, s) = 0
    [] s \in LogSub   -> SameConnection(logs_subs, s) < max_logs_subs_per_connection
    [] s \in MinedSub -> SameConnection(mined_transactions_subs, s) < max_minedtx_subs_per_connection

handle_new_heads(s) ==
  /\ s \in HeadSub /\ Allowed(s)
  /\ new_head_subs' = new_head_subs \cup {s}
  /\ UNCHANGED <<logs_subs, mined_transactions_subs>>
  /\ Subscribe(s)

handle_logs(s) ==
  /\ s \in LogSub /\ Allowed(s)
  /\ logs_subs' = logs_subs \cup {s}
  /\ UNCHANGED <<new_head_subs, mined_transactions_subs>>
  /\ Subscribe(s)

handle_minedTransactions(s) ==
  /\ s \in MinedSub /\ Allowed(s)
  /\ mined_transactions_subs' = mined_transactions_subs \cup {s}
  /\ UNCHANGED <<new_head_subs, logs_subs>>
  /\ Subscribe(s)

Leave(subs) ==
  /\ MayUnsubscribe
  /\ new_head_subs' = new_head_subs \ subs
  /\ logs_subs' = logs_subs \ subs
  /\ mined_transactions_subs' = mined_transactions_subs \ subs
  /\ check_stop_monitor
  /\ emitted' = <<>>
  /\ UNCHANGED <<logs_sent, given, received>>

handle_unsubscribe(s) == s \in Subscribed /\ Leave({s})

OfConnection(c) == {s \in Subscribed : Connection[s] = c}

\* Wrong variant of handle_disconnect: newHeads subscriptions only.
disconnect_heads(c) == Leave(OfConnection(c) \cap HeadSub)

handle_disconnect(c) == Leave(OfConnection(c))

Request ==
  \E s \in Sub :
    \/ handle_new_heads(s) \/ handle_logs(s) \/ handle_minedTransactions(s)
    \/ handle_unsubscribe(s)
    \/ OfConnection(Connection[s]) # {} /\ handle_disconnect(Connection[s])

MonitorStep ==
  /\ \E p \in Poll : PollStep(p)
  /\ HandleEvents(emitted')
  /\ UNCHANGED <<subscriptions, given>>

Next == MonitorStep \/ Request \/ (ChainMoves /\ UNCHANGED server_vars)

Spec == Init /\ [][Next]_vars

\* Timers fire, requests are answered and continuations run.
FairSpec == Spec /\ WF_vars(MonitorStep)

-----------------------------------------------------------------------------
Count(s, block, removed) ==
  Cardinality({i \in DOMAIN received[s] :
                 received[s][i] = [block |-> block, removed |-> removed]})


\* No log is retracted more often than it was sent.
RetractedOnce ==
  \A s \in LogSub : \A i \in DOMAIN received[s] :
    Count(s, received[s][i].block, FALSE) >= Count(s, received[s][i].block, TRUE)

\* tests/nodeos_eos_evm_ws_test_fork.py:1072: after a fork, the parent of each head is
\* one that the client was sent before, if it is not below the first that it was sent.
HeadsLinkable ==
  \A s \in HeadSub : \A i \in 2 .. Len(received[s]) :
    \/ Len(received[s][i].block) <= Len(received[s][1].block)
    \/ \E j \in 1 .. i - 1 : received[s][j].block = Front(received[s][i].block)

\* tests/nodeos_eos_evm_ws_test_fork.py:824: while the chain does not fork, the parent
\* of each head is the head sent before it.
HeadsLinear ==
  reorgs = 0 =>
    \A s \in HeadSub : \A i \in 2 .. Len(received[s]) :
      received[s][i - 1].block = Front(received[s][i].block)

\* Whatever requests fail, and however the monitor is stopped and started, it follows
\* the chain as long as somebody is subscribed.
Follows ==
  <>[](Subscribed # {} =>
         reversible_blocks # <<>> /\ Len(Last(reversible_blocks)) >= Len(chain) - 2)
=============================================================================
