---------------------------- MODULE TraceExtraction ----------------------------
(***************************************************************************)
(* The part of ship_receiver_plugin that extracts the EVM transactions of  *)
(* a native block from the traces of its native transactions (to_native    *)
(* and append_to_block).                                                   *)
(*                                                                         *)
(* The traces come from an external model of nodeos, which lists actions   *)
(* in the order in which they were scheduled, not in that in which they    *)
(* ran, and of the EVM contract, which announces each EVM transaction it   *)
(* processes: by the pushtx action itself in version 0, by an inline evmtx *)
(* from version 1 on, with an inline configchange before it if consensus   *)
(* parameters change.  The contract is notified of actions of other        *)
(* accounts as well, which may have any name.                              *)
(***************************************************************************)
EXTENDS Integers, FiniteSets, SequencesExt

CONSTANTS
  None,             \* std::nullopt
  MaxTransactions,  \* bound on the native transactions of the block
  MaxActions        \* bound on the actions of a native transaction

VARIABLES
  block,     \* the native block so far: its transactions and new_config
  outcome,   \* "ok", or "threw": an exception, or a read before an empty vector
  version,   \* version of the EVM contract while the block is produced
  pending_config, \* the next EVM transaction comes with a configchange
  executed,  \* EVM transactions processed by the contract in this block, in order
  announced, \* whether the contract announced a configchange
  count,     \* native transactions so far
  trace,     \* actions of the current native transaction, as scheduled
  notified,  \* actions to run: the notifications of the one that is running
  inlines,   \* the inline actions that it and they have scheduled
  rest,      \* the actions to run after those
  sequence,  \* global_sequence of the next action to run
  before     \* executed and pending_config when the native transaction started

chain_vars == <<version, pending_config, executed, announced, count, trace, notified, inlines,
                rest, sequence, before>>
receiver_vars == <<block, outcome>>
vars == <<chain_vars, receiver_vars>>

-----------------------------------------------------------------------------
(* The receiver *)

\* core says that the contract is the receiver of the action, own that the action is the
\* contract's too.  The receiver does not look at own.
Wanted(actions, name, j) == actions[j].core /\ actions[j].name \in {name, "configchange"}

\* Wrong variant of action_to_search: every block is one of version 0.
always_pushtx(actions) == "pushtx"

\* evmtx actions if there is one, pushtx actions otherwise
action_to_search(actions) ==
  IF \E j \in DOMAIN actions : actions[j].core /\ actions[j].name = "evmtx"
  THEN "evmtx" ELSE "pushtx"

\* Wrong variant of key: the sequence of the evmtx action itself.
own_sequence(actions, j) ==
  IF actions[j].name = "configchange" THEN 0 ELSE actions[j].global_sequence

\* The order of an action: that of its parent for evmtx, first for configchange.
key(actions, j) ==
  CASE actions[j].name = "evmtx"        -> actions[actions[j].creator].global_sequence
    [] actions[j].name = "configchange" -> 0
    [] OTHER                            -> actions[j].global_sequence

\* An evmtx without a parent before it.
Orphan(actions, j) ==
  actions[j].name = "evmtx" /\ (actions[j].creator = 0 \/ actions[j].creator >= j)

\* The later of two actions with the same key replaces the other.
ordered_action_traces(actions) ==
  LET name   == action_to_search(actions)
      wanted == {j \in DOMAIN actions : Wanted(actions, name, j)}
      kept   == {j \in wanted : \A i \in wanted : key(actions, i) = key(actions, j) => i <= j}
      order  == SetToSortSeq(kept, LAMBDA i, j : key(actions, i) < key(actions, j))
  IN  [i \in DOMAIN order |-> actions[order[i]]]

\* What the loop and the test after it reject.  The last clause stands for both an
\* exception and a read of the last action of a transaction that has none.
Rejected(b, ordered) ==
  \E i \in DOMAIN ordered :
    LET config(j) == ordered[j].name = "configchange"
        before_i  == {j \in 1 .. i - 1 : ~config(j)}
    IN  \/ config(i) /\ (b.new_config # None \/ \E j \in 1 .. i - 1 : config(j))
        \/ config(i) /\ (before_i # {} \/ b.transactions # <<>>)
        \/ /\ ordered[i].name = "pushtx"
           /\ b.new_config # None \/ \E j \in 1 .. i - 1 : config(j)
        \/ ~config(i) /\ \E j \in before_i : ordered[j].name # ordered[i].name
        \/ /\ i = Len(ordered) /\ b.transactions # <<>>
           /\ Last(b.transactions) = <<>> \/ Last(Last(b.transactions)).name # ordered[i].name

append_to_block(b, actions) ==
  LET ordered == ordered_action_traces(actions)
      configs == SelectSeq(ordered, LAMBDA a : a.name = "configchange")
  IN  [new_config   |-> IF configs = <<>> THEN b.new_config ELSE Head(configs),
       transactions |->
         IF ordered = <<>> THEN b.transactions
         ELSE Append(b.transactions, SelectSeq(ordered, LAMBDA a : a.name # "configchange"))]

\* A trace that is not that of an executed transaction is ignored.
to_native(status, actions) ==
  IF status # "executed" THEN UNCHANGED receiver_vars
  ELSE IF \/ \E j \in DOMAIN actions :
                Wanted(actions, action_to_search(actions), j) /\ Orphan(actions, j)
          \/ Rejected(block, ordered_action_traces(actions))
       THEN outcome' = "threw" /\ UNCHANGED block
       ELSE block' = append_to_block(block, actions) /\ UNCHANGED outcome

-----------------------------------------------------------------------------
(* nodeos and the EVM contract *)

\* An action as scheduled; global_sequence is set when it runs.
Action(name, core, own, creator) ==
  [name |-> name, core |-> core, own |-> own, creator |-> creator, global_sequence |-> 0,
   data |-> None]

Foreign(creator)      == Action("other", FALSE, FALSE, creator) \* of another account
Notice(name, creator) == Action(name, TRUE, FALSE, creator)     \* tells the contract of one
Pushtx(creator)       == Action("pushtx", TRUE, TRUE, creator)
Evmtx(creator)        == Action("evmtx", TRUE, TRUE, creator)
Config(creator)       == Action("configchange", TRUE, TRUE, creator)

Names == {"pushtx", "evmtx", "configchange"}

\* Of what it is notified of, the contract handles transfers only, whatever the names.
Transfer(a) == a.core /\ ~a.own /\ a.name = "transfer"

Processes(a) == (a.own /\ a.name = "pushtx") \/ (Transfer(a) /\ version > 0)

Init ==
  /\ block = [transactions |-> <<>>, new_config |-> None]
  /\ outcome = "ok"
  /\ version \in {0, 1}
  /\ pending_config \in (IF version = 0 THEN {FALSE} ELSE BOOLEAN)
  /\ executed = <<>> /\ announced = FALSE
  /\ count = 0
  /\ trace = <<>> /\ notified = <<>> /\ inlines = <<>> /\ rest = <<>>
  /\ sequence = 1
  /\ before = [executed |-> <<>>, pending_config |-> FALSE]

Idle == trace = <<>>

\* A native transaction with a list of top-level actions.
Start ==
  /\ Idle /\ outcome = "ok" /\ count < MaxTransactions
  /\ count' = count + 1
  /\ trace' \in {<<Foreign(0)>>, <<Pushtx(0)>>, <<Pushtx(0), Foreign(0)>>,
                 <<Foreign(0), Pushtx(0)>>, <<Pushtx(0), Pushtx(0)>>}
  /\ rest' = [i \in DOMAIN trace' |-> i]
  /\ before' = [executed |-> executed, pending_config |-> pending_config]
  /\ UNCHANGED <<version, pending_config, executed, announced, notified, inlines, sequence,
                 receiver_vars>>

\* The first inline action not yet run, those of the innermost action first.
NextInline ==
  /\ ~Idle /\ notified = <<>> /\ inlines \o rest # <<>>
  /\ notified' = <<Head(inlines \o rest)>>
  /\ inlines' = <<>>
  /\ rest' = Tail(inlines \o rest)
  /\ UNCHANGED <<version, pending_config, executed, announced, count, trace, sequence, before,
                 receiver_vars>>

\* The action o runs and schedules notifications and inline actions, which come
\* next in the trace.
Run(o, notifications, actions) ==
  LET ran == [trace EXCEPT ![o].global_sequence = sequence,
                           ![o].data = IF Processes(trace[o]) /\ version = 0
                                       THEN sequence ELSE @]
      n == Len(trace)
  IN  /\ n + Len(notifications) + Len(actions) <= MaxActions
      /\ trace' = ran \o notifications \o actions
      /\ notified' = Tail(notified) \o [i \in DOMAIN notifications |-> n + i]
      /\ inlines' = inlines \o [i \in DOMAIN actions |-> n + Len(notifications) + i]
      /\ sequence' = sequence + 1

\* The contract processes an EVM transaction, known by the sequence at which it did.
RunContract ==
  LET o == Head(notified)
      evmtx == [Evmtx(o) EXCEPT !.data = sequence]
  IN  /\ notified # <<>> /\ Processes(trace[o])
      /\ Run(o, <<>>, IF version = 0 THEN <<>>
                      ELSE IF pending_config THEN <<[Config(o) EXCEPT !.data = "config"], evmtx>>
                      ELSE <<evmtx>>)
      /\ executed' = Append(executed, sequence)
      /\ announced' = (announced \/ pending_config)
      /\ pending_config' = FALSE
      /\ UNCHANGED <<version, count, rest, before, receiver_vars>>

\* In version 0 a transfer makes the contract schedule a pushtx.  An action of
\* another account may notify accounts, the contract among them, and schedule more; a
\* notification has the name of the action.
RunOther ==
  LET o == Head(notified)
  IN  /\ notified # <<>> /\ ~Processes(trace[o])
      /\ IF trace[o].core
         THEN Run(o, <<>>, IF Transfer(trace[o]) THEN <<Pushtx(o)>> ELSE <<>>)
         ELSE \E ns \in {<<>>, <<Foreign(o), Notice("transfer", o)>>}
                         \cup {<<Notice(name, o)>> : name \in Names \cup {"transfer"}},
                 as \in {<<>>, <<Pushtx(o)>>, <<Foreign(o), Pushtx(o)>>} : Run(o, ns, as)
      /\ UNCHANGED <<version, pending_config, executed, announced, count, rest, before,
                     receiver_vars>>

Reset == trace' = <<>> /\ notified' = <<>> /\ inlines' = <<>> /\ rest' = <<>>

\* Its trace reaches the receiver with the block.
Succeed ==
  /\ ~Idle /\ notified \o inlines \o rest = <<>>
  /\ to_native("executed", trace)
  /\ Reset
  /\ UNCHANGED <<version, pending_config, executed, announced, count, sequence, before>>

\* A failure takes back what the contract did.
Fail ==
  /\ ~Idle /\ sequence > 1
  /\ to_native("failed", trace)
  /\ Reset
  /\ executed' = before.executed
  /\ pending_config' = before.pending_config
  /\ announced' = (announced /\ ~before.pending_config)
  /\ UNCHANGED <<version, count, sequence, before>>

Next == Start \/ NextInline \/ RunContract \/ RunOther \/ Succeed \/ Fail

Spec == Init /\ [][Next]_vars

-----------------------------------------------------------------------------
Extracted == FlattenSeq(block.transactions)

\* What the receiver took from notifications of other accounts' actions, for their names.
Misnamed ==
  \/ \E i \in DOMAIN Extracted : ~Extracted[i].own
  \/ block.new_config # None /\ ~block.new_config.own

Sequences(actions) == [i \in DOMAIN actions |-> actions[i].data]

\* The native block that the receiver publishes has no EVM transaction of the contract but
\* those that it processed, each once and in the order in which it did, however the actions
\* that carried them were nested and in whatever order the trace lists them.  None is missing,
\* nor are the parameters that it announced, unless the block has taken an action of another
\* account, of which the contract is only notified, for one of the contract's.
AsExecuted ==
  Idle /\ outcome = "ok" =>
    LET own == Sequences(SelectSeq(Extracted, LAMBDA a : a.own))
    IN  /\ ToSet(own) \subseteq ToSet(executed)
        /\ \A i, j \in DOMAIN own : i < j => own[i] < own[j]
        /\ ~Misnamed => own = executed /\ (block.new_config # None) = announced

\* What the contract does never makes the receiver throw, which would stop the node: it takes
\* an action of another account with the name of one of the contract's, in this native
\* transaction or taken for one of the contract's before.
OnlyMisnamedThrow ==
  [][outcome' = "threw" /\ outcome = "ok" =>
       Misnamed \/ \E j \in DOMAIN trace : trace[j].core /\ ~trace[j].own /\ trace[j].name \in Names
    ]_vars
=============================================================================
