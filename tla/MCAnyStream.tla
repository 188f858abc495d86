------------------------------ MODULE MCAnyStream ------------------------------
(* BlockConversion fed with a handful of blocks in any order, any number of times *)
EXTENDS BlockConversion

CONSTANTS t1, t2, t3, c1,
          MaxPublished  \* no block is received once this many have been published

Ids == {"anchor", "a1", "a2", "a3", "b2", "c2", "c3", "c4", "d1", "e2", "late",
        "lost", "pre", "low", Zero}
Txs == {t1, t2, t3}
Configs == {c1}
Prices == {[overhead |-> 2, storage |-> 5]}
Fees == [p \in Prices |-> p.storage]

Start == [number |-> 1, parent_hash |-> <<>>, prev_randao |-> "anchor", version |-> 1,
  base_fee_per_gas |-> 1, gas_prices |-> None, consensus_parameter_index |-> None,
  irreversible |-> FALSE, transactions |-> <<>>, transactions_root |-> [root |-> <<>>]]

Act(tx, form, version) ==
  [name |-> "evmtx", rlpx |-> [tx |-> tx, form |-> form], eos_evm_version |-> version,
   base_fee_per_gas |-> 1,
   gas_prices |-> IF version = 3 THEN CHOOSE p \in Prices : TRUE ELSE None]

Block(id, prev, num, time, irr, acts) ==
  [id |-> id, prev |-> prev, block_num |-> num, timestamp |-> time, lib |-> irr,
   new_config |-> None, actions |-> acts]

WithConfig(b) == [b EXCEPT !.new_config = c1]

\* Genesis is at time 6; "a1" is in EVM block 2.
Stream == {
  Block("a1", "anchor", 11, 8, 10, <<Act(t1, "plain", 1)>>),
  Block("a2", "a1", 12, 9, 10, <<Act(t2, "plain", 1)>>),
  Block("a3", "a2", 13, 14, 11, <<Act(t3, "plain", 3)>>),
  \* a wrapped transaction and one in an earlier version, on a fork in the same second
  Block("b2", "a1", 12, 9, 10, <<Act(t2, "wrapped", 1)>>),
  \* a fork in the next second, with a configchange and a skipped second
  WithConfig(Block("c2", "a1", 12, 10, 10, <<>>)),
  Block("c3", "c2", 13, 14, 12, <<Act(t1, "plain", 1), Act(t2, "plain", 1)>>),
  WithConfig(Block("c4", "c3", 14, 15, 12, <<>>)),
  Block("low", "a3", 14, 15, 11, <<Act(t1, "plain", 1)>>),
  \* a block in the second of the start block
  Block("d1", "anchor", 11, 7, 9, <<>>),
  Block("e2", "lost", 12, 9, 10, <<>>),
  \* before genesis, in the code's comparison and in seconds
  Block("pre", "lost", 9, 3, 8, <<>>),
  Block("late", "pre", 10, 5, 10, <<>>) }

StreamNext ==
  \/ \E nb \in Stream : Len(published) < MaxPublished /\ Receive(nb)
  \/ HandlerStep
  \/ OpenExecutionEngine

StreamSpec == Init /\ [][StreamNext]_vars
=============================================================================
