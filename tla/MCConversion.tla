----------------------------- MODULE MCConversion -----------------------------
(* Instances of ConversionOverShip for TLC *)
EXTENDS ConversionOverShip

CONSTANTS t1, t2, t3, c1

Tx1 == {t1, t2, t3}
Configs == {c1}
Price == [overhead |-> 2, storage |-> 5]
Prices == {Price}
Fees == [p \in Prices |-> p.storage]

Evmtx(version, tx, fee) ==
  [name |-> "evmtx", rlpx |-> [tx |-> tx, form |-> "plain"], eos_evm_version |-> version,
   base_fee_per_gas |-> fee, gas_prices |-> None]
EvmtxV3(tx) ==
  [name |-> "evmtx", rlpx |-> [tx |-> tx, form |-> "plain"], eos_evm_version |-> 3,
   base_fee_per_gas |-> 0, gas_prices |-> Price]
Pushtx(tx) ==
  [name |-> "pushtx", rlpx |-> [tx |-> tx, form |-> "plain"], eos_evm_version |-> 0,
   base_fee_per_gas |-> 0, gas_prices |-> None]

Carry(actions) == [actions |-> actions, new_config |-> None]

Empty == Carry(<<>>)
NoPayload == {Empty}
OnePrice  == {Empty, Carry(<<Evmtx(1, t1, 1), Evmtx(1, t2, 1)>>)}
NoConfig  == {Carry(<<Evmtx(1, t1, 2)>>), Carry(<<EvmtxV3(t2)>>), Empty}
Raises == NoConfig \cup {[actions |-> <<>>, new_config |-> c1]}
\* Up from version 0, which has no base fee, through version 1 to 3, with configchanges
Upgrades == {Empty, Carry(<<Pushtx(t1)>>), Carry(<<Evmtx(1, t1, 2)>>), Carry(<<Evmtx(1, t3, 1)>>),
             Carry(<<EvmtxV3(t2)>>),
             [actions |-> <<>>, new_config |-> c1],
             [actions |-> <<Evmtx(1, t3, 1)>>, new_config |-> c1]}

Ids == Seq([slot : Nat, actions : {p.actions : p \in Payload},
            new_config : {p.new_config : p \in Payload}]) \cup {Zero, Ancestor}

\* Block number, version and fee of the start block; its upper bound is the anchor.
Start(number, version, fee) ==
  [number |-> number, parent_hash |-> <<>>, prev_randao |-> <<>>, version |-> version,
   base_fee_per_gas |-> fee, gas_prices |-> None, consensus_parameter_index |-> None,
   irreversible |-> FALSE, transactions |-> <<>>, transactions_root |-> [root |-> <<>>]]
StartV1 == Start(1, 1, 1)
StartGenesis == Start(0, 1000, None)
=============================================================================
