------------------------------- MODULE Channels -------------------------------
(***************************************************************************)
(* The data that travels on the native_blocks channel, from                *)
(* ship_receiver_plugin to block_conversion_plugin (channels.hpp), with    *)
(* the actions of the EVM contract (block_conversion_plugin.hpp).  The     *)
(* actions of a block are listed in order, without the transactions that   *)
(* group them; of an action only what is read later is kept.               *)
(***************************************************************************)
EXTENDS Integers, Sequences

CONSTANTS
  NativeId,      \* ids of native blocks, Zero among them
  Zero,          \* the all-zero checksum256
  None,          \* std::nullopt
  Tx,            \* decoded EVM transactions
  Config,        \* consensus parameters of a configchange event
  GasPrices,     \* pairs of overhead and storage price (eosevm::gas_prices)
  Second,        \* time units in a second (1e6 in the code)
  StartBlockNum  \* number of the native block that the node starts from

ASSUME ChannelAssumption == /\ Zero \in NativeId
                            /\ None \notin GasPrices /\ None \notin Config
                            /\ Second \in Nat \ {0}
                            /\ StartBlockNum \in Nat

Optional(S) == S \cup {None}

\* The bytes of a transaction in an action: a plain encoding, one wrapped in an
\* RLP string, or bytes that are no transaction.
Rlpx == [tx : Tx, form : {"plain", "wrapped", "garbled"}]

\* pushtx and evmtx actions; gas_prices is None in the evmtx_v1 alternative.
NativeAction == [name : {"pushtx", "evmtx"}, rlpx : Rlpx, eos_evm_version : Nat,
                 base_fee_per_gas : Nat, gas_prices : Optional(GasPrices)]

ASSUME ActionAssumption == None \notin NativeAction

NativeBlock == [id : NativeId, prev : NativeId, block_num : Nat, timestamp : Nat,
                lib : Nat, new_config : Optional(Config), actions : Seq(NativeAction)]
=============================================================================
