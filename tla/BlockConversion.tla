--------------------------- MODULE BlockConversion ---------------------------
(***************************************************************************)
(* block_conversion_plugin: turns the stream of native (Antelope) blocks   *)
(* into the virtual EVM chain, one EVM block per second.                   *)
(*                                                                         *)
(* The plugin keeps two lists: the native blocks and the EVM blocks from   *)
(* the last irreversible second on.  A native block that extends the first *)
(* list adds its transactions to the EVM block of its second; reaching a   *)
(* later second publishes the EVM blocks before it.  A native block that   *)
(* does not extend the list is a duplicate, or unwinds both lists to the   *)
(* fork point.                                                             *)
(*                                                                         *)
(* The handler runs to completion on the application thread.  Each         *)
(* iteration of its loops is a step here, and pc says which loop is        *)
(* running: no other step of the node is enabled until pc is "idle" again. *)
(* pc = "exited" stands for an exception (channels::exit_on_exceptions     *)
(* calls quit), an assertion failure or a fault; the lists no longer       *)
(* matter then and are left as they were.                                  *)
(***************************************************************************)
EXTENDS Channels, SequencesExt

CONSTANTS
  BaseFee,          \* eosevm::calculate_base_fee_per_gas
  Genesis,          \* timestamp of the EVM genesis, in seconds
  Word,             \* 2^32 in the code: EVM block numbers are uint32_t
  ChainVersion,     \* _version of the stored chain configuration, 0 if it has none
  StartBlock,       \* the EVM block read by load_head
  UninitializedLib  \* what the uninitialised member evm_lib_ may hold

VARIABLES
  native_blocks,        \* native blocks since the last irreversible second
  evm_blocks,           \* EVM blocks since evm_lib; the last one is being built
  evm_lib,              \* evm_lib_: last complete EVM block made of irreversible blocks
  published,            \* every block published on the evm_blocks channel
  exec_engine,          \* blockchain_plugin has opened its execution engine
  consensus_parameters, \* parameter sets written to the database
  pc,                   \* where the handler is
  new_block,            \* the native block it handles
  pending               \* actions of new_block not yet in the EVM block

vars == <<native_blocks, evm_blocks, evm_lib, published, exec_engine,
          consensus_parameters, pc, new_block, pending>>

caches == <<native_blocks, evm_blocks>>
shared == <<published, exec_engine, consensus_parameters>>
locals == <<new_block, pending>>

\* transactions_root: a commitment to the transactions of a block, in order.
Root == [root : Seq(Tx)]

Header == [number : Nat, prev_randao : NativeId, version : Nat,
           base_fee_per_gas : Optional(Nat), transactions_root : Root]

\* A header's hash commits to the header and, through parent_hash, to all its
\* ancestors: it is the sequence of headers from StartBlock on.
Hash == Seq(Header)

\* version is the number that the header's nonce encodes in its eight bytes; the
\* header's timestamp is a function of number.
EvmBlock == [number : Nat, parent_hash : Hash, prev_randao : NativeId, version : Nat,
             base_fee_per_gas : Optional(Nat), gas_prices : Optional(GasPrices),
             consensus_parameter_index : Optional(Config), irreversible : BOOLEAN,
             transactions : Seq(Tx), transactions_root : Root]

ASSUME TimeAssumption == Genesis \in Nat /\ Word \in Nat \ {0}
ASSUME FeeAssumption == BaseFee \in [GasPrices -> Nat]
ASSUME StartAssumption == /\ StartBlock \in EvmBlock
                          /\ ChainVersion \in Nat
                          /\ UninitializedLib \subseteq Nat

-----------------------------------------------------------------------------
(* Operations on blocks *)

compute_transaction_root(txs) == [root |-> txs]

hash(b) == Append(b.parent_hash,
                  [number            |-> b.number,
                   prev_randao       |-> b.prev_randao,
                   version           |-> b.version,
                   base_fee_per_gas  |-> b.base_fee_per_gas,
                   transactions_root |-> b.transactions_root])

timestamp_to_evm_block_num(timestamp) ==
  LET timestamp_s == timestamp \div Second
  IN  IF timestamp_s < Genesis THEN 0 ELSE 1 + (timestamp_s - Genesis)

EvmNum(nb) == timestamp_to_evm_block_num(nb.timestamp)

\* eosevm::prepare_block_header puts the end of its second in an EVM header.
evm_block_num_to_timestamp(number) == (Genesis + number) * Second

set_upper_bound(b, nb) ==
  [b EXCEPT !.prev_randao = nb.id, !.irreversible = (nb.block_num <= nb.lib)]

\* Wrong variant of generate_new_evm_block: the consensus parameters are not inherited.
generate_without_parameters(last) ==
  [number                    |-> last.number + 1,
   parent_hash               |-> hash(last),
   prev_randao               |-> Zero,
   version                   |-> IF last.number = 0 THEN ChainVersion ELSE last.version,
   base_fee_per_gas          |-> last.base_fee_per_gas,
   gas_prices                |-> last.gas_prices,
   consensus_parameter_index |-> None,
   irreversible              |-> FALSE,
   transactions              |-> <<>>,
   transactions_root         |-> compute_transaction_root(<<>>)]

\* The nonce of the genesis block holds an account name, not a version.
generate_new_evm_block(last) ==
  [number                    |-> last.number + 1,
   parent_hash               |-> hash(last),
   prev_randao               |-> Zero,
   version                   |-> IF last.number = 0 THEN ChainVersion ELSE last.version,
   base_fee_per_gas          |-> last.base_fee_per_gas,
   gas_prices                |-> last.gas_prices,
   consensus_parameter_index |-> last.consensus_parameter_index,
   irreversible              |-> FALSE,
   transactions              |-> <<>>,
   transactions_root         |-> compute_transaction_root(<<>>)]

\* A pushtx action carries neither version nor prices.
deserialize_tx(na) ==
  IF na.name = "pushtx"
  THEN [na EXCEPT !.eos_evm_version = 0, !.base_fee_per_gas = 0, !.gas_prices = None]
  ELSE na

\* Encoding a decoded transaction never wraps it, however it was received.
encode(tx) == [tx |-> tx, form |-> "plain"]

\* A native transaction is kept if it has an EVM transaction or a configchange.
HasTransactions(nb) == nb.actions # <<>> \/ nb.new_config # None

WithBack(s, e) == Append(Front(s), e)

back == Last(evm_blocks)

-----------------------------------------------------------------------------
(* Start *)

\* The native block that load_head derives from the header of b; its number is part
\* of its id.
LoadedNative(b, block_num) ==
  [id |-> b.prev_randao, prev |-> Zero, block_num |-> block_num,
   timestamp |-> evm_block_num_to_timestamp(b.number), lib |-> 0,
   new_config |-> None, actions |-> <<>>]

Init ==
  /\ native_blocks = <<LoadedNative(StartBlock, StartBlockNum)>>
  /\ evm_blocks = <<StartBlock>>
  /\ evm_lib \in UninitializedLib
  /\ published = <<>>
  /\ exec_engine = FALSE
  /\ consensus_parameters = {}
  /\ pc = "idle"
  /\ new_block = LoadedNative(StartBlock, StartBlockNum)
  /\ pending = <<>>

Exit ==
  /\ pc' = "exited"
  /\ UNCHANGED <<caches, evm_lib, shared, locals>>

-----------------------------------------------------------------------------
(* A native block arrives *)

\* The comparison is the code's: time units on the left, seconds on the right.
BeforeGenesis(nb) == nb.timestamp <= Genesis

Cached(id) == \E i \in DOMAIN native_blocks : native_blocks[i].id = id

\* Wrong variant of Linked: any cached block will do as the parent.
LinkedAnywhere(nb) == native_blocks = <<>> \/ Cached(nb.prev)

Linked(nb) == native_blocks = <<>> \/ Last(native_blocks).id = nb.prev

\* Wrong variant of ReceiveBeforeGenesis: the cache is cleared, the block not kept.
ForgetBeforeGenesis(nb) ==
  /\ pc = "idle"
  /\ BeforeGenesis(nb)
  /\ native_blocks' = <<>>
  /\ UNCHANGED <<evm_blocks, evm_lib, shared, pc, locals>>

ReceiveBeforeGenesis(nb) ==
  /\ pc = "idle"
  /\ BeforeGenesis(nb)
  /\ native_blocks' = <<nb>>
  /\ UNCHANGED <<evm_blocks, evm_lib, shared, pc, locals>>

ReceiveDuplicate(nb) ==
  /\ pc = "idle"
  /\ ~BeforeGenesis(nb) /\ ~Linked(nb)
  /\ Cached(nb.id)
  /\ UNCHANGED vars

ReceiveUnknownFork(nb) ==
  /\ pc = "idle"
  /\ ~BeforeGenesis(nb) /\ ~Linked(nb)
  /\ ~Cached(nb.id) /\ ~Cached(nb.prev)
  /\ Exit

ReceiveFork(nb) ==
  /\ pc = "idle"
  /\ ~BeforeGenesis(nb) /\ ~Linked(nb)
  /\ ~Cached(nb.id) /\ Cached(nb.prev)
  /\ new_block' = nb
  /\ pc' = "unwind"
  /\ UNCHANGED <<caches, evm_lib, shared, pending>>

ReceiveLinked(nb) ==
  /\ pc = "idle"
  /\ ~BeforeGenesis(nb) /\ Linked(nb)
  /\ new_block' = nb
  /\ native_blocks' = Append(native_blocks, nb)
  /\ pc' = "extend"
  /\ UNCHANGED <<evm_blocks, evm_lib, shared, pending>>

Receive(nb) == \/ ReceiveBeforeGenesis(nb)
               \/ ReceiveDuplicate(nb)
               \/ ReceiveUnknownFork(nb)
               \/ ReceiveFork(nb)
               \/ ReceiveLinked(nb)

-----------------------------------------------------------------------------
(* Unwinding to the fork point *)

\* The first cached block that new_block extends.
fork_block ==
  native_blocks[Min({i \in DOMAIN native_blocks : native_blocks[i].id = new_block.prev})]

\* Wrong variant of EvmBlockIsForked: the EVM block of the fork point goes as well.
EvmBlockFromForkPoint == evm_blocks # <<>> /\ EvmNum(fork_block) <= back.number

EvmBlockIsForked == evm_blocks # <<>> /\ EvmNum(fork_block) < back.number

\* Wrong variant of NativeBlockIsForked: any block of the fork point's second will do.
NativeBlockInLaterSecond == EvmNum(Last(native_blocks)) # EvmNum(fork_block)

NativeBlockIsForked == Last(native_blocks).id # new_block.prev

DropEvmBlock ==
  /\ pc = "unwind"
  /\ EvmBlockIsForked
  /\ evm_blocks' = Front(evm_blocks)
  /\ UNCHANGED <<native_blocks, evm_lib, shared, pc, locals>>

\* Wrong variant of MustRemoveTransactions: off by one second.
MustRemoveFromNextSecond(nb) == HasTransactions(nb) /\ EvmNum(nb) = EvmNum(fork_block) + 1

\* The transactions of nb are in the EVM block of the fork point.
MustRemoveTransactions(nb) == HasTransactions(nb) /\ EvmNum(nb) = EvmNum(fork_block)

\* The last transactions of b are, encoded again, those of nb.
CanRemoveTransactions(b, nb) ==
  LET kept == Len(b.transactions) - Len(nb.actions)
  IN  /\ EvmNum(nb) = b.number
      /\ kept >= 0
      /\ \A i \in DOMAIN nb.actions :
           deserialize_tx(nb.actions[i]).rlpx = encode(b.transactions[kept + i])

\* Wrong variant of RemoveTransactions: one transaction, however many nb has.
RemoveOneTransaction(b, nb) ==
  [b EXCEPT !.transactions = SubSeq(@, 1, Len(@) - 1)]

RemoveTransactions(b, nb) ==
  [b EXCEPT !.transactions = SubSeq(@, 1, Len(@) - Len(nb.actions))]

DropNativeBlock ==
  LET last == Last(native_blocks)
  IN  /\ pc = "unwind"
      /\ ~EvmBlockIsForked /\ NativeBlockIsForked
      /\ IF MustRemoveTransactions(last)
         THEN /\ evm_blocks # <<>>
              /\ CanRemoveTransactions(back, last)
              /\ evm_blocks' = WithBack(evm_blocks, RemoveTransactions(back, last))
         ELSE UNCHANGED evm_blocks
      /\ native_blocks' = Front(native_blocks)
      /\ UNCHANGED <<evm_lib, shared, pc, locals>>

FailToRemove ==
  /\ pc = "unwind"
  /\ ~EvmBlockIsForked /\ NativeBlockIsForked
  /\ MustRemoveTransactions(Last(native_blocks))
  /\ evm_blocks = <<>> \/ ~CanRemoveTransactions(back, Last(native_blocks))
  /\ Exit

\* Wrong variant of ResetUpperBound: the upper bound stays that of the forked block.
KeepUpperBound ==
  /\ pc = "unwind"
  /\ ~EvmBlockIsForked /\ ~NativeBlockIsForked
  /\ evm_blocks # <<>> /\ EvmNum(Last(native_blocks)) = back.number
  /\ native_blocks' = Append(native_blocks, new_block)
  /\ pc' = "extend"
  /\ UNCHANGED <<evm_blocks, evm_lib, shared, locals>>

\* The block of the fork point becomes the upper bound of its EVM block, and the
\* new block joins the list.
ResetUpperBound ==
  /\ pc = "unwind"
  /\ ~EvmBlockIsForked /\ ~NativeBlockIsForked
  /\ evm_blocks # <<>> /\ EvmNum(Last(native_blocks)) = back.number
  /\ evm_blocks' = WithBack(evm_blocks, set_upper_bound(back, Last(native_blocks)))
  /\ native_blocks' = Append(native_blocks, new_block)
  /\ pc' = "extend"
  /\ UNCHANGED <<evm_lib, shared, locals>>

FailToSetUpperBound ==
  /\ pc = "unwind"
  /\ ~EvmBlockIsForked /\ ~NativeBlockIsForked
  /\ evm_blocks = <<>> \/ EvmNum(Last(native_blocks)) # back.number
  /\ Exit

-----------------------------------------------------------------------------
(* Extending the EVM chain to the second of the new block *)

\* Wrong variants of ExtendEvmChain: only the published copy of the block gets its
\* transactions_root; empty blocks are not published.
ExtendUnsealed ==
  LET last == [back EXCEPT !.transactions_root = compute_transaction_root(back.transactions)]
  IN  /\ pc = "extend"
      /\ back.number < EvmNum(new_block)
      /\ published' = Append(published, last)
      /\ evm_blocks' = Append(evm_blocks, generate_new_evm_block(back))
      /\ UNCHANGED <<native_blocks, evm_lib, exec_engine, consensus_parameters, pc, locals>>

ExtendSkippingEmpty ==
  LET last == [back EXCEPT !.transactions_root = compute_transaction_root(back.transactions)]
  IN  /\ pc = "extend"
      /\ back.number < EvmNum(new_block)
      /\ published' = IF last.transactions = <<>> THEN published ELSE Append(published, last)
      /\ evm_blocks' = Append(WithBack(evm_blocks, last), generate_new_evm_block(last))
      /\ UNCHANGED <<native_blocks, evm_lib, exec_engine, consensus_parameters, pc, locals>>

ExtendEvmChain ==
  LET last == [back EXCEPT !.transactions_root = compute_transaction_root(back.transactions)]
  IN  /\ pc = "extend"
      /\ back.number < EvmNum(new_block)
      /\ published' = Append(published, last)
      /\ evm_blocks' = Append(WithBack(evm_blocks, last), generate_new_evm_block(last))
      /\ UNCHANGED <<native_blocks, evm_lib, exec_engine, consensus_parameters, pc, locals>>

\* A configchange must come before the transactions of its EVM block; the
\* parameters are written through the transaction of the execution engine.
CanSetConfig(b) == b.transactions = <<>> /\ exec_engine

\* Wrong variant of ApplyConfig: the block names parameters that are not written.
ApplyConfigUnstored ==
  /\ pc = "extend"
  /\ back.number >= EvmNum(new_block)
  /\ IF new_block.new_config = None
     THEN UNCHANGED evm_blocks
     ELSE /\ CanSetConfig(back)
          /\ evm_blocks' = WithBack(evm_blocks,
               [back EXCEPT !.consensus_parameter_index = new_block.new_config])
  /\ pending' = new_block.actions
  /\ pc' = "fill"
  /\ UNCHANGED <<native_blocks, evm_lib, shared, new_block>>

ApplyConfig ==
  /\ pc = "extend"
  /\ back.number >= EvmNum(new_block)
  /\ IF new_block.new_config = None
     THEN UNCHANGED <<evm_blocks, consensus_parameters>>
     ELSE /\ CanSetConfig(back)
          /\ evm_blocks' = WithBack(evm_blocks,
               [back EXCEPT !.consensus_parameter_index = new_block.new_config])
          /\ consensus_parameters' = consensus_parameters \cup {new_block.new_config}
  /\ pending' = new_block.actions
  /\ pc' = "fill"
  /\ UNCHANGED <<native_blocks, evm_lib, published, exec_engine, new_block>>

\* Transactions already in the block (an exception), or get_tx() without an
\* execution engine (a null dereference).
FailToSetConfig ==
  /\ pc = "extend"
  /\ back.number >= EvmNum(new_block)
  /\ new_block.new_config # None /\ ~CanSetConfig(back)
  /\ Exit

-----------------------------------------------------------------------------
(* Adding the transactions of the new block *)

holds_evmtx_v3(dtx) == dtx.gas_prices # None

\* Wrong variant of Acceptable: not even the first transaction may change prices.
AcceptableAtSamePrice(b, dtx) ==
  LET version == dtx.eos_evm_version
  IN  /\ version >= b.version
      /\ version > b.version => b.transactions = <<>>
      /\ dtx.rlpx.form # "garbled"
      /\ version >= 3 =>
           holds_evmtx_v3(dtx) /\ b.gas_prices \in {None, dtx.gas_prices}
      /\ version \in 1..2 =>
           ~holds_evmtx_v3(dtx) /\ b.base_fee_per_gas \in {None, dtx.base_fee_per_gas}

\* Only the first transaction of an EVM block may raise its version or change its
\* prices; version 3 needs the evmtx_v3 alternative, versions 1 and 2 evmtx_v1.
Acceptable(b, dtx) ==
  LET version == dtx.eos_evm_version
      first   == b.transactions = <<>>
  IN  /\ version >= b.version
      /\ version > b.version => first
      /\ dtx.rlpx.form # "garbled"
      /\ version >= 3 =>
           /\ holds_evmtx_v3(dtx)
           /\ b.gas_prices \in {None, dtx.gas_prices} \/ first
      /\ version \in 1..2 =>
           /\ ~holds_evmtx_v3(dtx)
           /\ b.base_fee_per_gas \in {None, dtx.base_fee_per_gas} \/ first

BlockWithTx(b, dtx) ==
  LET version == dtx.eos_evm_version
  IN  [b EXCEPT !.version = version,
                !.gas_prices = IF version >= 3 THEN dtx.gas_prices ELSE @,
                !.base_fee_per_gas = CASE version >= 3     -> BaseFee[dtx.gas_prices]
                                       [] version \in 1..2 -> dtx.base_fee_per_gas
                                       [] OTHER            -> @,
                !.transactions = Append(@, dtx.rlpx.tx)]

AddTransaction ==
  LET dtx == deserialize_tx(Head(pending))
  IN  /\ pc = "fill" /\ pending # <<>>
      /\ Acceptable(back, dtx)
      /\ evm_blocks' = WithBack(evm_blocks, BlockWithTx(back, dtx))
      /\ pending' = Tail(pending)
      /\ UNCHANGED <<native_blocks, evm_lib, shared, pc, new_block>>

RejectTransaction ==
  /\ pc = "fill" /\ pending # <<>>
  /\ ~Acceptable(back, deserialize_tx(Head(pending)))
  /\ Exit

-----------------------------------------------------------------------------
(* The last irreversible EVM block *)

\* Cached native blocks up to the last irreversible block that new_block reports.
IrreversibleIndices == {i \in DOMAIN native_blocks : native_blocks[i].block_num <= new_block.lib}

\* Wrong variants of ComputedLib: the second of the last irreversible block, which
\* may be incomplete; the one before the new block's; a signed subtraction.
LibWithoutMinusOne == EvmNum(native_blocks[Max(IrreversibleIndices)])

LibFromNewBlock == (EvmNum(new_block) - 1) % Word

LibSigned == EvmNum(native_blocks[Max(IrreversibleIndices)]) - 1

\* The second before that of the last irreversible native block; unsigned.
ComputedLib == (EvmNum(native_blocks[Max(IrreversibleIndices)]) - 1) % Word

RetainedNative == {i \in DOMAIN native_blocks : EvmNum(native_blocks[i]) >= ComputedLib}

RetainedEvm == {i \in DOMAIN evm_blocks : evm_blocks[i].number >= ComputedLib}

From(s, i) == SubSeq(s, i, Len(s))

EvmBlocksWithUpperBound == WithBack(evm_blocks, set_upper_bound(back, new_block))

\* No irreversible block in the cache: nothing is trimmed, evm_lib_ is left alone.
FinishWithoutLib ==
  /\ pc = "fill" /\ pending = <<>>
  /\ IrreversibleIndices = {}
  /\ evm_blocks' = EvmBlocksWithUpperBound
  /\ pc' = "idle"
  /\ UNCHANGED <<native_blocks, evm_lib, shared, locals>>

FinishAndTrim ==
  /\ pc = "fill" /\ pending = <<>>
  /\ IrreversibleIndices # {}
  /\ RetainedNative # {} /\ RetainedEvm # {}
  /\ native_blocks' = From(native_blocks, Min(RetainedNative))
  /\ evm_blocks' = From(EvmBlocksWithUpperBound, Min(RetainedEvm))
  /\ evm_lib' = ComputedLib
  /\ pc' = "idle"
  /\ UNCHANGED <<shared, locals>>

\* The trimming loops have no emptiness check: front() of an empty list.
FailToTrim ==
  /\ pc = "fill" /\ pending = <<>>
  /\ IrreversibleIndices # {}
  /\ RetainedNative = {} \/ RetainedEvm = {}
  /\ Exit

-----------------------------------------------------------------------------
\* blockchain_plugin opens the execution engine when the first block reaches it.
OpenExecutionEngine ==
  /\ pc = "idle"
  /\ published # <<>> /\ ~exec_engine
  /\ exec_engine' = TRUE
  /\ UNCHANGED <<caches, evm_lib, published, consensus_parameters, pc, locals>>

\* The rest of the handler, once a block has been received.
HandlerStep ==
  \/ DropEvmBlock \/ DropNativeBlock \/ FailToRemove
  \/ ResetUpperBound \/ FailToSetUpperBound
  \/ ExtendEvmChain \/ ApplyConfig \/ FailToSetConfig
  \/ AddTransaction \/ RejectTransaction
  \/ FinishWithoutLib \/ FinishAndTrim \/ FailToTrim

\* The stream is arbitrary: nothing is assumed of its order or of its contents.
Next == \/ \E nb \in NativeBlock : Receive(nb)
        \/ HandlerStep
        \/ OpenExecutionEngine

Spec == Init /\ [][Next]_vars

-----------------------------------------------------------------------------
(* Properties that hold whatever the stream delivers *)

\* Type correctness of the plugin's state and of what it publishes.
TypeOK ==
  /\ native_blocks \in Seq(NativeBlock)
  /\ evm_blocks \in Seq(EvmBlock)
  /\ evm_lib \in Nat
  /\ published \in Seq(EvmBlock)
  /\ exec_engine \in BOOLEAN
  /\ consensus_parameters \subseteq Config
  /\ pc \in {"idle", "unwind", "extend", "fill", "exited"}
  /\ new_block \in NativeBlock
  /\ pending \in Seq(NativeAction)

\* The lists are never empty where the handler reads their ends, and the fork point
\* stays in the cache while the lists are unwound to it.
ListsReadable ==
  /\ pc \in {"idle", "extend", "fill"} => native_blocks # <<>> /\ evm_blocks # <<>>
  /\ pc = "unwind" => Cached(new_block.prev)

\* The cached native blocks are one branch: each one extends the one before it,
\* through links, duplicates, unwinding and trimming.
NativeLinked ==
  \A i \in 1 .. Len(native_blocks) - 1 : native_blocks[i + 1].prev = native_blocks[i].id

\* The cached EVM blocks are a chain: consecutive numbers, each block committing to
\* the final header of the one before it, whose transactions_root is up to date.
\* No later step changes a block that its successor has hashed.
EvmLinked ==
  \A i \in 1 .. Len(evm_blocks) - 1 :
    /\ evm_blocks[i + 1].number = evm_blocks[i].number + 1
    /\ evm_blocks[i + 1].parent_hash = hash(evm_blocks[i])
    /\ evm_blocks[i].transactions_root = compute_transaction_root(evm_blocks[i].transactions)

\* Whatever forks happen, the consumer never gets a block before its parent: each
\* published block other than the start block extends one published earlier.
PublishedInOrder ==
  \A i \in DOMAIN published :
    \/ published[i].number = StartBlock.number
    \/ \E j \in 1 .. i - 1 : published[i].number = published[j].number + 1
                             /\ published[i].parent_hash = hash(published[j])

\* A published block that names consensus parameters other than those of the start
\* block names parameters that are in the database.
ConfigStored ==
  \A i \in DOMAIN published :
    published[i].consensus_parameter_index
      \in consensus_parameters \cup {StartBlock.consensus_parameter_index}
=============================================================================
