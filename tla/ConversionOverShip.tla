-------------------------- MODULE ConversionOverShip --------------------------
(***************************************************************************)
(* eos-evm-node between the state-history stream of a native chain and the *)
(* EVM blocks it publishes: ship_receiver_plugin feeding                   *)
(* block_conversion_plugin.  States what the EVM blocks are, as a function *)
(* of the native branch.                                                   *)
(***************************************************************************)
EXTENDS BlockConversion, ShipReceiver

allvars == <<nodeos_vars, receiver_vars, vars>>

SystemInit == NodeosInit /\ ReceiverInit /\ Init

\* A block that the receiver reads goes through the native_blocks channel to the handler.
Deliver == \E nb \in {OldBlock(behind)} \cup {ToNative(Prefix(best, k)) : k \in DOMAIN best} :
             ReadBlock(nb) /\ Receive(nb)

\* What happens in nodeos while the handler runs can as well happen before it.
ChainStep ==
  /\ pc = "idle"
  /\ UNCHANGED <<vars, receiver_vars>>
  /\ \/ \E k \in 0 .. Len(best), skip \in Slots, payload \in Payload : Produce(k, skip, payload)
     \/ AdvanceLib

\* The receiver and the handler share the application thread.
ConnectionStep == pc = "idle" /\ Connect /\ UNCHANGED vars

NodeStep ==
  /\ UNCHANGED <<nodeos_vars, receiver_vars>>
  /\ HandlerStep \/ OpenExecutionEngine

SystemNext == Deliver \/ ChainStep \/ ConnectionStep \/ NodeStep

SystemSpec == SystemInit /\ [][SystemNext]_allvars

-----------------------------------------------------------------------------
(* The EVM chain that a native branch stands for *)

NumberOf(id) == timestamp_to_evm_block_num(SlotOf(id))

\* Positions in the branch id of the blocks of EVM block m.
PositionsOf(id, m) == {k \in DOMAIN id : NumberOf(Prefix(id, k)) = m}

TransactionsOf(id, m) ==
  FlattenSeq([k \in DOMAIN id |->
    IF k \in PositionsOf(id, m)
    THEN [i \in DOMAIN id[k].actions |-> id[k].actions[i].rlpx.tx]
    ELSE <<>>])

UpperBoundOf(id, m) ==
  IF PositionsOf(id, m) = {} THEN Zero ELSE Prefix(id, Max(PositionsOf(id, m)))

\* The last action, and the last configchange, of the branch up to EVM block m.
LastActionOf(id, m) ==
  LET ks == {k \in DOMAIN id : NumberOf(Prefix(id, k)) <= m /\ id[k].actions # <<>>}
  IN  IF ks = {} THEN None ELSE Last(id[Max(ks)].actions)

LastConfigOf(id, m) ==
  LET ks == {k \in DOMAIN id : NumberOf(Prefix(id, k)) <= m /\ id[k].new_config # None}
  IN  IF ks = {} THEN StartBlock.consensus_parameter_index ELSE id[Max(ks)].new_config

\* What follows from the last action, None if there is none, and from the last configchange.
\* Version 0 has neither fee nor prices, and is only used before any later version is.
HeaderAfter(a, config) ==
  LET priced  == a # None /\ deserialize_tx(a).eos_evm_version > 0
      version == CASE a # None                           -> deserialize_tx(a).eos_evm_version
                   [] a = None /\ StartBlock.number = 0  -> ChainVersion
                   [] OTHER                              -> StartBlock.version
  IN  [version    |-> version,
       base_fee   |-> CASE ~priced                -> StartBlock.base_fee_per_gas
                        [] priced /\ version <= 2 -> a.base_fee_per_gas
                        [] OTHER                  -> BaseFee[a.gas_prices],
       gas_prices |-> IF priced /\ version >= 3 THEN a.gas_prices ELSE StartBlock.gas_prices,
       config     |-> config]

HeaderOf(id, m) == HeaderAfter(LastActionOf(id, m), LastConfigOf(id, m))

HeaderIn(b) == [version |-> b.version, base_fee |-> b.base_fee_per_gas,
                gas_prices |-> b.gas_prices, config |-> b.consensus_parameter_index]

Branch == Last(native_blocks).id

\* The actions of the new block that have been handled.
Done == Len(new_block.actions) - Len(pending)

\* The last action that the EVM block being filled has seen.
LastSeen ==
  IF Done = 0 THEN LastActionOf(new_block.prev, NumberOf(new_block.id)) ELSE new_block.actions[Done]

\* The header that a node which has only ever seen the branch has at this point.
HeaderSoFar == HeaderAfter(LastSeen, LastConfigOf(new_block.id, NumberOf(new_block.id)))

\* The blocks after the start block, which is read from the database.
Converted(bs) == {i \in DOMAIN bs : bs[i].number > StartBlock.number}

-----------------------------------------------------------------------------
(* Properties *)

\* Whatever forks the node has seen, the EVM blocks it holds contain exactly the
\* transactions of the current branch, each in the block of its second: unwinding
\* removes what the forked blocks added and nothing else.
TransactionsMatch ==
  pc = "idle" =>
    \A i \in Converted(evm_blocks) :
      evm_blocks[i].transactions = TransactionsOf(Branch, evm_blocks[i].number)

\* The upper bound of each EVM block is the last native block of its second on the
\* current branch, zero if there is none, and the last EVM block is that of the tip.
UpperBoundMatch ==
  pc = "idle" /\ Branch # <<>> =>
    /\ Last(evm_blocks).number = NumberOf(Branch)
    /\ \A i \in Converted(evm_blocks) :
         evm_blocks[i].prev_randao = UpperBoundOf(Branch, evm_blocks[i].number)

\* The rest of the header, with the prices and the consensus parameters that are stored
\* next to it, are those of a node that has only ever seen the current branch.
HeaderMatch ==
  pc = "idle" =>
    \A i \in Converted(evm_blocks) :
      HeaderIn(evm_blocks[i]) = HeaderOf(Branch, evm_blocks[i].number)

\* A block, once published, holds the transactions of its second on the branch
\* that its own prev_randao names.
PublishedMatch ==
  \A i \in Converted(published) :
    LET b == published[i]
    IN  IF b.prev_randao = Zero
        THEN b.transactions = <<>>
        ELSE /\ NumberOf(b.prev_randao) = b.number
             /\ b.transactions = TransactionsOf(b.prev_randao, b.number)

\* The node survives every fork above the last irreversible block and every
\* reconnection: it resumes at a block, and keeps a window of blocks, such that what
\* comes next can be linked.
NeverExits == pc # "exited" /\ conn # "quit"

\* Two things only stop a node that the contract feeds, whatever its forks: a configchange
\* before the execution engine is open, and a transaction for an EVM block whose header is
\* not what the branch says, because a fork has left it there.
OnlyStaleHeadersStop ==
  /\ conn # "quit"
  /\ pc = "exited" =>
       \/ ~exec_engine /\ new_block.new_config # None
       \/ pending # <<>> /\ HeaderIn(back) # HeaderSoFar

\* Once blockchain_plugin reads it, evm_lib never goes back while the node runs, and no
\* block is published at or below it.
LibMonotonic ==
  [][exec_engine /\ exec_engine' =>
       /\ evm_lib' >= evm_lib
       /\ published' # published => Last(published').number > evm_lib]_allvars

=============================================================================
