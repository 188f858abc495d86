------------------------ MODULE BlockConversionProofs ------------------------
(***************************************************************************)
(* Proofs about BlockConversion, for every stream of native blocks.        *)
(***************************************************************************)
EXTENDS BlockConversion, SequenceLemmas

-----------------------------------------------------------------------------
(* Operations on sequences *)

LEMMA WithBackFacts ==
  ASSUME NEW S, NEW s \in Seq(S), s # <<>>, NEW e \in S
  PROVE  /\ WithBack(s, e) \in Seq(S)
         /\ WithBack(s, e) # <<>>
         /\ Len(WithBack(s, e)) = Len(s)
         /\ \A i \in 1 .. Len(s) - 1 : WithBack(s, e)[i] = s[i]
         /\ WithBack(s, e)[Len(s)] = e
<1>1. Len(s) \in Nat \ {0}
  BY EmptySeq
<1>2. /\ Front(s) \in Seq(S)
      /\ Len(Front(s)) = Len(s) - 1
      /\ \A i \in 1 .. Len(s) - 1 : Front(s)[i] = s[i]
  BY FrontFacts
<1> QED BY <1>1, <1>2, AppendProperties DEF WithBack

LEMMA FromFacts ==
  ASSUME NEW S, NEW s \in Seq(S), NEW i \in 1 .. Len(s)
  PROVE  /\ From(s, i) \in Seq(S)
         /\ From(s, i) # <<>>
         /\ Len(From(s, i)) = Len(s) - i + 1
         /\ \A j \in 1 .. Len(s) - i + 1 : From(s, i)[j] = s[i + j - 1]
<1>1. Len(s) \in Nat /\ \A j \in i .. Len(s) : s[j] \in S
  BY ElementOfSeq, LenProperties
<1>2. /\ From(s, i) \in Seq(S)
      /\ Len(From(s, i)) = Len(s) - i + 1
      /\ \A j \in 1 .. Len(s) - i + 1 : From(s, i)[j] = s[i + j - 1]
  BY <1>1, SubSeqProperties DEF From
<1> QED BY <1>1, <1>2, EmptySeq

-----------------------------------------------------------------------------
(* Operations on blocks *)

LEMMA EvmNumType ==
  ASSUME NEW t \in Nat
  PROVE  timestamp_to_evm_block_num(t) \in Nat
<1>1. t \div Second \in Int
  BY ChannelAssumption
<1> QED BY <1>1, TimeAssumption DEF timestamp_to_evm_block_num

LEMMA RootType ==
  ASSUME NEW txs \in Seq(Tx)
  PROVE  compute_transaction_root(txs) \in Root
BY DEF compute_transaction_root, Root

LEMMA HashType ==
  ASSUME NEW b \in EvmBlock
  PROVE  hash(b) \in Hash
<1> DEFINE h == [number            |-> b.number,
                 prev_randao       |-> b.prev_randao,
                 version           |-> b.version,
                 base_fee_per_gas  |-> b.base_fee_per_gas,
                 transactions_root |-> b.transactions_root]
<1>1. h \in Header /\ b.parent_hash \in Seq(Header)
  BY DEF EvmBlock, Header, Hash
<1>2. Append(b.parent_hash, h) \in Seq(Header)
  <2> HIDE DEF h
  <2> QED BY <1>1, AppendProperties
<1> QED BY <1>2 DEF hash, Hash

LEMMA GeneratedType ==
  ASSUME NEW b \in EvmBlock
  PROVE  generate_new_evm_block(b) \in EvmBlock
<1>1. hash(b) \in Hash
  BY HashType
<1>2. <<>> \in Seq(Tx) /\ compute_transaction_root(<<>>) \in Root
  BY RootType, EmptySeq
<1>3. (IF b.number = 0 THEN ChainVersion ELSE b.version) \in Nat
  BY StartAssumption DEF EvmBlock
<1> QED BY <1>1, <1>2, <1>3, ChannelAssumption DEF generate_new_evm_block, EvmBlock

LEMMA UpperBoundType ==
  ASSUME NEW b \in EvmBlock, NEW nb \in NativeBlock
  PROVE  set_upper_bound(b, nb) \in EvmBlock
<1>1. (nb.block_num <= nb.lib) \in BOOLEAN /\ nb.id \in NativeId
  BY DEF NativeBlock
<1>2. \A irr \in BOOLEAN, id \in NativeId :
        [b EXCEPT !.prev_randao = id, !.irreversible = irr] \in EvmBlock
  BY DEF EvmBlock
<1> QED BY <1>1, <1>2, Zenon DEF set_upper_bound

LEMMA DeserializedType ==
  ASSUME NEW na \in NativeAction
  PROVE  deserialize_tx(na) \in NativeAction
BY DEF deserialize_tx, NativeAction, Optional

LEMMA RemovedType ==
  ASSUME NEW b \in EvmBlock, NEW nb \in NativeBlock, CanRemoveTransactions(b, nb)
  PROVE  RemoveTransactions(b, nb) \in EvmBlock
<1> DEFINE n == Len(b.transactions) - Len(nb.actions)
<1>1. b.transactions \in Seq(Tx) /\ nb.actions \in Seq(NativeAction)
  BY DEF EvmBlock, NativeBlock
<1>2. n \in Nat /\ n <= Len(b.transactions)
  <2>1. Len(b.transactions) \in Nat /\ Len(nb.actions) \in Nat
    BY <1>1, LenProperties
  <2>2. n >= 0
    BY DEF CanRemoveTransactions
  <2>3. \A x, y \in Nat : x - y >= 0 => x - y \in Nat /\ x - y <= x
    OBVIOUS
  <2> QED BY <2>1, <2>2, <2>3, Zenon
<1>3. \A i \in 1 .. n : b.transactions[i] \in Tx
  BY <1>1, <1>2, ElementOfSeq
<1>4. SubSeq(b.transactions, 1, n) \in Seq(Tx)
  <2> HIDE DEF n
  <2>1. n \in Int /\ 1 \in Int
    BY <1>2
  <2> QED BY <1>3, <2>1, SubSeqProperties
<1> QED BY <1>4 DEF RemoveTransactions, EvmBlock

LEMMA WithTxType ==
  ASSUME NEW b \in EvmBlock, NEW dtx \in NativeAction, Acceptable(b, dtx)
  PROVE  BlockWithTx(b, dtx) \in EvmBlock
<1>1. dtx.rlpx.tx \in Tx /\ b.transactions \in Seq(Tx)
  BY DEF NativeAction, Rlpx, EvmBlock
<1>2. Append(b.transactions, dtx.rlpx.tx) \in Seq(Tx)
  BY <1>1, AppendProperties
<1>3. /\ dtx.eos_evm_version \in Nat /\ dtx.base_fee_per_gas \in Nat
      /\ dtx.eos_evm_version >= 3 => dtx.gas_prices \in GasPrices
  BY DEF Acceptable, holds_evmtx_v3, NativeAction, Optional
<1>4. dtx.eos_evm_version >= 3 => BaseFee[dtx.gas_prices] \in Nat
  BY <1>3, FeeAssumption
<1>5. /\ (IF dtx.eos_evm_version >= 3 THEN dtx.gas_prices ELSE b.gas_prices)
           \in Optional(GasPrices)
      /\ (CASE dtx.eos_evm_version >= 3     -> BaseFee[dtx.gas_prices]
            [] dtx.eos_evm_version \in 1..2 -> dtx.base_fee_per_gas
            [] OTHER                        -> b.base_fee_per_gas) \in Optional(Nat)
  BY <1>3, <1>4 DEF EvmBlock, Optional
<1> QED BY <1>2, <1>3, <1>5 DEF BlockWithTx, EvmBlock

-----------------------------------------------------------------------------
(* Type correctness, and that no read of back() or front() finds an empty list *)

TypedLists == TypeOK /\ ListsReadable

LEMMA LoadedNativeType == LoadedNative(StartBlock, StartBlockNum) \in NativeBlock
<1>1. StartBlock.number \in Nat /\ StartBlock.prev_randao \in NativeId
  BY StartAssumption DEF EvmBlock
<1>2. evm_block_num_to_timestamp(StartBlock.number) \in Nat
  BY <1>1, ChannelAssumption, TimeAssumption DEF evm_block_num_to_timestamp
<1>3. <<>> \in Seq(NativeAction)
  BY EmptySeq
<1> QED BY <1>1, <1>2, <1>3, ChannelAssumption DEF LoadedNative, NativeBlock, Optional

LEMMA InitTyped == Init => TypedLists
<1> SUFFICES ASSUME Init PROVE TypedLists
  OBVIOUS
<1>1. StartBlock \in EvmBlock /\ UninitializedLib \subseteq Nat
  BY StartAssumption
<1> DEFINE nb == LoadedNative(StartBlock, StartBlockNum)
<1>2. nb \in NativeBlock /\ <<nb>> \in Seq(NativeBlock) /\ <<StartBlock>> \in Seq(EvmBlock)
  <2>1. nb \in NativeBlock
    BY LoadedNativeType
  <2> HIDE DEF nb
  <2> QED BY <1>1, <2>1
<1>3. <<>> \in Seq(EvmBlock) /\ <<>> \in Seq(NativeAction)
  BY EmptySeq
<1>4. TypeOK
  <2> HIDE DEF nb
  <2>1. native_blocks = <<nb>> /\ new_block = nb
    BY DEF Init, nb
  <2> QED BY <1>1, <1>2, <1>3, <2>1 DEF Init, TypeOK
<1>5. ListsReadable
  BY DEF Init, ListsReadable
<1> QED BY <1>4, <1>5 DEF TypedLists

LEMMA ExitTyped == TypedLists /\ Exit => TypedLists'
BY DEF TypedLists, TypeOK, ListsReadable, Exit, caches, shared, locals

LEMMA ReceiveTyped ==
  ASSUME TypedLists, NEW nb \in NativeBlock, Receive(nb)
  PROVE  TypedLists'
<1> USE DEF TypedLists
<1>1. CASE ReceiveBeforeGenesis(nb)
  BY <1>1 DEF ReceiveBeforeGenesis, TypeOK, ListsReadable, shared, locals
<1>2. CASE ReceiveDuplicate(nb)
  BY <1>2 DEF ReceiveDuplicate, TypeOK, ListsReadable, Cached, vars
<1>3. CASE ReceiveUnknownFork(nb)
  BY <1>3, ExitTyped DEF ReceiveUnknownFork
<1>4. CASE ReceiveFork(nb)
  BY <1>4 DEF ReceiveFork, TypeOK, ListsReadable, Cached, caches, shared
<1>5. CASE ReceiveLinked(nb)
  <2>1. Append(native_blocks, nb) \in Seq(NativeBlock) /\ Append(native_blocks, nb) # <<>>
    BY AppendProperties DEF TypeOK
  <2> QED BY <1>5, <2>1 DEF ReceiveLinked, TypeOK, ListsReadable, shared
<1> QED BY <1>1, <1>2, <1>3, <1>4, <1>5 DEF Receive

LEMMA BackType ==
  ASSUME TypeOK, evm_blocks # <<>>
  PROVE  back \in EvmBlock
BY FrontFacts DEF TypeOK, back

LEMMA DropEvmBlockTyped == TypedLists /\ DropEvmBlock => TypedLists'
<1> SUFFICES ASSUME TypedLists, DropEvmBlock PROVE TypedLists'
  OBVIOUS
<1>1. Front(evm_blocks) \in Seq(EvmBlock)
  BY FrontFacts DEF TypedLists, TypeOK, DropEvmBlock, EvmBlockIsForked
<1> QED BY <1>1 DEF TypedLists, TypeOK, ListsReadable, Cached, DropEvmBlock, shared, locals

LEMMA DropNativeBlockTyped == TypedLists /\ DropNativeBlock => TypedLists'
<1> SUFFICES ASSUME TypedLists, DropNativeBlock PROVE TypedLists'
  OBVIOUS
<1>1. PICK i \in DOMAIN native_blocks : native_blocks[i].id = new_block.prev
  BY DEF TypedLists, ListsReadable, DropNativeBlock, Cached
<1>2. native_blocks \in Seq(NativeBlock) /\ native_blocks # <<>>
  BY <1>1, EmptySeq DEF TypedLists, TypeOK
<1>3. /\ Front(native_blocks) \in Seq(NativeBlock)
      /\ Len(Front(native_blocks)) = Len(native_blocks) - 1
      /\ \A j \in 1 .. Len(native_blocks) - 1 : Front(native_blocks)[j] = native_blocks[j]
      /\ Last(native_blocks) \in NativeBlock
  BY <1>2, FrontFacts
<1>4. i \in 1 .. Len(native_blocks) - 1
  <2>1. i \in 1 .. Len(native_blocks) /\ Len(native_blocks) \in Nat
    BY <1>1, <1>2, LenProperties
  <2>2. i # Len(native_blocks)
    BY <1>1 DEF DropNativeBlock, NativeBlockIsForked, Last
  <2> QED BY <2>1, <2>2
<1>5. i \in DOMAIN Front(native_blocks) /\ Front(native_blocks)[i].id = new_block.prev
  BY <1>1, <1>3, <1>4, LenProperties
<1>6. evm_blocks' \in Seq(EvmBlock)
  <2>1. CASE MustRemoveTransactions(Last(native_blocks))
    <3>1. evm_blocks # <<>> /\ back \in EvmBlock
      BY <2>1, BackType DEF DropNativeBlock, TypedLists
    <3>2. RemoveTransactions(back, Last(native_blocks)) \in EvmBlock
      BY <1>3, <2>1, <3>1, RemovedType DEF DropNativeBlock
    <3> QED BY <2>1, <3>1, <3>2, WithBackFacts DEF DropNativeBlock, TypedLists, TypeOK
  <2>2. CASE ~MustRemoveTransactions(Last(native_blocks))
    BY <2>2 DEF DropNativeBlock, TypedLists, TypeOK
  <2> QED BY <2>1, <2>2
<1>7. TypeOK'
  BY <1>3, <1>6 DEF TypedLists, TypeOK, DropNativeBlock, shared, locals
<1>8. ListsReadable'
  BY <1>5 DEF ListsReadable, Cached, DropNativeBlock, locals
<1> QED BY <1>7, <1>8 DEF TypedLists

LEMMA ResetUpperBoundTyped == TypedLists /\ ResetUpperBound => TypedLists'
<1> SUFFICES ASSUME TypedLists, ResetUpperBound PROVE TypedLists'
  OBVIOUS
<1>1. native_blocks # <<>> /\ evm_blocks # <<>>
  <2>1. PICK i \in DOMAIN native_blocks : TRUE
    BY DEF TypedLists, ListsReadable, ResetUpperBound, Cached
  <2> QED BY <2>1, EmptySeq DEF TypedLists, TypeOK, ResetUpperBound
<1>2. Last(native_blocks) \in NativeBlock /\ back \in EvmBlock
  BY <1>1, FrontFacts, BackType DEF TypedLists, TypeOK
<1>3. set_upper_bound(back, Last(native_blocks)) \in EvmBlock
  BY <1>2, UpperBoundType
<1>4. evm_blocks' \in Seq(EvmBlock) /\ evm_blocks' # <<>>
  BY <1>1, <1>3, WithBackFacts DEF TypedLists, TypeOK, ResetUpperBound
<1>5. native_blocks' \in Seq(NativeBlock) /\ native_blocks' # <<>>
  BY AppendProperties DEF TypedLists, TypeOK, ResetUpperBound
<1> QED BY <1>4, <1>5 DEF TypedLists, TypeOK, ListsReadable, ResetUpperBound, shared, locals

\* The block as ExtendEvmChain publishes it.
Sealed(b) == [b EXCEPT !.transactions_root = compute_transaction_root(b.transactions)]

LEMMA SealedType ==
  ASSUME NEW b \in EvmBlock
  PROVE  Sealed(b) \in EvmBlock
<1>1. compute_transaction_root(b.transactions) \in Root
  BY RootType DEF EvmBlock
<1> QED BY <1>1 DEF Sealed, EvmBlock

LEMMA ExtendEffect ==
  ASSUME ExtendEvmChain
  PROVE  /\ published' = Append(published, Sealed(back))
         /\ evm_blocks' = Append(WithBack(evm_blocks, Sealed(back)),
                                 generate_new_evm_block(Sealed(back)))
BY DEF ExtendEvmChain, Sealed

LEMMA ExtendEvmChainTyped == TypedLists /\ ExtendEvmChain => TypedLists'
<1> SUFFICES ASSUME TypedLists, ExtendEvmChain PROVE TypedLists'
  OBVIOUS
<1>1. evm_blocks # <<>> /\ back \in EvmBlock
  BY BackType DEF TypedLists, ListsReadable, ExtendEvmChain
<1>2. Sealed(back) \in EvmBlock /\ generate_new_evm_block(Sealed(back)) \in EvmBlock
  BY <1>1, SealedType, GeneratedType
<1>3. published' \in Seq(EvmBlock)
  <2>1. published' = Append(published, Sealed(back)) /\ published \in Seq(EvmBlock)
    BY ExtendEffect DEF TypedLists, TypeOK
  <2> QED BY <1>2, <2>1, AppendProperties
<1>4. WithBack(evm_blocks, Sealed(back)) \in Seq(EvmBlock)
  BY <1>1, <1>2, WithBackFacts DEF TypedLists, TypeOK
<1>5. evm_blocks' \in Seq(EvmBlock) /\ evm_blocks' # <<>>
  BY <1>2, <1>4, ExtendEffect, AppendProperties
<1> QED BY <1>3, <1>5 DEF TypedLists, TypeOK, ListsReadable, ExtendEvmChain, locals

LEMMA ApplyConfigTyped == TypedLists /\ ApplyConfig => TypedLists'
<1> SUFFICES ASSUME TypedLists, ApplyConfig PROVE TypedLists'
  OBVIOUS
<1>1. evm_blocks # <<>> /\ back \in EvmBlock
  BY BackType DEF TypedLists, ListsReadable, ApplyConfig
<1>2. new_block.new_config \in Optional(Config) /\ new_block.actions \in Seq(NativeAction)
  BY DEF TypedLists, TypeOK, NativeBlock
<1>3. [back EXCEPT !.consensus_parameter_index = new_block.new_config] \in EvmBlock
  BY <1>1, <1>2 DEF EvmBlock
<1>4. evm_blocks' \in Seq(EvmBlock) /\ evm_blocks' # <<>>
  <2>1. evm_blocks \in Seq(EvmBlock)
    BY DEF TypedLists, TypeOK
  <2>2. CASE new_block.new_config = None
    BY <1>1, <2>1, <2>2 DEF ApplyConfig
  <2>3. CASE new_block.new_config # None
    <3>1. evm_blocks' = WithBack(evm_blocks,
                          [back EXCEPT !.consensus_parameter_index = new_block.new_config])
      BY <2>3 DEF ApplyConfig
    <3> QED BY <1>1, <1>3, <2>1, <3>1, WithBackFacts
  <2> QED BY <2>2, <2>3
<1>5. consensus_parameters' \subseteq Config
  BY <1>2 DEF TypedLists, TypeOK, ApplyConfig, Optional
<1> QED BY <1>2, <1>4, <1>5 DEF TypedLists, TypeOK, ListsReadable, ApplyConfig

LEMMA AddTransactionTyped == TypedLists /\ AddTransaction => TypedLists'
<1> SUFFICES ASSUME TypedLists, AddTransaction PROVE TypedLists'
  OBVIOUS
<1> DEFINE dtx == deserialize_tx(Head(pending))
<1>1. evm_blocks # <<>> /\ back \in EvmBlock
  BY BackType DEF TypedLists, ListsReadable, AddTransaction
<1>2. Head(pending) \in NativeAction /\ Tail(pending) \in Seq(NativeAction)
  BY HeadTailProperties DEF TypedLists, TypeOK, AddTransaction
<1>3. dtx \in NativeAction /\ Acceptable(back, dtx)
  BY <1>2, DeserializedType DEF AddTransaction
<1>4. BlockWithTx(back, dtx) \in EvmBlock
  <2> HIDE DEF dtx
  <2> QED BY <1>1, <1>3, WithTxType
<1>5. evm_blocks' = WithBack(evm_blocks, BlockWithTx(back, dtx)) /\ pending' = Tail(pending)
  BY DEF AddTransaction
<1>6. evm_blocks' \in Seq(EvmBlock) /\ evm_blocks' # <<>>
  <2> HIDE DEF dtx
  <2> QED BY <1>1, <1>4, <1>5, WithBackFacts DEF TypedLists, TypeOK
<1> HIDE DEF dtx
<1> QED BY <1>2, <1>5, <1>6 DEF TypedLists, TypeOK, ListsReadable, AddTransaction, shared

\* The positions of the last irreversible block and of the first ones retained.
LEMMA LibFacts ==
  ASSUME TypedLists, pc = "fill", IrreversibleIndices # {}
  PROVE  /\ Max(IrreversibleIndices) \in IrreversibleIndices
         /\ ComputedLib \in Nat
         /\ RetainedNative # {} => Min(RetainedNative) \in RetainedNative
         /\ RetainedEvm # {} => Min(RetainedEvm) \in RetainedEvm
<1>1. /\ native_blocks \in Seq(NativeBlock) /\ Len(native_blocks) \in Nat
      /\ DOMAIN native_blocks = 1 .. Len(native_blocks)
      /\ evm_blocks \in Seq(EvmBlock) /\ Len(evm_blocks) \in Nat
      /\ DOMAIN evm_blocks = 1 .. Len(evm_blocks)
  BY LenProperties DEF TypedLists, TypeOK
<1>2. IrreversibleIndices \in SUBSET (1 .. Len(native_blocks))
  BY <1>1 DEF IrreversibleIndices
<1>3. Max(IrreversibleIndices) \in IrreversibleIndices
  <2>1. IrreversibleIndices \in SUBSET (0 .. Len(native_blocks))
    BY <1>1, <1>2
  <2> QED BY <1>1, <2>1, MaxExists
<1>4. native_blocks[Max(IrreversibleIndices)] \in NativeBlock
  BY <1>1, <1>2, <1>3, ElementOfSeq
<1>5. EvmNum(native_blocks[Max(IrreversibleIndices)]) \in Nat
  BY <1>4, EvmNumType DEF EvmNum, NativeBlock
<1>6. ComputedLib \in Nat
  <2>1. \A n \in Nat, w \in Nat \ {0} : (n - 1) % w \in Nat
    OBVIOUS
  <2> QED BY <1>5, <2>1, TimeAssumption DEF ComputedLib
<1>7. RetainedNative \in SUBSET Nat /\ RetainedEvm \in SUBSET Nat
  BY <1>1 DEF RetainedNative, RetainedEvm
<1> QED BY <1>3, <1>6, <1>7, MinExists

LEMMA UpperBoundSetTyped ==
  ASSUME TypedLists, pc = "fill"
  PROVE  /\ EvmBlocksWithUpperBound \in Seq(EvmBlock)
         /\ EvmBlocksWithUpperBound # <<>>
         /\ Len(EvmBlocksWithUpperBound) = Len(evm_blocks)
<1>1. evm_blocks # <<>> /\ evm_blocks \in Seq(EvmBlock) /\ back \in EvmBlock
  BY BackType DEF TypedLists, ListsReadable, TypeOK
<1>2. set_upper_bound(back, new_block) \in EvmBlock
  BY <1>1, UpperBoundType DEF TypedLists, TypeOK
<1> QED BY <1>1, <1>2, WithBackFacts DEF EvmBlocksWithUpperBound

LEMMA FinishWithoutLibTyped == TypedLists /\ FinishWithoutLib => TypedLists'
<1> SUFFICES ASSUME TypedLists, FinishWithoutLib PROVE TypedLists'
  OBVIOUS
<1>1. evm_blocks' \in Seq(EvmBlock) /\ evm_blocks' # <<>>
  BY UpperBoundSetTyped DEF FinishWithoutLib
<1> QED BY <1>1 DEF TypedLists, TypeOK, ListsReadable, FinishWithoutLib, shared, locals

LEMMA FinishAndTrimTyped == TypedLists /\ FinishAndTrim => TypedLists'
<1> SUFFICES ASSUME TypedLists, FinishAndTrim PROVE TypedLists'
  OBVIOUS
<1>1. /\ ComputedLib \in Nat
      /\ Min(RetainedNative) \in 1 .. Len(native_blocks)
      /\ Min(RetainedEvm) \in 1 .. Len(evm_blocks)
  BY LibFacts, LenProperties
     DEF FinishAndTrim, RetainedNative, RetainedEvm, TypedLists, TypeOK
<1>2. native_blocks' \in Seq(NativeBlock) /\ native_blocks' # <<>>
  BY <1>1, FromFacts DEF FinishAndTrim, TypedLists, TypeOK
<1>3. evm_blocks' \in Seq(EvmBlock) /\ evm_blocks' # <<>>
  BY <1>1, UpperBoundSetTyped, FromFacts DEF FinishAndTrim
<1> QED BY <1>1, <1>2, <1>3 DEF TypedLists, TypeOK, ListsReadable, FinishAndTrim, shared, locals

LEMMA NextTyped == TypedLists /\ [Next]_vars => TypedLists'
<1> SUFFICES ASSUME TypedLists, [Next]_vars PROVE TypedLists'
  OBVIOUS
<1>1. CASE \E nb \in NativeBlock : Receive(nb)
  BY <1>1, ReceiveTyped
<1>2. CASE HandlerStep
  <2>1. CASE FailToRemove \/ FailToSetUpperBound \/ FailToSetConfig
             \/ RejectTransaction \/ FailToTrim
    BY <2>1, ExitTyped DEF FailToRemove, FailToSetUpperBound, FailToSetConfig,
       RejectTransaction, FailToTrim
  <2> QED BY <1>2, <2>1, DropEvmBlockTyped, DropNativeBlockTyped, ResetUpperBoundTyped,
       ExtendEvmChainTyped, ApplyConfigTyped, AddTransactionTyped,
       FinishWithoutLibTyped, FinishAndTrimTyped DEF HandlerStep
<1>3. CASE OpenExecutionEngine
  BY <1>3 DEF TypedLists, TypeOK, ListsReadable, Cached, OpenExecutionEngine, caches, locals
<1>4. CASE UNCHANGED vars
  BY <1>4 DEF TypedLists, TypeOK, ListsReadable, Cached, vars
<1> QED BY <1>1, <1>2, <1>3, <1>4 DEF Next

\* The inductive invariant behind both theorems below: type and readability need
\* each other, since a step reads the end of a list to know the type of what it writes.
LEMMA TypedAlways == Spec => []TypedLists
<1>1. Init => TypedLists
  BY InitTyped
<1>2. TypedLists /\ [Next]_vars => TypedLists'
  BY NextTyped
<1> QED BY <1>1, <1>2, PTL DEF Spec

\* For every stream, whatever it delivers, the plugin's state keeps its type.
THEOREM TypeCorrect == Spec => []TypeOK
<1>1. TypedLists => TypeOK
  BY DEF TypedLists
<1> QED BY <1>1, TypedAlways, PTL

\* For every stream, the handler never reads the end of an empty list before its
\* trimming loops: it has a block to compare with whatever a fork removed.
THEOREM ReadsSafe == Spec => []ListsReadable
<1>1. TypedLists => ListsReadable
  BY DEF TypedLists
<1> QED BY <1>1, TypedAlways, PTL

-----------------------------------------------------------------------------
(* The cached native blocks are one branch *)

LinkedTo(s) == \A i \in 1 .. Len(s) - 1 : s[i + 1].prev = s[i].id

LEMMA AppendLinked ==
  ASSUME NEW s \in Seq(NativeBlock), NEW nb \in NativeBlock, LinkedTo(s),
         s = <<>> \/ Last(s).id = nb.prev
  PROVE  LinkedTo(Append(s, nb))
<1> DEFINE t == Append(s, nb)
<1>1. /\ Len(s) \in Nat /\ Len(t) = Len(s) + 1
      /\ \A i \in 1 .. Len(s) : t[i] = s[i]
      /\ t[Len(s) + 1] = nb
  BY AppendProperties, LenProperties
<1>2. s = <<>> => Len(s) = 0
  BY EmptySeq
<1> HIDE DEF t
<1>3. \A i \in 1 .. Len(t) - 1 : t[i + 1].prev = t[i].id
  <2> SUFFICES ASSUME NEW i \in 1 .. Len(t) - 1 PROVE t[i + 1].prev = t[i].id
    OBVIOUS
  <2>1. CASE i = Len(s)
    BY <1>1, <1>2, <2>1 DEF Last
  <2>2. CASE i # Len(s)
    <3>1. i \in 1 .. Len(s) - 1 /\ i + 1 \in 1 .. Len(s)
      BY <1>1, <2>2
    <3> QED BY <1>1, <3>1 DEF LinkedTo
  <2> QED BY <2>1, <2>2
<1> QED BY <1>3 DEF LinkedTo, t

LEMMA FrontLinked ==
  ASSUME NEW s \in Seq(NativeBlock), s # <<>>, LinkedTo(s)
  PROVE  LinkedTo(Front(s))
<1>1. /\ Len(s) \in Nat /\ Len(Front(s)) = Len(s) - 1
      /\ \A i \in 1 .. Len(s) - 1 : Front(s)[i] = s[i]
  BY FrontFacts, LenProperties
<1>2. \A i \in 1 .. Len(s) - 2 : i \in 1 .. Len(s) - 1 /\ i + 1 \in 1 .. Len(s) - 1
  BY <1>1
<1> QED BY <1>1, <1>2 DEF LinkedTo

LEMMA FromLinked ==
  ASSUME NEW s \in Seq(NativeBlock), NEW k \in 1 .. Len(s), LinkedTo(s)
  PROVE  LinkedTo(From(s, k))
<1> DEFINE t == From(s, k)
<1>1. /\ Len(s) \in Nat /\ Len(t) = Len(s) - k + 1
      /\ \A j \in 1 .. Len(s) - k + 1 : t[j] = s[k + j - 1]
  BY FromFacts, LenProperties
<1> HIDE DEF t
<1>2. \A j \in 1 .. Len(t) - 1 : t[j + 1].prev = t[j].id
  <2> SUFFICES ASSUME NEW j \in 1 .. Len(t) - 1 PROVE t[j + 1].prev = t[j].id
    OBVIOUS
  <2>1. t[j] = s[k + j - 1] /\ t[j + 1] = s[(k + j - 1) + 1]
    BY <1>1
  <2>2. k + j - 1 \in 1 .. Len(s) - 1
    BY <1>1
  <2> QED BY <2>1, <2>2 DEF LinkedTo
<1> QED BY <1>2 DEF LinkedTo, t

LEMMA NextLinked == TypedLists /\ NativeLinked /\ [Next]_vars => NativeLinked'
<1> SUFFICES ASSUME TypedLists, NativeLinked, [Next]_vars PROVE LinkedTo(native_blocks')
  BY DEF NativeLinked, LinkedTo
<1>1. native_blocks \in Seq(NativeBlock) /\ new_block \in NativeBlock /\ LinkedTo(native_blocks)
  BY DEF TypedLists, TypeOK, NativeLinked, LinkedTo
<1>2. ASSUME UNCHANGED native_blocks PROVE LinkedTo(native_blocks')
  BY <1>1, <1>2
<1>3. ASSUME NEW nb \in NativeBlock, Receive(nb) PROVE LinkedTo(native_blocks')
  <2>1. CASE ReceiveBeforeGenesis(nb)
    <3>1. native_blocks' = <<nb>> /\ Len(<<nb>>) = 1
      BY <2>1 DEF ReceiveBeforeGenesis
    <3> QED BY <3>1 DEF LinkedTo
  <2>2. CASE ReceiveDuplicate(nb) \/ ReceiveUnknownFork(nb) \/ ReceiveFork(nb)
    BY <1>2, <2>2 DEF ReceiveDuplicate, ReceiveUnknownFork, ReceiveFork, Exit, vars, caches
  <2>3. CASE ReceiveLinked(nb)
    BY <1>1, <1>3, <2>3, AppendLinked DEF ReceiveLinked, Linked
  <2> QED BY <1>3, <2>1, <2>2, <2>3 DEF Receive
<1>4. CASE DropNativeBlock
  <2>1. native_blocks # <<>>
    BY <1>1, <1>4, EmptySeq DEF DropNativeBlock, TypedLists, ListsReadable, Cached
  <2> QED BY <1>1, <1>4, <2>1, FrontLinked DEF DropNativeBlock
<1>5. CASE ResetUpperBound
  <2>1. Last(native_blocks).id = new_block.prev /\ native_blocks' = Append(native_blocks, new_block)
    BY <1>5 DEF ResetUpperBound, NativeBlockIsForked
  <2> QED BY <1>1, <2>1, AppendLinked
<1>6. CASE FinishAndTrim
  <2>1. Min(RetainedNative) \in 1 .. Len(native_blocks)
    BY <1>1, <1>6, LibFacts, LenProperties DEF FinishAndTrim, RetainedNative
  <2> QED BY <1>1, <1>6, <2>1, FromLinked DEF FinishAndTrim
<1>7. CASE \/ DropEvmBlock \/ FailToRemove \/ FailToSetUpperBound \/ ExtendEvmChain
           \/ ApplyConfig \/ FailToSetConfig \/ AddTransaction \/ RejectTransaction
           \/ FinishWithoutLib \/ FailToTrim \/ OpenExecutionEngine \/ UNCHANGED vars
  BY <1>2, <1>7 DEF DropEvmBlock, FailToRemove, FailToSetUpperBound, ExtendEvmChain,
     ApplyConfig, FailToSetConfig, AddTransaction, RejectTransaction, FinishWithoutLib,
     FailToTrim, OpenExecutionEngine, Exit, vars, caches
<1> QED BY <1>3, <1>4, <1>5, <1>6, <1>7 DEF Next, HandlerStep

\* For every stream, the cached native blocks form one branch: the fork point that
\* the handler searches for is a common ancestor of the new block and all it drops.
THEOREM NativeBranch == Spec => []NativeLinked
<1>1. Init => TypedLists /\ NativeLinked
  <2> SUFFICES ASSUME Init PROVE NativeLinked
    BY InitTyped
  <2>1. native_blocks = <<LoadedNative(StartBlock, StartBlockNum)>>
    BY DEF Init
  <2>2. Len(native_blocks) = 1
    BY <2>1
  <2> QED BY <2>2 DEF NativeLinked
<1>2. TypedLists /\ NativeLinked /\ [Next]_vars => TypedLists' /\ NativeLinked'
  BY NextTyped, NextLinked
<1> QED BY <1>1, <1>2, PTL DEF Spec

-----------------------------------------------------------------------------
(* What a step does to the EVM blocks *)

\* e takes the place of the EVM block being built, and names no parameters but
\* the block's own or some in the database.
Replaces(e) ==
  /\ e \in EvmBlock
  /\ e.number = back.number
  /\ e.parent_hash = back.parent_hash
  /\ e.consensus_parameter_index \in consensus_parameters' \cup {back.consensus_parameter_index}

StepKeeps == UNCHANGED evm_blocks /\ UNCHANGED published

StepDrops == evm_blocks # <<>> /\ evm_blocks' = Front(evm_blocks) /\ UNCHANGED published

StepReplaces ==
  /\ evm_blocks # <<>> /\ UNCHANGED published
  /\ \E e \in EvmBlock, k \in 1 .. Len(evm_blocks) :
       Replaces(e) /\ evm_blocks' = From(WithBack(evm_blocks, e), k)

StepExtends == evm_blocks # <<>> /\ ExtendEvmChain

LEMMA WithBackIsFrom ==
  ASSUME TypedLists, evm_blocks # <<>>, UNCHANGED published,
         NEW e, Replaces(e), evm_blocks' = WithBack(evm_blocks, e)
  PROVE  StepReplaces
<1>1. /\ WithBack(evm_blocks, e) \in Seq(EvmBlock)
      /\ Len(WithBack(evm_blocks, e)) = Len(evm_blocks)
  BY WithBackFacts DEF TypedLists, TypeOK, Replaces
<1>2. From(WithBack(evm_blocks, e), 1) = WithBack(evm_blocks, e)
  BY <1>1, SubSeqFull DEF From
<1>3. 1 \in 1 .. Len(evm_blocks) /\ e \in EvmBlock
  BY EmptySeq DEF TypedLists, TypeOK, Replaces
<1> QED BY <1>2, <1>3 DEF StepReplaces

LEMMA BoundReplaces ==
  ASSUME TypedLists, evm_blocks # <<>>, NEW nb \in NativeBlock
  PROVE  Replaces(set_upper_bound(back, nb))
<1>1. back \in EvmBlock /\ set_upper_bound(back, nb) \in EvmBlock
  BY BackType, UpperBoundType DEF TypedLists
<1>2. /\ set_upper_bound(back, nb).number = back.number
      /\ set_upper_bound(back, nb).parent_hash = back.parent_hash
      /\ set_upper_bound(back, nb).consensus_parameter_index = back.consensus_parameter_index
  BY <1>1 DEF set_upper_bound, EvmBlock
<1> QED BY <1>1, <1>2 DEF Replaces

LEMMA RemovalReplaces ==
  ASSUME TypedLists, DropNativeBlock
  PROVE  StepKeeps \/ StepReplaces
<1> DEFINE last == Last(native_blocks)
           e    == RemoveTransactions(back, last)
<1>1. CASE ~MustRemoveTransactions(last)
  BY <1>1 DEF DropNativeBlock, StepKeeps, shared
<1>2. CASE MustRemoveTransactions(last)
  <2>1. /\ evm_blocks # <<>> /\ CanRemoveTransactions(back, last)
        /\ evm_blocks' = WithBack(evm_blocks, e) /\ UNCHANGED published
    BY <1>2 DEF DropNativeBlock, shared
  <2>2. native_blocks # <<>>
    BY EmptySeq DEF DropNativeBlock, TypedLists, TypeOK, ListsReadable, Cached
  <2>3. last \in NativeBlock /\ back \in EvmBlock
    BY <2>1, <2>2, FrontFacts, BackType DEF TypedLists, TypeOK
  <2>4. e \in EvmBlock
    <3> HIDE DEF last
    <3> QED BY <2>1, <2>3, RemovedType
  <2>5. /\ e.number = back.number /\ e.parent_hash = back.parent_hash
        /\ e.consensus_parameter_index = back.consensus_parameter_index
    BY <2>3 DEF RemoveTransactions, EvmBlock
  <2> HIDE DEF e
  <2>6. Replaces(e)
    BY <2>4, <2>5 DEF Replaces
  <2> QED BY <2>1, <2>6, WithBackIsFrom
<1> QED BY <1>1, <1>2

LEMMA ConfigReplaces ==
  ASSUME TypedLists, ApplyConfig
  PROVE  StepKeeps \/ StepReplaces
<1> DEFINE e == [back EXCEPT !.consensus_parameter_index = new_block.new_config]
<1>1. CASE new_block.new_config = None
  BY <1>1 DEF ApplyConfig, StepKeeps
<1>2. CASE new_block.new_config # None
  <2>1. evm_blocks # <<>> /\ back \in EvmBlock
    BY BackType DEF TypedLists, ListsReadable, ApplyConfig
  <2>2. new_block.new_config \in Optional(Config)
    BY DEF TypedLists, TypeOK, NativeBlock
  <2>3. /\ e \in EvmBlock
        /\ e.number = back.number /\ e.parent_hash = back.parent_hash
        /\ e.consensus_parameter_index = new_block.new_config
    BY <2>1, <2>2 DEF EvmBlock
  <2>4. /\ evm_blocks' = WithBack(evm_blocks, e) /\ UNCHANGED published
        /\ new_block.new_config \in consensus_parameters'
    BY <1>2 DEF ApplyConfig
  <2> HIDE DEF e
  <2>5. Replaces(e)
    BY <2>3, <2>4 DEF Replaces
  <2> QED BY <2>1, <2>4, <2>5, WithBackIsFrom
<1> QED BY <1>1, <1>2

LEMMA TransactionReplaces ==
  ASSUME TypedLists, AddTransaction
  PROVE  StepReplaces
<1> DEFINE dtx == deserialize_tx(Head(pending))
           e   == BlockWithTx(back, dtx)
<1>1. evm_blocks # <<>> /\ back \in EvmBlock
  BY BackType DEF TypedLists, ListsReadable, AddTransaction
<1>2. Head(pending) \in NativeAction
  BY HeadTailProperties DEF TypedLists, TypeOK, AddTransaction
<1>3. /\ dtx \in NativeAction /\ Acceptable(back, dtx)
      /\ evm_blocks' = WithBack(evm_blocks, e) /\ UNCHANGED published
  BY <1>2, DeserializedType DEF AddTransaction, shared
<1> HIDE DEF dtx
<1>4. e \in EvmBlock
  BY <1>1, <1>3, WithTxType
<1>5. /\ e.number = back.number /\ e.parent_hash = back.parent_hash
      /\ e.consensus_parameter_index = back.consensus_parameter_index
  BY <1>1 DEF BlockWithTx, EvmBlock
<1> HIDE DEF e
<1>6. Replaces(e)
  BY <1>4, <1>5 DEF Replaces
<1> QED BY <1>1, <1>3, <1>6, WithBackIsFrom

LEMMA TrimReplaces ==
  ASSUME TypedLists, FinishAndTrim
  PROVE  StepReplaces
<1>1. evm_blocks # <<>> /\ new_block \in NativeBlock
  BY DEF TypedLists, TypeOK, ListsReadable, FinishAndTrim
<1>2. Replaces(set_upper_bound(back, new_block))
  BY <1>1, BoundReplaces
<1>3. Min(RetainedEvm) \in 1 .. Len(evm_blocks)
  BY LibFacts, LenProperties DEF FinishAndTrim, RetainedEvm, TypedLists, TypeOK
<1>4. evm_blocks' = From(WithBack(evm_blocks, set_upper_bound(back, new_block)), Min(RetainedEvm))
      /\ UNCHANGED published
  BY DEF FinishAndTrim, EvmBlocksWithUpperBound, shared
<1> QED BY <1>1, <1>2, <1>3, <1>4 DEF StepReplaces, Replaces

LEMMA EvmStep ==
  ASSUME TypedLists, [Next]_vars
  PROVE  StepKeeps \/ StepDrops \/ StepReplaces \/ StepExtends
<1>1. CASE \E nb \in NativeBlock : Receive(nb)
  BY <1>1 DEF Receive, ReceiveBeforeGenesis, ReceiveDuplicate, ReceiveUnknownFork, ReceiveFork,
     ReceiveLinked, Exit, StepKeeps, vars, caches, shared
<1>2. CASE DropEvmBlock
  BY <1>2 DEF DropEvmBlock, EvmBlockIsForked, StepDrops, shared
<1>3. CASE ResetUpperBound
  <2>1. /\ evm_blocks # <<>> /\ UNCHANGED published
        /\ evm_blocks' = WithBack(evm_blocks, set_upper_bound(back, Last(native_blocks)))
    BY <1>3 DEF ResetUpperBound, shared
  <2>2. native_blocks # <<>>
    BY <1>3, EmptySeq DEF ResetUpperBound, TypedLists, TypeOK, ListsReadable, Cached
  <2>3. Last(native_blocks) \in NativeBlock
    BY <2>2, FrontFacts DEF TypedLists, TypeOK
  <2> QED BY <2>1, <2>3, BoundReplaces, WithBackIsFrom
<1>4. CASE FinishWithoutLib
  <2>1. /\ evm_blocks # <<>> /\ new_block \in NativeBlock /\ UNCHANGED published
        /\ evm_blocks' = WithBack(evm_blocks, set_upper_bound(back, new_block))
    BY <1>4 DEF FinishWithoutLib, EvmBlocksWithUpperBound, TypedLists, TypeOK, ListsReadable,
       shared
  <2> QED BY <2>1, BoundReplaces, WithBackIsFrom
<1>5. CASE ExtendEvmChain
  BY <1>5 DEF ExtendEvmChain, TypedLists, ListsReadable, StepExtends
<1>6. CASE \/ FailToRemove \/ FailToSetUpperBound \/ FailToSetConfig \/ RejectTransaction
           \/ FailToTrim \/ OpenExecutionEngine \/ UNCHANGED vars
  BY <1>6 DEF FailToRemove, FailToSetUpperBound, FailToSetConfig, RejectTransaction, FailToTrim,
     OpenExecutionEngine, Exit, StepKeeps, vars, caches, shared
<1> QED BY <1>1, <1>2, <1>3, <1>4, <1>5, <1>6, RemovalReplaces, ConfigReplaces,
        TransactionReplaces, TrimReplaces DEF Next, HandlerStep

-----------------------------------------------------------------------------
(* The cached EVM blocks are a chain *)

\* b may follow a: it commits to a, and a's transactions_root is up to date.
Follows(a, b) ==
  /\ b.number = a.number + 1
  /\ b.parent_hash = hash(a)
  /\ a.transactions_root = compute_transaction_root(a.transactions)

EvmChain(s) == \A i \in 1 .. Len(s) - 1 : Follows(s[i], s[i + 1])

LEMMA WithBackChain ==
  ASSUME NEW s \in Seq(EvmBlock), s # <<>>, EvmChain(s), NEW e \in EvmBlock,
         e.number = Last(s).number, e.parent_hash = Last(s).parent_hash
  PROVE  EvmChain(WithBack(s, e))
<1> DEFINE t == WithBack(s, e)
<1>1. /\ Len(s) \in Nat /\ Len(t) = Len(s)
      /\ \A i \in 1 .. Len(s) - 1 : t[i] = s[i]
      /\ t[Len(s)] = e
  BY WithBackFacts, LenProperties
<1> HIDE DEF t
<1>2. \A i \in 1 .. Len(t) - 1 : Follows(t[i], t[i + 1])
  <2> SUFFICES ASSUME NEW i \in 1 .. Len(s) - 1 PROVE Follows(t[i], t[i + 1])
    BY <1>1
  <2>1. Follows(s[i], s[i + 1])
    BY DEF EvmChain
  <2>2. CASE i + 1 = Len(s)
    BY <1>1, <2>1, <2>2 DEF Follows, Last
  <2>3. CASE i + 1 # Len(s)
    <3>1. i + 1 \in 1 .. Len(s) - 1
      BY <1>1, <2>3
    <3> QED BY <1>1, <2>1, <3>1
  <2> QED BY <2>2, <2>3
<1> QED BY <1>2 DEF EvmChain, t

LEMMA FrontChain ==
  ASSUME NEW s \in Seq(EvmBlock), s # <<>>, EvmChain(s)
  PROVE  EvmChain(Front(s))
<1>1. /\ Len(s) \in Nat /\ Len(Front(s)) = Len(s) - 1
      /\ \A i \in 1 .. Len(s) - 1 : Front(s)[i] = s[i]
  BY FrontFacts, LenProperties
<1>2. \A i \in 1 .. Len(s) - 2 : i \in 1 .. Len(s) - 1 /\ i + 1 \in 1 .. Len(s) - 1
  BY <1>1
<1> QED BY <1>1, <1>2 DEF EvmChain

LEMMA FromChain ==
  ASSUME NEW s \in Seq(EvmBlock), NEW k \in 1 .. Len(s), EvmChain(s)
  PROVE  EvmChain(From(s, k))
<1> DEFINE t == From(s, k)
<1>1. /\ Len(s) \in Nat /\ Len(t) = Len(s) - k + 1
      /\ \A j \in 1 .. Len(s) - k + 1 : t[j] = s[k + j - 1]
  BY FromFacts, LenProperties
<1> HIDE DEF t
<1>2. \A j \in 1 .. Len(t) - 1 : Follows(t[j], t[j + 1])
  <2> SUFFICES ASSUME NEW j \in 1 .. Len(t) - 1 PROVE Follows(t[j], t[j + 1])
    OBVIOUS
  <2>1. t[j] = s[k + j - 1] /\ t[j + 1] = s[(k + j - 1) + 1]
    BY <1>1
  <2>2. k + j - 1 \in 1 .. Len(s) - 1
    BY <1>1
  <2> QED BY <2>1, <2>2 DEF EvmChain
<1> QED BY <1>2 DEF EvmChain, t

LEMMA AppendChain ==
  ASSUME NEW s \in Seq(EvmBlock), s # <<>>, NEW b \in EvmBlock,
         EvmChain(s), Follows(Last(s), b)
  PROVE  EvmChain(Append(s, b))
<1> DEFINE t == Append(s, b)
<1>1. /\ Len(s) \in Nat /\ Len(t) = Len(s) + 1
      /\ \A i \in 1 .. Len(s) : t[i] = s[i]
      /\ t[Len(s) + 1] = b
  BY AppendProperties, LenProperties
<1> HIDE DEF t
<1>2. \A i \in 1 .. Len(t) - 1 : Follows(t[i], t[i + 1])
  <2> SUFFICES ASSUME NEW i \in 1 .. Len(s) PROVE Follows(t[i], t[i + 1])
    BY <1>1
  <2>1. CASE i = Len(s)
    BY <1>1, <2>1 DEF Last
  <2>2. CASE i # Len(s)
    <3>1. i \in 1 .. Len(s) - 1 /\ i + 1 \in 1 .. Len(s)
      BY <1>1, <2>2
    <3> QED BY <1>1, <3>1 DEF EvmChain
  <2> QED BY <2>1, <2>2
<1> QED BY <1>2 DEF EvmChain, t

LEMMA GeneratedFollows ==
  ASSUME NEW b \in EvmBlock
  PROVE  /\ Follows(Sealed(b), generate_new_evm_block(Sealed(b)))
         /\ Sealed(b).number = b.number
         /\ Sealed(b).parent_hash = b.parent_hash
         /\ Sealed(b).consensus_parameter_index = b.consensus_parameter_index
<1> DEFINE a == Sealed(b)
<1>1. /\ a.number = b.number /\ a.parent_hash = b.parent_hash
      /\ a.consensus_parameter_index = b.consensus_parameter_index
      /\ a.transactions_root = compute_transaction_root(b.transactions)
      /\ a.transactions = b.transactions
  BY DEF Sealed, EvmBlock
<1> HIDE DEF a
<1>2. /\ generate_new_evm_block(a).number = a.number + 1
      /\ generate_new_evm_block(a).parent_hash = hash(a)
  BY DEF generate_new_evm_block
<1>3. Follows(a, generate_new_evm_block(a))
  BY <1>1, <1>2 DEF Follows
<1> QED BY <1>1, <1>3 DEF a

LEMMA NextChain == TypedLists /\ EvmLinked /\ [Next]_vars => EvmLinked'
<1> SUFFICES ASSUME TypedLists, EvmLinked, [Next]_vars PROVE EvmChain(evm_blocks')
  BY DEF EvmLinked, EvmChain, Follows
<1>1. evm_blocks \in Seq(EvmBlock) /\ EvmChain(evm_blocks)
  BY DEF TypedLists, TypeOK, EvmLinked, EvmChain, Follows
<1>2. CASE StepKeeps
  BY <1>1, <1>2 DEF StepKeeps
<1>3. CASE StepDrops
  BY <1>1, <1>3, FrontChain DEF StepDrops
<1>4. CASE StepReplaces
  <2>1. PICK e \in EvmBlock, k \in 1 .. Len(evm_blocks) :
          Replaces(e) /\ evm_blocks' = From(WithBack(evm_blocks, e), k)
    BY <1>4 DEF StepReplaces
  <2>2. /\ WithBack(evm_blocks, e) \in Seq(EvmBlock)
        /\ Len(WithBack(evm_blocks, e)) = Len(evm_blocks)
        /\ EvmChain(WithBack(evm_blocks, e))
    BY <1>1, <1>4, <2>1, WithBackFacts, WithBackChain DEF StepReplaces, Replaces, back
  <2> QED BY <2>1, <2>2, FromChain
<1>5. CASE StepExtends
  <2>1. evm_blocks # <<>> /\ ExtendEvmChain /\ back \in EvmBlock
    BY <1>5, BackType DEF StepExtends, TypedLists
  <2>2. Sealed(back) \in EvmBlock /\ generate_new_evm_block(Sealed(back)) \in EvmBlock
    BY <2>1, SealedType, GeneratedType
  <2> DEFINE s == WithBack(evm_blocks, Sealed(back))
  <2>3. s \in Seq(EvmBlock) /\ s # <<>> /\ Last(s) = Sealed(back)
    <3>1. /\ s \in Seq(EvmBlock) /\ s # <<>> /\ Len(s) = Len(evm_blocks)
          /\ s[Len(evm_blocks)] = Sealed(back)
      BY <1>1, <2>1, <2>2, WithBackFacts
    <3> HIDE DEF s
    <3> QED BY <3>1 DEF Last
  <2>4. EvmChain(s)
    BY <1>1, <2>1, <2>2, WithBackChain, GeneratedFollows DEF back
  <2>5. evm_blocks' = Append(s, generate_new_evm_block(Sealed(back)))
    BY <2>1, ExtendEffect
  <2>6. Follows(Last(s), generate_new_evm_block(Sealed(back)))
    BY <2>1, <2>3, GeneratedFollows
  <2> HIDE DEF s
  <2> QED BY <2>2, <2>3, <2>4, <2>5, <2>6, AppendChain
<1> QED BY <1>2, <1>3, <1>4, <1>5, EvmStep

\* For every stream, the EVM blocks held by the plugin are a hash-linked chain of
\* consecutive numbers: no fork handling changes a block that another has hashed.
THEOREM EvmHashChain == Spec => []EvmLinked
<1>1. Init => TypedLists /\ EvmLinked
  <2> SUFFICES ASSUME Init PROVE EvmLinked
    BY InitTyped
  <2>1. evm_blocks = <<StartBlock>>
    BY DEF Init
  <2>2. Len(evm_blocks) = 1
    BY <2>1
  <2> QED BY <2>2 DEF EvmLinked
<1>2. TypedLists /\ EvmLinked /\ [Next]_vars => TypedLists' /\ EvmLinked'
  BY NextTyped, NextChain
<1> QED BY <1>1, <1>2, PTL DEF Spec

-----------------------------------------------------------------------------
(* Blocks are published after their parents *)

\* b is the start block's number, or extends one of the blocks of P.
Parented(b, P) ==
  \/ b.number = StartBlock.number
  \/ \E i \in DOMAIN P : b.number = P[i].number + 1 /\ b.parent_hash = hash(P[i])

InOrder(P) ==
  \A i \in DOMAIN P :
    \/ P[i].number = StartBlock.number
    \/ \E j \in 1 .. i - 1 : P[i].number = P[j].number + 1 /\ P[i].parent_hash = hash(P[j])

AllParented(s, P) == \A i \in 1 .. Len(s) : Parented(s[i], P)

OrderInv == InOrder(published) /\ AllParented(evm_blocks, published)

LEMMA AppendPublished ==
  ASSUME NEW P \in Seq(EvmBlock), NEW b \in EvmBlock, InOrder(P), Parented(b, P)
  PROVE  /\ InOrder(Append(P, b))
         /\ \A c \in EvmBlock : Parented(c, P) \/ Follows(b, c) => Parented(c, Append(P, b))
<1> DEFINE Q == Append(P, b)
<1>1. /\ Len(P) \in Nat /\ DOMAIN P = 1 .. Len(P)
      /\ DOMAIN Q = 1 .. Len(P) + 1
      /\ \A i \in 1 .. Len(P) : Q[i] = P[i]
      /\ Q[Len(P) + 1] = b
  BY AppendProperties, LenProperties
<1> HIDE DEF Q
<1>2. InOrder(Q)
  <2> SUFFICES ASSUME NEW i \in 1 .. Len(P) + 1, Q[i].number # StartBlock.number
               PROVE  \E j \in 1 .. i - 1 : /\ Q[i].number = Q[j].number + 1
                                            /\ Q[i].parent_hash = hash(Q[j])
    BY <1>1 DEF InOrder
  <2>1. CASE i = Len(P) + 1
    <3>1. PICK j \in 1 .. Len(P) : b.number = P[j].number + 1 /\ b.parent_hash = hash(P[j])
      BY <1>1, <2>1 DEF Parented
    <3>2. j \in 1 .. i - 1
      BY <1>1, <2>1
    <3> QED BY <1>1, <2>1, <3>1, <3>2
  <2>2. CASE i # Len(P) + 1
    <3>1. i \in 1 .. Len(P)
      BY <1>1, <2>2
    <3>2. PICK j \in 1 .. i - 1 : P[i].number = P[j].number + 1 /\ P[i].parent_hash = hash(P[j])
      BY <1>1, <3>1 DEF InOrder
    <3>3. j \in 1 .. Len(P)
      BY <1>1, <3>1
    <3> QED BY <1>1, <3>1, <3>2, <3>3
  <2> QED BY <2>1, <2>2
<1>3. \A c \in EvmBlock : Parented(c, P) => Parented(c, Q)
  <2>1. \A i \in DOMAIN P : i \in DOMAIN Q /\ Q[i] = P[i]
    BY <1>1
  <2> QED BY <2>1 DEF Parented
<1>4. \A c \in EvmBlock : Follows(b, c) => Parented(c, Q)
  <2>1. Len(P) + 1 \in DOMAIN Q
    BY <1>1
  <2> QED BY <1>1, <2>1 DEF Follows, Parented
<1> QED BY <1>2, <1>3, <1>4 DEF Q

LEMMA NextOrder == TypedLists /\ OrderInv /\ [Next]_vars => OrderInv'
<1> SUFFICES ASSUME TypedLists, OrderInv, [Next]_vars
             PROVE  InOrder(published') /\ AllParented(evm_blocks', published')
  BY DEF OrderInv, InOrder, AllParented, Parented
<1>1. /\ evm_blocks \in Seq(EvmBlock) /\ published \in Seq(EvmBlock)
      /\ InOrder(published) /\ AllParented(evm_blocks, published)
      /\ Len(evm_blocks) \in Nat
  BY LenProperties DEF TypedLists, TypeOK, OrderInv
<1>2. CASE StepKeeps
  BY <1>1, <1>2 DEF StepKeeps
<1>3. CASE StepDrops
  <2>1. /\ Len(Front(evm_blocks)) = Len(evm_blocks) - 1
        /\ \A i \in 1 .. Len(evm_blocks) - 1 : Front(evm_blocks)[i] = evm_blocks[i]
    BY <1>1, <1>3, FrontFacts DEF StepDrops
  <2>2. AllParented(Front(evm_blocks), published)
    BY <1>1, <2>1 DEF AllParented
  <2> QED BY <1>1, <1>3, <2>2 DEF StepDrops
<1>4. CASE StepReplaces
  <2>1. PICK e \in EvmBlock, k \in 1 .. Len(evm_blocks) :
          Replaces(e) /\ evm_blocks' = From(WithBack(evm_blocks, e), k)
    BY <1>4 DEF StepReplaces
  <2> DEFINE s == WithBack(evm_blocks, e)
  <2>2. /\ s \in Seq(EvmBlock) /\ Len(s) = Len(evm_blocks)
        /\ \A i \in 1 .. Len(evm_blocks) - 1 : s[i] = evm_blocks[i]
        /\ s[Len(evm_blocks)] = e
    BY <1>1, <1>4, WithBackFacts DEF StepReplaces
  <2>3. Parented(back, published) => Parented(e, published)
    BY <2>1 DEF Replaces, Parented
  <2> HIDE DEF s
  <2>4. AllParented(s, published)
    <3> SUFFICES ASSUME NEW i \in 1 .. Len(evm_blocks) PROVE Parented(s[i], published)
      BY <2>2 DEF AllParented
    <3>1. CASE i = Len(evm_blocks)
      BY <1>1, <2>2, <2>3, <3>1 DEF AllParented, back, Last
    <3>2. CASE i # Len(evm_blocks)
      <4>1. i \in 1 .. Len(evm_blocks) - 1
        BY <1>1, <3>2
      <4> QED BY <1>1, <2>2, <4>1 DEF AllParented
    <3> QED BY <3>1, <3>2
  <2>5. AllParented(From(s, k), published)
    <3>1. /\ Len(From(s, k)) = Len(s) - k + 1
          /\ \A j \in 1 .. Len(s) - k + 1 : From(s, k)[j] = s[k + j - 1]
      BY <2>2, FromFacts
    <3>2. \A j \in 1 .. Len(s) - k + 1 : k + j - 1 \in 1 .. Len(s)
      BY <1>1, <2>2
    <3> QED BY <2>4, <3>1, <3>2 DEF AllParented
  <2> QED BY <1>1, <1>4, <2>1, <2>5 DEF StepReplaces, s
<1>5. CASE StepExtends
  <2> DEFINE b == Sealed(back)
             g == generate_new_evm_block(b)
             s == WithBack(evm_blocks, b)
             P == Append(published, b)
  <2>1. evm_blocks # <<>> /\ ExtendEvmChain /\ back \in EvmBlock
    BY <1>5, BackType DEF StepExtends, TypedLists
  <2>2. b \in EvmBlock /\ g \in EvmBlock
    BY <2>1, SealedType, GeneratedType
  <2>3. /\ b.number = back.number /\ b.parent_hash = back.parent_hash
        /\ Follows(b, g)
    BY <2>1, GeneratedFollows
  <2>4. /\ s \in Seq(EvmBlock) /\ Len(s) = Len(evm_blocks)
        /\ \A i \in 1 .. Len(evm_blocks) - 1 : s[i] = evm_blocks[i]
        /\ s[Len(evm_blocks)] = b
    BY <1>1, <2>1, <2>2, WithBackFacts
  <2>5. published' = P /\ evm_blocks' = Append(s, g)
    BY <2>1, ExtendEffect
  <2> HIDE DEF b, g, s
  <2>6. Len(evm_blocks) \in 1 .. Len(evm_blocks)
    BY <1>1, <2>1, EmptySeq
  <2>7. Parented(b, published)
    <3>1. Parented(back, published)
      BY <1>1, <2>6 DEF AllParented, back, Last
    <3> QED BY <2>3, <3>1 DEF Parented
  <2>8. /\ InOrder(P)
        /\ \A c \in EvmBlock : Parented(c, published) \/ Follows(b, c) => Parented(c, P)
    BY <1>1, <2>2, <2>7, AppendPublished
  <2> HIDE DEF P
  <2>9. /\ Len(Append(s, g)) = Len(evm_blocks) + 1
        /\ \A i \in 1 .. Len(evm_blocks) : Append(s, g)[i] = s[i]
        /\ Append(s, g)[Len(evm_blocks) + 1] = g
    BY <2>2, <2>4, AppendProperties
  <2>10. AllParented(Append(s, g), P)
    <3> SUFFICES ASSUME NEW i \in 1 .. Len(evm_blocks) + 1
                 PROVE  Parented(Append(s, g)[i], P)
      BY <2>9 DEF AllParented
    <3>1. CASE i = Len(evm_blocks) + 1
      BY <2>2, <2>3, <2>8, <2>9, <3>1
    <3>2. CASE i = Len(evm_blocks)
      BY <1>1, <2>2, <2>4, <2>7, <2>8, <2>9, <3>2
    <3>3. CASE i \notin {Len(evm_blocks), Len(evm_blocks) + 1}
      <4>1. i \in 1 .. Len(evm_blocks) - 1 /\ i \in 1 .. Len(evm_blocks)
        BY <1>1, <3>3
      <4>2. Append(s, g)[i] = evm_blocks[i] /\ evm_blocks[i] \in EvmBlock
        BY <1>1, <2>4, <2>9, <4>1, ElementOfSeq
      <4> QED BY <1>1, <2>8, <4>1, <4>2 DEF AllParented
    <3> QED BY <3>1, <3>2, <3>3
  <2> QED BY <2>5, <2>8, <2>10
<1> QED BY <1>2, <1>3, <1>4, <1>5, EvmStep

\* For every stream, the consumer of the evm_blocks channel gets each block after
\* its parent, across forks and republications.
THEOREM ParentsFirst == Spec => []PublishedInOrder
<1>1. Init => TypedLists /\ OrderInv
  <2> SUFFICES ASSUME Init PROVE OrderInv
    BY InitTyped
  <2>1. evm_blocks = <<StartBlock>> /\ published = <<>>
    BY DEF Init
  <2>2. /\ Len(evm_blocks) = 1 /\ evm_blocks[1] = StartBlock
        /\ DOMAIN published = {}
    BY <2>1
  <2> QED BY <2>2 DEF OrderInv, InOrder, AllParented, Parented
<1>2. TypedLists /\ OrderInv /\ [Next]_vars => TypedLists' /\ OrderInv'
  BY NextTyped, NextOrder
<1>3. OrderInv => PublishedInOrder
  BY DEF OrderInv, InOrder, PublishedInOrder
<1> QED BY <1>1, <1>2, <1>3, PTL DEF Spec

-----------------------------------------------------------------------------
(* Consensus parameters are in the database before a block names them *)

Known(b, params) ==
  b.consensus_parameter_index \in params \cup {StartBlock.consensus_parameter_index}

AllKnown(s, params) == \A i \in 1 .. Len(s) : Known(s[i], params)

ConfigInv ==
  AllKnown(evm_blocks, consensus_parameters) /\ AllKnown(published, consensus_parameters)

LEMMA ParametersGrow ==
  ASSUME [Next]_vars
  PROVE  consensus_parameters \subseteq consensus_parameters'
BY DEF Next, Receive, HandlerStep, ReceiveBeforeGenesis, ReceiveDuplicate, ReceiveUnknownFork,
   ReceiveFork, ReceiveLinked, DropEvmBlock, DropNativeBlock, FailToRemove, ResetUpperBound,
   FailToSetUpperBound, ExtendEvmChain, ApplyConfig, FailToSetConfig, AddTransaction,
   RejectTransaction, FinishWithoutLib, FinishAndTrim, FailToTrim, OpenExecutionEngine,
   Exit, vars, shared

LEMMA AppendKnown ==
  ASSUME NEW s \in Seq(EvmBlock), NEW b \in EvmBlock, NEW C, AllKnown(s, C), Known(b, C)
  PROVE  AllKnown(Append(s, b), C)
<1>1. /\ Len(s) \in Nat /\ Len(Append(s, b)) = Len(s) + 1
      /\ \A i \in 1 .. Len(s) : Append(s, b)[i] = s[i]
      /\ Append(s, b)[Len(s) + 1] = b
  BY AppendProperties, LenProperties
<1>2. \A i \in 1 .. Len(s) + 1 : i \in 1 .. Len(s) \/ i = Len(s) + 1
  BY <1>1
<1> QED BY <1>1, <1>2 DEF AllKnown

LEMMA WithBackKnown ==
  ASSUME NEW s \in Seq(EvmBlock), s # <<>>, NEW b \in EvmBlock, NEW C,
         AllKnown(s, C), Known(b, C)
  PROVE  AllKnown(WithBack(s, b), C)
<1>1. /\ Len(s) \in Nat /\ Len(WithBack(s, b)) = Len(s)
      /\ \A i \in 1 .. Len(s) - 1 : WithBack(s, b)[i] = s[i]
      /\ WithBack(s, b)[Len(s)] = b
  BY WithBackFacts, LenProperties
<1>2. \A i \in 1 .. Len(s) : i \in 1 .. Len(s) - 1 \/ i = Len(s)
  BY <1>1
<1> QED BY <1>1, <1>2 DEF AllKnown

LEMMA NextKnown == TypedLists /\ ConfigInv /\ [Next]_vars => ConfigInv'
<1> SUFFICES ASSUME TypedLists, ConfigInv, [Next]_vars
             PROVE  /\ AllKnown(evm_blocks', consensus_parameters')
                    /\ AllKnown(published', consensus_parameters')
  BY DEF ConfigInv, AllKnown, Known
<1> DEFINE C == consensus_parameters'
<1>1. /\ evm_blocks \in Seq(EvmBlock) /\ published \in Seq(EvmBlock)
      /\ Len(evm_blocks) \in Nat
      /\ AllKnown(evm_blocks, C) /\ AllKnown(published, C)
  BY ParametersGrow, LenProperties DEF TypedLists, TypeOK, ConfigInv, AllKnown, Known
<1>2. evm_blocks # <<>> => back \in EvmBlock /\ Known(back, C)
  <2>1. evm_blocks # <<>> => Len(evm_blocks) \in 1 .. Len(evm_blocks)
    BY <1>1, EmptySeq
  <2> QED BY <1>1, <2>1, BackType DEF AllKnown, back, Last, TypedLists
<1> HIDE DEF C
<1>3. CASE StepKeeps
  BY <1>1, <1>3 DEF StepKeeps, C
<1>4. CASE StepDrops
  <2>1. /\ Len(Front(evm_blocks)) = Len(evm_blocks) - 1
        /\ \A i \in 1 .. Len(evm_blocks) - 1 : Front(evm_blocks)[i] = evm_blocks[i]
    BY <1>1, <1>4, FrontFacts DEF StepDrops
  <2>2. AllKnown(Front(evm_blocks), C)
    BY <1>1, <2>1 DEF AllKnown
  <2> QED BY <1>1, <1>4, <2>2 DEF StepDrops, C
<1>5. CASE StepReplaces
  <2>1. PICK e \in EvmBlock, k \in 1 .. Len(evm_blocks) :
          Replaces(e) /\ evm_blocks' = From(WithBack(evm_blocks, e), k)
    BY <1>5 DEF StepReplaces
  <2> DEFINE s == WithBack(evm_blocks, e)
  <2>2. Known(e, C)
    BY <1>2, <1>5, <2>1 DEF Replaces, Known, StepReplaces, C
  <2>3. s \in Seq(EvmBlock) /\ Len(s) = Len(evm_blocks) /\ AllKnown(s, C)
    BY <1>1, <1>5, <2>2, WithBackFacts, WithBackKnown DEF StepReplaces
  <2> HIDE DEF s
  <2>4. /\ Len(From(s, k)) = Len(s) - k + 1
        /\ \A j \in 1 .. Len(s) - k + 1 : From(s, k)[j] = s[k + j - 1]
    BY <2>3, FromFacts
  <2>5. \A j \in 1 .. Len(s) - k + 1 : k + j - 1 \in 1 .. Len(s)
    BY <1>1, <2>3
  <2>6. AllKnown(From(s, k), C)
    BY <2>3, <2>4, <2>5 DEF AllKnown
  <2> QED BY <1>1, <1>5, <2>1, <2>6 DEF StepReplaces, s, C
<1>6. CASE StepExtends
  <2> DEFINE b == Sealed(back)
             g == generate_new_evm_block(b)
  <2>1. evm_blocks # <<>> /\ ExtendEvmChain
    BY <1>6 DEF StepExtends
  <2>2. b \in EvmBlock /\ g \in EvmBlock
    BY <1>2, <2>1, SealedType, GeneratedType
  <2>3. Known(b, C) /\ Known(g, C)
    <3>1. b.consensus_parameter_index = back.consensus_parameter_index
      BY <1>2, <2>1, GeneratedFollows
    <3>2. g.consensus_parameter_index = b.consensus_parameter_index
      BY DEF generate_new_evm_block
    <3> QED BY <1>2, <2>1, <3>1, <3>2 DEF Known
  <2>4. /\ published' = Append(published, b)
        /\ evm_blocks' = Append(WithBack(evm_blocks, b), g)
    BY <2>1, ExtendEffect
  <2> HIDE DEF b, g
  <2>5. AllKnown(Append(published, b), C)
    BY <1>1, <2>2, <2>3, AppendKnown
  <2>6. WithBack(evm_blocks, b) \in Seq(EvmBlock) /\ AllKnown(WithBack(evm_blocks, b), C)
    BY <1>1, <2>1, <2>2, <2>3, WithBackFacts, WithBackKnown
  <2>7. AllKnown(Append(WithBack(evm_blocks, b), g), C)
    BY <2>2, <2>3, <2>6, AppendKnown
  <2> QED BY <2>4, <2>5, <2>7 DEF C
<1> QED BY <1>3, <1>4, <1>5, <1>6, EvmStep

\* For every stream, a published block's consensus parameters are the start block's
\* or in the database, whatever configchange events forks have removed.
THEOREM ParametersStored == Spec => []ConfigStored
<1>1. Init => TypedLists /\ ConfigInv
  <2> SUFFICES ASSUME Init PROVE ConfigInv
    BY InitTyped
  <2>1. evm_blocks = <<StartBlock>> /\ published = <<>>
    BY DEF Init
  <2>2. Len(evm_blocks) = 1 /\ evm_blocks[1] = StartBlock /\ Len(published) = 0
    BY <2>1
  <2> QED BY <2>2 DEF ConfigInv, AllKnown, Known
<1>2. TypedLists /\ ConfigInv /\ [Next]_vars => TypedLists' /\ ConfigInv'
  BY NextTyped, NextKnown
<1>3. TypedLists /\ ConfigInv => ConfigStored
  <2> SUFFICES ASSUME TypedLists, ConfigInv PROVE ConfigStored
    OBVIOUS
  <2>1. DOMAIN published = 1 .. Len(published)
    BY LenProperties DEF TypedLists, TypeOK
  <2> QED BY <2>1 DEF ConfigInv, AllKnown, Known, ConfigStored
<1> QED BY <1>1, <1>2, <1>3, PTL DEF Spec
=============================================================================
