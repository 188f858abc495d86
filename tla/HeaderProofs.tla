----------------------------- MODULE HeaderProofs -----------------------------
(***************************************************************************)
(* Proofs that the headers are what the native branch says, and that only  *)
(* an early configchange stops the node.                                   *)
(***************************************************************************)
EXTENDS RestartProofs

-----------------------------------------------------------------------------
(* The last action and the last configchange of a branch *)

\* Positions of the blocks up to EVM block m, in the first n of the branch id, that have
\* actions, or a configchange.
ActionPositions(id, n, m) ==
  {k \in 1 .. n : Number(id[k]) <= m /\ id[k].actions # <<>>}

ConfigPositions(id, n, m) ==
  {k \in 1 .. n : Number(id[k]) <= m /\ id[k].new_config # None}

LEMMA LastAre ==
  ASSUME NEW id \in Histories, NEW n \in 0 .. Len(id), NEW m,
         NEW A, A = ActionPositions(id, n, m), NEW C, C = ConfigPositions(id, n, m)
  PROVE  /\ LastActionOf(Prefix(id, n), m) = IF A = {} THEN None ELSE Last(id[Max(A)].actions)
         /\ LastConfigOf(Prefix(id, n), m)
              = IF C = {} THEN StartBlock.consensus_parameter_index ELSE id[Max(C)].new_config
<1> DEFINE s == Prefix(id, n)
<1>1. /\ s \in Histories /\ Len(s) = n /\ n \in Nat /\ DOMAIN s = 1 .. n
      /\ \A k \in 1 .. n : s[k] = id[k]
  <2>1. s \in Histories /\ Len(s) = n /\ \A k \in 1 .. n : s[k] = id[k]
    BY PrefixPositions
  <2>2. Len(id) \in Nat
    BY FullPrefix
  <2> QED BY <2>1, <2>2, LenProperties DEF Histories
<1> HIDE DEF s
<1>2. \A k \in 1 .. n : NumberOf(Prefix(s, k)) = Number(id[k])
  BY <1>1, PositionFacts
<1>3. /\ {k \in DOMAIN s : NumberOf(Prefix(s, k)) <= m /\ s[k].actions # <<>>} = A
      /\ {k \in DOMAIN s : NumberOf(Prefix(s, k)) <= m /\ s[k].new_config # None} = C
  BY <1>1, <1>2 DEF ActionPositions, ConfigPositions
<1>4. A # {} => s[Max(A)] = id[Max(A)]
  <2>1. A \in SUBSET (0 .. n) /\ A \in SUBSET (1 .. n)
    BY <1>1 DEF ActionPositions
  <2> QED BY <1>1, <2>1, MaxExists
<1>5. C # {} => s[Max(C)] = id[Max(C)]
  <2>1. C \in SUBSET (0 .. n) /\ C \in SUBSET (1 .. n)
    BY <1>1 DEF ConfigPositions
  <2> QED BY <1>1, <2>1, MaxExists
<1> QED BY <1>3, <1>4, <1>5 DEF LastActionOf, LastConfigOf, s

\* Blocks of later EVM blocks change nothing.
LEMMA HeaderStable ==
  ASSUME NEW id \in Histories, NEW m \in Nat, NEW n \in 0 .. Len(id), NEW k \in 0 .. n,
         \A j \in k + 1 .. n : Number(id[j]) > m
  PROVE  /\ LastActionOf(Prefix(id, n), m) = LastActionOf(Prefix(id, k), m)
         /\ LastConfigOf(Prefix(id, n), m) = LastConfigOf(Prefix(id, k), m)
         /\ HeaderOf(Prefix(id, n), m) = HeaderOf(Prefix(id, k), m)
<1>1. Len(id) \in Nat /\ n \in Nat /\ k \in Nat /\ k \in 0 .. Len(id)
  BY FullPrefix
<1>2. \A j \in 1 .. n : j \in 1 .. k \/ j \in k + 1 .. n
  BY <1>1
<1>3. \A j \in 1 .. k : j \in 1 .. n
  BY <1>1
<1>4. \A j \in k + 1 .. n : ~(Number(id[j]) <= m)
  <2> TAKE j \in k + 1 .. n
  <2>1. j \in 1 .. Len(id)
    BY <1>1
  <2>2. Number(id[j]) \in Nat
    BY <2>1, PositionFacts, NumberType
  <2> QED BY <2>2
<1>5. /\ ActionPositions(id, n, m) = ActionPositions(id, k, m)
      /\ ConfigPositions(id, n, m) = ConfigPositions(id, k, m)
  BY <1>2, <1>3, <1>4 DEF ActionPositions, ConfigPositions
<1>6. /\ LastActionOf(Prefix(id, n), m) = LastActionOf(Prefix(id, k), m)
      /\ LastConfigOf(Prefix(id, n), m) = LastConfigOf(Prefix(id, k), m)
  BY <1>1, <1>5, LastAre
<1> QED BY <1>6 DEF HeaderOf

\* Nor does an EVM block after the tip.
LEMMA HeaderBeyond ==
  ASSUME CleanStart, NEW id \in Histories, Timed(id), NEW m \in Nat, NumberOf(id) <= m
  PROVE  HeaderOf(id, m + 1) = HeaderOf(id, m)
<1> DEFINE n == Len(id)
<1>1. n \in Nat /\ Prefix(id, n) = id /\ n \in 0 .. n
  BY FullPrefix
<1>2. \A j \in 1 .. n : Number(id[j]) <= m /\ Number(id[j]) <= m + 1
  <2> TAKE j \in 1 .. n
  <2>1. n \in j .. n /\ n \in 1 .. n
    BY <1>1
  <2>2. Number(id[j]) <= Number(id[n]) /\ Number(id[j]) \in Nat /\ Number(id[n]) \in Nat
    BY <2>1, TimedNumbers, PositionFacts, NumberType
  <2>3. Number(id[n]) <= m
    BY <1>1, <2>1, PositionFacts
  <2> QED BY <2>2, <2>3
<1>3. /\ ActionPositions(id, n, m + 1) = ActionPositions(id, n, m)
      /\ ConfigPositions(id, n, m + 1) = ConfigPositions(id, n, m)
  BY <1>2 DEF ActionPositions, ConfigPositions
<1>4. /\ LastActionOf(Prefix(id, n), m + 1) = LastActionOf(Prefix(id, n), m)
      /\ LastConfigOf(Prefix(id, n), m + 1) = LastConfigOf(Prefix(id, n), m)
  BY <1>1, <1>3, LastAre
<1> QED BY <1>1, <1>4 DEF HeaderOf

LEMMA LastOfEmpty ==
  ASSUME NEW m
  PROVE  /\ LastActionOf(<<>>, m) = None
         /\ LastConfigOf(<<>>, m) = StartBlock.consensus_parameter_index
<1>1. <<>> \in Histories /\ Len(<<>>) = 0 /\ 0 \in 0 .. Len(<<>>) /\ Prefix(<<>>, 0) = <<>>
  <2>1. <<>> \in Histories /\ Len(<<>>) = 0
    BY EmptySeq DEF Histories
  <2>2. Prefix(<<>>, 0) = <<>>
    BY <2>1, FullPrefix
  <2> QED BY <2>1, <2>2
<1>2. ActionPositions(<<>>, 0, m) = {} /\ ConfigPositions(<<>>, 0, m) = {}
  BY DEF ActionPositions, ConfigPositions
<1> QED BY <1>1, <1>2, LastAre

\* What the last block of a branch changes.
LEMMA LastOfTip ==
  ASSUME NEW id \in Histories, NEW n, n = Len(id), n # 0, NEW m, m = Number(id[n])
  PROVE  /\ LastActionOf(id, m) = IF id[n].actions = <<>> THEN LastActionOf(Prefix(id, n - 1), m)
                                  ELSE Last(id[n].actions)
         /\ LastConfigOf(id, m) = IF id[n].new_config = None THEN LastConfigOf(Prefix(id, n - 1), m)
                                  ELSE id[n].new_config
<1>1. /\ n \in Nat /\ Prefix(id, n) = id /\ n \in 0 .. n /\ n - 1 \in 0 .. n /\ n \in 1 .. n
      /\ \A j \in 1 .. n : j \in 1 .. n - 1 \/ j = n
      /\ \A j \in 1 .. n - 1 : j \in 1 .. n
  BY FullPrefix
<1>2. m \in Nat /\ m <= m
  BY <1>1, PositionFacts, NumberType
<1> DEFINE A(k) == ActionPositions(id, k, m)
           C(k) == ConfigPositions(id, k, m)
<1>3. id[n].actions = <<>> => A(n) = A(n - 1)
  BY <1>1 DEF ActionPositions
<1>4. id[n].new_config = None => C(n) = C(n - 1)
  BY <1>1 DEF ConfigPositions
<1>5. id[n].actions # <<>> => n \in A(n)
  BY <1>1, <1>2 DEF ActionPositions
<1>6. id[n].new_config # None => n \in C(n)
  BY <1>1, <1>2 DEF ConfigPositions
<1>7. A(n) \in SUBSET (0 .. n) /\ C(n) \in SUBSET (0 .. n)
  BY <1>1 DEF ActionPositions, ConfigPositions
<1>8. /\ LastActionOf(id, m) = IF A(n) = {} THEN None ELSE Last(id[Max(A(n))].actions)
      /\ LastConfigOf(id, m)
           = IF C(n) = {} THEN StartBlock.consensus_parameter_index ELSE id[Max(C(n))].new_config
      /\ LastActionOf(Prefix(id, n - 1), m)
           = IF A(n - 1) = {} THEN None ELSE Last(id[Max(A(n - 1))].actions)
      /\ LastConfigOf(Prefix(id, n - 1), m)
           = IF C(n - 1) = {} THEN StartBlock.consensus_parameter_index
             ELSE id[Max(C(n - 1))].new_config
  BY <1>1, LastAre
<1> HIDE DEF A, C
<1>9. \A S \in SUBSET (0 .. n) : n \in S => Max(S) = n
  <2> SUFFICES ASSUME NEW S \in SUBSET (0 .. n), n \in S PROVE Max(S) = n
    OBVIOUS
  <2>1. Max(S) \in S /\ Max(S) >= n
    BY <1>1, MaxExists
  <2>2. Max(S) \in 0 .. n
    BY <2>1
  <2> QED BY <1>1, <2>1, <2>2
<1> QED BY <1>3, <1>4, <1>5, <1>6, <1>7, <1>8, <1>9

-----------------------------------------------------------------------------
(* The headers *)

\* No fork takes a transaction, or a configchange, that set the header back from the EVM block
\* of its fork point: what the forked native blocks say of it, the fork point says too.
ForkAgrees ==
  pc = "unwind" =>
    LET p == new_block.prev
    IN  HeaderOf(Branch, NumberOf(p)) = HeaderOf(p, NumberOf(p))

\* b has the header that the branch id says.
Fits(b, id) ==
  HeaderIn(b) = IF b.number > StartBlock.number THEN HeaderOf(id, b.number) ELSE HeaderIn(StartBlock)

\* The actions that are pending are the last ones of the new block.
FilledInv ==
  pc = "fill" =>
    /\ Done \in 0 .. Len(new_block.actions)
    /\ \A j \in 1 .. Len(pending) : pending[j] = new_block.actions[Done + j]

HeaderInv ==
  /\ FilledInv
  /\ pc = "idle" => \A i \in 1 .. Len(evm_blocks) : Fits(evm_blocks[i], Branch)
  /\ pc = "unwind" =>
       \A i \in 1 .. Len(evm_blocks) :
         evm_blocks[i].number <= NumberOf(new_block.prev) => Fits(evm_blocks[i], new_block.prev)
  /\ pc = "extend" => \A i \in 1 .. Len(evm_blocks) : Fits(evm_blocks[i], new_block.prev)
  /\ pc = "fill" =>
       /\ \A i \in 1 .. Len(evm_blocks) - 1 : Fits(evm_blocks[i], new_block.id)
       /\ HeaderIn(back) = HeaderSoFar

\* b has the header that the branch of its upper bound says.
Authentic(b) ==
  /\ b.number = StartBlock.number => HeaderIn(b) = HeaderIn(StartBlock)
  /\ b.number > StartBlock.number /\ b.prev_randao # Zero =>
       HeaderIn(b) = HeaderOf(b.prev_randao, b.number)

AuthenticInv ==
  /\ \A i \in 1 .. Len(published) : Authentic(published[i])
  /\ \A i \in 1 .. Len(inserted) : Authentic(inserted[i])
  /\ \A i \in 1 .. Len(canonical) : Authentic(canonical[i])

-----------------------------------------------------------------------------
(* Headers that fit a branch *)

LEMMA FitsSame ==
  ASSUME NEW b, NEW c, HeaderIn(c) = HeaderIn(b), c.number = b.number, NEW id
  PROVE  Fits(c, id) <=> Fits(b, id)
BY DEF Fits

LEMMA FitsStable ==
  ASSUME NEW id \in Histories, NEW b, b.number \in Nat, NEW n \in 0 .. Len(id), NEW k \in 0 .. n,
         \A j \in k + 1 .. n : Number(id[j]) > b.number
  PROVE  Fits(b, Prefix(id, n)) <=> Fits(b, Prefix(id, k))
BY HeaderStable DEF Fits

\* What a branch says of an EVM block before that of its k-th block does not depend on
\* what is above that block.
LEMMA FitsBelow ==
  ASSUME NEW id \in Histories, Timed(id), NEW b, b.number \in Nat,
         NEW k \in 1 .. Len(id), b.number < Number(id[k])
  PROVE  /\ Fits(b, id) <=> Fits(b, Prefix(id, k))
         /\ Fits(b, id) <=> Fits(b, Prefix(id, k - 1))
<1> DEFINE n == Len(id)
<1>1. n \in Nat /\ Prefix(id, n) = id /\ n \in 0 .. n /\ k \in 0 .. n /\ k - 1 \in 0 .. n
  BY FullPrefix
<1>2. \A j \in k .. n : Number(id[j]) > b.number
  <2> TAKE j \in k .. n
  <2>1. j \in 1 .. n
    BY <1>1
  <2>2. Number(id[k]) <= Number(id[j]) /\ Number(id[k]) \in Nat /\ Number(id[j]) \in Nat
    BY <2>1, TimedNumbers, PositionFacts, NumberType
  <2> QED BY <2>2
<1>3. \A j \in k + 1 .. n : j \in k .. n
  BY <1>1
<1>4. \A j \in (k - 1) + 1 .. n : j \in k .. n
  BY <1>1
<1>5. Fits(b, Prefix(id, n)) <=> Fits(b, Prefix(id, k))
  BY <1>1, <1>2, <1>3, FitsStable
<1>6. Fits(b, Prefix(id, n)) <=> Fits(b, Prefix(id, k - 1))
  BY <1>1, <1>2, <1>4, FitsStable
<1> QED BY <1>1, <1>5, <1>6

\* A block that is right for some branch is right for that of its upper bound.
LEMMA FitsAuthentic ==
  ASSUME CleanStart, NEW id \in Histories, Timed(id), NEW b, b.number \in Nat,
         Good(b, id), Fits(b, id)
  PROVE  Authentic(b)
<1> DEFINE n == Len(id)
           m == b.number
<1>1. n \in Nat /\ Prefix(id, n) = id /\ n \in 0 .. n /\ StartBlock.number \in Nat
  BY FullPrefix, StartNumber
<1>2. m = StartBlock.number => HeaderIn(b) = HeaderIn(StartBlock)
  BY <1>1 DEF Fits
<1>3. ASSUME m > StartBlock.number, b.prev_randao # Zero
      PROVE  HeaderIn(b) = HeaderOf(b.prev_randao, m)
  <2>1. UpperBoundOf(Prefix(id, n), m) = b.prev_randao
    BY <1>1, <1>3 DEF Good, Holds
  <2>2. PICK k \in 1 .. n : LastOf(id, n, m, k) /\ b.prev_randao = Prefix(id, k)
    BY <1>1, <1>3, <2>1, UpperBoundIs
  <2>3. k \in 0 .. n /\ k \in 1 .. n /\ Number(id[k]) = m
        /\ \A j \in k + 1 .. n : Number(id[j]) # m
    BY <2>2 DEF LastOf
  <2>4. \A j \in k + 1 .. n : Number(id[j]) > m
    <3> TAKE j \in k + 1 .. n
    <3>1. j \in k .. n /\ j \in 1 .. n
      BY <1>1
    <3>2. Number(id[k]) <= Number(id[j]) /\ Number(id[k]) \in Nat /\ Number(id[j]) \in Nat
      BY <3>1, TimedNumbers, PositionFacts, NumberType
    <3>3. Number(id[j]) # m
      BY <2>3
    <3> HIDE DEF m
    <3> QED BY <2>3, <3>2, <3>3
  <2>5. Fits(b, Prefix(id, n)) <=> Fits(b, Prefix(id, k))
    BY <1>1, <2>3, <2>4, FitsStable
  <2> QED BY <1>1, <1>3, <2>2, <2>5 DEF Fits
<1> QED BY <1>2, <1>3 DEF Authentic

\* A block that generate_new_evm_block makes beyond the tip inherits the header; only the
\* version of the genesis block is replaced.
LEMMA FitsGenerated ==
  ASSUME CleanStart, NEW id \in Histories, Timed(id), NEW b \in EvmBlock, Fits(b, id),
         b.number >= StartBlock.number, NumberOf(id) <= b.number
  PROVE  Fits(generate_new_evm_block(b), id)
<1> DEFINE g == generate_new_evm_block(b)
           m == b.number
<1>1. m \in Nat /\ StartBlock.number \in Nat /\ Len(id) \in Nat
  BY StartNumber, FullPrefix DEF EvmBlock
<1>2. /\ g.number = m + 1
      /\ HeaderIn(g) = [HeaderIn(b) EXCEPT !.version = IF m = 0 THEN ChainVersion ELSE b.version]
  BY DEF generate_new_evm_block, HeaderIn
<1>3. CASE m > StartBlock.number
  <2>1. HeaderIn(g) = HeaderIn(b)
    <3>1. m # 0
      BY <1>1, <1>3
    <3> QED BY <1>2, <3>1 DEF HeaderIn
  <2>2. HeaderOf(id, m + 1) = HeaderOf(id, m)
    BY <1>1, HeaderBeyond
  <2>3. m + 1 > StartBlock.number
    BY <1>1, <1>3
  <2> QED BY <1>2, <1>3, <2>1, <2>2, <2>3 DEF Fits
<1>4. CASE ~(m > StartBlock.number)
  <2>1. m = StartBlock.number /\ HeaderIn(b) = HeaderIn(StartBlock)
    BY <1>1, <1>4 DEF Fits
  <2>2. id = <<>>
    <3>1. CASE Len(id) # 0
      <4> DEFINE n == Len(id)
      <4>1. n \in 1 .. n /\ Prefix(id, n) = id
        BY <1>1, <3>1, FullPrefix
      <4>2. NumberOf(id) = Number(id[n]) /\ Number(id[n]) \in Nat
        BY <4>1, PositionFacts, NumberType
      <4>3. Number(id[n]) > StartBlock.number
        BY <4>1 DEF Timed
      <4> QED BY <1>1, <2>1, <4>2, <4>3
    <3> QED BY <3>1, EmptySeq DEF Histories
  <2>3. LastActionOf(id, m + 1) = None
        /\ LastConfigOf(id, m + 1) = StartBlock.consensus_parameter_index
    BY <2>2, LastOfEmpty
  <2>4. HeaderIn(g) = HeaderOf(id, m + 1)
    BY <1>2, <2>1, <2>3 DEF HeaderOf, HeaderAfter, HeaderIn
  <2>5. m + 1 > StartBlock.number
    BY <1>1, <2>1
  <2> QED BY <1>2, <2>4, <2>5 DEF Fits
<1> QED BY <1>3, <1>4

\* A transaction sets the header: what it leaves alone is still that of the start block.
LEMMA AfterTransaction ==
  ASSUME NEW b \in EvmBlock, NEW a, a = None \/ a \in NativeAction, NEW na \in NativeAction,
         NEW config, HeaderIn(b) = HeaderAfter(a, config), Acceptable(b, deserialize_tx(na))
  PROVE  HeaderIn(BlockWithTx(b, deserialize_tx(na))) = HeaderAfter(na, config)
<1> DEFINE dtx == deserialize_tx(na)
           v   == dtx.eos_evm_version
           c   == BlockWithTx(b, dtx)
<1>1. dtx \in NativeAction /\ v \in Nat /\ (v > 0 => dtx = na)
  <2>1. dtx \in NativeAction
    BY DeserializedType
  <2>2. CASE na.name = "pushtx"
    BY <2>1, <2>2 DEF deserialize_tx, NativeAction
  <2>3. CASE na.name # "pushtx"
    BY <2>1, <2>3 DEF deserialize_tx, NativeAction
  <2> QED BY <2>1, <2>2, <2>3
<1> HIDE DEF dtx
<1>2. na # None /\ b.version \in Nat /\ v >= b.version
  BY ActionAssumption DEF EvmBlock, Acceptable, dtx
<1>3. /\ a # None => deserialize_tx(a).eos_evm_version = b.version
      /\ ~(a # None /\ b.version > 0) => b.base_fee_per_gas = StartBlock.base_fee_per_gas
      /\ ~(a # None /\ b.version >= 3) => b.gas_prices = StartBlock.gas_prices
      /\ b.consensus_parameter_index = config
  BY <1>2 DEF HeaderIn, HeaderAfter
<1>4. /\ v < 3 => b.gas_prices = StartBlock.gas_prices
      /\ v = 0 => b.base_fee_per_gas = StartBlock.base_fee_per_gas
  BY <1>1, <1>2, <1>3
<1>5. HeaderIn(c) = [version    |-> v,
                     base_fee   |-> CASE v >= 3     -> BaseFee[dtx.gas_prices]
                                      [] v \in 1..2 -> dtx.base_fee_per_gas
                                      [] OTHER      -> b.base_fee_per_gas,
                     gas_prices |-> IF v >= 3 THEN dtx.gas_prices ELSE b.gas_prices,
                     config     |-> b.consensus_parameter_index]
  BY DEF HeaderIn, BlockWithTx, EvmBlock
<1>6. HeaderAfter(na, config)
        = [version    |-> v,
           base_fee   |-> CASE ~(v > 0)         -> StartBlock.base_fee_per_gas
                            [] v > 0 /\ v <= 2  -> na.base_fee_per_gas
                            [] OTHER            -> BaseFee[na.gas_prices],
           gas_prices |-> IF v > 0 /\ v >= 3 THEN na.gas_prices ELSE StartBlock.gas_prices,
           config     |-> config]
  BY <1>2 DEF HeaderAfter, dtx
<1>7. ASSUME v >= 3 PROVE HeaderIn(c) = HeaderAfter(na, config)
  BY <1>1, <1>3, <1>5, <1>6, <1>7
<1>8. ASSUME v \in 1 .. 2 PROVE HeaderIn(c) = HeaderAfter(na, config)
  BY <1>1, <1>3, <1>4, <1>5, <1>6, <1>8
<1>9. ASSUME v = 0 PROVE HeaderIn(c) = HeaderAfter(na, config)
  BY <1>1, <1>3, <1>4, <1>5, <1>6, <1>9
<1> QED BY <1>1, <1>7, <1>8, <1>9 DEF dtx

-----------------------------------------------------------------------------
(* The headers, while the converter works *)

LEMMA HeaderSame ==
  ASSUME HeaderInv, UNCHANGED <<pc, native_blocks, evm_blocks, new_block, pending>>
  PROVE  HeaderInv'
<1>1. UNCHANGED <<Branch, back, Done, LastSeen>>
  BY DEF Branch, back, Done, LastSeen
<1> QED BY <1>1 DEF HeaderInv, FilledInv, HeaderSoFar

LEMMA ReceiveHeaders ==
  ASSUME HistoriesAreIds, CleanStart, Ready, HeaderInv, NEW nb, NEW c, Message(nb, c),
         Receive(nb), ForkAgrees'
  PROVE  HeaderInv'
<1>1. pc = "idle" /\ UNCHANGED evm_blocks
  BY DEF Receive, ReceiveBeforeGenesis, ReceiveDuplicate, ReceiveUnknownFork, ReceiveFork,
     ReceiveLinked, Exit, caches, vars
<1>2. /\ Branch \in Histories /\ Timed(Branch) /\ native_blocks # <<>>
      /\ \A i \in 1 .. Len(evm_blocks) : evm_blocks[i].number \in Nat
      /\ \A i \in 1 .. Len(evm_blocks) : Fits(evm_blocks[i], Branch)
  BY <1>1, ReadyFacts DEF HeaderInv, FilledInv, HeaderSoFar
<1>3. ~ReceiveBeforeGenesis(nb)
  BY <1>1, AfterGenesis DEF ReceiveBeforeGenesis
<1>4. CASE ReceiveDuplicate(nb)
  BY <1>4, HeaderSame DEF ReceiveDuplicate, vars, caches, locals
<1>5. CASE ReceiveUnknownFork(nb)
  BY <1>5 DEF ReceiveUnknownFork, Exit, HeaderInv, FilledInv, HeaderSoFar
<1>6. CASE ReceiveFork(nb)
  <2>1. /\ ~Linked(nb) /\ ~Cached(nb.id) /\ Cached(nb.prev) /\ new_block' = nb /\ pc' = "unwind"
        /\ UNCHANGED native_blocks
    BY <1>6 DEF ReceiveFork, caches
  <2>2. c \in 1 .. Len(Branch) /\ nb.prev = Prefix(Branch, c)
    BY <1>1, <2>1, ForkBelow
  <2>3. NumberOf(nb.prev) = Number(Branch[c]) /\ NumberOf(nb.prev) \in Nat
    BY <1>2, <2>2, PositionFacts, NumberType
  <2>4. HeaderOf(Branch, NumberOf(nb.prev)) = HeaderOf(nb.prev, NumberOf(nb.prev))
    BY <2>1 DEF ForkAgrees, Branch
  <2>5. ASSUME NEW i \in 1 .. Len(evm_blocks), evm_blocks[i].number <= NumberOf(nb.prev)
        PROVE  Fits(evm_blocks[i], nb.prev)
    <3> DEFINE b == evm_blocks[i]
    <3>1. b.number \in Nat /\ Fits(b, Branch) /\ b.number <= NumberOf(nb.prev)
      BY <1>2, <2>5
    <3> HIDE DEF b
    <3>2. ASSUME b.number = NumberOf(nb.prev) PROVE Fits(b, nb.prev)
      BY <2>4, <3>1, <3>2 DEF Fits
    <3>3. ASSUME b.number # NumberOf(nb.prev) PROVE Fits(b, nb.prev)
      <4>1. b.number < Number(Branch[c])
        BY <2>3, <3>1, <3>3
      <4> QED BY <1>2, <2>2, <3>1, <4>1, FitsBelow
    <3> QED BY <3>2, <3>3 DEF b
  <2> QED BY <1>1, <2>1, <2>5 DEF HeaderInv, FilledInv, HeaderSoFar
<1>7. CASE ReceiveLinked(nb)
  <2>1. nb.prev = Branch /\ new_block' = nb /\ pc' = "extend"
    BY <1>2, <1>7 DEF ReceiveLinked, Linked, Branch
  <2> QED BY <1>1, <1>2, <2>1 DEF HeaderInv, FilledInv, HeaderSoFar
<1> QED BY <1>3, <1>4, <1>5, <1>6, <1>7 DEF Receive

LEMMA UnwindHeaders ==
  ASSUME CleanStart, Ready, HeaderInv, DropEvmBlock \/ DropNativeBlock \/ ResetUpperBound
  PROVE  HeaderInv'
<1> DEFINE p == new_block.prev
           n == Len(evm_blocks)
<1>1. /\ pc = "unwind" /\ UNCHANGED new_block
      /\ \A i \in 1 .. n : evm_blocks[i].number <= NumberOf(p) => Fits(evm_blocks[i], p)
  BY DEF DropEvmBlock, DropNativeBlock, ResetUpperBound, HeaderInv, FilledInv, HeaderSoFar, locals
<1>2. /\ evm_blocks \in Seq(EvmBlock) /\ n \in Nat
      /\ \A i \in 1 .. n : evm_blocks[i] \in EvmBlock /\ evm_blocks[i].number \in Nat
  BY <1>1, ReadyFacts
<1>3. EvmNum(fork_block) = NumberOf(p) /\ NumberOf(p) \in Nat
  BY <1>1, UnwindFacts
<1>4. /\ evm_blocks # <<>> => back \in EvmBlock /\ back = evm_blocks[n] /\ n \in 1 .. n
      /\ Last(native_blocks) \in NativeBlock
  <2>1. TypeOK /\ native_blocks \in Seq(NativeBlock) /\ native_blocks # <<>>
    BY <1>1, ReadyFacts DEF Ready, TypedLists
  <2>2. evm_blocks # <<>> => n # 0
    BY <1>2, EmptySeq
  <2> QED BY <1>2, <2>1, <2>2, BackType, FrontFacts DEF back, Last
<1>5. CASE DropEvmBlock
  <2>1. pc' = "unwind" /\ evm_blocks' = Front(evm_blocks) /\ evm_blocks # <<>>
    BY <1>1, <1>5 DEF DropEvmBlock, EvmBlockIsForked
  <2>2. Len(evm_blocks') = n - 1 /\ \A i \in 1 .. n - 1 : evm_blocks'[i] = evm_blocks[i]
    BY <1>2, <2>1, FrontFacts
  <2>3. \A i \in 1 .. n - 1 : i \in 1 .. n
    BY <1>2
  <2> QED BY <1>1, <2>1, <2>2, <2>3 DEF HeaderInv, FilledInv, HeaderSoFar
<1>6. ASSUME NEW e \in EvmBlock, evm_blocks # <<>>, HeaderIn(e) = HeaderIn(back),
             e.number = back.number, evm_blocks' = WithBack(evm_blocks, e)
      PROVE  /\ Len(evm_blocks') = n
             /\ \A i \in 1 .. n : evm_blocks'[i].number = evm_blocks[i].number
             /\ \A i \in 1 .. n : Fits(evm_blocks[i], p) => Fits(evm_blocks'[i], p)
  <2>1. /\ Len(evm_blocks') = n /\ evm_blocks'[n] = e
        /\ \A i \in 1 .. n - 1 : evm_blocks'[i] = evm_blocks[i]
    <3> DEFINE w == WithBack(evm_blocks, e)
    <3>1. Len(w) = n /\ w[n] = e /\ \A i \in 1 .. n - 1 : w[i] = evm_blocks[i]
      <4>1. evm_blocks \in Seq(EvmBlock) /\ evm_blocks # <<>> /\ e \in EvmBlock
        BY <1>2, <1>6
      <4> QED BY ONLY <4>1, WithBackFacts
    <3> HIDE DEF w
    <3> QED BY <1>6, <3>1 DEF w
  <2>2. \A i \in 1 .. n : i = n \/ i \in 1 .. n - 1
    BY <1>2
  <2>3. Fits(e, p) <=> Fits(back, p)
    BY <1>6, FitsSame
  <2> HIDE DEF p, n
  <2> QED BY <1>4, <1>6, <2>1, <2>2, <2>3
<1>7. CASE DropNativeBlock
  <2>1. pc' = "unwind"
    BY <1>1, <1>7 DEF DropNativeBlock
  <2>2. CASE UNCHANGED evm_blocks
    BY <1>1, <2>1, <2>2 DEF HeaderInv, FilledInv, HeaderSoFar
  <2>3. CASE ~UNCHANGED evm_blocks
    <3> DEFINE e == RemoveTransactions(back, Last(native_blocks))
    <3>1. /\ evm_blocks # <<>> /\ evm_blocks' = WithBack(evm_blocks, e)
          /\ CanRemoveTransactions(back, Last(native_blocks))
      BY <1>7, <2>3 DEF DropNativeBlock
    <3>2. HeaderIn(e) = HeaderIn(back) /\ e.number = back.number
      BY <1>4, <3>1 DEF HeaderIn, RemoveTransactions, EvmBlock
    <3>3. e \in EvmBlock
      BY <1>4, <3>1, RemovedType
    <3> HIDE DEF e
    <3> QED BY <1>1, <1>6, <2>1, <3>1, <3>2, <3>3 DEF HeaderInv, FilledInv, HeaderSoFar
  <2> QED BY <2>2, <2>3
<1>8. CASE ResetUpperBound
  <2> DEFINE e == set_upper_bound(back, Last(native_blocks))
  <2>1. /\ pc' = "extend" /\ evm_blocks # <<>> /\ ~EvmBlockIsForked
        /\ evm_blocks' = WithBack(evm_blocks, e)
    BY <1>8 DEF ResetUpperBound
  <2>2. HeaderIn(e) = HeaderIn(back) /\ e.number = back.number
    BY <1>4, <2>1 DEF HeaderIn, set_upper_bound, EvmBlock
  <2>3. e \in EvmBlock
    BY <1>4, <2>1, UpperBoundType
  <2>4. back.number <= NumberOf(p) /\ back.number \in Nat
    BY <1>2, <1>3, <1>4, <2>1 DEF EvmBlockIsForked
  <2>5. \A i \in 1 .. n : evm_blocks[i].number <= NumberOf(p)
    <3> TAKE i \in 1 .. n
    <3>1. CASE i = n
      BY <1>4, <2>1, <2>4, <3>1
    <3>2. CASE i # n
      <4>1. evm_blocks[i].number < back.number
        BY <1>1, <3>2, LowerThanBack
      <4> QED BY <1>2, <1>3, <2>4, <4>1
    <3> QED BY <3>1, <3>2
  <2> HIDE DEF e
  <2> QED BY <1>1, <1>6, <2>1, <2>2, <2>3, <2>5 DEF HeaderInv, FilledInv, HeaderSoFar
<1> QED BY <1>5, <1>7, <1>8

LEMMA SealedHeader ==
  ASSUME NEW b \in EvmBlock
  PROVE  /\ Sealed(b).number = b.number /\ HeaderIn(Sealed(b)) = HeaderIn(b)
         /\ \A id : Good(b, id) => Good(Sealed(b), id)
         /\ Sealed(b).prev_randao = b.prev_randao
<1>1. /\ Sealed(b).number = b.number /\ HeaderIn(Sealed(b)) = HeaderIn(b)
      /\ Sealed(b).prev_randao = b.prev_randao /\ Sealed(b).transactions = b.transactions
  BY DEF Sealed, EvmBlock, HeaderIn
<1> QED BY <1>1 DEF Good, Holds

LEMMA ExtendHeaders ==
  ASSUME CleanStart, Ready, HeaderInv, ExtendEvmChain
  PROVE  HeaderInv' /\ Authentic(Sealed(back))
<1> DEFINE p == new_block.prev
           b == Sealed(back)
           g == generate_new_evm_block(b)
           n == Len(evm_blocks)
           w == WithBack(evm_blocks, b)
<1>1. /\ pc = "extend" /\ pc' = "extend" /\ UNCHANGED new_block
      /\ evm_blocks' = Append(w, g)
  BY ExtendEffect DEF ExtendEvmChain, locals
<1>2. /\ evm_blocks \in Seq(EvmBlock) /\ evm_blocks # <<>> /\ n \in 1 .. n /\ n \in Nat
      /\ back = evm_blocks[n] /\ back \in EvmBlock /\ back.number \in Nat
      /\ p \in Histories /\ Timed(p)
  BY <1>1, NewBlockFacts, LenProperties
<1>3. /\ NumberOf(p) <= back.number /\ Good(back, p)
      /\ \A i \in 1 .. n : Fits(evm_blocks[i], p)
  BY <1>1, <1>2 DEF Ready, CacheInv, ExtendInv, HeaderInv, FilledInv, HeaderSoFar, back
<1>4. /\ b \in EvmBlock /\ b.number = back.number /\ Fits(b, p) /\ Good(b, p)
  BY <1>2, <1>3, SealedType, SealedHeader, FitsSame
<1>5. g \in EvmBlock
  BY <1>4, GeneratedType
<1> HIDE DEF b
<1>6. Fits(g, p)
  <2>1. b.number >= StartBlock.number
    BY <1>4 DEF Good
  <2> QED BY <1>2, <1>3, <1>4, <2>1, FitsGenerated
<1>7. Authentic(b)
  BY <1>2, <1>4, FitsAuthentic
<1> HIDE DEF g, p
<1>8. w \in Seq(EvmBlock) /\ Len(w) = n /\ w[n] = b /\ \A i \in 1 .. n - 1 : w[i] = evm_blocks[i]
  <2>1. evm_blocks \in Seq(EvmBlock) /\ evm_blocks # <<>> /\ b \in EvmBlock
    BY <1>2, <1>4
  <2> QED BY ONLY <2>1, WithBackFacts
<1> HIDE DEF w
<1>9. /\ Len(evm_blocks') = n + 1 /\ evm_blocks'[n + 1] = g
      /\ \A i \in 1 .. n : evm_blocks'[i] = w[i]
  BY <1>1, <1>5, <1>8, AppendedFacts
<1>10. \A i \in 1 .. n + 1 : i = n + 1 \/ i = n \/ (i \in 1 .. n - 1 /\ i \in 1 .. n)
  BY <1>2
<1>11. \A i \in 1 .. n + 1 : Fits(evm_blocks'[i], p)
  BY <1>2, <1>3, <1>4, <1>6, <1>8, <1>9, <1>10
<1> QED BY <1>1, <1>7, <1>9, <1>11 DEF HeaderInv, FilledInv, HeaderSoFar, b, p

\* What the new block's branch says of the EVM blocks before its own, and of that.
LEMMA NewBlockHeaders ==
  ASSUME HistoriesAreIds, CleanStart, Ready, pc \in {"extend", "fill"}
  PROVE  LET p  == new_block.prev
             id == new_block.id
             m  == NumberOf(id)
         IN  /\ m \in Nat /\ m > StartBlock.number
             /\ \A b : b.number \in Nat /\ b.number < m => (Fits(b, p) <=> Fits(b, id))
             /\ LastActionOf(id, m)
                  = IF new_block.actions = <<>> THEN LastActionOf(p, m) ELSE Last(new_block.actions)
             /\ LastConfigOf(id, m)
                  = IF new_block.new_config = None THEN LastConfigOf(p, m) ELSE new_block.new_config
             /\ \A k \in 1 .. Len(new_block.actions) : new_block.actions[k] \in NativeAction
             /\ new_block.actions \in Seq(NativeAction)
             /\ LastActionOf(p, m) = None \/ LastActionOf(p, m) \in NativeAction
<1> DEFINE p  == new_block.prev
           id == new_block.id
           m  == NumberOf(id)
           n  == Len(id)
<1>1. /\ p \in Histories /\ Len(p) \in Nat /\ id \in Histories /\ Timed(id) /\ n = Len(p) + 1
      /\ p = Prefix(id, Len(p)) /\ m = Number(id[n])
      /\ new_block.actions = id[n].actions /\ new_block.new_config = id[n].new_config
  BY NewBlockFacts
<1>2. n \in Nat /\ n # 0 /\ n \in 1 .. n /\ n - 1 = Len(p) /\ n \in 1 .. Len(id)
  BY <1>1
<1>3. m \in Nat /\ m > StartBlock.number
  BY <1>1, <1>2, PositionFacts, NumberType DEF Timed
<1>4. \A k \in 1 .. n : id[k].actions \in Seq(NativeAction)
  BY <1>1, PositionFacts, BodyTransactions
<1>5. new_block.actions \in Seq(NativeAction)
  BY <1>1, <1>2, <1>4
<1>6. \A k \in 1 .. Len(new_block.actions) : new_block.actions[k] \in NativeAction
  BY <1>5, ElementOfSeq
<1> HIDE DEF p, id, m, n
<1>7. \A b : b.number \in Nat /\ b.number < m => (Fits(b, p) <=> Fits(b, id))
  <2> SUFFICES ASSUME NEW b, b.number \in Nat, b.number < m PROVE Fits(b, p) <=> Fits(b, id)
    OBVIOUS
  <2>1. n \in 1 .. Len(id) /\ b.number < Number(id[n]) /\ Prefix(id, n - 1) = p
    BY <1>1, <1>2
  <2> QED BY <1>1, <2>1, FitsBelow
<1>8. /\ LastActionOf(id, m) = IF id[n].actions = <<>> THEN LastActionOf(Prefix(id, n - 1), m)
                                ELSE Last(id[n].actions)
      /\ LastConfigOf(id, m) = IF id[n].new_config = None THEN LastConfigOf(Prefix(id, n - 1), m)
                                ELSE id[n].new_config
  BY <1>1, <1>2, LastOfTip DEF n
<1>9. LastActionOf(p, m) = None \/ LastActionOf(p, m) \in NativeAction
  <2> DEFINE A == ActionPositions(id, Len(p), m)
  <2>1. Len(p) \in 0 .. Len(id)
    BY <1>1, <1>2 DEF n
  <2>2. LastActionOf(Prefix(id, Len(p)), m) = IF A = {} THEN None ELSE Last(id[Max(A)].actions)
    BY <1>1, <2>1, LastAre
  <2>3. ASSUME A # {} PROVE Last(id[Max(A)].actions) \in NativeAction
    <3>1. A \in SUBSET (0 .. Len(p))
      BY <1>1 DEF ActionPositions
    <3>2. Max(A) \in A
      BY <1>1, <2>3, <3>1, MaxExists
    <3>3. Max(A) \in 1 .. n /\ id[Max(A)].actions # <<>>
      BY <1>1, <1>2, <3>2 DEF ActionPositions
    <3>4. id[Max(A)].actions \in Seq(NativeAction)
      BY <1>4, <3>3 DEF n, id
    <3> HIDE DEF A
    <3> QED BY <3>3, <3>4, FrontFacts
  <2> QED BY <1>1, <2>2, <2>3
<1> QED BY <1>1, <1>2, <1>3, <1>5, <1>6, <1>7, <1>8, <1>9 DEF p, id, m

\* Replacing the last EVM block.
LEMMA BackReplaced ==
  ASSUME Ready, pc \in {"extend", "fill"}, NEW e \in EvmBlock
  PROVE  LET w == WithBack(evm_blocks, e)
             n == Len(evm_blocks)
         IN  /\ w \in Seq(EvmBlock) /\ Len(w) = n /\ n \in 1 .. n /\ n \in Nat
             /\ w[n] = e /\ Last(w) = e /\ \A i \in 1 .. n - 1 : w[i] = evm_blocks[i]
<1>1. /\ evm_blocks \in Seq(EvmBlock) /\ evm_blocks # <<>> /\ e \in EvmBlock
      /\ Len(evm_blocks) \in 1 .. Len(evm_blocks)
  BY NewBlockFacts
<1>2. Len(evm_blocks) \in Nat
  BY <1>1, LenProperties
<1> DEFINE w == WithBack(evm_blocks, e)
           n == Len(evm_blocks)
<1>3. w \in Seq(EvmBlock) /\ Len(w) = n /\ w[n] = e /\ \A i \in 1 .. n - 1 : w[i] = evm_blocks[i]
  BY ONLY <1>1, WithBackFacts
<1> HIDE DEF w
<1> QED BY <1>1, <1>2, <1>3 DEF Last, w

\* All of the new block's actions are pending.
LEMMA ConfigFilled ==
  ASSUME HistoriesAreIds, CleanStart, Ready, ApplyConfig
  PROVE  FilledInv' /\ Done' = 0
<1>1. pc = "extend" /\ UNCHANGED new_block /\ pending' = new_block.actions
  BY DEF ApplyConfig
<1>2. Len(new_block.actions) \in Nat /\ \A j \in 1 .. Len(new_block.actions) : 0 + j = j
  BY <1>1, NewBlockHeaders, LenProperties
<1>3. Done' = 0
  BY <1>1, <1>2 DEF Done
<1> QED BY <1>1, <1>2, <1>3 DEF FilledInv

LEMMA ConfigHeaders ==
  ASSUME HistoriesAreIds, CleanStart, Ready, HeaderInv, ApplyConfig
  PROVE  HeaderInv'
<1> DEFINE p  == new_block.prev
           id == new_block.id
           m  == NumberOf(id)
           n  == Len(evm_blocks)
           x  == new_block.new_config
           e  == [back EXCEPT !.consensus_parameter_index = x]
<1>1. /\ pc = "extend" /\ pc' = "fill" /\ UNCHANGED new_block
      /\ back.number >= EvmNum(new_block) /\ pending' = new_block.actions
      /\ IF x = None THEN UNCHANGED evm_blocks ELSE evm_blocks' = WithBack(evm_blocks, e)
  BY DEF ApplyConfig
<1>2. /\ back = evm_blocks[n] /\ back \in EvmBlock /\ back.number \in Nat
      /\ n \in 1 .. n /\ evm_blocks \in Seq(EvmBlock) /\ EvmNum(new_block) = m
      /\ new_block \in NativeBlock
  BY <1>1, NewBlockFacts
<1>3. /\ m \in Nat /\ m > StartBlock.number
      /\ \A b : b.number \in Nat /\ b.number < m => (Fits(b, p) <=> Fits(b, id))
      /\ LastConfigOf(id, m) = IF x = None THEN LastConfigOf(p, m) ELSE x
      /\ new_block.actions \in Seq(NativeAction)
  BY <1>1, NewBlockHeaders
<1>4. back.number = m
  <2>1. back.number <= m
    BY <1>1 DEF Ready, CacheInv, ExtendInv, back
  <2> QED BY <1>1, <1>2, <1>3, <2>1
<1>5. \A i \in 1 .. n : Fits(evm_blocks[i], p)
  BY <1>1 DEF HeaderInv, FilledInv, HeaderSoFar
<1>6. \A i \in 1 .. n - 1 : Fits(evm_blocks[i], id)
  <2> TAKE i \in 1 .. n - 1
  <2>1. i \in 1 .. n /\ i # n /\ n \in Nat
    BY <1>2, LenProperties
  <2>2. evm_blocks[i].number < m /\ evm_blocks[i].number \in Nat
    BY <1>1, <1>4, <2>1, LowerThanBack, ReadyFacts
  <2> QED BY <1>3, <1>5, <2>1, <2>2
<1>7. HeaderIn(back) = HeaderAfter(LastActionOf(p, m), LastConfigOf(p, m))
  <2>1. Fits(back, p)
    BY <1>2, <1>5
  <2> QED BY <1>3, <1>4, <2>1 DEF Fits, HeaderOf
<1>8. e \in EvmBlock
  BY <1>2 DEF EvmBlock, NativeBlock, Optional
<1>9. HeaderIn(e) = HeaderAfter(LastActionOf(p, m), x)
  <2>1. HeaderIn(e) = [HeaderIn(back) EXCEPT !.config = x]
    BY <1>2 DEF HeaderIn, EvmBlock
  <2> QED BY <1>7, <2>1 DEF HeaderAfter
<1>10. /\ Len(evm_blocks') = n
       /\ \A i \in 1 .. n - 1 : evm_blocks'[i] = evm_blocks[i]
       /\ HeaderIn(back') = HeaderAfter(LastActionOf(p, m), LastConfigOf(id, m))
  <2>1. CASE x = None
    <3>1. evm_blocks' = evm_blocks /\ back' = back
      BY <1>1, <2>1 DEF back
    <3>2. LastConfigOf(id, m) = LastConfigOf(p, m)
      BY <1>3, <2>1
    <3> QED BY <1>7, <3>1, <3>2
  <2>2. CASE x # None
    <3>1. evm_blocks' = WithBack(evm_blocks, e)
      BY <1>1, <2>2
    <3>2. LastConfigOf(id, m) = x
      BY <1>3, <2>2
    <3> HIDE DEF e
    <3>3. back' = e /\ Len(evm_blocks') = n /\ \A i \in 1 .. n - 1 : evm_blocks'[i] = evm_blocks[i]
      BY <1>1, <1>8, <3>1, BackReplaced DEF back
    <3> QED BY <1>9, <3>2, <3>3
  <2> QED BY <2>1, <2>2
<1>11. FilledInv' /\ Done' = 0 /\ LastSeen' = LastActionOf(p, m)
  <2>1. FilledInv' /\ Done' = 0
    BY ConfigFilled
  <2> QED BY <1>1, <2>1 DEF LastSeen
<1> QED BY <1>1, <1>6, <1>10, <1>11 DEF HeaderInv, HeaderSoFar

\* The action that the EVM block being filled saw last, and the next one.
LEMMA SeenFacts ==
  ASSUME HistoriesAreIds, CleanStart, Ready, FilledInv, pc = "fill"
  PROVE  /\ Done \in 0 .. Len(new_block.actions) /\ Len(new_block.actions) \in Nat
         /\ LastSeen = None \/ LastSeen \in NativeAction
         /\ pending # <<>> =>
              /\ Head(pending) \in NativeAction /\ Head(pending) = new_block.actions[Done + 1]
              /\ Done + 1 \in 1 .. Len(new_block.actions)
         /\ pending = <<>> =>
              LastSeen = LastActionOf(new_block.id, NumberOf(new_block.id))
<1> DEFINE acts == new_block.actions
           l    == Len(acts)
           m    == NumberOf(new_block.id)
<1>1. /\ acts \in Seq(NativeAction) /\ l \in Nat /\ \A k \in 1 .. l : acts[k] \in NativeAction
      /\ LastActionOf(new_block.prev, m) = None \/ LastActionOf(new_block.prev, m) \in NativeAction
      /\ LastActionOf(new_block.id, m)
           = IF acts = <<>> THEN LastActionOf(new_block.prev, m) ELSE Last(acts)
  BY NewBlockHeaders, LenProperties
<1>2. /\ Done \in 0 .. l /\ Done = l - Len(pending)
      /\ \A j \in 1 .. Len(pending) : pending[j] = acts[Done + j]
  BY DEF FilledInv, Done
<1>3. pending \in Seq(NativeAction) /\ Len(pending) \in Nat
  BY LenProperties DEF Ready, TypedLists, TypeOK
<1>4. LastSeen = IF Done = 0 THEN LastActionOf(new_block.prev, m) ELSE acts[Done]
  BY DEF LastSeen
<1> HIDE DEF acts, l, m
<1>5. LastSeen = None \/ LastSeen \in NativeAction
  <2>1. Done # 0 => Done \in 1 .. l
    BY <1>1, <1>2
  <2> QED BY <1>1, <1>4, <2>1
<1>6. ASSUME pending # <<>>
      PROVE  /\ Head(pending) \in NativeAction /\ Head(pending) = acts[Done + 1]
             /\ Done + 1 \in 1 .. l
  <2>1. Len(pending) # 0
    BY <1>3, <1>6, EmptySeq
  <2>2. 1 \in 1 .. Len(pending) /\ Done + 1 \in 1 .. l
    BY <1>1, <1>2, <1>3, <2>1
  <2>3. Head(pending) = pending[1] /\ Head(pending) \in NativeAction
    BY <1>3, <1>6, HeadTailProperties, ElementOfSeq, <2>2
  <2> QED BY <1>2, <2>2, <2>3
<1>7. ASSUME pending = <<>>
      PROVE  LastSeen = LastActionOf(new_block.id, m)
  <2>1. Done = l
    BY <1>1, <1>2, <1>7, EmptySeq
  <2>2. CASE l = 0
    <3>1. acts = <<>>
      BY <1>1, <2>2, EmptySeq DEF l
    <3> QED BY <1>1, <1>4, <2>1, <2>2, <3>1
  <2>3. CASE l # 0
    <3>1. acts # <<>> /\ Last(acts) = acts[l]
      BY <1>1, <2>3, EmptySeq DEF l, Last
    <3> QED BY <1>1, <1>4, <2>1, <2>3, <3>1
  <2> QED BY <2>2, <2>3
<1> QED BY <1>1, <1>2, <1>5, <1>6, <1>7 DEF acts, l, m

LEMMA TransactionFilled ==
  ASSUME HistoriesAreIds, CleanStart, Ready, FilledInv, AddTransaction
  PROVE  FilledInv' /\ LastSeen' = Head(pending)
<1> DEFINE acts == new_block.actions
           na   == Head(pending)
<1>1. /\ pc = "fill" /\ pending # <<>> /\ UNCHANGED new_block /\ pending' = Tail(pending)
  BY DEF AddTransaction
<1>2. /\ Done \in 0 .. Len(acts) /\ Len(acts) \in Nat
      /\ na = acts[Done + 1] /\ Done + 1 \in 1 .. Len(acts)
  BY <1>1, SeenFacts
<1>3. /\ Done = Len(acts) - Len(pending)
      /\ \A j \in 1 .. Len(pending) : pending[j] = acts[Done + j]
  BY <1>1 DEF FilledInv, Done
<1> HIDE DEF acts
<1>4. /\ pending \in Seq(NativeAction) /\ Len(pending) \in Nat
      /\ Len(pending') = Len(pending) - 1
      /\ \A j \in 1 .. Len(pending) - 1 : pending'[j] = pending[j + 1]
  <2>1. pending \in Seq(NativeAction) /\ pending # <<>>
    BY <1>1 DEF Ready, TypedLists, TypeOK
  <2> QED BY <1>1, <2>1, HeadTailProperties, LenProperties
<1>5. Done' = Done + 1
  <2>1. Done' = Len(acts) - (Len(pending) - 1)
    BY <1>1, <1>4 DEF Done, acts
  <2> QED BY <1>2, <1>3, <1>4, <2>1
<1>6. LastSeen' = na
  <2>1. Done' # 0
    BY <1>2, <1>5
  <2> QED BY <1>1, <1>2, <1>5, <2>1 DEF LastSeen, acts
<1>7. \A j \in 1 .. Len(pending') : pending'[j] = acts[Done' + j]
  <2> TAKE j \in 1 .. Len(pending')
  <2>1. j \in 1 .. Len(pending) - 1
    BY <1>4
  <2>2. j + 1 \in 1 .. Len(pending)
    BY <1>4, <2>1
  <2>3. Done + (j + 1) = Done' + j
    <3>1. Done \in Nat
      BY <1>2
    <3>2. j \in Nat
      BY <1>4, <2>1
    <3>3. \A a, b \in Nat : a + (b + 1) = (a + 1) + b
      OBVIOUS
    <3> QED BY <1>5, <3>1, <3>2, <3>3
  <2> QED BY <1>3, <1>4, <2>1, <2>2, <2>3
<1>8. Done' \in 0 .. Len(acts)
  BY <1>2, <1>5
<1> QED BY <1>1, <1>6, <1>7, <1>8 DEF FilledInv, acts

LEMMA TransactionHeaders ==
  ASSUME HistoriesAreIds, CleanStart, Ready, HeaderInv, AddTransaction
  PROVE  HeaderInv'
<1> DEFINE id   == new_block.id
           na   == Head(pending)
           e    == BlockWithTx(back, deserialize_tx(na))
           n    == Len(evm_blocks)
           config == LastConfigOf(id, NumberOf(id))
<1>1. /\ pc = "fill" /\ pc' = "fill" /\ pending # <<>> /\ UNCHANGED new_block
      /\ Acceptable(back, deserialize_tx(na)) /\ FilledInv
      /\ evm_blocks' = WithBack(evm_blocks, e)
  BY DEF AddTransaction, HeaderInv
<1>2. (LastSeen = None \/ LastSeen \in NativeAction) /\ na \in NativeAction
  BY <1>1, SeenFacts
<1>3. /\ \A i \in 1 .. n - 1 : Fits(evm_blocks[i], id)
      /\ HeaderIn(back) = HeaderAfter(LastSeen, config)
  BY <1>1 DEF HeaderInv, HeaderSoFar
<1>4. back \in EvmBlock
  BY <1>1, NewBlockFacts
<1>5. e \in EvmBlock
  BY <1>1, <1>2, <1>4, DeserializedType, WithTxType
<1>6. HeaderIn(e) = HeaderAfter(na, config)
  <2> HIDE DEF na, config
  <2>1. LastSeen = None \/ LastSeen \in NativeAction
    BY <1>2
  <2>2. na \in NativeAction /\ Acceptable(back, deserialize_tx(na))
    BY <1>1, <1>2
  <2>3. HeaderIn(back) = HeaderAfter(LastSeen, config)
    BY <1>3
  <2> QED BY ONLY <1>4, <2>1, <2>2, <2>3, AfterTransaction
<1>7. FilledInv' /\ LastSeen' = na
  BY <1>1, TransactionFilled
<1> HIDE DEF e
<1>8. back' = e /\ Len(evm_blocks') = n /\ \A i \in 1 .. n - 1 : evm_blocks'[i] = evm_blocks[i]
  BY <1>1, <1>5, BackReplaced DEF back
<1>9. HeaderIn(back') = HeaderAfter(LastSeen', config)
  BY <1>6, <1>7, <1>8
<1> QED BY <1>1, <1>3, <1>7, <1>8, <1>9 DEF HeaderInv, HeaderSoFar

LEMMA FinishHeaders ==
  ASSUME HistoriesAreIds, CleanStart, Ready, HeaderInv, FinishAndTrim
  PROVE  HeaderInv'
<1> DEFINE id == new_block.id
           m  == NumberOf(id)
           n  == Len(evm_blocks)
           e  == set_upper_bound(back, new_block)
           u  == WithBack(evm_blocks, e)
           j  == Min(RetainedEvm)
<1>1. /\ pc = "fill" /\ pc' = "idle" /\ UNCHANGED new_block /\ pending = <<>>
      /\ RetainedNative # {} /\ IrreversibleIndices # {} /\ RetainedEvm # {}
      /\ native_blocks' = From(native_blocks, Min(RetainedNative))
      /\ evm_blocks' = From(u, j)
  BY DEF FinishAndTrim, locals, EvmBlocksWithUpperBound
<1>2. /\ Last(native_blocks) = new_block /\ back.number = m
      /\ native_blocks \in Seq(NativeBlock) /\ native_blocks # <<>> /\ Window(native_blocks)
      /\ back \in EvmBlock /\ new_block \in NativeBlock /\ evm_blocks \in Seq(EvmBlock)
  BY <1>1, ReadyFacts, NewBlockFacts DEF Ready, CacheInv, FillInv, back
<1>3. Min(RetainedNative) \in 1 .. Len(native_blocks) /\ j \in 1 .. n
  <2>1. Min(RetainedNative) \in RetainedNative /\ j \in RetainedEvm
    BY <1>1, LibFacts DEF Ready
  <2> QED BY <1>2, <2>1, LenProperties DEF RetainedNative, RetainedEvm
<1>4. Branch' = id
  <2>1. Last(From(native_blocks, Min(RetainedNative))) = Last(native_blocks)
    BY <1>2, <1>3, WindowFrom
  <2> QED BY <1>1, <1>2, <2>1 DEF Branch
<1>5. e \in EvmBlock /\ e.number = m /\ HeaderIn(e) = HeaderIn(back)
  <2>1. e \in EvmBlock
    BY <1>2, UpperBoundType
  <2> QED BY <1>2, <2>1 DEF set_upper_bound, EvmBlock, HeaderIn
<1>6. Fits(e, id)
  <2>1. HeaderIn(back) = HeaderAfter(LastSeen, LastConfigOf(id, m))
    BY <1>1 DEF HeaderInv, FilledInv, HeaderSoFar
  <2>2. LastSeen = LastActionOf(id, m)
    BY <1>1, SeenFacts DEF HeaderInv
  <2>3. m \in Nat /\ m > StartBlock.number
    BY <1>1, NewBlockHeaders
  <2> QED BY <1>5, <2>1, <2>2, <2>3 DEF Fits, HeaderOf
<1> HIDE DEF e, j
<1>7. /\ u \in Seq(EvmBlock) /\ Len(u) = n /\ n \in Nat
      /\ u[n] = e /\ \A i \in 1 .. n - 1 : u[i] = evm_blocks[i]
  BY <1>1, <1>5, BackReplaced
<1>8. \A i \in 1 .. n : Fits(u[i], id)
  <2>1. \A i \in 1 .. n : i = n \/ i \in 1 .. n - 1
    BY <1>7
  <2>2. \A i \in 1 .. n - 1 : Fits(evm_blocks[i], id)
    BY <1>1 DEF HeaderInv, FilledInv, HeaderSoFar
  <2> QED BY <1>6, <1>7, <2>1, <2>2
<1> HIDE DEF u
<1>9. \A i \in 1 .. Len(evm_blocks') : Fits(evm_blocks'[i], id)
  <2>1. /\ Len(From(u, j)) = n - j + 1
        /\ \A i \in 1 .. n - j + 1 : From(u, j)[i] = u[j + i - 1]
    BY <1>3, <1>7, FromFacts
  <2>2. \A i \in 1 .. n - j + 1 : j + i - 1 \in 1 .. n
    BY <1>3, <1>7
  <2> QED BY <1>1, <1>8, <2>1, <2>2
<1> QED BY <1>1, <1>4, <1>9 DEF HeaderInv, FilledInv, HeaderSoFar

LEMMA HandlerHeaders ==
  ASSUME HistoriesAreIds, CleanStart, Ready, HeaderInv, HandlerStep
  PROVE  HeaderInv'
<1>1. CASE DropEvmBlock \/ DropNativeBlock \/ ResetUpperBound
  BY <1>1, UnwindHeaders
<1>2. CASE FailToRemove \/ FailToSetUpperBound \/ FailToSetConfig \/ RejectTransaction \/ FailToTrim
  <2>1. Exit
    BY <1>2 DEF FailToRemove, FailToSetUpperBound, FailToSetConfig, RejectTransaction, FailToTrim
  <2> QED BY <2>1 DEF Exit, HeaderInv, FilledInv, HeaderSoFar
<1>3. CASE FinishWithoutLib
  <2>1. pc = "fill" /\ IrreversibleIndices = {}
    BY <1>3 DEF FinishWithoutLib
  <2> QED BY <2>1, LibIs
<1> QED BY <1>1, <1>2, <1>3, ExtendHeaders, ConfigHeaders, TransactionHeaders, FinishHeaders
        DEF HandlerStep
-----------------------------------------------------------------------------
(* The headers of what is published, inserted and stored *)

LEMMA HandlerAuthentic ==
  ASSUME CleanStart, Ready, HeaderInv, AuthenticInv, UNCHANGED <<inserted, canonical>>, HandlerStep
  PROVE  AuthenticInv'
<1>1. CASE UNCHANGED published
  BY <1>1 DEF AuthenticInv
<1>2. ASSUME ExtendEvmChain, back \in EvmBlock, published \in Seq(EvmBlock),
             published' = Append(published, Sealed(back))
      PROVE  AuthenticInv'
  <2> DEFINE b == Sealed(back)
  <2>1. b \in EvmBlock
    BY <1>2, SealedType DEF Sealed
  <2>2. Authentic(b)
    BY <1>2, ExtendHeaders
  <2> HIDE DEF b
  <2>3. /\ Len(published) \in Nat /\ Len(Append(published, b)) = Len(published) + 1
        /\ \A i \in 1 .. Len(published) : Append(published, b)[i] = published[i]
        /\ Append(published, b)[Len(published) + 1] = b
    BY <1>2, <2>1, AppendedFacts
  <2>4. \A i \in 1 .. Len(published) + 1 : i \in 1 .. Len(published) \/ i = Len(published) + 1
    BY <2>3
  <2>5. \A i \in 1 .. Len(Append(published, b)) : Authentic(Append(published, b)[i])
    BY <2>2, <2>3, <2>4 DEF AuthenticInv
  <2>6. published' = Append(published, b)
    BY <1>2 DEF b
  <2> QED BY <2>5, <2>6 DEF AuthenticInv
<1> QED BY <1>1, <1>2, HandlerPublishes

LEMMA StoreAuthentic ==
  ASSUME NodeInv, AuthenticInv, StoreStep
  PROVE  AuthenticInv'
<1> DEFINE b  == published[handled + 1]
           at == b.number - StartBlock.number
<1>1. UNCHANGED published
  BY StoreQuiet
<1>2. /\ b \in EvmBlock /\ handled + 1 \in 1 .. Len(published)
      /\ at \in 0 .. Len(inserted) /\ Len(inserted) \in Nat
      /\ Len(inserted') = at + 1
      /\ \A i \in 1 .. at : inserted'[i] = inserted[i]
      /\ inserted'[at + 1] = Stored(b)
  BY StoreTakes, LenProperties
<1>3. Authentic(Stored(b))
  <2>1. Authentic(b)
    BY <1>2 DEF AuthenticInv
  <2>2. Stored(b).number = b.number /\ Stored(b).prev_randao = b.prev_randao
        /\ HeaderIn(Stored(b)) = HeaderIn(b)
    BY <1>2 DEF Stored, EvmBlock, HeaderIn
  <2> QED BY <2>1, <2>2 DEF Authentic
<1> HIDE DEF b, at
<1>4. \A i \in 1 .. Len(inserted') : Authentic(inserted'[i])
  <2> TAKE i \in 1 .. Len(inserted')
  <2>1. CASE i \in 1 .. at
    <3>1. i \in 1 .. Len(inserted)
      BY <1>2, <2>1
    <3> QED BY <1>2, <2>1, <3>1 DEF AuthenticInv
  <2>2. CASE i = at + 1
    BY <1>2, <1>3, <2>2
  <2> QED BY <1>2, <2>1, <2>2
<1>5. canonical' = canonical \/ canonical' = inserted'
  BY StoreFacts DEF db_vars
<1>6. \A i \in 1 .. Len(canonical') : Authentic(canonical'[i])
  BY <1>4, <1>5 DEF AuthenticInv
<1> QED BY <1>1, <1>4, <1>6 DEF AuthenticInv

\* load_head reads a block with the header of the branch that it names.
LEMMA RestartHeaders ==
  ASSUME HistoriesAreIds, CleanStart, NodeInv, Ready, StartInv, FinalInv, AuthenticInv,
         NEW height, height = None \/ (height \in Nat /\ height <= StartBlock.number),
         Restart(height)
  PROVE  HeaderInv' /\ AuthenticInv'
<1> DEFINE start == get_canonical_block_at_height(height)
           id    == start.prev_randao
           num   == to_block_num(id)
           nb    == LoadedNative(start, num)
<1>1. /\ start \in EvmBlock
      /\ id \in Histories /\ Timed(id) /\ Firm(id) /\ start.number = NumberOf(id)
      /\ StartBlockNum + Len(id) < lib
      /\ id = <<>> \/ Len(best) > Len(id)
      /\ Len(best) > Len(id) => Number(best[Len(id) + 1]) > NumberOf(id)
      /\ \E k \in 1 .. Len(canonical) : start = canonical[k]
  BY StartFirm DEF Ready
<1>2. /\ native_blocks' = <<nb>> /\ evm_blocks' = <<start>> /\ pc' = "idle"
      /\ published' = <<>> /\ inserted' = canonical /\ UNCHANGED canonical
  BY DEF Restart, db_vars
<1>3. Authentic(start) /\ id # Zero
  BY <1>1 DEF AuthenticInv, CleanStart
<1>4. best \in Histories /\ lib \in Nat
  BY DEF Ready, ShipTypeOK, StreamTypeOK
<1>5. Last(<<nb>>).id = id
  <2> HIDE DEF start
  <2> QED BY <1>1, <1>4, LoadedBased
<1> HIDE DEF nb
<1>6. Branch' = id
  BY <1>2, <1>5 DEF Branch
<1> HIDE DEF start
<1>7. start.number \in Nat /\ StartBlock.number \in Nat /\ start.number >= StartBlock.number
  <2>1. PICK k \in 1 .. Len(canonical) : start = canonical[k]
    BY <1>1
  <2>2. canonical \in Seq(EvmBlock) /\ Rooted(canonical)
    BY DEF NodeInv, StoreTypeOK, ChainInv
  <2>3. start.number = StartBlock.number + k - 1 /\ start.number \in Nat
    BY <2>1, <2>2, RootedAt
  <2>4. StartBlock.number \in Nat /\ k \in Nat /\ k >= 1
    BY <2>2, StartNumber, LenProperties
  <2> QED BY <2>3, <2>4
<1>8. Fits(start, id)
  BY <1>3, <1>7 DEF Authentic, Fits
<1>9. Len(evm_blocks') = 1 /\ evm_blocks'[1] = start
  BY <1>2
<1>10. HeaderInv'
  BY <1>2, <1>6, <1>8, <1>9 DEF HeaderInv, FilledInv, HeaderSoFar
<1>11. AuthenticInv'
  BY <1>2 DEF AuthenticInv
<1> QED BY <1>10, <1>11

-----------------------------------------------------------------------------
(* Every step keeps the headers *)

LEMMA InitHeaders ==
  ASSUME HistoriesAreIds, CleanStart, SystemInit
  PROVE  HeaderInv
<1>1. evm_blocks = <<StartBlock>> /\ pc = "idle"
  BY DEF SystemInit, Init
<1>2. Len(evm_blocks) = 1 /\ evm_blocks[1] = StartBlock
  BY <1>1
<1>3. ~(StartBlock.number > StartBlock.number)
  BY StartNumber
<1> QED BY <1>1, <1>2, <1>3 DEF HeaderInv, FilledInv, HeaderSoFar, Fits

LEMMA InitAuthentic ==
  ASSUME StorageInit
  PROVE  AuthenticInv
<1>1. published = <<>> /\ inserted = <<StartBlock>> /\ canonical = <<StartBlock>>
  BY DEF StorageInit, SystemInit, Init
<1>2. Authentic(StartBlock)
  BY StartNumber DEF Authentic
<1> QED BY <1>1, <1>2 DEF AuthenticInv

LEMMA NextHeaders ==
  ASSUME HistoriesAreIds, CleanStart, Ready, HeaderInv, ForkAgrees', [SystemNext]_allvars
  PROVE  HeaderInv'
<1>1. CASE Deliver
  <2>1. PICK nb : ReadBlock(nb) /\ Receive(nb)
    BY <1>1 DEF Deliver
  <2>2. PICK c \in Nat : Message(nb, c)
    BY <2>1, ReadNext DEF Ready
  <2> QED BY <2>1, <2>2, ReceiveHeaders
<1>2. CASE ChainStep \/ ConnectionStep \/ UNCHANGED allvars
  BY <1>2, HeaderSame DEF ChainStep, ConnectionStep, allvars, vars, caches, locals
<1>3. CASE NodeStep
  <2>1. CASE HandlerStep
    BY <2>1, HandlerHeaders
  <2>2. CASE OpenExecutionEngine
    BY <2>2, HeaderSame DEF OpenExecutionEngine, caches, locals
  <2> QED BY <1>3, <2>1, <2>2 DEF NodeStep
<1> QED BY <1>1, <1>2, <1>3 DEF SystemNext

LEMMA NextAuthentic ==
  ASSUME HistoriesAreIds, CleanStart, OptionUnused, WholeInv, HeaderInv, AuthenticInv,
         ForkAgrees', [StorageNext]_nodevars
  PROVE  HeaderInv' /\ AuthenticInv'
<1>1. CASE [SystemNext]_allvars /\ ~ \E height \in Heights : Restart(height)
  <2>1. HeaderInv'
    BY <1>1, NextHeaders DEF WholeInv
  <2>2. CASE StoreStep
    BY <2>1, <2>2, StoreAuthentic DEF WholeInv
  <2>3. CASE ConvertStep
    BY <2>1, <2>3, HandlerAuthentic DEF ConvertStep, store_vars, db_vars, WholeInv
  <2>4. CASE ~StoreStep /\ ~ConvertStep
    <3>1. /\ UNCHANGED store_vars
          /\ HandleNative \/ ChainStep \/ ConnectionStep \/ UNCHANGED nodevars
      BY <1>1, <2>4 DEF StorageNext, HandleNative, nodevars
    <3>2. CASE HandleNative
      <4>1. PICK nb : Receive(nb)
        BY <3>2 DEF HandleNative, Deliver
      <4>2. UNCHANGED published
        BY <4>1 DEF Receive, ReceiveBeforeGenesis, ReceiveDuplicate, ReceiveUnknownFork,
           ReceiveFork, ReceiveLinked, Exit, shared, vars
      <4> QED BY <2>1, <3>1, <4>2 DEF AuthenticInv, store_vars, db_vars
    <3>3. CASE ChainStep \/ ConnectionStep \/ UNCHANGED nodevars
      <4>1. UNCHANGED published
        BY <3>3 DEF ChainStep, ConnectionStep, nodevars, allvars, vars
      <4> QED BY <2>1, <3>1, <4>1 DEF AuthenticInv, store_vars, db_vars
    <3> QED BY <3>1, <3>2, <3>3
  <2> QED BY <2>2, <2>3, <2>4
<1>2. ASSUME NEW height \in Heights, Restart(height)
      PROVE  HeaderInv' /\ AuthenticInv'
  <2>2. height = None \/ (height \in Nat /\ height <= StartBlock.number)
    BY <1>2, StorageAssumption DEF OptionUnused, Optional
  <2> QED BY <1>2, <2>2, RestartHeaders DEF WholeInv
<1> QED BY <1>1, <1>2, StepOrRestart DEF WholeInv

LEMMA HeaderMatches == HeaderInv => HeaderMatch
<1> SUFFICES ASSUME HeaderInv, pc = "idle", NEW i \in Converted(evm_blocks)
             PROVE  HeaderIn(evm_blocks[i]) = HeaderOf(Branch, evm_blocks[i].number)
  BY DEF HeaderMatch
<1> QED BY DEF HeaderInv, Fits, Converted

-----------------------------------------------------------------------------
(* The theorems about the headers *)

\* For every native chain, whatever forks and failed connections happen: the EVM blocks of
\* the converter have the version, base fee, gas prices and consensus parameters that the
\* native branch says, as if the node had seen no other, provided that no fork takes back
\* from the EVM block of its fork point what had set its header (ForkAgrees), which
\* remove_last_evm_block and the truncation of the last EVM block do not undo.
THEOREM HeadersOfTheBranch ==
  ASSUME HistoriesAreIds, CleanStart
  PROVE  SystemSpec /\ []ForkAgrees => []HeaderMatch
<1> DEFINE I == Ready /\ HeaderInv
<1>1. SystemInit => I
  BY InitReady, InitHeaders
<1>2. I /\ ForkAgrees' /\ [SystemNext]_allvars => I'
  BY NextReady, NextHeaders
<1>3. I => HeaderMatch
  BY HeaderMatches
<1> HIDE DEF I
<1> QED BY <1>1, <1>2, <1>3, PTL DEF SystemSpec

\* So are they after every restart, which resumes at a block of the database: what is
\* stored has the header of the branch that its upper bound names.
THEOREM HeadersThroughRestarts ==
  ASSUME HistoriesAreIds, IdsHaveNumbers, CleanStart, OptionUnused
  PROVE  StorageSpec /\ []ForkAgrees => []HeaderMatch
<1> DEFINE I == WholeInv /\ HeaderInv /\ AuthenticInv
<1>1. StorageInit => I
  BY InitWhole, InitHeaders, InitAuthentic DEF StorageInit
<1>2. I /\ ForkAgrees' /\ [StorageNext]_nodevars => I'
  BY NextWhole, NextAuthentic
<1>3. I => HeaderMatch
  BY HeaderMatches
<1> HIDE DEF I
<1> QED BY <1>1, <1>2, <1>3, PTL DEF StorageSpec

-----------------------------------------------------------------------------
(* What the receiver sends next can be linked *)

\* Between two native blocks, what was last sent on an open connection, and the block after
\* which a new one would resume, are in the cache; the latter is irreversible.  While a
\* block is handled nothing else is sent.
SentInv ==
  /\ pc = "idle" =>
       LET base == Len(native_blocks[1].id)
       IN  /\ conn = "reading" => \E k \in base .. Len(Branch) : sent = Prefix(Branch, k)
           /\ \E k \in base .. Len(Branch) :
                ResumeAfter = StartBlockNum + k /\ Firm(Prefix(Branch, k))
  /\ pc \in {"unwind", "extend", "fill"} =>
       sent = new_block.id /\ last_lib = lib /\ last_block_num = new_block.block_num

LEMMA BaseFacts ==
  ASSUME Ready, pc # "exited"
  PROVE  LET base == Len(native_blocks[1].id)
         IN  /\ base \in 0 .. Len(Branch) /\ base = Len(Branch) - Len(native_blocks) + 1
             /\ Prefix(best, base) = Prefix(Branch, base)
             /\ base <= Len(best) /\ StartBlockNum + base <= lib
<1>1. /\ native_blocks \in Seq(NativeBlock) /\ native_blocks # <<>> /\ Window(native_blocks)
      /\ Based(native_blocks) /\ Len(native_blocks) \in Nat \ {0}
      /\ Branch \in Histories /\ Len(Branch) \in Nat /\ best \in Histories /\ Len(best) \in Nat
  BY ReadyFacts
<1>2. 1 \in 1 .. Len(native_blocks)
  BY <1>1
<1>3. /\ At(native_blocks, 1) \in 0 .. Len(Branch)
      /\ native_blocks[1].id = Prefix(Branch, At(native_blocks, 1))
      /\ Len(native_blocks[1].id) = At(native_blocks, 1)
  BY <1>1, <1>2, WindowFacts DEF Branch
<1>4. At(native_blocks, 1) = Len(Branch) - Len(native_blocks) + 1
  BY <1>1 DEF At, Branch
<1>5. Firm(native_blocks[1].id)
  BY <1>1 DEF Based
<1> QED BY <1>1, <1>3, <1>4, <1>5 DEF Firm

\* The next block extends one of the cache, wherever the best branch has gone meanwhile.
LEMMA ReadCached ==
  ASSUME HistoriesAreIds, CleanStart, Ready, SentInv, pc = "idle", NEW nb, ReadBlock(nb)
  PROVE  /\ sent' = nb.id /\ last_lib' = lib /\ last_block_num' = nb.block_num
         /\ UNCHANGED <<best, lib>>
         /\ \E c \in Nat :
              /\ Message(nb, c) /\ Cached(nb.prev)
              /\ c \in Len(native_blocks[1].id) .. Len(Branch)
<1> DEFINE base == Len(native_blocks[1].id)
<1>1. /\ ShipTypeOK /\ StreamTypeOK /\ StreamInv /\ best \in Histories /\ Timed(best)
      /\ Branch \in Histories /\ Len(Branch) \in Nat /\ Len(best) \in Nat
      /\ native_blocks \in Seq(NativeBlock) /\ native_blocks # <<>> /\ Window(native_blocks)
      /\ Len(native_blocks) \in Nat \ {0}
  BY ReadyFacts DEF Ready
<1>2. /\ base \in 0 .. Len(Branch) /\ base = Len(Branch) - Len(native_blocks) + 1
      /\ Prefix(best, base) = Prefix(Branch, base) /\ base <= Len(best)
  BY BaseFacts
<1>3. /\ nb \in NativeBlock /\ UNCHANGED <<best, lib>> /\ nb.lib = lib /\ SendsNext(nb)
  <2>1. nb \in NativeBlock /\ UNCHANGED chain_vars /\ nb.lib = lib /\ (SendsOld(nb) \/ SendsNext(nb))
    BY <1>1, ReadFacts
  <2>2. ~SendsOld(nb)
    BY <1>1 DEF StreamInv, SendsOld
  <2> QED BY <2>1, <2>2 DEF chain_vars
<1>4. PICK c \in Nat : Message(nb, c)
  BY <1>1, ReadNext
<1>5. c = Common
  <2>1. Common \in Nat
    BY <1>1, CommonFacts, LenProperties DEF Agree, StreamTypeOK, Histories
  <2>2. nb.block_num = StartBlockNum + c + 1 /\ nb.block_num = StartBlockNum + Common + 1
    BY <1>3, <1>4 DEF Message, SendsNext
  <2> QED BY <2>1, <2>2, ChannelAssumption
<1>6. PICK k \in base .. Len(Branch) : sent = Prefix(Branch, k)
  BY DEF SentInv, ReadBlock
<1>7. /\ k \in 0 .. Len(Branch) /\ Len(sent) = k
      /\ \A j \in 0 .. k : Prefix(sent, j) = Prefix(Branch, j)
  <2>1. k \in 0 .. Len(Branch)
    BY <1>1, <1>2
  <2>2. \A j \in 0 .. k : Prefix(Prefix(Branch, k), j) = Prefix(Branch, j)
    BY <1>1, <2>1, PrefixOfPrefix DEF Histories, Prefix
  <2> QED BY <1>1, <1>6, <2>1, <2>2, PrefixType
<1> HIDE DEF base
<1>8. base \in Nat /\ base \in 0 .. k
  BY <1>1, <1>2, <1>6
<1>9. Agree(base)
  BY <1>2, <1>7, <1>8 DEF Agree
<1>10. base <= c /\ Agree(c)
  BY <1>1, <1>5, <1>8, <1>9, CommonFacts
<1>11. c \in 0 .. k /\ c \in base .. Len(Branch)
  BY <1>1, <1>2, <1>6, <1>7, <1>8, <1>10 DEF Agree
<1>12. nb.prev = Prefix(Branch, c)
  BY <1>4, <1>7, <1>10, <1>11 DEF Message, Agree
<1>13. Cached(nb.prev)
  <2> DEFINE i == c - Len(Branch) + Len(native_blocks)
  <2>1. i \in 1 .. Len(native_blocks) /\ Len(Branch) - Len(native_blocks) + i = c
    BY <1>1, <1>2, <1>11
  <2>2. DOMAIN native_blocks = 1 .. Len(native_blocks)
    BY <1>1, LenProperties
  <2>3. native_blocks[i].id = Prefix(Branch, c)
    <3> HIDE DEF i
    <3>1. native_blocks[i].id = Prefix(Branch, Len(Branch) - Len(native_blocks) + i)
      BY <1>1, <2>1 DEF Window, Branch
    <3> QED BY <2>1, <3>1
  <2> HIDE DEF i
  <2> QED BY <1>12, <2>1, <2>2, <2>3 DEF Cached
<1>14. sent' = nb.id /\ last_lib' = lib /\ last_block_num' = nb.block_num
  BY <1>3 DEF ReadBlock, SendsNext
<1> QED BY <1>3, <1>4, <1>11, <1>13, <1>14 DEF base

\* Once a block has been handled, what to resume after is below it and irreversible.
LEMMA HandledSent ==
  ASSUME HistoriesAreIds, CleanStart, Ready, NEW nb, NEW c \in Nat, Message(nb, c),
         NEW id \in Histories,
         NEW base \in 0 .. c + 1, StartBlockNum + base <= lib,
         c + 1 <= Len(id), nb.id = Prefix(id, c + 1)
  PROVE  /\ \E k \in base .. Len(id) : nb.id = Prefix(id, k)
         /\ \E k \in base .. Len(id) :
              Min({lib, nb.block_num}) = StartBlockNum + k /\ Firm(Prefix(id, k))
<1>1. /\ best \in Histories /\ Timed(best) /\ lib \in Nat /\ lib > StartBlockNum
      /\ StartBlockNum \in Nat /\ Len(id) \in Nat /\ Len(best) \in Nat
  BY FullPrefix, ChannelAssumption DEF Ready, ShipTypeOK, StreamTypeOK, StreamInv
<1>2. /\ c + 1 \in 1 .. Len(best) /\ nb.id = Prefix(best, c + 1)
      /\ nb.block_num = StartBlockNum + c + 1
  BY <1>1, MessageFacts DEF Message
<1> DEFINE k == IF lib <= StartBlockNum + c + 1 THEN lib - StartBlockNum ELSE c + 1
<1>3. /\ k \in base .. Len(id) /\ k \in 0 .. c + 1 /\ StartBlockNum + k <= lib
      /\ c + 1 \in 0 .. Len(id) /\ c + 1 \in 0 .. Len(best) /\ c + 1 \in base .. Len(id)
      /\ k \in 0 .. Len(id)
  BY <1>1, <1>2
<1>4. Min({lib, nb.block_num}) = StartBlockNum + k
  <2>1. StartBlockNum + c + 1 \in Int /\ lib \in Int
    BY <1>1
  <2>2. Min({lib, StartBlockNum + c + 1})
          = IF lib <= StartBlockNum + c + 1 THEN lib ELSE StartBlockNum + c + 1
    BY <2>1, MinOfTwo
  <2> QED BY <1>1, <1>2, <2>2
<1> HIDE DEF k
<1>5. /\ Prefix(Prefix(id, c + 1), k) = Prefix(id, k)
      /\ Prefix(Prefix(best, c + 1), k) = Prefix(best, k)
  BY <1>1, <1>3, PrefixOfPrefix DEF Prefix, Histories
<1>6. Firm(Prefix(id, k))
  <2>1. Len(Prefix(id, k)) = k
    BY <1>3, PrefixType
  <2>2. k <= Len(best)
    BY <1>1, <1>3
  <2> QED BY <1>2, <1>3, <1>5, <2>1, <2>2 DEF Firm
<1> QED BY <1>3, <1>4, <1>6

LEMMA ReceiveSent ==
  ASSUME HistoriesAreIds, CleanStart, Ready, SentInv, pc = "idle", NEW nb, ReadBlock(nb),
         Receive(nb)
  PROVE  SentInv' /\ pc' # "exited"
<1>1. /\ sent' = nb.id /\ last_lib' = lib /\ last_block_num' = nb.block_num
      /\ UNCHANGED <<best, lib>>
  BY ReadCached
<1>2. PICK c \in Nat : /\ Message(nb, c) /\ Cached(nb.prev)
                       /\ c \in Len(native_blocks[1].id) .. Len(Branch)
  BY ReadCached
<1>3. ~BeforeGenesis(nb) /\ ~ReceiveUnknownFork(nb)
  BY <1>2, AfterGenesis DEF ReceiveUnknownFork
<1>4. CASE ReceiveFork(nb) \/ ReceiveLinked(nb)
  BY <1>1, <1>4 DEF ReceiveFork, ReceiveLinked, SentInv
<1>5. CASE ReceiveDuplicate(nb)
  <2> DEFINE base == Len(native_blocks[1].id)
  <2>1. UNCHANGED <<native_blocks, pc>> /\ Cached(nb.id)
    BY <1>5 DEF ReceiveDuplicate, vars, caches
  <2>2. /\ native_blocks \in Seq(NativeBlock) /\ native_blocks # <<>> /\ Window(native_blocks)
        /\ Branch \in Histories /\ Len(Branch) \in Nat /\ best \in Histories /\ Timed(best)
    BY ReadyFacts
  <2>3. base \in 0 .. Len(Branch) /\ StartBlockNum + base <= lib
    BY BaseFacts
  <2>4. Len(nb.id) = c + 1
    BY <1>2, <2>2, MessageFacts
  <2>5. c + 1 <= Len(Branch) /\ nb.id = Prefix(Branch, c + 1)
    <3>1. PICK i \in DOMAIN native_blocks : native_blocks[i].id = nb.id
      BY <2>1 DEF Cached
    <3>2. /\ At(native_blocks, i) \in 0 .. Len(Branch)
          /\ native_blocks[i].id = Prefix(Branch, At(native_blocks, i))
          /\ Len(native_blocks[i].id) = At(native_blocks, i)
      BY <2>2, <3>1, WindowFacts DEF Branch
    <3> QED BY <2>2, <2>4, <3>1, <3>2
  <2> HIDE DEF base
  <2>6. base \in 0 .. c + 1
    BY <1>2, <2>3 DEF base
  <2>7. /\ \E k \in base .. Len(Branch) : nb.id = Prefix(Branch, k)
        /\ \E k \in base .. Len(Branch) :
             Min({lib, nb.block_num}) = StartBlockNum + k /\ Firm(Prefix(Branch, k))
    BY <1>2, <2>2, <2>3, <2>5, <2>6, HandledSent
  <2>8. ResumeAfter' = Min({lib, nb.block_num})
    <3>1. lib > 0
      BY ChannelAssumption DEF Ready, StreamInv, ShipTypeOK, StreamTypeOK
    <3> QED BY <1>1, <3>1 DEF ResumeAfter
  <2>9. \A k : Firm(Prefix(Branch, k))' <=> Firm(Prefix(Branch, k))
    BY <1>1, <2>1 DEF Firm, Branch
  <2>10. Branch' = Branch /\ base = Len(native_blocks'[1].id)
    BY <2>1 DEF Branch, base
  <2> QED BY <1>1, <2>1, <2>7, <2>8, <2>9, <2>10 DEF SentInv
<1> QED BY <1>3, <1>4, <1>5 DEF Receive, ReceiveBeforeGenesis, ReceiveFork, ReceiveLinked,
           ReceiveDuplicate, vars

\* What FinishAndTrim keeps: the blocks from some k on, the last irreversible one among them.
LEMMA TrimFacts ==
  ASSUME CleanStart, Ready, pc = "fill"
  PROVE  LET f == Max(IrreversibleIndices)
             k == Min(RetainedNative)
         IN  /\ IrreversibleIndices # {} /\ f \in 1 .. Len(native_blocks)
             /\ RetainedNative # {} /\ k \in 1 .. f /\ k \in 1 .. Len(native_blocks)
             /\ Firm(native_blocks[f].id) /\ ComputedLib < NumberOf(native_blocks[f].id)
             /\ \A i \in 1 .. Len(native_blocks) : Firm(native_blocks[i].id) => i <= f
             /\ NumberOf(native_blocks[f].id) <= NumberOf(new_block.id)
             /\ ComputedLib \in Nat /\ NumberOf(native_blocks[f].id) \in Nat
<1> DEFINE N == native_blocks
           f == Max(IrreversibleIndices)
           k == Min(RetainedNative)
<1>1. /\ N \in Seq(NativeBlock) /\ N # <<>> /\ Window(N) /\ Len(N) \in Nat \ {0}
      /\ DOMAIN N = 1 .. Len(N)
  BY ReadyFacts, LenProperties
<1>2. /\ IrreversibleIndices # {} /\ f \in 1 .. Len(N)
      /\ \A i \in 1 .. Len(N) : Firm(N[i].id) <=> i <= f
      /\ EvmNum(N[f]) = NumberOf(N[f].id) /\ EvmNum(N[f]) \in Nat \ {0}
      /\ ComputedLib \in Nat /\ ComputedLib < NumberOf(N[f].id)
  BY LibIs
<1> HIDE DEF f, N
<1>3. f \in RetainedNative /\ RetainedNative \in SUBSET (1 .. Len(N)) /\ RetainedNative \in SUBSET Nat
  <2>1. EvmNum(N[f]) >= ComputedLib
    BY <1>2
  <2> QED BY <1>1, <1>2, <2>1 DEF RetainedNative, N
<1>4. k \in RetainedNative /\ k <= f
  BY <1>3, MinExists
<1> HIDE DEF k
<1>5. k \in 1 .. f /\ k \in 1 .. Len(N) /\ f <= f /\ f \in Nat
  BY <1>1, <1>2, <1>3, <1>4
<1>6. NumberOf(N[f].id) <= NumberOf(new_block.id) /\ NumberOf(N[f].id) \in Nat
  <2>1. Len(N) \in f .. Len(N)
    BY <1>1, <1>2
  <2>2. NumberOf(N[f].id) <= NumberOf(N[Len(N)].id)
    BY <1>1, <1>2, <2>1, WindowNumbers
  <2>3. N[Len(N)] = new_block
    BY NewBlockFacts DEF Last, N
  <2> QED BY <1>2, <2>2, <2>3
<1> QED BY <1>2, <1>3, <1>5, <1>6 DEF f, k, N

LEMMA HandlerSent ==
  ASSUME HistoriesAreIds, CleanStart, Ready, SentInv, UNCHANGED <<nodeos_vars, receiver_vars>>,
         HandlerStep
  PROVE  SentInv'
<1>1. UNCHANGED <<best, lib, sent, conn, last_lib, last_block_num, stored_num, new_block>>
  BY DEF nodeos_vars, chain_vars, session_vars, receiver_vars, HandlerStep, DropEvmBlock,
     DropNativeBlock, FailToRemove, ResetUpperBound, FailToSetUpperBound, ExtendEvmChain,
     ApplyConfig, FailToSetConfig, AddTransaction, RejectTransaction, FinishWithoutLib,
     FinishAndTrim, FailToTrim, Exit, locals
<1>2. CASE FinishAndTrim
  <2> DEFINE N == native_blocks
             k == Min(RetainedNative)
             f == Max(IrreversibleIndices)
             c == Len(new_block.prev)
  <2>1. pc = "fill" /\ pc' = "idle" /\ native_blocks' = From(N, k)
    BY <1>2 DEF FinishAndTrim
  <2>2. /\ N \in Seq(NativeBlock) /\ N # <<>> /\ Window(N) /\ Len(N) \in Nat
        /\ last_lib = lib /\ last_block_num = new_block.block_num /\ sent = new_block.id
    BY <2>1, ReadyFacts DEF SentInv
  <2>3. /\ Message(new_block, c) /\ Last(N) = new_block /\ c \in Nat /\ Len(new_block.id) = c + 1
        /\ new_block.id \in Histories /\ Branch = new_block.id
    BY <2>1, NewBlockFacts DEF Branch
  <2>4. f \in 1 .. Len(N) /\ k \in 1 .. f /\ k \in 1 .. Len(N) /\ Firm(N[f].id)
    BY <2>1, TrimFacts
  <2> HIDE DEF k, f, N, c
  <2>5. Last(From(N, k)) = new_block /\ From(N, k)[1] = N[k]
    <3>1. /\ \A j \in 1 .. Len(N) - k + 1 : From(N, k)[j] = N[k + j - 1]
          /\ Last(From(N, k)) = Last(N)
      BY <2>2, <2>4, WindowFrom
    <3>2. 1 \in 1 .. Len(N) - k + 1 /\ k + 1 - 1 = k
      BY <2>2, <2>4
    <3> QED BY <2>3, <3>1, <3>2
  <2> DEFINE base == Len(N[k].id)
  <2>6. base \in 0 .. c + 1 /\ StartBlockNum + base <= lib
    <3>1. /\ At(N, k) \in 0 .. Len(Last(N).id) /\ Len(N[k].id) = At(N, k)
          /\ Len(N[f].id) = At(N, f)
      BY <2>2, <2>4, WindowFacts
    <3>2. At(N, k) <= At(N, f) /\ At(N, f) \in Int
      BY <2>2, <2>3, <2>4 DEF At
    <3>3. StartBlockNum + At(N, f) <= lib
      BY <2>4, <3>1 DEF Firm
    <3>4. lib \in Nat /\ StartBlockNum \in Nat
      BY <2>1, ReadyFacts
    <3> QED BY <2>3, <3>1, <3>2, <3>3, <3>4
  <2> HIDE DEF base
  <2>7. /\ c + 1 <= Len(new_block.id) /\ new_block.id = Prefix(new_block.id, c + 1)
    BY <2>3, FullPrefix
  <2>8. /\ \E j \in base .. Len(new_block.id) : new_block.id = Prefix(new_block.id, j)
        /\ \E j \in base .. Len(new_block.id) :
             Min({lib, new_block.block_num}) = StartBlockNum + j /\ Firm(Prefix(new_block.id, j))
    BY <2>3, <2>6, <2>7, HandledSent
  <2>9. ResumeAfter' = Min({lib, new_block.block_num})
    <3>1. lib > 0
      BY ChannelAssumption DEF Ready, StreamInv, ShipTypeOK, StreamTypeOK
    <3> QED BY <1>1, <2>2, <3>1 DEF ResumeAfter
  <2>10. Branch' = new_block.id /\ base = Len(native_blocks'[1].id)
    BY <2>1, <2>5 DEF Branch, base
  <2>11. \A j : Firm(Prefix(new_block.id, j))' <=> Firm(Prefix(new_block.id, j))
    BY <1>1 DEF Firm
  <2>12. \A j : Firm(Prefix(Branch, j))' <=> Firm(Prefix(new_block.id, j))
    BY <1>1, <2>10 DEF Firm
  <2> QED BY <1>1, <2>1, <2>2, <2>8, <2>9, <2>10, <2>12 DEF SentInv
<1>3. CASE FinishWithoutLib
  BY <1>3, LibIs DEF FinishWithoutLib
<1>4. CASE ~FinishAndTrim /\ ~FinishWithoutLib
  <2>1. pc \in {"unwind", "extend", "fill"} /\ pc' # "idle"
    BY <1>4 DEF HandlerStep, DropEvmBlock, DropNativeBlock, FailToRemove, ResetUpperBound,
       FailToSetUpperBound, ExtendEvmChain, ApplyConfig, FailToSetConfig, AddTransaction,
       RejectTransaction, FailToTrim, Exit
  <2> QED BY <1>1, <2>1 DEF SentInv
<1> QED BY <1>2, <1>3, <1>4

LEMMA ChainSent ==
  ASSUME CleanStart, Ready, SentInv, StreamTypeOK', ChainStep
  PROVE  SentInv'
<1>1. /\ pc = "idle" /\ pc' = "idle"
      /\ UNCHANGED <<native_blocks, conn, sent, last_lib, last_block_num, stored_num>>
  BY DEF ChainStep, Produce, AdvanceLib, session_vars, vars, receiver_vars
<1>2. PICK n \in Nat : Keeps(n)
  BY ChainKeeps DEF Ready
<1>3. Branch \in Histories /\ StreamTypeOK
  BY <1>1, ReadyFacts
<1>4. ASSUME NEW k \in 0 .. Len(Branch), Firm(Prefix(Branch, k))
      PROVE  Firm(Prefix(Branch, k))'
  <2>1. Prefix(Branch, k) \in Histories
    BY <1>3, PrefixType
  <2>2. \A id : id \in Histories /\ Firm(id) => Firm(id)'
    BY <1>2, <1>3, KeepsFirm
  <2>3. Branch' = Branch
    BY <1>1 DEF Branch
  <2> DEFINE id == Prefix(Branch, k)
  <2>4. /\ Len(id) <= Len(best') /\ id = Prefix(best', Len(id))
        /\ StartBlockNum + Len(id) <= lib'
    <3> HIDE DEF id
    <3>1. id \in Histories /\ Firm(id)
      BY <1>4, <2>1 DEF id
    <3> QED BY <1>2, <1>3, <3>1, KeepsFirm DEF Firm
  <2> QED BY <2>3, <2>4 DEF Firm
<1>5. Len(native_blocks[1].id) \in 0 .. Len(Branch)
  BY <1>1, BaseFacts
<1>6. \A k \in Len(native_blocks[1].id) .. Len(Branch) : k \in 0 .. Len(Branch)
  BY <1>3, <1>5, FullPrefix
<1>7. Branch' = Branch /\ ResumeAfter' = ResumeAfter
  BY <1>1 DEF Branch, ResumeAfter
<1> QED BY <1>1, <1>4, <1>6, <1>7 DEF SentInv

LEMMA ConnectSent ==
  ASSUME CleanStart, Ready, SentInv, ConnectionStep
  PROVE  SentInv'
<1>1. /\ pc = "idle" /\ UNCHANGED <<native_blocks, pc>>
  BY DEF ConnectionStep, vars, caches
<1>2. UNCHANGED <<best, lib>>
  BY ConnectStream DEF Ready, ConnectionStep
<1>3. UNCHANGED <<last_lib, last_block_num, stored_num>>
  BY DEF ConnectionStep, Connect, Startup, sync, ConnectionFails, ReadFails, reset_connection
<1>4. Branch' = Branch /\ ResumeAfter' = ResumeAfter
  BY <1>1, <1>3 DEF Branch, ResumeAfter
<1>5. \A k : Firm(Prefix(Branch, k))' <=> Firm(Prefix(Branch, k))
  BY <1>2, <1>4 DEF Firm
<1> DEFINE base == Len(native_blocks[1].id)
<1>6. PICK k \in base .. Len(Branch) : ResumeAfter = StartBlockNum + k /\ Firm(Prefix(Branch, k))
  BY <1>1 DEF SentInv
<1>7. conn' = "reading" => sent' = Prefix(Branch, k)
  <2>1. CASE sync
    <3>1. OpenSession(start_from)
      BY <2>1 DEF sync
    <3>2. PICK n \in 0 .. Len(best) :
            /\ sent' = Prefix(best, n)
            /\ ResumeAfter - StartBlockNum \in 0 .. Len(best) => n = ResumeAfter - StartBlockNum
      BY <3>1, SessionFacts DEF Ready
    <3>3. k \in 0 .. Len(Branch) /\ Len(Prefix(Branch, k)) = k
      <4>1. base \in 0 .. Len(Branch) /\ Branch \in Histories /\ Len(Branch) \in Nat
        BY <1>1, BaseFacts, ReadyFacts
      <4>2. k \in 0 .. Len(Branch)
        BY <4>1
      <4> QED BY <4>1, <4>2, PrefixType
    <3>4. k <= Len(best) /\ Prefix(Branch, k) = Prefix(best, k)
      BY <1>6, <3>3 DEF Firm
    <3>5. ResumeAfter - StartBlockNum = k /\ k \in 0 .. Len(best)
      BY <1>1, <1>6, <3>3, <3>4, ReadyFacts
    <3> QED BY <3>2, <3>4, <3>5
  <2>2. CASE Startup \/ ConnectionFails \/ ReadFails
    BY <2>2 DEF Startup, ConnectionFails, ReadFails, reset_connection
  <2> QED BY <2>1, <2>2 DEF ConnectionStep, Connect
<1> QED BY <1>1, <1>4, <1>5, <1>6, <1>7 DEF SentInv

LEMMA InitSent ==
  ASSUME HistoriesAreIds, CleanStart, SystemInit
  PROVE  SentInv
<1>1. Ready
  BY InitReady
<1>2. /\ pc = "idle" /\ conn = "closed" /\ stored_num = StartBlockNum /\ last_lib = 0
      /\ native_blocks[1].id = <<>> /\ Branch = <<>> /\ best = <<>> /\ lib > StartBlockNum
  BY DEF SystemInit, Init, NodeosInit, ReceiverInit, CleanStart, LoadedNative, Branch, Last
<1>3. /\ <<>> \in Histories /\ Len(<<>>) = 0 /\ Prefix(<<>>, 0) = <<>> /\ StartBlockNum \in Nat
      /\ lib \in Nat
  BY <1>1, <1>2, FullPrefix, ChannelAssumption DEF Ready, ShipTypeOK, StreamTypeOK
<1>4. 0 \in 0 .. 0 /\ ResumeAfter = StartBlockNum + 0 /\ Firm(Prefix(<<>>, 0))
  BY <1>2, <1>3 DEF ResumeAfter, Firm
<1> QED BY <1>2, <1>3, <1>4 DEF SentInv

LEMMA RestartSent ==
  ASSUME HistoriesAreIds, CleanStart, NodeInv, StreamInv, StartInv, FinalInv,
         NEW height, height = None \/ (height \in Nat /\ height <= StartBlock.number),
         Restart(height)
  PROVE  SentInv'
<1> DEFINE start == get_canonical_block_at_height(height)
           id    == start.prev_randao
<1>1. id \in Histories /\ Firm(id)
  BY StartFirm
<1>2. /\ native_blocks' = <<LoadedNative(start, to_block_num(id))>>
      /\ pc' = "idle" /\ conn' = "closed" /\ last_lib' = 0 /\ stored_num' = to_block_num(id)
      /\ UNCHANGED <<best, lib>>
  BY DEF Restart, nodeos_vars, chain_vars
<1> HIDE DEF start
<1> PICK t : t = id
  OBVIOUS
<1>3. /\ t \in Histories /\ Firm(t) /\ native_blocks'[1].id = t /\ Branch' = t
      /\ stored_num' = to_block_num(t)
  BY <1>1, <1>2 DEF LoadedNative, Branch, Last
<1>4. Len(t) \in Nat /\ Prefix(t, Len(t)) = t
  BY <1>3, FullPrefix
<1>5. Firm(t)'
  BY <1>2, <1>3 DEF Firm
<1>6. Len(t) \in Len(t) .. Len(t) /\ ResumeAfter' = StartBlockNum + Len(t)
  BY <1>2, <1>3, <1>4 DEF ResumeAfter, to_block_num
<1>7. Firm(Prefix(t, Len(t)))'
  BY <1>4, <1>5 DEF Firm
<1>8. Firm(Prefix(Branch, Len(t)))'
  BY <1>3, <1>7 DEF Firm
<1> HIDE DEF id
<1>9. /\ pc' = "idle" /\ conn' = "closed" /\ Len(native_blocks'[1].id) = Len(t)
      /\ Len(Branch') = Len(t)
  BY <1>2, <1>3
<1> QED BY <1>6, <1>8, <1>9 DEF SentInv

-----------------------------------------------------------------------------
(* The cached EVM blocks reach down to the irreversible ones *)

\* Unwinding drops no EVM block that a fork point needs: the first one is not later than an
\* irreversible native block of the cache, and the last one not earlier than the fork point.
FirstInv ==
  pc # "exited" =>
    /\ evm_blocks # <<>>
    /\ \E i \in 1 .. Len(native_blocks) :
         Firm(native_blocks[i].id) /\ evm_blocks[1].number <= NumberOf(native_blocks[i].id)
    /\ pc = "unwind" => back.number >= NumberOf(new_block.prev)

LEMMA FirstSame ==
  ASSUME FirstInv, pc # "exited", UNCHANGED <<best, lib>>, NEW s, NEW t,
         native_blocks' = s, evm_blocks' = t, t # <<>>, t[1].number = evm_blocks[1].number,
         \A i \in 1 .. Len(native_blocks) :
           Firm(native_blocks[i].id) => \E j \in 1 .. Len(s) : s[j].id = native_blocks[i].id,
         pc' = "unwind" => Last(t).number >= NumberOf(new_block'.prev)
  PROVE  FirstInv'
BY DEF FirstInv, Firm, back

\* The last block replaced by one of its number.
LEMMA FirstReplaced ==
  ASSUME NEW s \in Seq(EvmBlock), s # <<>>, NEW e, e.number = Last(s).number
  PROVE  LET w == WithBack(s, e)
         IN  /\ w # <<>> /\ w[1].number = s[1].number
             /\ Last(w).number = Last(s).number
             /\ \A g : Append(w, g) # <<>> /\ Append(w, g)[1].number = s[1].number
<1> DEFINE w == WithBack(s, e)
           S == EvmBlock \cup {e}
<1>1. s \in Seq(S) /\ Len(s) \in Nat \ {0}
  <2>1. Len(s) \in Nat \ {0} /\ s = [i \in 1 .. Len(s) |-> s[i]] /\ \A i \in 1 .. Len(s) : s[i] \in S
    BY EmptySeq, LenProperties, ElementOfSeq
  <2> HIDE DEF S
  <2> QED BY <2>1, IsASeq
<1>2. e \in S
  OBVIOUS
<1> HIDE DEF S
<1>3. /\ w \in Seq(S) /\ w # <<>> /\ Len(w) = Len(s) /\ w[Len(s)] = e
      /\ \A i \in 1 .. Len(s) - 1 : w[i] = s[i]
  BY <1>1, <1>2, WithBackFacts
<1> HIDE DEF w
<1>4. w[1].number = s[1].number
  <2>1. CASE Len(s) = 1
    BY <1>3, <2>1 DEF Last
  <2>2. CASE Len(s) # 1
    <3>1. 1 \in 1 .. Len(s) - 1
      <4> PICK n \in Nat : n = Len(s) /\ n # 0
        BY <1>1
      <4>1. 1 \in 1 .. n - 1
        BY <2>2
      <4> QED BY <4>1
    <3> QED BY <1>3, <3>1
  <2> QED BY <2>1, <2>2
<1>5. ASSUME NEW g
      PROVE  Append(w, g) # <<>> /\ Append(w, g)[1].number = s[1].number
  <2> DEFINE T == S \cup {g}
  <2>1. w \in Seq(T) /\ g \in T
    <3>1. w = [i \in 1 .. Len(w) |-> w[i]] /\ \A i \in 1 .. Len(w) : w[i] \in T
      BY <1>3, LenProperties, ElementOfSeq
    <3>2. g \in T
      OBVIOUS
    <3> HIDE DEF T
    <3> QED BY <1>1, <1>3, <3>1, <3>2, IsASeq
  <2> HIDE DEF T
  <2>2. /\ Append(w, g) \in Seq(T) /\ Len(Append(w, g)) = Len(w) + 1
        /\ \A i \in 1 .. Len(w) : Append(w, g)[i] = w[i]
    BY <2>1, AppendProperties
  <2>3. 1 \in 1 .. Len(w) /\ Len(w) + 1 # 0
    BY <1>1, <1>3
  <2> QED BY <1>4, <2>2, <2>3, EmptySeq
<1> QED BY <1>3, <1>4, <1>5 DEF Last, w

LEMMA ReceiveFirst ==
  ASSUME HistoriesAreIds, CleanStart, Ready, FirstInv, UNCHANGED <<best, lib>>,
         NEW nb \in NativeBlock, NEW c, Message(nb, c), Receive(nb)
  PROVE  FirstInv'
<1>1. /\ pc = "idle" /\ ~BeforeGenesis(nb)
  <2>1. pc = "idle"
    BY DEF Receive, ReceiveBeforeGenesis, ReceiveDuplicate, ReceiveUnknownFork, ReceiveFork,
       ReceiveLinked
  <2> QED BY <2>1, AfterGenesis
<1>2. evm_blocks # <<>>
  BY <1>1 DEF FirstInv
<1>3. CASE ReceiveUnknownFork(nb)
  BY <1>3 DEF ReceiveUnknownFork, Exit, FirstInv
<1>4. CASE ReceiveDuplicate(nb)
  <2>1. UNCHANGED <<native_blocks, evm_blocks, pc>>
    BY <1>4 DEF ReceiveDuplicate, vars, caches
  <2> QED BY <1>1, <1>2, <2>1, FirstSame
<1>5. CASE ReceiveLinked(nb)
  <2>1. native_blocks' = Append(native_blocks, nb) /\ UNCHANGED evm_blocks /\ pc' = "extend"
    BY <1>5 DEF ReceiveLinked
  <2>2. \A i \in 1 .. Len(native_blocks) :
          \E j \in 1 .. Len(Append(native_blocks, nb)) :
            Append(native_blocks, nb)[j].id = native_blocks[i].id
    <3>1. /\ Len(Append(native_blocks, nb)) = Len(native_blocks) + 1 /\ Len(native_blocks) \in Nat
          /\ \A i \in 1 .. Len(native_blocks) : Append(native_blocks, nb)[i] = native_blocks[i]
      BY <1>1, ReadyFacts, NativeAppended
    <3>2. \A i \in 1 .. Len(native_blocks) : i \in 1 .. Len(native_blocks) + 1
      BY <3>1
    <3> QED BY <3>1, <3>2
  <2> QED BY <1>1, <1>2, <2>1, <2>2, FirstSame
<1>6. CASE ReceiveFork(nb)
  <2>1. UNCHANGED <<native_blocks, evm_blocks>> /\ pc' = "unwind" /\ new_block' = nb
    BY <1>6 DEF ReceiveFork, caches
  <2>2. c \in 1 .. Len(Branch) /\ nb.prev = Prefix(Branch, c)
    BY <1>1, <1>6, ForkBelow DEF ReceiveFork
  <2>3. Last(evm_blocks).number = NumberOf(Branch)
    BY <1>1 DEF Ready, CacheInv, IdleInv
  <2>4. NumberOf(nb.prev) <= NumberOf(Branch)
    <3>1. /\ Branch \in Histories /\ Timed(Branch) /\ Len(Branch) \in Nat
          /\ Prefix(Branch, Len(Branch)) = Branch
      BY <1>1, ReadyFacts, FullPrefix
    <3>2. c \in 0 .. Len(Branch) /\ Len(Branch) \in c .. Len(Branch)
      BY <2>2, <3>1
    <3> QED BY <2>2, <3>1, <3>2, NumberOfMonotonic
  <2>5. NumberOf(Branch) \in Nat /\ NumberOf(nb.prev) \in Nat
    <3>1. nb.prev \in Histories /\ Branch \in Histories
      BY <1>1, ReadyFacts, MessageFacts
    <3> QED BY <3>1, SlotType, TimeAssumption, ChannelAssumption, NumberMonotonic DEF NumberOf,
            timestamp_to_evm_block_num
  <2>6. Last(evm_blocks).number >= NumberOf(nb.prev)
    BY <2>3, <2>4, <2>5
  <2> QED BY <1>1, <1>2, <2>1, <2>6, FirstSame
<1> QED BY <1>1, <1>3, <1>4, <1>5, <1>6 DEF Receive, ReceiveBeforeGenesis

\* Of the fork point and the cached EVM blocks, while unwinding.
LEMMA ForkPointFacts ==
  ASSUME CleanStart, Ready, FirstInv, pc = "unwind"
  PROVE  LET p == new_block.prev
         IN  /\ evm_blocks # <<>> /\ back \in EvmBlock /\ back.number \in Nat
             /\ evm_blocks[1].number <= NumberOf(p) /\ NumberOf(p) <= back.number
             /\ EvmNum(fork_block) = NumberOf(p) /\ NumberOf(p) \in Nat
             /\ NumberOf(p) > StartBlock.number
             /\ ~EvmBlockIsForked => back.number = NumberOf(p)
<1> DEFINE p == new_block.prev
<1>1. /\ native_blocks \in Seq(NativeBlock) /\ native_blocks # <<>> /\ Window(native_blocks)
      /\ evm_blocks \in Seq(EvmBlock) /\ Len(native_blocks) \in Nat
      /\ \A i \in 1 .. Len(evm_blocks) : evm_blocks[i].number \in Nat
  BY ReadyFacts
<1>2. /\ EvmNum(fork_block) = NumberOf(p) /\ NumberOf(p) \in Nat
      /\ NumberOf(p) > StartBlock.number
      /\ ForkIndex \in 1 .. Len(native_blocks)
      /\ \A i \in 1 .. Len(native_blocks) : Firm(native_blocks[i].id) => i <= ForkIndex
  BY UnwindFacts
<1>3. native_blocks[ForkIndex].id = p
  BY DEF Ready, CacheInv, UnwindInv
<1>4. PICK i \in 1 .. Len(native_blocks) :
        Firm(native_blocks[i].id) /\ evm_blocks[1].number <= NumberOf(native_blocks[i].id)
  BY DEF FirstInv
<1>5. ForkIndex \in i .. Len(native_blocks)
  BY <1>1, <1>2, <1>4
<1>6. NumberOf(native_blocks[i].id) <= NumberOf(p) /\ NumberOf(native_blocks[i].id) \in Nat
  BY <1>1, <1>3, <1>5, WindowNumbers
<1>7. evm_blocks # <<>> /\ NumberOf(p) <= back.number
  <2>1. evm_blocks # <<>> /\ back.number >= NumberOf(p)
    BY DEF FirstInv
  <2>2. back \in EvmBlock
    BY <2>1, BackType DEF Ready, TypedLists
  <2>3. back.number \in Nat
    BY <2>2 DEF EvmBlock
  <2> QED BY <1>2, <2>1, <2>3
<1>8. back \in EvmBlock
  BY <1>7, BackType DEF Ready, TypedLists
<1>9. back.number \in Nat
  BY <1>8 DEF EvmBlock
<1>10. evm_blocks[1].number <= NumberOf(p)
  <2>1. 1 \in 1 .. Len(evm_blocks)
    BY <1>1, <1>7, EmptySeq, LenProperties
  <2> QED BY <1>1, <1>2, <1>4, <1>6, <2>1
<1> QED BY <1>2, <1>7, <1>8, <1>9, <1>10 DEF EvmBlockIsForked

LEMMA UnwindFirst ==
  ASSUME HistoriesAreIds, CleanStart, Ready, FirstInv, UNCHANGED <<best, lib>>,
         DropEvmBlock \/ DropNativeBlock \/ ResetUpperBound
  PROVE  FirstInv'
<1> DEFINE p == new_block.prev
<1>1. /\ pc = "unwind" /\ UNCHANGED new_block
  BY DEF DropEvmBlock, DropNativeBlock, ResetUpperBound, locals
<1>2. /\ evm_blocks # <<>> /\ back \in EvmBlock /\ back.number \in Nat
      /\ evm_blocks[1].number <= NumberOf(p) /\ NumberOf(p) <= back.number
      /\ EvmNum(fork_block) = NumberOf(p) /\ NumberOf(p) \in Nat
  BY <1>1, ForkPointFacts
<1>3. /\ native_blocks \in Seq(NativeBlock) /\ native_blocks # <<>>
      /\ Len(native_blocks) \in Nat \ {0} /\ new_block \in NativeBlock
      /\ evm_blocks \in Seq(EvmBlock)
  BY <1>1, ReadyFacts DEF Ready, TypedLists, TypeOK
<1>4. CASE DropEvmBlock
  <2> DEFINE n == Len(evm_blocks)
             t == Front(evm_blocks)
  <2>1. /\ evm_blocks' = t /\ UNCHANGED <<native_blocks, pc>> /\ NumberOf(p) < back.number
    BY <1>2, <1>4 DEF DropEvmBlock, EvmBlockIsForked
  <2>2. n \in Nat \ {0} /\ back = evm_blocks[n]
    BY <1>2, <1>3, EmptySeq, LenProperties DEF back, Last
  <2>3. n > 1
    <3>1. 1 \in 1 .. n
      BY <2>2
    <3>2. evm_blocks[1].number \in Nat
      BY <1>1, <3>1, ReadyFacts
    <3>3. n # 1
      BY <1>2, <2>1, <2>2, <3>2
    <3> PICK m \in Nat : m = n /\ m # 0
      BY <2>2
    <3> QED BY <3>3
  <2>4. /\ t \in Seq(EvmBlock) /\ Len(t) = n - 1 /\ \A i \in 1 .. n - 1 : t[i] = evm_blocks[i]
    BY <1>2, <1>3, FrontFacts
  <2>5. 1 \in 1 .. n - 1 /\ n - 1 \in 1 .. n - 1 /\ n - 1 + 1 = n
    BY <2>2, <2>3
  <2>6. back.number = evm_blocks[n - 1].number + 1 /\ evm_blocks[n - 1].number \in Nat
    <3>1. evm_blocks[n - 1 + 1].number = evm_blocks[n - 1].number + 1
      BY <2>5 DEF Ready, EvmLinked
    <3>2. n - 1 \in 1 .. n
      BY <2>2, <2>3
    <3> QED BY <1>1, <2>2, <2>5, <3>1, <3>2, ReadyFacts
  <2>7. Last(t).number >= NumberOf(p)
    BY <1>2, <2>1, <2>4, <2>5, <2>6 DEF Last
  <2>8. t # <<>> /\ t[1].number = evm_blocks[1].number
    BY <2>4, <2>5, EmptySeq
  <2> HIDE DEF t, n
  <2> QED BY <1>1, <2>1, <2>7, <2>8, FirstSame
<1>5. CASE DropNativeBlock
  <2> DEFINE last == Last(native_blocks)
             s    == Front(native_blocks)
  <2>1. /\ native_blocks' = s /\ UNCHANGED pc /\ NativeBlockIsForked
        /\ \/ UNCHANGED evm_blocks
           \/ evm_blocks' = WithBack(evm_blocks, RemoveTransactions(back, last))
    BY <1>5 DEF DropNativeBlock
  <2>2. \A i \in 1 .. Len(native_blocks) :
          Firm(native_blocks[i].id) => \E j \in 1 .. Len(s) : s[j].id = native_blocks[i].id
    <3>1. /\ ForkIndex \in 1 .. Len(native_blocks) /\ ForkIndex < Len(native_blocks)
          /\ \A i \in 1 .. Len(native_blocks) : Firm(native_blocks[i].id) => i <= ForkIndex
      BY <1>1, <2>1, UnwindFacts
    <3>2. /\ Len(s) = Len(native_blocks) - 1
          /\ \A i \in 1 .. Len(native_blocks) - 1 : s[i] = native_blocks[i]
      BY <1>3, FrontFacts
    <3>3. \A i \in 1 .. Len(native_blocks) : i <= ForkIndex => i \in 1 .. Len(native_blocks) - 1
      BY <1>3, <3>1
    <3> QED BY <3>1, <3>2, <3>3
  <2>3. /\ evm_blocks' # <<>> /\ evm_blocks'[1].number = evm_blocks[1].number
        /\ Last(evm_blocks').number = back.number
    <3>1. RemoveTransactions(back, last).number = back.number
      BY <1>2 DEF RemoveTransactions, EvmBlock
    <3> QED BY <1>2, <1>3, <2>1, <3>1, FirstReplaced DEF back
  <2> HIDE DEF s
  <2> QED BY <1>1, <1>2, <2>1, <2>2, <2>3, FirstSame
<1>6. CASE ResetUpperBound
  <2> DEFINE e == set_upper_bound(back, Last(native_blocks))
             s == Append(native_blocks, new_block)
  <2>1. native_blocks' = s /\ evm_blocks' = WithBack(evm_blocks, e) /\ pc' = "extend"
    BY <1>6 DEF ResetUpperBound
  <2>2. e.number = back.number
    BY <1>2 DEF set_upper_bound, EvmBlock
  <2> HIDE DEF e
  <2>3. evm_blocks' # <<>> /\ evm_blocks'[1].number = evm_blocks[1].number
    BY <1>2, <1>3, <2>1, <2>2, FirstReplaced DEF back
  <2>4. \A i \in 1 .. Len(native_blocks) : \E j \in 1 .. Len(s) : s[j].id = native_blocks[i].id
    <3>1. /\ Len(s) = Len(native_blocks) + 1
          /\ \A i \in 1 .. Len(native_blocks) : s[i] = native_blocks[i]
      BY <1>3, NativeAppended
    <3>2. \A i \in 1 .. Len(native_blocks) : i \in 1 .. Len(native_blocks) + 1
      BY <1>3
    <3> QED BY <3>1, <3>2
  <2> HIDE DEF s
  <2> QED BY <1>1, <2>1, <2>3, <2>4, FirstSame
<1> QED BY <1>4, <1>5, <1>6

LEMMA TrimFirst ==
  ASSUME HistoriesAreIds, CleanStart, Ready, FirstInv, UNCHANGED <<best, lib>>, FinishAndTrim
  PROVE  FirstInv'
<1> DEFINE N == native_blocks
           E == evm_blocks
           f == Max(IrreversibleIndices)
           k == Min(RetainedNative)
           j == Min(RetainedEvm)
           e == set_upper_bound(back, new_block)
           u == WithBack(E, e)
<1>1. /\ pc = "fill" /\ pc' = "idle" /\ RetainedEvm # {}
      /\ native_blocks' = From(N, k) /\ evm_blocks' = From(u, j)
  BY DEF FinishAndTrim, EvmBlocksWithUpperBound
<1>2. /\ N \in Seq(NativeBlock) /\ N # <<>> /\ Window(N) /\ Len(N) \in Nat
      /\ E \in Seq(EvmBlock) /\ E # <<>> /\ Len(E) \in Nat /\ DOMAIN E = 1 .. Len(E)
      /\ new_block \in NativeBlock
      /\ \A i \in 1 .. Len(E) : E[i] \in EvmBlock /\ E[i].number \in Nat
  BY <1>1, ReadyFacts, NewBlockFacts, LenProperties
<1>3. /\ f \in 1 .. Len(N) /\ k \in 1 .. f /\ k \in 1 .. Len(N)
      /\ Firm(N[f].id) /\ ComputedLib < NumberOf(N[f].id)
      /\ \A i \in 1 .. Len(N) : Firm(N[i].id) => i <= f
      /\ ComputedLib \in Nat /\ NumberOf(N[f].id) \in Nat
  BY <1>1, TrimFacts
<1> HIDE DEF f, k, N
<1>4. /\ f - k + 1 \in 1 .. Len(From(N, k)) /\ From(N, k)[f - k + 1] = N[f]
  <2>1. /\ Len(From(N, k)) = Len(N) - k + 1
        /\ \A i \in 1 .. Len(N) - k + 1 : From(N, k)[i] = N[k + i - 1]
    BY <1>2, <1>3, WindowFrom
  <2>2. f - k + 1 \in 1 .. Len(N) - k + 1 /\ k + (f - k + 1) - 1 = f
    <3> PICK n \in Nat : n = Len(N)
      BY <1>2
    <3>1. f \in 1 .. n /\ k \in 1 .. f
      BY <1>3
    <3> QED BY <3>1
  <2> DEFINE i == f - k + 1
  <2>3. i \in 1 .. Len(N) - k + 1 /\ k + i - 1 = f
    BY <2>2
  <2> HIDE DEF i
  <2>4. From(N, k)[i] = N[f]
    BY <2>1, <2>3
  <2> QED BY <2>1, <2>3, <2>4 DEF i
<1>5. j \in 1 .. Len(E) /\ \A i \in 1 .. Len(E) : E[i].number >= ComputedLib => j <= i
  <2>1. RetainedEvm \in SUBSET Nat /\ RetainedEvm \in SUBSET (1 .. Len(E))
    BY <1>2 DEF RetainedEvm
  <2>2. j \in RetainedEvm /\ \A i \in RetainedEvm : j <= i
    BY <1>1, <2>1, MinExists
  <2> HIDE DEF j, E
  <2>3. \A i \in 1 .. Len(E) : E[i].number >= ComputedLib => i \in RetainedEvm
    BY <1>2 DEF RetainedEvm, E
  <2> QED BY <2>1, <2>2, <2>3
<1>6. /\ u \in Seq(EvmBlock) /\ Len(u) = Len(E) /\ e.number = back.number
      /\ \A i \in 1 .. Len(E) - 1 : u[i] = E[i]
      /\ u[Len(E)] = e
  <2>1. e \in EvmBlock /\ e.number = back.number
    BY <1>2, BoundReplaces DEF Ready, Replaces
  <2> HIDE DEF e, E
  <2>2. E \in Seq(EvmBlock) /\ E # <<>>
    BY <1>2
  <2> QED BY <2>1, <2>2, WithBackFacts
<1>7. \A i \in 1 .. Len(E) : u[i].number = E[i].number
  <2> TAKE i \in 1 .. Len(E)
  <2>1. CASE i = Len(E)
    BY <1>6, <2>1 DEF back, Last
  <2>2. CASE i # Len(E)
    <3>1. i \in 1 .. Len(E) - 1
      <4> PICK n : n = Len(E)
        OBVIOUS
      <4>1. n \in Nat /\ i \in 1 .. n /\ i # n
        BY <1>2, <2>2
      <4> QED BY <4>1
    <3> QED BY <1>6, <3>1
  <2> QED BY <2>1, <2>2
<1> HIDE DEF u, e, j, E
<1>8. From(u, j) # <<>> /\ From(u, j)[1] = u[j]
  <2>1. /\ From(u, j) # <<>>
        /\ \A i \in 1 .. Len(u) - j + 1 : From(u, j)[i] = u[j + i - 1]
    BY <1>5, <1>6, FromFacts
  <2>2. 1 \in 1 .. Len(u) - j + 1 /\ j + 1 - 1 = j
    BY <1>2, <1>5, <1>6
  <2> QED BY <2>1, <2>2
<1>9. E[j].number <= NumberOf(N[f].id)
  <2>1. CASE j = 1
    <3>1. PICK i \in 1 .. Len(N) :
            Firm(N[i].id) /\ E[1].number <= NumberOf(N[i].id)
      BY <1>1 DEF FirstInv, N, E
    <3>2. f \in i .. Len(N)
      BY <1>2, <1>3, <3>1
    <3>3. NumberOf(N[i].id) <= NumberOf(N[f].id) /\ NumberOf(N[i].id) \in Nat
      BY <1>2, <3>2, WindowNumbers
    <3>4. E[1].number \in Nat
      BY <1>2, <1>5, <2>1
    <3> QED BY <1>3, <2>1, <3>1, <3>3, <3>4
  <2>2. CASE j # 1
    <3> DEFINE i == j - 1
    <3>1. i \in 1 .. Len(E) /\ i \in 1 .. Len(E) - 1 /\ i + 1 = j /\ ~(j <= i)
      BY <1>2, <1>5, <2>2
    <3> HIDE DEF i
    <3>2. E[i].number \in Nat /\ ~(E[i].number >= ComputedLib)
      BY <1>2, <1>5, <3>1
    <3>3. E[i + 1].number = E[i].number + 1
      BY <3>1 DEF Ready, EvmLinked, E
    <3> QED BY <1>3, <3>1, <3>2, <3>3
  <2> QED BY <2>1, <2>2
<1>10. From(u, j)[1].number <= NumberOf(N[f].id)
  BY <1>5, <1>7, <1>8, <1>9
<1> PICK g, s, t, id : g = f - k + 1 /\ s = From(N, k) /\ t = From(u, j) /\ id = N[f].id
  OBVIOUS
<1>11. /\ native_blocks' = s /\ evm_blocks' = t /\ t # <<>>
       /\ g \in 1 .. Len(s) /\ s[g].id = id /\ Firm(id) /\ t[1].number <= NumberOf(id)
  BY <1>1, <1>3, <1>4, <1>8, <1>10 DEF N, k, u, j
<1>12. Firm(id)'
  BY <1>11 DEF Firm
<1> QED BY <1>1, <1>11, <1>12 DEF FirstInv

LEMMA HandlerFirst ==
  ASSUME HistoriesAreIds, CleanStart, Ready, FirstInv, UNCHANGED <<best, lib>>, HandlerStep
  PROVE  FirstInv'
<1>1. CASE DropEvmBlock \/ DropNativeBlock \/ ResetUpperBound
  BY <1>1, UnwindFirst
<1>2. CASE FinishAndTrim
  BY <1>2, TrimFirst
<1>3. CASE FinishWithoutLib
  BY <1>3, LibIs DEF FinishWithoutLib
<1>4. CASE FailToRemove \/ FailToSetUpperBound \/ FailToSetConfig \/ RejectTransaction \/ FailToTrim
  <2>1. pc' = "exited"
    BY <1>4 DEF FailToRemove, FailToSetUpperBound, FailToSetConfig, RejectTransaction, FailToTrim,
       Exit
  <2> QED BY <2>1 DEF FirstInv
<1>5. CASE ExtendEvmChain \/ ApplyConfig \/ AddTransaction
  <2>1. /\ pc \in {"extend", "fill"} /\ pc' # "unwind" /\ UNCHANGED native_blocks
    BY <1>5 DEF ExtendEvmChain, ApplyConfig, AddTransaction
  <2>2. /\ evm_blocks \in Seq(EvmBlock) /\ evm_blocks # <<>> /\ back \in EvmBlock
    BY <2>1, NewBlockFacts
  <2>3. /\ evm_blocks' # <<>> /\ evm_blocks'[1].number = evm_blocks[1].number
    <3>1. CASE ExtendEvmChain
      <4>1. evm_blocks' = Append(WithBack(evm_blocks, Sealed(back)),
                                 generate_new_evm_block(Sealed(back)))
        BY <3>1, ExtendEffect
      <4>2. Sealed(back).number = back.number
        BY <2>2, SealedHeader
      <4> QED BY <2>2, <4>1, <4>2, FirstReplaced DEF back
    <3>2. CASE ApplyConfig
      <4> DEFINE e == [back EXCEPT !.consensus_parameter_index = new_block.new_config]
      <4>1. UNCHANGED evm_blocks \/ evm_blocks' = WithBack(evm_blocks, e)
        BY <3>2 DEF ApplyConfig
      <4>2. e.number = back.number
        BY <2>2 DEF EvmBlock
      <4> HIDE DEF e
      <4> QED BY <2>2, <4>1, <4>2, FirstReplaced DEF back
    <3>3. CASE AddTransaction
      <4> DEFINE e == BlockWithTx(back, deserialize_tx(Head(pending)))
      <4>1. evm_blocks' = WithBack(evm_blocks, e)
        BY <3>3 DEF AddTransaction
      <4>2. e.number = back.number
        BY <2>2 DEF EvmBlock, BlockWithTx
      <4> HIDE DEF e
      <4> QED BY <2>2, <4>1, <4>2, FirstReplaced DEF back
    <3> QED BY <1>5, <3>1, <3>2, <3>3
  <2> QED BY <2>1, <2>3, FirstSame
<1> QED BY <1>1, <1>2, <1>3, <1>4, <1>5 DEF HandlerStep

LEMMA ChainFirst ==
  ASSUME CleanStart, Ready, FirstInv, StreamTypeOK', ChainStep
  PROVE  FirstInv'
<1>1. /\ pc = "idle" /\ UNCHANGED <<pc, native_blocks, evm_blocks>>
  BY DEF ChainStep, vars, caches
<1>2. PICK n \in Nat : Keeps(n)
  BY ChainKeeps DEF Ready
<1>3. PICK i \in 1 .. Len(native_blocks) :
        Firm(native_blocks[i].id) /\ evm_blocks[1].number <= NumberOf(native_blocks[i].id)
  BY <1>1 DEF FirstInv
<1>4. PICK id : id = native_blocks[i].id
  OBVIOUS
<1>5. id \in Histories /\ StreamTypeOK /\ evm_blocks # <<>>
  BY <1>1, <1>4, ReadyFacts, WindowFacts DEF FirstInv
<1>6. Firm(id)'
  BY <1>2, <1>3, <1>4, <1>5, KeepsFirm
<1> QED BY <1>1, <1>3, <1>4, <1>5, <1>6 DEF FirstInv

LEMMA InitFirst ==
  ASSUME HistoriesAreIds, CleanStart, SystemInit
  PROVE  FirstInv
<1>1. Ready
  BY InitReady
<1>2. /\ pc = "idle" /\ evm_blocks = <<StartBlock>> /\ Len(native_blocks) = 1
      /\ native_blocks[1].id = <<>> /\ NumberOf(<<>>) = StartBlock.number
  BY DEF SystemInit, Init, CleanStart, LoadedNative
<1>3. Firm(native_blocks[1].id)
  BY <1>1, <1>2, ReadyFacts DEF Based
<1>4. evm_blocks # <<>> /\ evm_blocks[1].number <= NumberOf(native_blocks[1].id)
  BY <1>2, StartNumber
<1> QED BY <1>2, <1>3, <1>4 DEF FirstInv

LEMMA RestartFirst ==
  ASSUME HistoriesAreIds, CleanStart, NodeInv, StreamInv, StartInv, FinalInv,
         NEW height, height = None \/ (height \in Nat /\ height <= StartBlock.number),
         Restart(height)
  PROVE  FirstInv'
<1> DEFINE start == get_canonical_block_at_height(height)
<1>1. /\ start \in EvmBlock /\ Firm(start.prev_randao)
      /\ start.number = NumberOf(start.prev_randao)
  BY StartFirm
<1>2. /\ native_blocks' = <<LoadedNative(start, to_block_num(start.prev_randao))>>
      /\ evm_blocks' = <<start>> /\ pc' = "idle" /\ UNCHANGED <<best, lib>>
  BY DEF Restart, nodeos_vars, chain_vars
<1> HIDE DEF start
<1> PICK b : b = start
  OBVIOUS
<1>3. /\ b.number \in Nat /\ b.number = NumberOf(b.prev_randao) /\ Firm(b.prev_randao)
      /\ Len(native_blocks') = 1 /\ native_blocks'[1].id = b.prev_randao
      /\ evm_blocks' # <<>> /\ evm_blocks'[1] = b
  BY <1>1, <1>2 DEF LoadedNative, EvmBlock
<1>4. Firm(b.prev_randao)'
  BY <1>2, <1>3 DEF Firm
<1> QED BY <1>2, <1>3, <1>4 DEF FirstInv

-----------------------------------------------------------------------------
(* The contract *)

\* What the contract guarantees of an action: no version is below that of the start block, and
\* the bytes of a transaction are its plain encoding.
ContractAction(a) ==
  /\ deserialize_tx(a) = a /\ a.rlpx.form = "plain"
  /\ a.gas_prices # None <=> a.eos_evm_version >= 3
  /\ a.eos_evm_version >= (IF StartBlock.number = 0 THEN ChainVersion ELSE StartBlock.version)

\* Versions never decrease, and the actions of one EVM block have one version and one price.
ActionFollows(b, a, same) ==
  /\ a.eos_evm_version <= b.eos_evm_version
  /\ same => a.eos_evm_version = b.eos_evm_version /\ Fee(a) = Fee(b)

ContractPayloads ==
  \A x \in Payload : \A i \in 1 .. Len(x.actions), j \in 1 .. Len(x.actions) :
    ContractAction(x.actions[i]) /\ ActionFollows(x.actions[j], x.actions[i], TRUE)

LEMMA SameOffset ==
  ASSUME NEW g \in Nat, NEW a \in Nat, NEW b \in Nat,
         NEW m, m > 0, m = IF a < g THEN 0 ELSE 1 + (a - g), m = IF b < g THEN 0 ELSE 1 + (b - g)
  PROVE  a = b
<1>1. a >= g /\ b >= g
  OBVIOUS
<1>2. m = 1 + (a - g) /\ m = 1 + (b - g)
  BY <1>1
<1> QED BY <1>1, <1>2

\* Two blocks of one EVM block, other than that before the genesis, are of the same second.
LEMMA SameSecond ==
  ASSUME NEW id \in Histories, NEW i \in 1 .. Len(id), NEW j \in 1 .. Len(id),
         Number(id[i]) = Number(id[j]), Number(id[i]) > 0
  PROVE  SecondOf(Prefix(id, i)) = SecondOf(Prefix(id, j))
<1>1. /\ SlotOf(Prefix(id, i)) = id[i].slot /\ SlotOf(Prefix(id, j)) = id[j].slot
      /\ id[i].slot \in Nat /\ id[j].slot \in Nat
  BY PositionFacts DEF Bodies
<1>2. ASSUME NEW a \in Nat
      PROVE  a \div Second \in Nat
  <2>1. PICK d \in Nat : d = Second /\ d # 0
    BY ChannelAssumption
  <2>2. a \div d \in Nat
    BY <2>1, Z3
  <2> QED BY <2>1, <2>2
<1>3. id[i].slot \div Second = id[j].slot \div Second
  <2> PICK a \in Nat : a = id[i].slot \div Second
    BY <1>1, <1>2
  <2> PICK b \in Nat : b = id[j].slot \div Second
    BY <1>1, <1>2
  <2>1. /\ Number(id[i]) = IF a < Genesis THEN 0 ELSE 1 + (a - Genesis)
        /\ Number(id[j]) = IF b < Genesis THEN 0 ELSE 1 + (b - Genesis)
    BY DEF Number, timestamp_to_evm_block_num
  <2> PICK m : m = Number(id[i])
    OBVIOUS
  <2>2. /\ m > 0 /\ m = IF a < Genesis THEN 0 ELSE 1 + (a - Genesis)
        /\ m = IF b < Genesis THEN 0 ELSE 1 + (b - Genesis)
    BY <2>1
  <2>3. a = b
    BY <2>2, SameOffset, TimeAssumption
  <2> QED BY <2>3
<1> QED BY <1>1, <1>3 DEF SecondOf

\* What the contract guarantees of a block x and of a later block y.
ContractOrders(x, y) ==
  LET same == Number(x) = Number(y) /\ Number(x) > 0
  IN  /\ same /\ y.new_config # None => x.actions = <<>>
      /\ \A k \in 1 .. Len(x.actions), l \in 1 .. Len(y.actions) :
           ActionFollows(y.actions[l], x.actions[k], same)

LEMMA ContractFacts ==
  ASSUME best \in Histories, Timed(best), ContractAllows(best), NEW nb, NEW c, Message(nb, c),
         NEW i \in 1 .. c + 1, NEW j \in 1 .. c + 1, i < j
  PROVE  ContractOrders(nb.id[i], nb.id[j])
<1> DEFINE x == nb.id[i]
           y == nb.id[j]
<1>1. /\ c + 1 \in 0 .. Len(best) /\ nb.id = Prefix(best, c + 1) /\ c \in Nat /\ Len(best) \in Nat
  BY MessageFacts, FullPrefix DEF Message
<1>2. /\ i \in 1 .. Len(best) /\ j \in 1 .. Len(best) /\ x = best[i] /\ y = best[j]
      /\ DOMAIN best = 1 .. Len(best)
  <2>1. \A k \in 1 .. c + 1 : Prefix(best, c + 1)[k] = best[k]
    BY <1>1, PrefixPositions
  <2> QED BY <1>1, <2>1, LenProperties DEF Histories
<1>3. x \in Bodies /\ y \in Bodies
  BY <1>2, PositionFacts
<1> HIDE DEF x, y
<1> DEFINE second == SecondOf(Prefix(best, i)) = SecondOf(Prefix(best, j))
<1>4. /\ second /\ y.new_config # None => x.actions = <<>>
      /\ \A a \in Range(x.actions), b \in Range(y.actions) :
           /\ a.eos_evm_version <= b.eos_evm_version
           /\ second => a.eos_evm_version = b.eos_evm_version /\ Fee(a) = Fee(b)
  BY <1>2 DEF ContractAllows
<1>5. Number(x) = Number(y) /\ Number(x) > 0 => second
  BY <1>2, SameSecond
<1> HIDE DEF second
<1>6. \A k \in 1 .. Len(x.actions), l \in 1 .. Len(y.actions) :
        x.actions[k] \in Range(x.actions) /\ y.actions[l] \in Range(y.actions)
  <2>1. /\ \A k \in 1 .. Len(x.actions) : k \in DOMAIN x.actions
        /\ \A l \in 1 .. Len(y.actions) : l \in DOMAIN y.actions
    OBVIOUS
  <2> QED BY <2>1 DEF Range
<1> QED BY <1>4, <1>5, <1>6 DEF x, y, ContractOrders, ActionFollows

\* The facts of ContractPayloads for the actions of a block.
LEMMA BodyActions ==
  ASSUME HistoriesAreIds, ContractPayloads, NEW x \in Bodies,
         NEW i \in 1 .. Len(x.actions), NEW j \in 1 .. Len(x.actions)
  PROVE  /\ x.actions[i] \in NativeAction /\ ContractAction(x.actions[i])
         /\ ActionFollows(x.actions[j], x.actions[i], TRUE)
<1>1. PICK payload \in Payload : x.actions = payload.actions
  BY DEF Bodies
<1>2. x.actions[i] \in NativeAction
  BY BodyTransactions, ElementOfSeq
<1> QED BY <1>1, <1>2 DEF ContractPayloads

\* The transactions of an EVM block come from a block of it that has actions.
LEMMA TransactionsWhere ==
  ASSUME HistoriesAreIds, NEW id \in Histories, NEW n \in 0 .. Len(id), NEW m,
         TransactionsOf(Prefix(id, n), m) # <<>>
  PROVE  \E k \in 1 .. n : Number(id[k]) = m /\ id[k].actions # <<>>
<1> DEFINE Empty(k) == TransactionsOf(Prefix(id, k), m) = <<>>
           T == {k \in 0 .. n : ~Empty(k)}
           i == Min(T)
<1>1. T \in SUBSET Nat /\ n \in T /\ n \in Nat /\ Len(id) \in Nat
  BY FullPrefix
<1>2. i \in T /\ \A j \in T : i <= j
  <2> HIDE DEF T
  <2> QED BY <1>1, MinExists
<1>3. i \in 0 .. n /\ ~Empty(i)
  BY <1>2
<1> HIDE DEF i
<1>4. i # 0
  BY <1>3, FullPrefix, TransactionsEmpty
<1>5. /\ i - 1 \in 0 .. n /\ i - 1 \in 0 .. Len(id) - 1 /\ i - 1 \notin T /\ (i - 1) + 1 = i
      /\ i \in 1 .. n /\ i \in 1 .. Len(id)
  BY <1>1, <1>2, <1>3, <1>4
<1>6. Empty(i - 1)
  BY <1>5
<1> HIDE DEF T
<1> DEFINE new == IF Number(id[i]) = m THEN TransactionsIn(id[i]) ELSE <<>>
<1>7. TransactionsOf(Prefix(id, i), m) = <<>> \o new /\ new \in Seq(Tx)
  <2> DEFINE later == IF Number(id[(i - 1) + 1]) = m THEN TransactionsIn(id[(i - 1) + 1]) ELSE <<>>
  <2>1. /\ TransactionsOf(Prefix(id, (i - 1) + 1), m) = TransactionsOf(Prefix(id, i - 1), m) \o later
        /\ later \in Seq(Tx)
    BY <1>5, TransactionsNext
  <2> QED BY <1>5, <1>6, <2>1
<1>8. new # <<>>
  BY <1>3, <1>7, ConcatEmptySeq
<1>9. Number(id[i]) = m /\ TransactionsIn(id[i]) # <<>>
  BY <1>8
<1>10. id[i].actions # <<>>
  <2> SUFFICES ASSUME id[i].actions = <<>> PROVE FALSE
    OBVIOUS
  <2>1. /\ TransactionsIn(id[i]) \in Seq(Tx)
        /\ Len(TransactionsIn(id[i])) = Len(id[i].actions)
    BY <1>5, PositionFacts, BodyTransactions
  <2>2. Len(TransactionsIn(id[i])) = 0
    BY <2>1
  <2> QED BY <1>9, <2>1, <2>2, EmptySeq
<1> QED BY <1>5, <1>9, <1>10

\* The last action of a branch, up to the EVM block of the next block, is the last one of a
\* block of it, and no later block has actions.
LEMMA LastActionWhere ==
  ASSUME HistoriesAreIds, NEW id \in Histories, Timed(id),
         NEW n \in 1 .. Len(id), NEW m, m = Number(id[n]),
         NEW a, a = LastActionOf(Prefix(id, n - 1), m)
  PROVE  /\ a = None => \A k \in 1 .. n - 1 : id[k].actions = <<>>
         /\ a # None => \E k \in 1 .. n - 1 :
              /\ id[k].actions # <<>> /\ a = Last(id[k].actions)
              /\ \A j \in k + 1 .. n - 1 : id[j].actions = <<>>
<1> DEFINE A == ActionPositions(id, n - 1, m)
           M == Max(A)
<1>1. /\ Len(id) \in Nat /\ n \in Nat /\ n - 1 \in 0 .. Len(id)
      /\ \A k \in 1 .. n - 1 : k \in 1 .. Len(id) /\ n \in k .. Len(id)
  BY FullPrefix
<1>2. \A k \in 1 .. n - 1 : Number(id[k]) <= m
  BY <1>1, TimedNumbers
<1>3. A = {k \in 1 .. n - 1 : id[k].actions # <<>>}
  BY <1>2 DEF ActionPositions
<1>4. a = IF A = {} THEN None ELSE Last(id[M].actions)
  BY <1>1, LastAre
<1>5. A # {} => M \in A /\ \A k \in A : k <= M
  <2>1. A \in SUBSET (0 .. n - 1)
    BY <1>3
  <2>2. n - 1 \in Nat
    BY <1>1
  <2> HIDE DEF A
  <2>3. A # {} => Max(A) \in A /\ \A k \in A : Max(A) >= k
    BY <2>1, <2>2, MaxExists
  <2> QED BY <2>1, <2>3
<1> HIDE DEF A, M
<1>6. CASE A = {}
  BY <1>3, <1>4, <1>6
<1>7. CASE A # {}
  <2>1. M \in 1 .. n - 1 /\ id[M].actions # <<>>
    BY <1>3, <1>5, <1>7
  <2>2. ASSUME NEW j \in M + 1 .. n - 1
        PROVE  id[j].actions = <<>>
    <3>1. j \in 1 .. n - 1 /\ ~(j <= M)
      BY <1>1, <2>1
    <3> QED BY <1>3, <1>5, <1>7, <3>1
  <2>3. id[M].actions \in Seq(NativeAction)
    BY <1>1, <2>1, PositionFacts, BodyTransactions
  <2>4. Last(id[M].actions) \in NativeAction
    <3> HIDE DEF M
    <3> QED BY <2>1, <2>3, FrontFacts
  <2>5. a # None
    BY <1>4, <1>7, <2>4, ActionAssumption
  <2> QED BY <1>4, <1>7, <2>1, <2>2, <2>5
<1> QED BY <1>6, <1>7

-----------------------------------------------------------------------------
(* No handler fails *)

\* The actions and the configchange of the new block, and the last action of its parent's
\* branch, which belongs to the same EVM block if that has transactions already.
LEMMA ActionsBefore ==
  ASSUME HistoriesAreIds, CleanStart, ContractPayloads, Ready, ContractAllows(best),
         pc \in {"extend", "fill"}
  PROVE  LET p    == new_block.prev
             m    == NumberOf(new_block.id)
             a    == LastActionOf(p, m)
             some == TransactionsOf(p, m) # <<>>
         IN  /\ some => a # None /\ new_block.new_config = None
             /\ a # None =>
                  /\ a \in NativeAction /\ ContractAction(a)
                  /\ \A l \in 1 .. Len(new_block.actions) :
                       ActionFollows(new_block.actions[l], a, some)
<1> DEFINE p    == new_block.prev
           id   == new_block.id
           m    == NumberOf(id)
           a    == LastActionOf(p, m)
           some == TransactionsOf(p, m) # <<>>
           c    == Len(p)
           n    == Len(id)
           new  == new_block.actions
<1>1. /\ Message(new_block, c) /\ id \in Histories /\ Timed(id) /\ c \in Nat
      /\ n = c + 1 /\ p = Prefix(id, c) /\ m = Number(id[n])
      /\ new = id[n].actions /\ new_block.new_config = id[n].new_config
  BY NewBlockFacts
<1>2. best \in Histories /\ Timed(best)
  BY ReadyFacts
<1>3. m \in Nat /\ m > 0
  <2>1. m \in Nat /\ m > StartBlock.number
    BY NewBlockHeaders
  <2> QED BY <2>1, StartNumber
<1> HIDE DEF p, id, m, a, some, c, n, new
<1>4. ASSUME NEW k \in 1 .. c
      PROVE  LET same == Number(id[k]) = m
             IN  /\ same /\ id[n].new_config # None => id[k].actions = <<>>
                 /\ \A h \in 1 .. Len(id[k].actions), l \in 1 .. Len(new) :
                      ActionFollows(new[l], id[k].actions[h], same)
  <2>1. k \in 1 .. c + 1 /\ n \in 1 .. c + 1 /\ k < n
    BY <1>1
  <2>2. ContractOrders(id[k], id[n])
    BY <1>1, <1>2, <2>1, ContractFacts DEF id
  <2>3. Number(id[k]) = m <=> Number(id[k]) = Number(id[n]) /\ Number(id[k]) > 0
    BY <1>1, <1>3
  <2> QED BY <1>1, <2>2, <2>3 DEF ContractOrders, ActionFollows
<1>5. n \in 1 .. Len(id) /\ c \in 0 .. Len(id) /\ n - 1 = c /\ n \in Nat
  BY <1>1 DEF n
<1>6. /\ a = None => \A k \in 1 .. c : id[k].actions = <<>>
      /\ a # None => \E k \in 1 .. c :
           /\ id[k].actions # <<>> /\ a = Last(id[k].actions)
           /\ \A j \in k + 1 .. c : id[j].actions = <<>>
  <2>1. a = LastActionOf(Prefix(id, n - 1), m)
    BY <1>1, <1>5 DEF a
  <2> QED BY <1>1, <1>5, <2>1, LastActionWhere
<1>7. some => \E k \in 1 .. c : Number(id[k]) = m /\ id[k].actions # <<>>
  BY <1>1, <1>5, TransactionsWhere DEF some
<1>8. some => a # None /\ new_block.new_config = None
  BY <1>1, <1>4, <1>6, <1>7
<1>9. ASSUME a # None
      PROVE  /\ a \in NativeAction /\ ContractAction(a)
             /\ \A l \in 1 .. Len(new) : ActionFollows(new[l], a, some)
  <2>1. PICK k \in 1 .. c :
          /\ id[k].actions # <<>> /\ a = Last(id[k].actions)
          /\ \A j \in k + 1 .. c : id[j].actions = <<>>
    BY <1>6, <1>9
  <2>2. id[k] \in Bodies /\ k \in 1 .. Len(id)
    BY <1>1, <1>5, PositionFacts
  <2> PICK acts : acts = id[k].actions
    OBVIOUS
  <2>3. acts \in Seq(NativeAction) /\ acts # <<>> /\ a = acts[Len(acts)]
    BY <2>1, <2>2, BodyTransactions DEF Last
  <2>4. Len(acts) \in 1 .. Len(acts)
    BY <2>3, EmptySeq, LenProperties
  <2>5. a \in NativeAction /\ ContractAction(a)
    BY <2>2, <2>3, <2>4, BodyActions
  <2>6. some => Number(id[k]) = m
    <3> SUFFICES ASSUME some PROVE Number(id[k]) = m
      OBVIOUS
    <3>1. PICK h \in 1 .. c : Number(id[h]) = m /\ id[h].actions # <<>>
      BY <1>7
    <3>2. ~(h \in k + 1 .. c)
      BY <2>1, <3>1
    <3>3. h <= k
      BY <1>1, <3>2
    <3>4. h \in 1 .. Len(id) /\ k \in h .. Len(id) /\ n \in k .. Len(id)
      BY <1>1, <1>5, <2>2, <3>3
    <3>5. Number(id[h]) <= Number(id[k]) /\ Number(id[k]) <= Number(id[n])
      BY <1>1, <2>2, <3>4, TimedNumbers
    <3>6. Number(id[k]) \in Nat
      BY <2>2, NumberType
    <3> QED BY <1>1, <1>3, <3>1, <3>5, <3>6
  <2>7. \A l \in 1 .. Len(new) : ActionFollows(new[l], a, some)
    BY <1>4, <2>3, <2>4, <2>6 DEF ActionFollows
  <2> QED BY <2>5, <2>7
<1> QED BY <1>8, <1>9 DEF p, id, m, a, some, new

\* Before its first action, the EVM block of the new block holds what the parent's branch says.
LEMMA FillStarts ==
  ASSUME HistoriesAreIds, CleanStart, Ready, FilledInv, pc = "fill", Done = 0
  PROVE  back.transactions = TransactionsOf(new_block.prev, NumberOf(new_block.id))
<1> DEFINE p    == new_block.prev
           id   == new_block.id
           m    == NumberOf(id)
           n    == Len(id)
           acts == new_block.actions
           txs  == TransactionsIn(id[n])
           old  == TransactionsOf(p, m)
<1>1. /\ id \in Histories /\ id # <<>> /\ n = Len(p) + 1 /\ Len(p) \in Nat
      /\ p = Prefix(id, Len(p)) /\ m = Number(id[n]) /\ acts = id[n].actions
      /\ back \in EvmBlock
  BY NewBlockFacts
<1>2. back.transactions \o TransactionsOfActions(pending) = TransactionsOf(id, m)
  BY DEF Ready, CacheInv, FillInv, back
<1>3. acts \in Seq(NativeAction) /\ pending \in Seq(NativeAction) /\ Len(acts) \in Nat
  BY NewBlockHeaders, LenProperties DEF Ready, TypedLists, TypeOK
<1>4. pending = acts
  <2>1. /\ Len(acts) - Len(pending) = 0
        /\ \A j \in 1 .. Len(pending) : pending[j] = acts[0 + j]
    BY DEF FilledInv, Done
  <2>2. Len(pending) \in Nat
    BY <1>3, LenProperties
  <2> HIDE DEF acts
  <2>3. Len(pending) = Len(acts) /\ \A j \in 1 .. Len(pending) : 0 + j = j
    BY <1>3, <2>1, <2>2
  <2>4. \A j \in 1 .. Len(pending) : pending[j] = acts[j]
    BY <2>1, <2>3
  <2> QED BY <1>3, <2>3, <2>4, SeqEqual
<1>5. TransactionsOfActions(pending) = txs
  BY <1>1, <1>4 DEF TransactionsOfActions, TransactionsIn
<1> HIDE DEF p, id, m, n
<1>6. old \in Seq(Tx) /\ txs \in Seq(Tx) /\ TransactionsOf(id, m) = old \o txs
  <2>1. n - 1 = Len(p) /\ n = Len(id)
    BY <1>1 DEF n
  <2>2. /\ old = TransactionsOf(Prefix(id, Len(id) - 1), m)
        /\ txs = TransactionsIn(id[Len(id)]) /\ m = Number(id[Len(id)])
    BY <1>1, <2>1
  <2> HIDE DEF old, txs
  <2> QED BY <1>1, <2>2, TransactionsTip
<1>7. back.transactions \in Seq(Tx) /\ back.transactions \o txs = old \o txs
  BY <1>1, <1>2, <1>5, <1>6 DEF EvmBlock
<1> HIDE DEF txs, old
<1>8. /\ SubSeq(back.transactions \o txs, 1, Len(back.transactions \o txs) - Len(txs))
           = back.transactions
      /\ SubSeq(old \o txs, 1, Len(old \o txs) - Len(txs)) = old
  BY <1>6, <1>7, WithoutSuffix
<1>9. back.transactions = old
  BY <1>7, <1>8
<1> QED BY <1>9 DEF old, p, id, m

\* Every transaction that the contract lets into a block is accepted, if the EVM block has the
\* header that the branch says.
LEMMA AlwaysAccepted ==
  ASSUME HistoriesAreIds, CleanStart, ContractPayloads, Ready, FilledInv, ContractAllows(best),
         pc = "fill", pending # <<>>, HeaderIn(back) = HeaderSoFar
  PROVE  Acceptable(back, deserialize_tx(Head(pending)))
<1> DEFINE na     == Head(pending)
           acts   == new_block.actions
           id     == new_block.id
           m      == NumberOf(id)
           a      == LastSeen
           config == LastConfigOf(id, m)
           base   == IF StartBlock.number = 0 THEN ChainVersion ELSE StartBlock.version
<1>1. /\ Done \in 0 .. Len(acts) /\ Len(acts) \in Nat /\ na = acts[Done + 1]
      /\ Done + 1 \in 1 .. Len(acts)
      /\ Done # 0 => Done \in 1 .. Len(acts)
  BY SeenFacts
<1>2. /\ id \in Histories /\ Len(id) \in 1 .. Len(id) /\ acts = id[Len(id)].actions
      /\ back \in EvmBlock
  BY NewBlockFacts, EmptySeq, LenProperties DEF Histories
<1>3. HeaderIn(back) = HeaderAfter(a, config)
  BY DEF HeaderSoFar
<1>4. a = IF Done = 0 THEN LastActionOf(new_block.prev, m) ELSE acts[Done]
  BY DEF LastSeen
<1>5. Done = 0 => back.transactions = TransactionsOf(new_block.prev, m)
  BY FillStarts
<1>6. Done = 0 =>
        /\ back.transactions # <<>> => a # None
        /\ a # None => ContractAction(a) /\ ActionFollows(na, a, back.transactions # <<>>)
  <2> SUFFICES ASSUME Done = 0
               PROVE  /\ back.transactions # <<>> => a # None
                      /\ a # None => ContractAction(a) /\ ActionFollows(na, a, back.transactions # <<>>)
    OBVIOUS
  <2>1. a = LastActionOf(new_block.prev, m) /\ back.transactions = TransactionsOf(new_block.prev, m)
    BY <1>4, <1>5
  <2> HIDE DEF na, a
  <2>2. /\ back.transactions # <<>> => a # None
        /\ a # None =>
             /\ ContractAction(a)
             /\ \A l \in 1 .. Len(acts) : ActionFollows(acts[l], a, back.transactions # <<>>)
    BY <2>1, ActionsBefore
  <2> HIDE DEF acts
  <2>3. PICK l \in 1 .. Len(acts) : na = acts[l]
    BY <1>1
  <2> QED BY <2>2, <2>3
<1>7. PICK x \in Bodies : acts = x.actions
  BY <1>2, PositionFacts
<1> HIDE DEF na, acts, id, m, a, config
<1> PICK l : l = Done + 1
  OBVIOUS
<1>8. l \in 1 .. Len(x.actions) /\ na = x.actions[l] /\ na \in NativeAction /\ ContractAction(na)
  <2>1. l \in 1 .. Len(x.actions) /\ na = x.actions[l]
    BY <1>1, <1>7
  <2> QED BY <2>1, BodyActions
<1>9. Done # 0 => a # None /\ ContractAction(a) /\ ActionFollows(na, a, TRUE)
  <2> SUFFICES ASSUME Done # 0 PROVE a # None /\ ContractAction(a) /\ ActionFollows(na, a, TRUE)
    OBVIOUS
  <2>1. Done \in 1 .. Len(x.actions) /\ a = x.actions[Done]
    BY <1>1, <1>4, <1>7
  <2> PICK d \in 1 .. Len(x.actions) : a = x.actions[d]
    BY <2>1
  <2>2. a \in NativeAction /\ ContractAction(a) /\ ActionFollows(na, a, TRUE)
    BY <1>8, BodyActions
  <2> QED BY <2>2, ActionAssumption
<1> DEFINE v    == na.eos_evm_version
           w    == a.eos_evm_version
           some == back.transactions # <<>>
<1>10. /\ some => a # None
       /\ a # None => deserialize_tx(a) = a /\ w <= v /\ (some => w = v /\ Fee(a) = Fee(na))
  <2>1. CASE Done = 0
    BY <1>6, <2>1 DEF ContractAction, ActionFollows
  <2>2. CASE Done # 0
    BY <1>9, <2>2 DEF ContractAction, ActionFollows
  <2> QED BY <2>1, <2>2
<1>11. back.version <= v /\ (some => back.version = v)
  <2>1. back.version = IF a = None THEN base ELSE deserialize_tx(a).eos_evm_version
    BY <1>3 DEF HeaderIn, HeaderAfter
  <2>2. CASE a = None
    BY <1>8, <1>10, <2>1, <2>2 DEF ContractAction
  <2>3. CASE a # None
    BY <1>10, <2>1, <2>3
  <2> QED BY <2>2, <2>3
<1>12. some /\ v >= 3 => back.gas_prices = na.gas_prices
  <2> SUFFICES ASSUME some, v >= 3 PROVE back.gas_prices = na.gas_prices
    OBVIOUS
  <2>1. a # None /\ deserialize_tx(a) = a /\ w = v /\ Fee(a) = Fee(na)
    BY <1>10
  <2>2. back.gas_prices = a.gas_prices
    <3>1. w > 0 /\ ~(w <= 2) /\ w >= 3
      BY <1>8, <2>1 DEF NativeAction
    <3> QED BY <1>3, <2>1, <3>1 DEF HeaderIn, HeaderAfter
  <2> QED BY <2>1, <2>2 DEF Fee
<1>13. some /\ v \in 1 .. 2 => back.base_fee_per_gas = na.base_fee_per_gas
  <2> SUFFICES ASSUME some, v \in 1 .. 2 PROVE back.base_fee_per_gas = na.base_fee_per_gas
    OBVIOUS
  <2>1. a # None /\ deserialize_tx(a) = a /\ w = v /\ Fee(a) = Fee(na)
    BY <1>10
  <2>2. back.base_fee_per_gas = a.base_fee_per_gas
    BY <1>3, <2>1 DEF HeaderIn, HeaderAfter
  <2> QED BY <2>1, <2>2 DEF Fee
<1>14. v \in Nat /\ back.version \in Nat
  BY <1>2, <1>8 DEF NativeAction, EvmBlock
<1>15. Acceptable(back, na)
  <2>1. v >= back.version /\ (v > back.version => ~some)
    BY <1>11, <1>14
  <2>2. v >= 3 => holds_evmtx_v3(na)
    BY <1>8 DEF holds_evmtx_v3, ContractAction
  <2>3. v \in 1 .. 2 => ~holds_evmtx_v3(na)
    BY <1>8 DEF holds_evmtx_v3, ContractAction
  <2> QED BY <1>8, <1>12, <1>13, <2>1, <2>2, <2>3 DEF Acceptable, ContractAction
<1> QED BY <1>8, <1>15 DEF na, ContractAction

\* A configchange finds no transaction in the EVM block of its block.
LEMMA ConfigFirst ==
  ASSUME HistoriesAreIds, CleanStart, ContractPayloads, Ready, ContractAllows(best),
         pc = "extend", back.number >= EvmNum(new_block), new_block.new_config # None
  PROVE  back.transactions = <<>>
<1> DEFINE p == new_block.prev
           m == NumberOf(new_block.id)
<1>1. /\ EvmNum(new_block) = m /\ Len(evm_blocks) \in 1 .. Len(evm_blocks)
      /\ back = evm_blocks[Len(evm_blocks)] /\ back.number \in Nat
  BY NewBlockFacts
<1>2. m \in Nat /\ m > StartBlock.number
  BY NewBlockHeaders
<1>3. back.number <= m /\ \A i \in 1 .. Len(evm_blocks) : Good(evm_blocks[i], p)
  BY DEF Ready, CacheInv, ExtendInv, back
<1>4. back.number = m
  BY <1>1, <1>2, <1>3
<1>5. back.transactions = TransactionsOf(p, m)
  BY <1>1, <1>2, <1>3, <1>4 DEF Good, Holds
<1> QED BY <1>5, ActionsBefore

\* The irreversible blocks leave something of both lists.
LEMMA SomethingRetained ==
  ASSUME CleanStart, Ready, pc = "fill"
  PROVE  IrreversibleIndices # {} /\ RetainedNative # {} /\ RetainedEvm # {}
<1> DEFINE f == Max(IrreversibleIndices)
           n == Len(evm_blocks)
           m == NumberOf(new_block.id)
           k == NumberOf(native_blocks[f].id)
<1>1. /\ IrreversibleIndices # {} /\ RetainedNative # {} /\ ComputedLib \in Nat
      /\ k \in Nat /\ ComputedLib < k /\ k <= m
  BY TrimFacts
<1>2. /\ n \in 1 .. n /\ n \in Nat /\ evm_blocks \in Seq(EvmBlock)
      /\ back = evm_blocks[n] /\ back.number \in Nat
  BY NewBlockFacts, LenProperties
<1>3. back.number = m
  BY DEF Ready, CacheInv, FillInv, back
<1> HIDE DEF n, m, k
<1>4. evm_blocks[n].number >= ComputedLib
  BY <1>1, <1>2, <1>3
<1>5. n \in DOMAIN evm_blocks
  BY <1>2, LenProperties DEF n
<1>6. n \in RetainedEvm
  BY <1>4, <1>5 DEF RetainedEvm
<1> QED BY <1>1, <1>6

\* The EVM block of the fork point holds the transactions of a forked block of its second.
LEMMA AlwaysRemoved ==
  ASSUME HistoriesAreIds, CleanStart, ContractPayloads, Ready, FirstInv, pc = "unwind",
         ~EvmBlockIsForked, NativeBlockIsForked, MustRemoveTransactions(Last(native_blocks))
  PROVE  evm_blocks # <<>> /\ CanRemoveTransactions(back, Last(native_blocks))
<1> DEFINE N    == native_blocks
           p    == new_block.prev
           m    == NumberOf(p)
           x    == Branch[Len(Branch)]
           acts == x.actions
           last == Last(N)
           old  == TransactionsOf(Prefix(Branch, Len(Branch) - 1), m)
           txs  == TransactionsIn(x)
<1>1. /\ ForkIndex \in 1 .. Len(N) /\ ForkIndex < Len(N) /\ EvmNum(fork_block) = m
      /\ m \in Nat /\ m > StartBlock.number
      /\ \A j \in 1 .. Len(evm_blocks) : Unwound(evm_blocks[j], Branch, p)
  BY UnwindFacts
<1>2. /\ N \in Seq(NativeBlock) /\ N # <<>> /\ Window(N) /\ Len(N) \in Nat
      /\ Branch \in Histories /\ Len(Branch) \in Nat /\ Branch = Last(N).id
      /\ evm_blocks \in Seq(EvmBlock) /\ Len(evm_blocks) \in Nat
  BY ReadyFacts DEF Branch
<1>3. evm_blocks # <<>> /\ back \in EvmBlock /\ back.number = m
  BY ForkPointFacts
<1>4. last.actions = acts /\ EvmNum(last) = Number(x) /\ Branch # <<>>
  <2>1. Len(N) \in 2 .. Len(N)
    BY <1>1, <1>2
  <2>2. At(N, Len(N)) = Len(Branch)
    BY <1>2 DEF At
  <2>3. last = N[Len(N)]
    BY DEF Last
  <2>4. /\ N[Len(N)].actions = Last(N).id[At(N, Len(N))].actions
        /\ EvmNum(N[Len(N)]) = Number(Last(N).id[At(N, Len(N))])
        /\ N[Len(N)].id # <<>>
    BY <1>2, <2>1, WindowFacts
  <2> QED BY <1>2, <2>2, <2>3, <2>4
<1>5. x \in Bodies
  BY <1>2, <1>4, EmptySeq, PositionFacts DEF Histories
<1>6. /\ acts \in Seq(NativeAction) /\ txs \in Seq(Tx) /\ Len(txs) = Len(acts)
      /\ Len(acts) \in Nat /\ DOMAIN acts = 1 .. Len(acts)
  BY <1>5, BodyTransactions, LenProperties
<1>7. \A i \in 1 .. Len(acts) : acts[i] \in NativeAction /\ ContractAction(acts[i])
  BY <1>5, BodyActions
<1>8. \A i \in 1 .. Len(acts) : txs[i] = acts[i].rlpx.tx
  BY <1>6 DEF TransactionsIn
<1>9. Number(x) = m
  BY <1>1, <1>4 DEF MustRemoveTransactions
<1> HIDE DEF x, last
<1>10. old \in Seq(Tx) /\ TransactionsOf(Branch, m) = old \o txs
  BY <1>2, <1>4, <1>9, TransactionsTip DEF x
<1>11. back.transactions = old \o txs
  <2>1. Len(evm_blocks) \in 1 .. Len(evm_blocks) /\ back = evm_blocks[Len(evm_blocks)]
    BY <1>2, <1>3, EmptySeq DEF back, Last
  <2>2. Unwound(back, Branch, p)
    BY <1>1, <2>1
  <2> QED BY <1>1, <1>3, <1>10, <2>2 DEF Unwound
<1> HIDE DEF old, txs, acts, m, p
<1>12. /\ Len(back.transactions) - Len(last.actions) = Len(old) /\ Len(old) \in Nat
       /\ \A i \in 1 .. Len(acts) : back.transactions[Len(old) + i] = txs[i]
  <2>1. /\ Len(old \o txs) = Len(old) + Len(txs) /\ Len(old) \in Nat /\ Len(txs) \in Nat
        /\ \A j \in 1 .. Len(old) + Len(txs) :
             (old \o txs)[j] = IF j <= Len(old) THEN old[j] ELSE txs[j - Len(old)]
    BY <1>6, <1>10, ConcatProperties, LenProperties
  <2>2. ASSUME NEW i \in 1 .. Len(acts)
        PROVE  (old \o txs)[Len(old) + i] = txs[i]
    <3>1. /\ Len(old) + i \in 1 .. Len(old) + Len(txs) /\ ~(Len(old) + i <= Len(old))
          /\ (Len(old) + i) - Len(old) = i
      BY <1>6, <2>1
    <3> QED BY <2>1, <3>1
  <2> QED BY <1>4, <1>6, <1>11, <2>1, <2>2
<1>13. ASSUME NEW i \in DOMAIN last.actions
       PROVE  deserialize_tx(last.actions[i]).rlpx = encode(back.transactions[Len(old) + i])
  <2>1. /\ i \in 1 .. Len(acts) /\ last.actions[i] = acts[i]
        /\ acts[i] \in NativeAction /\ ContractAction(acts[i])
    BY <1>4, <1>6, <1>7
  <2>2. back.transactions[Len(old) + i] = acts[i].rlpx.tx
    BY <1>8, <1>12, <2>1
  <2>3. acts[i].rlpx = [tx |-> acts[i].rlpx.tx, form |-> "plain"]
    BY <2>1 DEF ContractAction, NativeAction, Rlpx
  <2> QED BY <2>1, <2>2, <2>3 DEF ContractAction, encode
<1>14. CanRemoveTransactions(back, last)
  <2> DEFINE kept == Len(back.transactions) - Len(last.actions)
  <2>1. kept = Len(old) /\ EvmNum(last) = back.number
    BY <1>3, <1>4, <1>9, <1>12
  <2> HIDE DEF kept
  <2>2. /\ kept >= 0
        /\ \A i \in DOMAIN last.actions :
             deserialize_tx(last.actions[i]).rlpx = encode(back.transactions[kept + i])
    BY <1>12, <1>13, <2>1
  <2> QED BY <2>1, <2>2 DEF CanRemoveTransactions, kept
<1> QED BY <1>3, <1>14 DEF last

\* Once it is the last of the cache, the fork point is of the last EVM block's second.
LEMMA BoundAlwaysSet ==
  ASSUME CleanStart, Ready, FirstInv, pc = "unwind", ~EvmBlockIsForked, ~NativeBlockIsForked
  PROVE  evm_blocks # <<>> /\ EvmNum(Last(native_blocks)) = back.number
<1> DEFINE p == new_block.prev
           n == Len(native_blocks)
<1>1. evm_blocks # <<>> /\ back.number = NumberOf(p)
  BY ForkPointFacts
<1>2. ForkIndex = Len(p) - Len(Branch) + n /\ n \in Nat /\ Len(Branch) \in Nat
  BY UnwindFacts, ReadyFacts
<1>3. Branch = p
  BY DEF NativeBlockIsForked, Branch
<1>4. ForkIndex = n
  BY <1>2, <1>3
<1>5. EvmNum(native_blocks[ForkIndex]) = NumberOf(p)
  BY DEF Ready, CacheInv, UnwindInv
<1> QED BY <1>1, <1>4, <1>5 DEF Last

-----------------------------------------------------------------------------
(* The node goes on *)

\* The connection has not failed too often, one failure after the other.
QuitInv == conn # "quit" /\ retry_count \in 0 .. failures /\ failures \in 0 .. MaxFailures

\* The handler has ended with a configchange of the chain, and without execution engine.
ConfigExit == ~exec_engine /\ new_block.new_config \in {x.new_config : x \in Payload} \ {None}

\* The handler has only ended so, or with a transaction for an EVM block whose header a fork
\* has left there.
StopInv ==
  pc = "exited" => ConfigExit \/ (pending # <<>> /\ HeaderIn(back) # HeaderSoFar)

AliveInv ==
  SentInv /\ FirstInv /\ QuitInv /\ ContractAllows(best) /\ FilledInv /\ StopInv

\* Without such a fork only the configchange is left.
ExitInv == pc = "exited" => ConfigExit

LEMMA HandlerExits ==
  ASSUME HistoriesAreIds, CleanStart, ContractPayloads, Ready, FirstInv,
         ContractAllows(best), HandlerStep, ~RejectTransaction
  PROVE  ExitInv'
<1>1. CASE DropEvmBlock \/ DropNativeBlock
  BY <1>1 DEF DropEvmBlock, DropNativeBlock, ExitInv
<1>2. CASE ResetUpperBound \/ ExtendEvmChain \/ ApplyConfig
  BY <1>2 DEF ResetUpperBound, ExtendEvmChain, ApplyConfig, ExitInv
<1>3. CASE AddTransaction \/ FinishWithoutLib \/ FinishAndTrim
  BY <1>3 DEF AddTransaction, FinishWithoutLib, FinishAndTrim, ExitInv
<1>4. ~FailToRemove
  BY AlwaysRemoved DEF FailToRemove
<1>5. ~FailToSetUpperBound
  BY BoundAlwaysSet DEF FailToSetUpperBound
<1>6. ~RejectTransaction
  OBVIOUS
<1>7. ~FailToTrim
  BY SomethingRetained DEF FailToTrim
<1>8. CASE FailToSetConfig
  <2>1. /\ pc = "extend" /\ back.number >= EvmNum(new_block)
        /\ new_block.new_config # None /\ ~CanSetConfig(back)
        /\ UNCHANGED <<new_block, exec_engine>>
    BY <1>8 DEF FailToSetConfig, Exit, locals, shared
  <2>2. ~exec_engine
    BY <2>1, ConfigFirst DEF CanSetConfig
  <2>3. /\ new_block.id \in Histories /\ new_block.id # <<>>
        /\ new_block.new_config = new_block.id[Len(new_block.id)].new_config
    BY <2>1, NewBlockFacts
  <2>4. Len(new_block.id) \in 1 .. Len(new_block.id)
    BY <2>3, EmptySeq, LenProperties DEF Histories
  <2>5. new_block.id[Len(new_block.id)] \in Bodies
    BY <2>3, <2>4, PositionFacts
  <2>6. new_block.new_config \in {x.new_config : x \in Payload}
    BY <2>3, <2>5 DEF Bodies
  <2> QED BY <2>1, <2>2, <2>6 DEF ExitInv, ConfigExit
<1> QED BY <1>1, <1>2, <1>3, <1>4, <1>5, <1>6, <1>7, <1>8 DEF HandlerStep

LEMMA HandlerStops ==
  ASSUME HistoriesAreIds, CleanStart, ContractPayloads, Ready, FirstInv, FilledInv,
         ContractAllows(best), HandlerStep
  PROVE  StopInv'
<1>1. CASE ~RejectTransaction
  BY <1>1, HandlerExits DEF ExitInv, StopInv
<1>2. CASE RejectTransaction
  <2>1. /\ pc = "fill" /\ pending # <<>> /\ ~Acceptable(back, deserialize_tx(Head(pending)))
        /\ UNCHANGED <<evm_blocks, pending, new_block>>
    BY <1>2 DEF RejectTransaction, Exit, caches, locals
  <2>2. HeaderIn(back) # HeaderSoFar
    BY <2>1, AlwaysAccepted
  <2>3. UNCHANGED <<back, HeaderSoFar>>
    BY <2>1 DEF back, HeaderSoFar, LastSeen, Done
  <2> QED BY <2>1, <2>2, <2>3 DEF StopInv
<1> QED BY <1>1, <1>2

\* The handler never sees more, or less, of the new block's actions.
LEMMA HandlerFilled ==
  ASSUME HistoriesAreIds, CleanStart, Ready, FilledInv, HandlerStep
  PROVE  FilledInv'
<1>1. CASE ApplyConfig
  BY <1>1, ConfigFilled
<1>2. CASE AddTransaction
  BY <1>2, TransactionFilled
<1>3. CASE DropEvmBlock \/ DropNativeBlock \/ ResetUpperBound \/ ExtendEvmChain
  BY <1>3 DEF DropEvmBlock, DropNativeBlock, ResetUpperBound, ExtendEvmChain, FilledInv
<1>4. CASE FinishWithoutLib \/ FinishAndTrim
  BY <1>4 DEF FinishWithoutLib, FinishAndTrim, FilledInv
<1>5. CASE FailToRemove \/ FailToSetUpperBound \/ FailToSetConfig \/ RejectTransaction \/ FailToTrim
  BY <1>5 DEF FailToRemove, FailToSetUpperBound, FailToSetConfig, RejectTransaction, FailToTrim,
     Exit, FilledInv
<1> QED BY <1>1, <1>2, <1>3, <1>4, <1>5 DEF HandlerStep

LEMMA ConnectQuit ==
  ASSUME MaxFailures <= max_retry, QuitInv, Connect
  PROVE  QuitInv'
<1>1. MaxFailures \in Nat /\ max_retry \in Nat
  BY ReceiverAssumption
<1>2. CASE Startup \/ sync
  BY <1>2 DEF QuitInv, Startup, sync
<1>3. CASE reset_connection
  <2>1. /\ failures < MaxFailures /\ failures' = failures + 1 /\ retry_count' = retry_count + 1
        /\ conn' = IF retry_count' > max_retry THEN "quit" ELSE "connecting"
    BY <1>3 DEF reset_connection
  <2>2. failures \in Nat /\ retry_count \in Nat /\ retry_count <= failures
    BY <1>1 DEF QuitInv
  <2>3. retry_count' \in 0 .. failures' /\ failures' \in 0 .. MaxFailures
    BY <1>1, <2>1, <2>2
  <2>4. ~(retry_count' > max_retry)
    BY <1>1, <2>3
  <2> QED BY <2>1, <2>3, <2>4 DEF QuitInv
<1> QED BY <1>2, <1>3 DEF Connect, ConnectionFails, ReadFails

LEMMA NextAlive ==
  ASSUME HistoriesAreIds, CleanStart, ContractPayloads, MaxFailures <= max_retry,
         Ready, AliveInv, Ready', [SystemNext]_allvars
  PROVE  AliveInv'
<1> USE DEF AliveInv
<1>1. StreamTypeOK /\ StreamTypeOK'
  BY DEF Ready, ShipTypeOK
<1>2. CASE Deliver
  <2>1. PICK nb : ReadBlock(nb) /\ Receive(nb)
    BY <1>2 DEF Deliver
  <2>2. pc = "idle"
    BY <2>1 DEF Receive, ReceiveBeforeGenesis, ReceiveDuplicate, ReceiveUnknownFork,
       ReceiveFork, ReceiveLinked
  <2>3. PICK c \in Nat : Message(nb, c) /\ nb \in NativeBlock /\ UNCHANGED <<best, lib>>
    BY <2>1, ReadNext DEF Ready
  <2>4. SentInv' /\ StopInv' /\ FilledInv'
    <3>1. SentInv' /\ pc' # "exited"
      BY <2>1, <2>2, ReceiveSent
    <3>2. pc' # "fill"
      BY <2>1 DEF Receive, ReceiveBeforeGenesis, ReceiveDuplicate, ReceiveUnknownFork,
         ReceiveFork, ReceiveLinked, Exit, vars
    <3> QED BY <3>1, <3>2 DEF StopInv, FilledInv
  <2>5. FirstInv'
    BY <2>1, <2>3, ReceiveFirst
  <2>6. QuitInv'
    <3>1. retry_count' = 0 /\ UNCHANGED <<conn, failures>>
      BY <2>1 DEF ReadBlock
    <3>2. failures \in Nat
      BY ReceiverAssumption DEF QuitInv
    <3> QED BY <3>1, <3>2 DEF QuitInv
  <2> QED BY <2>3, <2>4, <2>5, <2>6
<1>3. CASE ChainStep
  <2>1. pc = "idle" /\ UNCHANGED <<vars, receiver_vars>>
    BY <1>3 DEF ChainStep
  <2>2. SentInv' /\ FirstInv'
    BY <1>1, <1>3, ChainSent, ChainFirst
  <2>3. QuitInv' /\ StopInv' /\ FilledInv'
    BY <2>1 DEF QuitInv, StopInv, FilledInv, vars, receiver_vars
  <2>4. ContractAllows(best)'
    BY <1>3 DEF ChainStep, Produce, AdvanceLib
  <2> QED BY <2>2, <2>3, <2>4
<1>4. CASE ConnectionStep
  <2>1. pc = "idle" /\ Connect /\ UNCHANGED vars
    BY <1>4 DEF ConnectionStep
  <2>2. UNCHANGED <<best, lib>>
    BY <2>1, ConnectStream DEF Ready
  <2>3. SentInv' /\ QuitInv'
    BY <1>4, <2>1, ConnectSent, ConnectQuit
  <2>4. FirstInv' /\ StopInv' /\ FilledInv'
    BY <2>1, <2>2 DEF FirstInv, StopInv, FilledInv, Firm, vars, caches, locals, shared
  <2> QED BY <2>2, <2>3, <2>4
<1>5. CASE NodeStep
  <2>1. UNCHANGED <<nodeos_vars, receiver_vars>> /\ UNCHANGED <<best, lib>>
    BY <1>5 DEF NodeStep, nodeos_vars, chain_vars
  <2>2. QuitInv' /\ ContractAllows(best)'
    BY <2>1 DEF QuitInv, receiver_vars
  <2>3. CASE HandlerStep
    BY <2>1, <2>2, <2>3, HandlerSent, HandlerFirst, HandlerStops, HandlerFilled
  <2>4. CASE OpenExecutionEngine
    <3>1. pc = "idle" /\ UNCHANGED <<native_blocks, evm_blocks, pc, new_block>>
      BY <2>4 DEF OpenExecutionEngine, caches, locals
    <3>2. UNCHANGED <<sent, behind, conn, last_lib, last_block_num, stored_num>>
      BY <2>1 DEF nodeos_vars, session_vars, receiver_vars
    <3>3. SentInv'
      BY <2>1, <3>1, <3>2 DEF SentInv, Branch, Firm, ResumeAfter
    <3>4. FirstInv' /\ StopInv' /\ FilledInv'
      BY <2>1, <3>1 DEF FirstInv, StopInv, FilledInv, Firm
    <3> QED BY <2>2, <3>3, <3>4
  <2> QED BY <1>5, <2>3, <2>4 DEF NodeStep
<1>6. CASE UNCHANGED allvars
  <2>1. UNCHANGED <<native_blocks, evm_blocks, exec_engine, pc, new_block, pending, best, lib,
                    sent, behind>>
    BY <1>6 DEF allvars, vars, caches, locals, shared, nodeos_vars, chain_vars, session_vars
  <2>2. UNCHANGED <<conn, retry_count, last_lib, last_block_num, stored_num, failures>>
    BY <1>6 DEF allvars, receiver_vars
  <2>3. SentInv'
    BY <2>1, <2>2 DEF SentInv, Branch, Firm, ResumeAfter
  <2>4. FirstInv'
    BY <2>1 DEF FirstInv, Firm, back
  <2>5. StopInv' /\ FilledInv'
    <3>1. UNCHANGED <<back, Done, HeaderSoFar>>
      BY <2>1 DEF back, Done, HeaderSoFar, LastSeen
    <3> QED BY <2>1, <3>1 DEF StopInv, ConfigExit, FilledInv
  <2>6. QuitInv' /\ ContractAllows(best)'
    BY <2>1, <2>2 DEF QuitInv
  <2> QED BY <2>3, <2>4, <2>5, <2>6
<1> QED BY <1>2, <1>3, <1>4, <1>5, <1>6 DEF SystemNext

\* The start.
LEMMA StartAlive ==
  ASSUME SentInv, FirstInv, conn = "closed", retry_count = 0, failures \in 0 .. MaxFailures,
         ContractAllows(best), pc = "idle"
  PROVE  AliveInv
<1>1. failures \in Nat
  BY ReceiverAssumption
<1> QED BY <1>1 DEF AliveInv, QuitInv, StopInv, FilledInv

LEMMA InitAlive ==
  ASSUME HistoriesAreIds, CleanStart, SystemInit
  PROVE  AliveInv
<1>1. SentInv /\ FirstInv
  BY InitSent, InitFirst
<1>2. conn = "closed" /\ retry_count = 0 /\ failures = 0 /\ pc = "idle" /\ best = <<>>
  BY DEF SystemInit, ReceiverInit, NodeosInit, Init
<1>3. ContractAllows(best)
  BY <1>2 DEF ContractAllows
<1>4. failures \in 0 .. MaxFailures
  BY <1>2, ReceiverAssumption
<1> QED BY <1>1, <1>2, <1>3, <1>4, StartAlive

LEMMA RestartAlive ==
  ASSUME HistoriesAreIds, CleanStart, OptionUnused, WholeInv, AliveInv,
         NEW height \in Heights, Restart(height)
  PROVE  AliveInv'
<1>1. height = None \/ (height \in Nat /\ height <= StartBlock.number)
  BY StorageAssumption DEF Restart, OptionUnused, Optional
<1>2. SentInv' /\ FirstInv'
  BY <1>1, RestartSent, RestartFirst DEF WholeInv, Ready
<1>3. /\ conn' = "closed" /\ retry_count' = 0 /\ pc' = "idle" /\ failures' = failures
      /\ best' = best
  BY DEF Restart, nodeos_vars, chain_vars
<1>4. QuitInv' /\ ContractAllows(best)' /\ StopInv' /\ FilledInv'
  <2>1. failures \in 0 .. MaxFailures /\ failures \in Nat
    BY ReceiverAssumption DEF AliveInv, QuitInv
  <2>2. ContractAllows(best)'
    BY <1>3 DEF AliveInv
  <2> QED BY <1>3, <2>1, <2>2 DEF QuitInv, StopInv, FilledInv
<1> QED BY <1>2, <1>4 DEF AliveInv

\* What a step stops the handler with, where the headers are those of the branch.
LEMMA NextExits ==
  ASSUME HistoriesAreIds, CleanStart, ContractPayloads, Ready, HeaderInv, AliveInv, ExitInv,
         [SystemNext]_allvars
  PROVE  ExitInv'
<1> USE DEF AliveInv
<1>1. CASE Deliver
  <2>1. PICK nb : ReadBlock(nb) /\ Receive(nb)
    BY <1>1 DEF Deliver
  <2>2. pc = "idle"
    BY <2>1 DEF Receive, ReceiveBeforeGenesis, ReceiveDuplicate, ReceiveUnknownFork,
       ReceiveFork, ReceiveLinked
  <2> QED BY <2>1, <2>2, ReceiveSent DEF ExitInv
<1>2. CASE ChainStep \/ ConnectionStep \/ UNCHANGED allvars
  BY <1>2 DEF ChainStep, ConnectionStep, allvars, vars, locals, shared, ExitInv, ConfigExit
<1>3. CASE NodeStep /\ HandlerStep
  <2>1. ~RejectTransaction
    BY AlwaysAccepted DEF RejectTransaction, HeaderInv
  <2> QED BY <1>3, <2>1, HandlerExits
<1>4. CASE NodeStep /\ OpenExecutionEngine
  BY <1>4 DEF OpenExecutionEngine, ExitInv
<1> QED BY <1>1, <1>2, <1>3, <1>4 DEF SystemNext, NodeStep

LEMMA AliveMeans ==
  /\ AliveInv => OnlyStaleHeadersStop
  /\ AliveInv /\ ExitInv =>
       /\ OnlyEarlyConfigExits
       /\ (\A x \in Payload : x.new_config = None) => NeverExits
BY DEF AliveInv, QuitInv, StopInv, ExitInv, ConfigExit, OnlyStaleHeadersStop, OnlyEarlyConfigExits,
   NeverExits

LEMMA AliveOverShip ==
  ASSUME HistoriesAreIds, CleanStart, ContractPayloads, MaxFailures <= max_retry
  PROVE  /\ SystemSpec => []AliveInv
         /\ SystemSpec /\ []ForkAgrees => [](AliveInv /\ ExitInv)
<1> DEFINE I == Ready /\ AliveInv
           J == HeaderInv /\ ExitInv
<1>1. SystemInit => I /\ J
  BY InitReady, InitHeaders, InitAlive DEF SystemInit, Init, ExitInv
<1>2. I /\ [SystemNext]_allvars => I'
  BY NextReady, NextAlive
<1>3. I /\ J /\ ForkAgrees' /\ [SystemNext]_allvars => J'
  BY NextHeaders, NextExits
<1>4. (I => AliveInv) /\ (J => ExitInv)
  OBVIOUS
<1> HIDE DEF I, J
<1>5. SystemSpec => []I
  BY <1>1, <1>2, PTL DEF SystemSpec
<1>6. SystemSpec /\ []ForkAgrees => []J
  BY <1>1, <1>3, <1>5, PTL DEF SystemSpec
<1> QED BY <1>4, <1>5, <1>6, PTL

LEMMA AliveThroughRestarts ==
  ASSUME HistoriesAreIds, IdsHaveNumbers, CleanStart, OptionUnused,
         ContractPayloads, MaxFailures <= max_retry
  PROVE  /\ StorageSpec => []AliveInv
         /\ StorageSpec /\ []ForkAgrees => [](AliveInv /\ ExitInv)
<1> DEFINE I == WholeInv /\ AliveInv
           J == HeaderInv /\ AuthenticInv /\ ExitInv
<1>1. StorageInit => I /\ J
  BY InitWhole, InitHeaders, InitAuthentic, InitAlive DEF StorageInit, SystemInit, Init, ExitInv
<1>2. I /\ [StorageNext]_nodevars => I'
  <2> SUFFICES ASSUME I, [StorageNext]_nodevars PROVE I'
    OBVIOUS
  <2>1. WholeInv'
    BY NextWhole
  <2>2. CASE [SystemNext]_allvars
    BY <2>1, <2>2, NextAlive DEF WholeInv
  <2>3. CASE \E height \in Heights : Restart(height)
    BY <2>1, <2>3, RestartAlive
  <2> QED BY <2>2, <2>3, <2>1, StepOrRestart DEF WholeInv
<1>3. I /\ J /\ ForkAgrees' /\ [StorageNext]_nodevars => J'
  <2> SUFFICES ASSUME I, J, ForkAgrees', [StorageNext]_nodevars PROVE J'
    OBVIOUS
  <2>1. HeaderInv' /\ AuthenticInv'
    BY NextAuthentic
  <2>2. ExitInv'
    <3>1. CASE [SystemNext]_allvars
      BY <3>1, NextExits DEF WholeInv
    <3>2. CASE \E height \in Heights : Restart(height)
      BY <3>2 DEF Restart, ExitInv
    <3> QED BY <3>1, <3>2, StepOrRestart DEF WholeInv
  <2> QED BY <2>1, <2>2
<1>4. (I => AliveInv) /\ (J => ExitInv)
  OBVIOUS
<1> HIDE DEF I, J
<1>5. StorageSpec => []I
  BY <1>1, <1>2, PTL DEF StorageSpec
<1>6. StorageSpec /\ []ForkAgrees => []J
  BY <1>1, <1>3, <1>5, PTL DEF StorageSpec
<1> QED BY <1>4, <1>5, <1>6, PTL

-----------------------------------------------------------------------------
(* Forks between two seconds *)

\* The blocks that a fork takes back are of later seconds than its fork point.
ForksBetweenSeconds ==
  pc = "unwind" =>
    LET p == new_block.prev
    IN  \A k \in Len(p) + 1 .. Len(Branch) : Number(Branch[k]) > NumberOf(p)

LEMMA BetweenSecondsAgree ==
  ASSUME CleanStart, Ready, ForksBetweenSeconds
  PROVE  ForkAgrees
<1> SUFFICES ASSUME pc = "unwind"
             PROVE  HeaderOf(Branch, NumberOf(new_block.prev))
                      = HeaderOf(new_block.prev, NumberOf(new_block.prev))
  BY DEF ForkAgrees
<1> DEFINE p == new_block.prev
           m == NumberOf(p)
           n == Len(Branch)
           k == Len(p)
<1>1. /\ Branch \in Histories /\ n \in Nat /\ k \in 1 .. n /\ p = Prefix(Branch, k) /\ m \in Nat
      /\ Branch = Prefix(Branch, n)
  BY ReadyFacts, UnwindFacts, FullPrefix
<1>2. \A j \in k + 1 .. n : Number(Branch[j]) > m
  BY DEF ForksBetweenSeconds
<1>3. n \in 0 .. Len(Branch) /\ k \in 0 .. n
  BY <1>1
<1> HIDE DEF p, m, n, k
<1>4. HeaderOf(Prefix(Branch, n), m) = HeaderOf(Prefix(Branch, k), m)
  BY <1>1, <1>2, <1>3, HeaderStable
<1> QED BY <1>1, <1>4 DEF p, m

\* Forks between seconds are harmless: where the theorems of this module ask for ForkAgrees,
\* it is enough that no fork of the stream cuts a second in two.
THEOREM ForksBetweenSecondsAgree ==
  ASSUME HistoriesAreIds, IdsHaveNumbers, CleanStart, OptionUnused
  PROVE  /\ SystemSpec /\ []ForksBetweenSeconds => []ForkAgrees
         /\ StorageSpec /\ []ForksBetweenSeconds => []ForkAgrees
<1>1. SystemSpec => []Ready
  <2>1. SystemInit => Ready
    BY InitReady
  <2>2. Ready /\ [SystemNext]_allvars => Ready'
    BY NextReady
  <2> QED BY <2>1, <2>2, PTL DEF SystemSpec
<1>2. StorageSpec => []WholeInv
  <2>1. StorageInit => WholeInv
    BY InitWhole
  <2>2. WholeInv /\ [StorageNext]_nodevars => WholeInv'
    BY NextWhole
  <2> QED BY <2>1, <2>2, PTL DEF StorageSpec
<1>3. /\ Ready /\ ForksBetweenSeconds => ForkAgrees
      /\ WholeInv /\ ForksBetweenSeconds => ForkAgrees
  BY BetweenSecondsAgree DEF WholeInv
<1> QED BY <1>1, <1>2, <1>3, PTL

-----------------------------------------------------------------------------
(* The theorems about what stops the node *)

\* For every native chain that the contract allows, and every fork and every failed connection,
\* two things only stop the node: a configchange that arrives while the execution engine is not
\* open, and a transaction for an EVM block whose version or prices are not those of the branch,
\* left there by a fork inside its second.  Every block that the receiver sends can be linked, a
\* fork finds the transactions that it takes back, and the trimming leaves what is needed.
THEOREM OnlyForksAndConfigsStopIt ==
  ASSUME HistoriesAreIds, CleanStart, ContractPayloads, MaxFailures <= max_retry
  PROVE  SystemSpec => []OnlyStaleHeadersStop
BY AliveMeans, AliveOverShip, PTL

\* The same for a node that stops between any two steps, is started again and resumes at a
\* block of its database.
THEOREM OnlyForksAndConfigsStopRestarts ==
  ASSUME HistoriesAreIds, IdsHaveNumbers, CleanStart, OptionUnused,
         ContractPayloads, MaxFailures <= max_retry
  PROVE  StorageSpec => []OnlyStaleHeadersStop
BY AliveMeans, AliveThroughRestarts, PTL

\* As long as each fork agrees with its fork point about the header of the fork point's EVM
\* block, only the configchange is left: every transaction is accepted.  Not every fork that the
\* contract allows agrees: one that takes back a higher version inside a second does not.
THEOREM OnlyAConfigStopsIt ==
  ASSUME HistoriesAreIds, CleanStart, ContractPayloads, MaxFailures <= max_retry
  PROVE  SystemSpec /\ []ForkAgrees => []OnlyEarlyConfigExits
BY AliveMeans, AliveOverShip, PTL

\* A chain without a configchange, whose forks agree in this sense, does not stop the node.
THEOREM AgreeingForksNeverStopIt ==
  ASSUME HistoriesAreIds, CleanStart, ContractPayloads, MaxFailures <= max_retry,
         \A x \in Payload : x.new_config = None
  PROVE  SystemSpec /\ []ForkAgrees => []NeverExits
BY AliveMeans, AliveOverShip, PTL

\* After a restart too, only such a configchange stops the node, as long as the forks agree: the
\* block that a start resumes at, and where the receiver then resumes, are such that what comes
\* next can be linked.
THEOREM OnlyAConfigStopsRestarts ==
  ASSUME HistoriesAreIds, IdsHaveNumbers, CleanStart, OptionUnused,
         ContractPayloads, MaxFailures <= max_retry
  PROVE  StorageSpec /\ []ForkAgrees => []OnlyEarlyConfigExits
BY AliveMeans, AliveThroughRestarts, PTL

\* A chain without a configchange, whose forks agree, does not stop the restarted node.
THEOREM AgreeingForksNeverStopRestarts ==
  ASSUME HistoriesAreIds, IdsHaveNumbers, CleanStart, OptionUnused,
         ContractPayloads, MaxFailures <= max_retry, \A x \in Payload : x.new_config = None
  PROVE  StorageSpec /\ []ForkAgrees => []NeverExits
BY AliveMeans, AliveThroughRestarts, PTL
=============================================================================
