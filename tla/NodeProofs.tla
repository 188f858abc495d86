------------------------------ MODULE NodeProofs ------------------------------
(***************************************************************************)
(* Proofs about the whole node: its conversion implements BlockConversion, *)
(* so that what is proved of every stream holds of the node; what reaches  *)
(* the database is linked and complete after any crash; the EVM blocks     *)
(* have the transactions and upper bounds that the native branch says.     *)
(***************************************************************************)
EXTENDS NodeStorage, BlockConversionProofs, ShipProofs

\* The number of a native block can be read from its id, whatever the id is.
IdsHaveNumbers == \A id \in NativeId : to_block_num(id) \in Nat

-----------------------------------------------------------------------------
(* The node over a native chain implements the converter of any stream *)

LEMMA DeliverFacts ==
  ASSUME HistoriesAreIds, ShipTypeOK, Deliver
  PROVE  ShipTypeOK' /\ \E nb \in NativeBlock : Receive(nb)
<1>1. PICK nb : ReadBlock(nb) /\ Receive(nb)
  BY DEF Deliver
<1>2. nb \in NativeBlock /\ ShipTypeOK'
  BY <1>1, ReadFacts, ReadTyped
<1> QED BY <1>1, <1>2

LEMMA ChainStepTyped ==
  ASSUME ShipTypeOK, ChainStep
  PROVE  ShipTypeOK'
<1>1. ReceiverTypeOK'
  BY DEF ChainStep, ShipTypeOK, ReceiverTypeOK, receiver_vars
<1>2. StreamTypeOK'
  BY ProduceTyped, AdvanceTyped DEF ChainStep, ShipTypeOK
<1> QED BY <1>1, <1>2 DEF ShipTypeOK

LEMMA SystemStep ==
  ASSUME HistoriesAreIds, ShipTypeOK, [SystemNext]_allvars
  PROVE  ShipTypeOK' /\ [Next]_vars
<1>1. CASE Deliver
  BY <1>1, DeliverFacts DEF Next
<1>2. CASE ChainStep
  BY <1>2, ChainStepTyped DEF ChainStep
<1>3. CASE ConnectionStep
  BY <1>3, ConnectTyped DEF ConnectionStep
<1>4. CASE NodeStep \/ UNCHANGED allvars
  <2>1. UNCHANGED <<nodeos_vars, receiver_vars>> /\ [Next]_vars
    BY <1>4 DEF NodeStep, Next, allvars
  <2> QED BY <2>1 DEF ShipTypeOK, StreamTypeOK, ReceiverTypeOK, nodeos_vars, chain_vars,
       session_vars, receiver_vars
<1> QED BY <1>1, <1>2, <1>3, <1>4 DEF SystemNext

\* Over every native chain, with its forks and failures, the node's converter does only
\* what BlockConversion allows it for some stream: its theorems hold of the node.
THEOREM ConversionImplements == ASSUME HistoriesAreIds PROVE SystemSpec => Spec
<1>1. SystemInit => Init /\ ShipTypeOK
  BY InitShipTyped DEF SystemInit
<1>2. ShipTypeOK /\ [SystemNext]_allvars => ShipTypeOK' /\ [Next]_vars
  BY SystemStep
<1> QED BY <1>1, <1>2, PTL DEF SystemSpec, Spec

-----------------------------------------------------------------------------
(* Chains of the execution engine *)

\* A chain from the start block's number on, each block above the one it extends.
Rooted(chain) ==
  /\ \A i \in 1 .. Len(chain) : chain[i].number = StartBlock.number + i - 1
  /\ \A i \in 1 .. Len(chain) - 1 : chain[i + 1].parent_hash = hash(chain[i])

\* b starts a chain, or extends a block of this one.
FitsOn(b, chain) ==
  \/ b.number = StartBlock.number
  \/ /\ b.number - StartBlock.number \in 1 .. Len(chain)
     /\ b.parent_hash = hash(chain[b.number - StartBlock.number])

LEMMA StartNumber == StartBlock.number \in Nat
BY StartAssumption DEF EvmBlock

LEMMA RootedIsChain ==
  ASSUME NEW chain \in Seq(EvmBlock), Rooted(chain)
  PROVE  IsChain(chain)
<1> SUFFICES ASSUME NEW i \in 1 .. Len(chain) - 1
             PROVE  /\ chain[i + 1].number = chain[i].number + 1
                    /\ chain[i + 1].parent_hash = hash(chain[i])
  BY DEF IsChain
<1>1. i \in 1 .. Len(chain) /\ i + 1 \in 1 .. Len(chain) /\ i \in Nat
  BY LenProperties
<1>2. /\ chain[i].number = StartBlock.number + i - 1
      /\ chain[i + 1].number = StartBlock.number + (i + 1) - 1
  BY <1>1 DEF Rooted
<1> QED BY <1>1, <1>2, StartNumber DEF Rooted

LEMMA StoredFacts ==
  ASSUME NEW b \in EvmBlock
  PROVE  /\ Stored(b) \in EvmBlock
         /\ Stored(b).number = b.number /\ Stored(b).parent_hash = b.parent_hash
         /\ Stored(b).consensus_parameter_index = b.consensus_parameter_index
         /\ hash(Stored(b)) = hash(b)
<1>1. /\ Stored(b) \in EvmBlock
      /\ Stored(b).number = b.number /\ Stored(b).parent_hash = b.parent_hash
      /\ Stored(b).consensus_parameter_index = b.consensus_parameter_index
      /\ Stored(b).prev_randao = b.prev_randao /\ Stored(b).version = b.version
      /\ Stored(b).base_fee_per_gas = b.base_fee_per_gas
      /\ Stored(b).transactions_root = b.transactions_root
  BY DEF Stored, EvmBlock
<1> QED BY <1>1 DEF hash

LEMMA InsertedFacts ==
  ASSUME NEW chain \in Seq(EvmBlock), NEW b \in EvmBlock, FitsOn(b, chain)
  PROVE  LET new == insert_block(chain, b)
             at  == b.number - StartBlock.number
         IN  /\ new \in Seq(EvmBlock)
             /\ at \in 0 .. Len(chain) /\ Len(new) = at + 1
             /\ \A i \in 1 .. at : new[i] = chain[i]
             /\ new[at + 1] = Stored(b)
<1> DEFINE at   == b.number - StartBlock.number
           kept == SubSeq(chain, 1, at)
<1>1. at \in 0 .. Len(chain) /\ Len(chain) \in Nat
  BY StartNumber, LenProperties DEF FitsOn
<1> HIDE DEF at
<1>2. kept \in Seq(EvmBlock) /\ Len(kept) = at /\ \A i \in 1 .. at : kept[i] = chain[i]
  BY <1>1, PrefixFacts
<1> HIDE DEF kept
<1>3. Stored(b) \in EvmBlock
  BY StoredFacts
<1>4. /\ Append(kept, Stored(b)) \in Seq(EvmBlock)
      /\ Len(Append(kept, Stored(b))) = at + 1
      /\ \A i \in 1 .. at : Append(kept, Stored(b))[i] = kept[i]
      /\ Append(kept, Stored(b))[at + 1] = Stored(b)
  BY <1>2, <1>3, AppendProperties
<1>5. insert_block(chain, b) = Append(kept, Stored(b))
  BY DEF insert_block, kept, at
<1> QED BY <1>1, <1>2, <1>4, <1>5 DEF at

LEMMA InsertedRooted ==
  ASSUME NEW chain \in Seq(EvmBlock), NEW b \in EvmBlock, Rooted(chain), FitsOn(b, chain)
  PROVE  Rooted(insert_block(chain, b))
<1> DEFINE new == insert_block(chain, b)
           at  == b.number - StartBlock.number
<1>1. /\ new \in Seq(EvmBlock)
      /\ at \in 0 .. Len(chain) /\ Len(new) = at + 1 /\ Len(chain) \in Nat
      /\ \A i \in 1 .. at : new[i] = chain[i]
      /\ new[at + 1] = Stored(b)
  BY InsertedFacts, LenProperties
<1>2. StartBlock.number \in Nat /\ b.number \in Nat
  BY StartNumber DEF EvmBlock
<1>3. b.number = StartBlock.number + at
  BY <1>2
<1>4. at > 0 => b.parent_hash = hash(chain[at])
  BY <1>2 DEF FitsOn
<1>5. Stored(b).number = b.number /\ Stored(b).parent_hash = b.parent_hash
  BY StoredFacts
<1> HIDE DEF new, at
<1>6. ASSUME NEW i \in 1 .. Len(new) PROVE new[i].number = StartBlock.number + i - 1
  <2>1. CASE i = at + 1
    BY <1>1, <1>2, <1>3, <1>5, <2>1
  <2>2. CASE i # at + 1
    <3>1. i \in 1 .. at /\ i \in 1 .. Len(chain)
      BY <1>1, <2>2
    <3> QED BY <1>1, <3>1 DEF Rooted
  <2> QED BY <2>1, <2>2
<1>7. ASSUME NEW i \in 1 .. Len(new) - 1 PROVE new[i + 1].parent_hash = hash(new[i])
  <2>1. i \in 1 .. at
    BY <1>1
  <2>2. CASE i = at
    BY <1>1, <1>4, <1>5, <2>1, <2>2
  <2>3. CASE i # at
    <3>1. i + 1 \in 1 .. at /\ i \in 1 .. Len(chain) - 1
      BY <1>1, <2>1, <2>3
    <3> QED BY <1>1, <2>1, <3>1 DEF Rooted
  <2> QED BY <2>2, <2>3
<1> QED BY <1>6, <1>7 DEF Rooted, new

-----------------------------------------------------------------------------
(* The queue of published blocks *)

\* Once the blocks at positions h + 1 .. n of P have been inserted into chain, b fits:
\* the block that it extends is one of them or in chain, and none of those inserted
\* after it is low enough to replace it.
Placed(b, chain, P, h, n) ==
  \/ b.number = StartBlock.number
  \/ \E j \in h + 1 .. n : /\ b.number = P[j].number + 1 /\ b.parent_hash = hash(P[j])
                           /\ \A l \in j + 1 .. n : P[l].number >= b.number
  \/ FitsOn(b, chain) /\ \A l \in h + 1 .. n : P[l].number >= b.number

LEMMA PlacedSame ==
  ASSUME NEW a, NEW b, a.number = b.number, a.parent_hash = b.parent_hash,
         NEW chain, NEW P, NEW h, NEW n, Placed(b, chain, P, h, n)
  PROVE  Placed(a, chain, P, h, n)
<1>1. FitsOn(b, chain) => FitsOn(a, chain)
  BY DEF FitsOn
<1> QED BY <1>1 DEF Placed

LEMMA AppendedFacts ==
  ASSUME NEW P \in Seq(EvmBlock), NEW b \in EvmBlock
  PROVE  /\ Len(P) \in Nat /\ Append(P, b) \in Seq(EvmBlock)
         /\ Len(Append(P, b)) = Len(P) + 1
         /\ \A i \in 1 .. Len(P) : Append(P, b)[i] = P[i]
         /\ Append(P, b)[Len(P) + 1] = b
BY AppendProperties, LenProperties

\* Publishing b changes nothing for the blocks of the queue before it.
LEMMA PlacedStable ==
  ASSUME NEW P \in Seq(EvmBlock), NEW b \in EvmBlock, NEW chain, NEW c,
         NEW h \in Nat, NEW n \in 0 .. Len(P), Placed(c, chain, P, h, n)
  PROVE  Placed(c, chain, Append(P, b), h, n)
<1> DEFINE Q == Append(P, b)
<1>1. Len(P) \in Nat /\ \A i \in 1 .. Len(P) : Q[i] = P[i]
  BY AppendedFacts
<1> HIDE DEF Q
<1>2. \A i \in h + 1 .. n : i \in 1 .. Len(P) /\ Q[i] = P[i]
  BY <1>1
<1>3. \A j \in h + 1 .. n : \A l \in j + 1 .. n : l \in 1 .. Len(P) /\ Q[l] = P[l]
  BY <1>1
<1>4. Placed(c, chain, Q, h, n)
  BY <1>2, <1>3 DEF Placed
<1> QED BY <1>4 DEF Q

\* A block that is not above b still fits once b is inserted.
LEMMA PlacedBelow ==
  ASSUME NEW P \in Seq(EvmBlock), NEW b \in EvmBlock, NEW chain, NEW c,
         NEW h \in 0 .. Len(P), Placed(c, chain, P, h, Len(P)), c.number <= b.number
  PROVE  Placed(c, chain, Append(P, b), h, Len(P) + 1)
<1> DEFINE Q == Append(P, b)
           n == Len(P)
<1>1. n \in Nat /\ \A i \in 1 .. n : Q[i] = P[i]
  BY AppendedFacts
<1>2. Q[n + 1] = b
  BY AppendedFacts
<1> HIDE DEF Q, n
<1>3. h \in 0 .. n /\ Placed(c, chain, P, h, n)
  BY DEF n
<1>4. CASE c.number = StartBlock.number
  BY <1>4 DEF Placed
<1>5. ASSUME NEW j \in h + 1 .. n, c.number = P[j].number + 1, c.parent_hash = hash(P[j]),
             \A l \in j + 1 .. n : P[l].number >= c.number
      PROVE  Placed(c, chain, Q, h, n + 1)
  <2>1. j \in h + 1 .. n + 1 /\ Q[j] = P[j]
    BY <1>1, <1>3, <1>5
  <2>2. \A l \in j + 1 .. n + 1 : Q[l].number >= c.number
    <3> TAKE l \in j + 1 .. n + 1
    <3>1. CASE l = n + 1
      BY <1>2, <3>1
    <3>2. CASE l # n + 1
      <4>1. l \in j + 1 .. n /\ l \in 1 .. n
        BY <1>1, <1>3, <3>2
      <4> QED BY <1>1, <1>5, <4>1
    <3> QED BY <3>1, <3>2
  <2> QED BY <1>5, <2>1, <2>2 DEF Placed
<1>6. ASSUME FitsOn(c, chain), \A l \in h + 1 .. n : P[l].number >= c.number
      PROVE  Placed(c, chain, Q, h, n + 1)
  <2>1. \A l \in h + 1 .. n + 1 : Q[l].number >= c.number
    <3> TAKE l \in h + 1 .. n + 1
    <3>1. CASE l = n + 1
      BY <1>2, <3>1
    <3>2. CASE l # n + 1
      <4>1. l \in h + 1 .. n /\ l \in 1 .. n
        BY <1>1, <1>3, <3>2
      <4> QED BY <1>1, <1>6, <4>1
    <3> QED BY <3>1, <3>2
  <2> QED BY <1>6, <2>1 DEF Placed
<1>7. Placed(c, chain, Q, h, n + 1)
  BY <1>3, <1>4, <1>5, <1>6 DEF Placed
<1> QED BY <1>7 DEF Q, n

LEMMA PlacedAbove ==
  ASSUME NEW P \in Seq(EvmBlock), NEW b \in EvmBlock, NEW chain, NEW c,
         NEW h \in 0 .. Len(P), c.number = b.number + 1, c.parent_hash = hash(b)
  PROVE  Placed(c, chain, Append(P, b), h, Len(P) + 1)
<1> DEFINE Q == Append(P, b)
           n == Len(P) + 1
<1>1. Len(P) \in Nat /\ Q[n] = b
  BY AppendedFacts
<1>2. n \in h + 1 .. n /\ n + 1 .. n = {}
  BY <1>1
<1> HIDE DEF Q, n
<1>3. Placed(c, chain, Q, h, n)
  BY <1>1, <1>2 DEF Placed
<1> QED BY <1>3 DEF Q, n

\* Inserting the first block of the queue leaves the others in place.
LEMMA PlacedAfterInsert ==
  ASSUME NEW P \in Seq(EvmBlock), NEW chain \in Seq(EvmBlock), NEW c \in EvmBlock,
         NEW h \in Nat, NEW n \in h + 1 .. Len(P),
         FitsOn(P[h + 1], chain), Placed(c, chain, P, h, n)
  PROVE  Placed(c, insert_block(chain, P[h + 1]), P, h + 1, n)
<1> DEFINE b   == P[h + 1]
           new == insert_block(chain, b)
           at  == b.number - StartBlock.number
<1>1. Len(P) \in Nat /\ h + 1 \in 1 .. Len(P) /\ h + 1 \in h + 1 .. n
  BY LenProperties
<1>2. b \in EvmBlock
  BY <1>1, ElementOfSeq
<1>3. b.number \in Nat /\ StartBlock.number \in Nat /\ c.number \in Nat
  BY <1>2, StartNumber DEF EvmBlock
<1>4. /\ at \in 0 .. Len(chain) /\ Len(new) = at + 1 /\ Len(chain) \in Nat
      /\ \A i \in 1 .. at : new[i] = chain[i]
      /\ new[at + 1] = Stored(b)
  <2> HIDE DEF b
  <2> QED BY <1>2, InsertedFacts, LenProperties DEF b
<1>5. b.number = StartBlock.number + at
  BY <1>3
<1>6. hash(Stored(b)) = hash(b)
  <2> HIDE DEF b
  <2> QED BY <1>2, StoredFacts
<1>7. CASE c.number = StartBlock.number
  BY <1>7 DEF Placed
<1>8. ASSUME NEW j \in h + 1 .. n, c.number = P[j].number + 1, c.parent_hash = hash(P[j]),
             \A l \in j + 1 .. n : P[l].number >= c.number
      PROVE  Placed(c, new, P, h + 1, n)
  <2>1. CASE j = h + 1
    <3>1. c.number = b.number + 1 /\ c.parent_hash = hash(b)
      BY <1>8, <2>1
    <3>2. c.number - StartBlock.number = at + 1
      <4>1. \A u, v, w \in Nat : u = v + 1 => u - w = (v - w) + 1
        OBVIOUS
      <4> HIDE DEF b
      <4> QED BY <1>3, <3>1, <4>1
    <3>3. at + 1 \in 1 .. Len(new)
      BY <1>4
    <3> HIDE DEF b, new, at
    <3>4. FitsOn(c, new)
      BY <1>4, <1>6, <3>1, <3>2, <3>3 DEF FitsOn
    <3> QED BY <1>8, <2>1, <3>4 DEF Placed
  <2>2. CASE j # h + 1
    <3>1. j \in h + 1 + 1 .. n
      BY <1>1, <2>2
    <3> QED BY <1>8, <3>1 DEF Placed
  <2> QED BY <2>1, <2>2
<1>9. ASSUME FitsOn(c, chain), \A l \in h + 1 .. n : P[l].number >= c.number
      PROVE  Placed(c, new, P, h + 1, n)
  <2>1. c.number <= b.number
    BY <1>1, <1>9
  <2>2. \A l \in h + 1 + 1 .. n : l \in h + 1 .. n
    BY <1>1
  <2> HIDE DEF b, new, at
  <2>3. FitsOn(c, new)
    <3>1. CASE c.number = StartBlock.number
      BY <3>1 DEF FitsOn
    <3>2. CASE c.number # StartBlock.number
      <4>1. /\ c.number - StartBlock.number \in 1 .. Len(chain)
            /\ c.parent_hash = hash(chain[c.number - StartBlock.number])
        BY <1>9, <3>2 DEF FitsOn
      <4>2. /\ c.number - StartBlock.number \in 1 .. at
            /\ c.number - StartBlock.number \in 1 .. Len(new)
        BY <1>3, <1>4, <1>5, <2>1, <4>1
      <4> QED BY <1>4, <4>1, <4>2 DEF FitsOn
    <3> QED BY <3>1, <3>2
  <2> QED BY <1>9, <2>2, <2>3 DEF Placed
<1> QED BY <1>7, <1>8, <1>9 DEF Placed

-----------------------------------------------------------------------------
(* The EVM blocks that the converter holds *)

\* Numbers do not decrease, and each block fits once the queue is empty.
Fitting(s, chain, P, h) ==
  /\ \A m, n \in 1 .. Len(s) : m <= n => s[m].number <= s[n].number
  /\ \A i \in 1 .. Len(s) : Placed(s[i], chain, P, h, Len(P))

LEMMA FittingFront ==
  ASSUME NEW s \in Seq(EvmBlock), s # <<>>, NEW chain, NEW P, NEW h, Fitting(s, chain, P, h)
  PROVE  Fitting(Front(s), chain, P, h)
<1>1. /\ Len(s) \in Nat /\ Len(Front(s)) = Len(s) - 1
      /\ \A i \in 1 .. Len(s) - 1 : Front(s)[i] = s[i]
  BY FrontFacts, LenProperties
<1>2. \A i \in 1 .. Len(s) - 1 : i \in 1 .. Len(s)
  BY <1>1
<1> QED BY <1>1, <1>2 DEF Fitting

LEMMA FittingWithBack ==
  ASSUME NEW s \in Seq(EvmBlock), s # <<>>, NEW e \in EvmBlock,
         e.number = Last(s).number, e.parent_hash = Last(s).parent_hash,
         NEW chain, NEW P, NEW h, Fitting(s, chain, P, h)
  PROVE  Fitting(WithBack(s, e), chain, P, h)
<1> DEFINE t == WithBack(s, e)
<1>1. /\ Len(s) \in Nat /\ Len(t) = Len(s)
      /\ \A i \in 1 .. Len(s) - 1 : t[i] = s[i]
      /\ t[Len(s)] = e
  BY WithBackFacts, LenProperties
<1> HIDE DEF t
<1>2. \A i \in 1 .. Len(s) : t[i].number = s[i].number /\ t[i].parent_hash = s[i].parent_hash
  <2> TAKE i \in 1 .. Len(s)
  <2>1. CASE i = Len(s)
    BY <1>1, <2>1 DEF Last
  <2>2. CASE i # Len(s)
    <3>1. i \in 1 .. Len(s) - 1
      BY <1>1, <2>2
    <3> QED BY <1>1, <3>1
  <2> QED BY <2>1, <2>2
<1>3. \A i \in 1 .. Len(s) : Placed(t[i], chain, P, h, Len(P))
  BY <1>2, PlacedSame DEF Fitting
<1>4. \A m, n \in 1 .. Len(s) : m <= n => t[m].number <= t[n].number
  BY <1>2 DEF Fitting
<1>5. Fitting(t, chain, P, h)
  BY <1>1, <1>3, <1>4 DEF Fitting
<1> QED BY <1>5 DEF t

LEMMA FittingFrom ==
  ASSUME NEW s \in Seq(EvmBlock), NEW k \in 1 .. Len(s), NEW chain, NEW P, NEW h,
         Fitting(s, chain, P, h)
  PROVE  Fitting(From(s, k), chain, P, h)
<1> DEFINE t == From(s, k)
<1>1. /\ Len(s) \in Nat /\ Len(t) = Len(s) - k + 1
      /\ \A j \in 1 .. Len(s) - k + 1 : t[j] = s[k + j - 1]
  BY FromFacts, LenProperties
<1> HIDE DEF t
<1>2. \A j \in 1 .. Len(t) : k + j - 1 \in 1 .. Len(s)
  BY <1>1
<1>3. \A m, n \in 1 .. Len(t) : m <= n => k + m - 1 <= k + n - 1
  BY <1>1
<1>4. Fitting(t, chain, P, h)
  BY <1>1, <1>2, <1>3 DEF Fitting
<1> QED BY <1>4 DEF t

LEMMA FittingExtend ==
  ASSUME NEW s \in Seq(EvmBlock), s # <<>>, NEW b \in EvmBlock, b = Last(s),
         NEW g \in EvmBlock, Follows(b, g),
         NEW P \in Seq(EvmBlock), NEW chain, NEW h \in 0 .. Len(P), Fitting(s, chain, P, h)
  PROVE  Fitting(Append(s, g), chain, Append(P, b), h)
<1> DEFINE t == Append(s, g)
           Q == Append(P, b)
<1>1. /\ Len(s) \in Nat \ {0} /\ Len(t) = Len(s) + 1
      /\ \A i \in 1 .. Len(s) : t[i] = s[i]
      /\ t[Len(s) + 1] = g
  BY AppendProperties, EmptySeq
<1>2. Len(Q) = Len(P) + 1
  BY AppendedFacts
<1>3. \A i \in 1 .. Len(s) : s[i].number <= b.number /\ s[i].number \in Nat
  <2> TAKE i \in 1 .. Len(s)
  <2>1. s[i] \in EvmBlock
    BY ElementOfSeq
  <2>2. Len(s) \in 1 .. Len(s) /\ i <= Len(s)
    BY <1>1
  <2> QED BY <2>1, <2>2 DEF Fitting, Last, EvmBlock
<1>4. g.number = b.number + 1 /\ g.parent_hash = hash(b) /\ b.number \in Nat
  BY DEF Follows, EvmBlock
<1> HIDE DEF t
<1>5. \A i \in 1 .. Len(s) : Placed(s[i], chain, Q, h, Len(P) + 1)
  BY <1>3, PlacedBelow DEF Fitting
<1>6. Placed(g, chain, Q, h, Len(P) + 1)
  BY <1>4, PlacedAbove
<1> HIDE DEF Q
<1>7. \A i \in 1 .. Len(t) : i \in 1 .. Len(s) \/ i = Len(s) + 1
  BY <1>1
<1>8. \A i \in 1 .. Len(t) : Placed(t[i], chain, Q, h, Len(Q))
  BY <1>1, <1>2, <1>5, <1>6, <1>7
<1>9. ASSUME NEW m \in 1 .. Len(t), NEW n \in 1 .. Len(t), m <= n
      PROVE  t[m].number <= t[n].number
  <2>1. CASE n \in 1 .. Len(s)
    <3>1. m \in 1 .. Len(s)
      BY <1>1, <1>9, <2>1
    <3> QED BY <1>1, <1>9, <2>1, <3>1 DEF Fitting
  <2>2. CASE n = Len(s) + 1
    <3>1. CASE m \in 1 .. Len(s)
      BY <1>1, <1>3, <1>4, <2>2, <3>1
    <3>2. CASE m = Len(s) + 1
      BY <1>1, <1>4, <2>2, <3>2
    <3> QED BY <1>7, <3>1, <3>2
  <2> QED BY <1>7, <2>1, <2>2
<1>10. Fitting(t, chain, Q, h)
  BY <1>8, <1>9 DEF Fitting
<1> QED BY <1>10 DEF t, Q

-----------------------------------------------------------------------------
(* The inductive invariant of the node *)

StoreTypeOK ==
  /\ handled \in 0 .. Len(published)
  /\ inserted \in Seq(EvmBlock) /\ inserted # <<>>
  /\ canonical \in Seq(EvmBlock) /\ canonical # <<>>
  /\ kLibProcessed \in Optional(Nat)
  /\ stored_parameters \subseteq Config

QueuePlaced ==
  \A i \in handled + 1 .. Len(published) :
    Placed(published[i], inserted, published, handled, i - 1)

ChainInv ==
  /\ Rooted(inserted) /\ Rooted(canonical)
  /\ QueuePlaced
  /\ Fitting(evm_blocks, inserted, published, handled)

\* Blocks name parameters of the chain's own start, or some that were written: those of
\* the database, for the blocks in it.
ParametersInv ==
  /\ ConfigInv
  /\ AllKnown(inserted, consensus_parameters)
  /\ AllKnown(canonical, stored_parameters)

NodeInv == ShipTypeOK /\ TypedLists /\ StoreTypeOK /\ ChainInv /\ ParametersInv

-----------------------------------------------------------------------------
(* The converter runs *)

LEMMA ConvertKeepsChain ==
  ASSUME NodeInv, [Next]_vars, UNCHANGED store_vars
  PROVE  StoreTypeOK' /\ ChainInv'
<1>1. /\ TypedLists /\ evm_blocks \in Seq(EvmBlock) /\ published \in Seq(EvmBlock)
      /\ handled \in 0 .. Len(published) /\ Len(published) \in Nat
      /\ Fitting(evm_blocks, inserted, published, handled)
      /\ UNCHANGED <<handled, inserted, canonical, kLibProcessed, stored_parameters>>
  BY LenProperties
     DEF NodeInv, TypedLists, TypeOK, StoreTypeOK, ChainInv, store_vars, db_vars
<1>2. ASSUME UNCHANGED published, Fitting(evm_blocks', inserted, published, handled)
      PROVE  StoreTypeOK' /\ ChainInv'
  BY <1>1, <1>2 DEF NodeInv, StoreTypeOK, ChainInv, QueuePlaced
<1>3. CASE StepKeeps
  BY <1>1, <1>2, <1>3 DEF StepKeeps
<1>4. CASE StepDrops
  BY <1>1, <1>2, <1>4, FittingFront DEF StepDrops
<1>5. CASE StepReplaces
  <2>1. PICK e \in EvmBlock, k \in 1 .. Len(evm_blocks) :
          Replaces(e) /\ evm_blocks' = From(WithBack(evm_blocks, e), k)
    BY <1>5 DEF StepReplaces
  <2>2. /\ WithBack(evm_blocks, e) \in Seq(EvmBlock)
        /\ Len(WithBack(evm_blocks, e)) = Len(evm_blocks)
    BY <1>1, <1>5, WithBackFacts DEF StepReplaces
  <2>3. Fitting(WithBack(evm_blocks, e), inserted, published, handled)
    BY <1>1, <1>5, <2>1, FittingWithBack DEF StepReplaces, Replaces, back
  <2>4. Fitting(evm_blocks', inserted, published, handled)
    BY <2>1, <2>2, <2>3, FittingFrom
  <2> QED BY <1>2, <1>5, <2>4 DEF StepReplaces
<1>6. CASE StepExtends
  <2> DEFINE b == Sealed(back)
             g == generate_new_evm_block(b)
             s == WithBack(evm_blocks, b)
             P == Append(published, b)
  <2>1. evm_blocks # <<>> /\ ExtendEvmChain /\ back \in EvmBlock
    BY <1>6, BackType DEF StepExtends, TypedLists, NodeInv
  <2>2. b \in EvmBlock /\ g \in EvmBlock
    BY <2>1, SealedType, GeneratedType
  <2>3. b.number = back.number /\ b.parent_hash = back.parent_hash /\ Follows(b, g)
    BY <2>1, GeneratedFollows
  <2>4. published' = P /\ evm_blocks' = Append(s, g)
    BY <2>1, ExtendEffect
  <2> HIDE DEF b, g
  <2>5. /\ s \in Seq(EvmBlock) /\ s # <<>> /\ Last(s) = b
    <3>1. /\ s \in Seq(EvmBlock) /\ s # <<>> /\ Len(s) = Len(evm_blocks)
          /\ s[Len(evm_blocks)] = b
      BY <1>1, <2>1, <2>2, WithBackFacts
    <3> HIDE DEF s
    <3> QED BY <3>1 DEF Last
  <2>6. Fitting(s, inserted, published, handled)
    BY <1>1, <2>1, <2>2, <2>3, FittingWithBack DEF back
  <2> HIDE DEF s
  <2>7. Fitting(evm_blocks', inserted, published', handled)
    BY <1>1, <2>2, <2>3, <2>4, <2>5, <2>6, FittingExtend
  <2>8. /\ Len(P) = Len(published) + 1
        /\ \A i \in 1 .. Len(published) : P[i] = published[i]
        /\ P[Len(published) + 1] = b
    BY <1>1, <2>2, AppendedFacts
  <2>9. Placed(b, inserted, published, handled, Len(published))
    <3>1. Len(s) \in 1 .. Len(s) /\ s[Len(s)] = b
      BY <2>5, EmptySeq DEF Last
    <3> QED BY <2>6, <3>1 DEF Fitting
  <2>10. ASSUME NEW i \in handled + 1 .. Len(P) PROVE Placed(P[i], inserted, P, handled, i - 1)
    <3>1. CASE i = Len(published) + 1
      <4>1. Placed(b, inserted, P, handled, Len(published))
        BY <1>1, <2>2, <2>9, PlacedStable
      <4>2. i - 1 = Len(published)
        BY <1>1, <3>1
      <4> QED BY <2>8, <3>1, <4>1, <4>2
    <3>2. CASE i # Len(published) + 1
      <4>1. i \in handled + 1 .. Len(published) /\ i \in 1 .. Len(published)
            /\ i - 1 \in 0 .. Len(published)
        BY <1>1, <2>8, <3>2
      <4>2. Placed(published[i], inserted, published, handled, i - 1)
        BY <4>1 DEF NodeInv, ChainInv, QueuePlaced
      <4>3. Placed(published[i], inserted, P, handled, i - 1)
        BY <1>1, <2>2, <4>1, <4>2, PlacedStable
      <4> QED BY <2>8, <4>1, <4>3
    <3> QED BY <3>1, <3>2
  <2> HIDE DEF P
  <2>11. handled \in 0 .. Len(P)
    BY <1>1, <2>8
  <2> QED BY <1>1, <2>4, <2>7, <2>10, <2>11
          DEF NodeInv, StoreTypeOK, ChainInv, QueuePlaced
<1> QED BY <1>1, <1>3, <1>4, <1>5, <1>6, EvmStep

LEMMA ConvertKeeps ==
  ASSUME NodeInv, [Next]_vars, UNCHANGED store_vars, ShipTypeOK'
  PROVE  NodeInv'
<1>1. TypedLists'
  BY NextTyped DEF NodeInv
<1>2. ParametersInv'
  <2>1. ConfigInv'
    BY NextKnown DEF NodeInv, ParametersInv
  <2>2. consensus_parameters \subseteq consensus_parameters'
    BY ParametersGrow
  <2>3. UNCHANGED <<inserted, canonical, stored_parameters>>
    BY DEF store_vars, db_vars
  <2> QED BY <2>1, <2>2, <2>3 DEF NodeInv, ParametersInv, AllKnown, Known
<1> QED BY <1>1, <1>2, ConvertKeepsChain DEF NodeInv

-----------------------------------------------------------------------------
(* blockchain_plugin takes a block *)

LEMMA StoreFacts ==
  ASSUME NodeInv, StoreStep
  PROVE  /\ handled + 1 \in 1 .. Len(published) /\ handled' = handled + 1
         /\ inserted' = insert_block(inserted, NextBlock)
         /\ UNCHANGED <<nodeos_vars, receiver_vars, evm_blocks, published, consensus_parameters>>
         /\ [Next]_vars
         /\ \/ UNCHANGED db_vars
            \/ /\ canonical' = inserted' /\ kLibProcessed' = evm_lib
               /\ stored_parameters' = consensus_parameters
<1>1. Insert
  BY DEF StoreStep, InsertInBatch, InsertAndVerify
<1>2. handled \in Nat /\ Len(published) \in Nat /\ handled + 1 \in 1 .. Len(published)
  BY <1>1, LenProperties DEF Insert, NodeInv, StoreTypeOK, TypedLists, TypeOK
<1>3. [Next]_vars
  <2>1. published # <<>>
    BY <1>2, EmptySeq
  <2>2. pc = "idle" /\ exec_engine' = TRUE
        /\ UNCHANGED <<caches, evm_lib, published, consensus_parameters, pc, locals>>
    BY <1>1 DEF Insert
  <2>3. CASE exec_engine
    BY <2>2, <2>3 DEF NodeInv, TypedLists, TypeOK, vars, caches, locals
  <2>4. CASE ~exec_engine
    BY <2>1, <2>2, <2>4 DEF OpenExecutionEngine, Next
  <2> QED BY <2>3, <2>4
<1> QED BY <1>1, <1>2, <1>3 DEF Insert, StoreStep, InsertInBatch, InsertAndVerify, caches

LEMMA StoreKeeps ==
  ASSUME NodeInv, StoreStep
  PROVE  NodeInv'
<1> DEFINE b == NextBlock
<1>1. /\ handled + 1 \in 1 .. Len(published) /\ handled' = handled + 1
      /\ inserted' = insert_block(inserted, b)
      /\ UNCHANGED <<nodeos_vars, receiver_vars, evm_blocks, published, consensus_parameters>>
      /\ [Next]_vars
      /\ \/ UNCHANGED db_vars
         \/ /\ canonical' = inserted' /\ kLibProcessed' = evm_lib
            /\ stored_parameters' = consensus_parameters
  BY StoreFacts
<1>2. /\ published \in Seq(EvmBlock) /\ Len(published) \in Nat /\ evm_blocks \in Seq(EvmBlock)
      /\ handled \in Nat /\ inserted \in Seq(EvmBlock) /\ Rooted(inserted)
      /\ evm_lib \in Nat /\ consensus_parameters \subseteq Config /\ Len(evm_blocks) \in Nat
  BY LenProperties DEF NodeInv, TypedLists, TypeOK, StoreTypeOK, ChainInv
<1>3. b = published[handled + 1] /\ b \in EvmBlock
  BY <1>1, <1>2, ElementOfSeq DEF NextBlock
<1>4. FitsOn(b, inserted)
  <2>1. Placed(published[handled + 1], inserted, published, handled, (handled + 1) - 1)
    BY <1>1, <1>2 DEF NodeInv, ChainInv, QueuePlaced
  <2>2. (handled + 1) - 1 = handled /\ handled + 1 .. handled = {}
    BY <1>2
  <2> QED BY <1>3, <2>1, <2>2 DEF Placed, FitsOn
<1> HIDE DEF b
<1>5. inserted' \in Seq(EvmBlock) /\ inserted' # <<>> /\ Rooted(inserted')
  <2>1. /\ insert_block(inserted, b) \in Seq(EvmBlock)
        /\ Len(insert_block(inserted, b)) # 0
    BY <1>2, <1>3, <1>4, InsertedFacts
  <2> QED BY <1>1, <1>2, <1>3, <1>4, <2>1, EmptySeq, InsertedRooted
<1>6. ShipTypeOK'
  BY <1>1 DEF NodeInv, ShipTypeOK, StreamTypeOK, ReceiverTypeOK, nodeos_vars, chain_vars,
     session_vars, receiver_vars
<1>7. TypedLists'
  BY <1>1, NextTyped DEF NodeInv
<1>8. StoreTypeOK'
  BY <1>1, <1>2, <1>5 DEF NodeInv, StoreTypeOK, db_vars, Optional
<1>9. ASSUME NEW c \in EvmBlock, NEW n \in handled + 1 .. Len(published),
             Placed(c, inserted, published, handled, n)
      PROVE  Placed(c, inserted', published', handled', n)
  BY <1>1, <1>2, <1>3, <1>4, <1>9, PlacedAfterInsert
<1>10. QueuePlaced'
  <2> SUFFICES ASSUME NEW i \in handled' + 1 .. Len(published)
               PROVE  Placed(published[i], inserted', published', handled', i - 1)
    BY <1>1 DEF QueuePlaced
  <2>1. /\ i \in handled + 1 .. Len(published) /\ i \in 1 .. Len(published)
        /\ i - 1 \in handled + 1 .. Len(published)
    BY <1>1, <1>2
  <2>2. published[i] \in EvmBlock /\ Placed(published[i], inserted, published, handled, i - 1)
    BY <1>2, <2>1, ElementOfSeq DEF NodeInv, ChainInv, QueuePlaced
  <2> QED BY <1>9, <2>1, <2>2
<1>11. Fitting(evm_blocks, inserted, published, handled)'
  <2>1. Fitting(evm_blocks, inserted, published, handled)
    BY DEF NodeInv, ChainInv
  <2>2. Len(published) \in handled + 1 .. Len(published)
    BY <1>1, <1>2
  <2>3. \A i \in 1 .. Len(evm_blocks) :
          Placed(evm_blocks[i], inserted', published', handled', Len(published))
    BY <1>2, <1>9, <2>1, <2>2, ElementOfSeq DEF Fitting
  <2>4. UNCHANGED <<evm_blocks, published>>
    BY <1>1
  <2> QED BY <2>1, <2>3, <2>4 DEF Fitting
<1>12. ChainInv'
  BY <1>1, <1>5, <1>10, <1>11 DEF ChainInv, NodeInv, db_vars
<1>13. ParametersInv'
  <2>1. ConfigInv' /\ AllKnown(inserted, consensus_parameters)
    BY <1>1, NextKnown DEF NodeInv, ParametersInv
  <2>2. Known(b, consensus_parameters)
    BY <1>1, <1>3 DEF NodeInv, ParametersInv, ConfigInv, AllKnown
  <2>3. AllKnown(inserted', consensus_parameters)
    <3> DEFINE new == insert_block(inserted, b)
               at  == b.number - StartBlock.number
    <3>1. /\ at \in 0 .. Len(inserted) /\ Len(new) = at + 1 /\ Len(inserted) \in Nat
          /\ \A i \in 1 .. at : new[i] = inserted[i]
          /\ new[at + 1] = Stored(b)
      BY <1>2, <1>3, <1>4, InsertedFacts, LenProperties
    <3> HIDE DEF new, at
    <3>2. \A i \in 1 .. Len(new) : (i \in 1 .. at /\ i \in 1 .. Len(inserted)) \/ i = at + 1
      BY <3>1
    <3>3. Known(Stored(b), consensus_parameters)
      BY <1>3, <2>2, StoredFacts DEF Known
    <3>4. AllKnown(new, consensus_parameters)
      BY <2>1, <3>1, <3>2, <3>3 DEF AllKnown
    <3> QED BY <1>1, <3>4 DEF new
  <2> QED BY <1>1, <2>1, <2>3 DEF ParametersInv, NodeInv, db_vars
<1> QED BY <1>6, <1>7, <1>8, <1>12, <1>13 DEF NodeInv

-----------------------------------------------------------------------------
(* A crash, and the start that follows *)

LEMMA StartFound ==
  ASSUME NodeInv, NEW height
  PROVE  \E k \in 1 .. Len(canonical) : get_canonical_block_at_height(height) = canonical[k]
<1> DEFINE h  == IF height = None THEN EffectiveHeight ELSE height
           is == {i \in DOMAIN canonical :
                    canonical[i].number <= h /\ canonical[i].prev_randao # Zero}
<1>1. Len(canonical) \in Nat \ {0} /\ DOMAIN canonical = 1 .. Len(canonical)
  BY LenProperties, EmptySeq DEF NodeInv, StoreTypeOK
<1>2. get_canonical_block_at_height(height) = IF is = {} THEN canonical[1] ELSE canonical[Max(is)]
  BY DEF get_canonical_block_at_height, find_block_with_valid_eos_id
<1>3. is \in SUBSET (1 .. Len(canonical))
  BY <1>1
<1> HIDE DEF is
<1>4. is # {} => Max(is) \in is
  <2>1. is \in SUBSET (0 .. Len(canonical))
    BY <1>1, <1>3
  <2> QED BY <1>1, <2>1, MaxExists
<1>5. 1 \in 1 .. Len(canonical)
  BY <1>1
<1> QED BY <1>2, <1>3, <1>4, <1>5

LEMMA RestartKeeps ==
  ASSUME IdsHaveNumbers, NodeInv, NEW height, Restart(height)
  PROVE  NodeInv'
<1> DEFINE start == get_canonical_block_at_height(height)
           num   == to_block_num(start.prev_randao)
           nb    == LoadedNative(start, num)
<1>1. PICK k \in 1 .. Len(canonical) : start = canonical[k]
  BY StartFound
<1>2. /\ canonical \in Seq(EvmBlock) /\ canonical # <<>> /\ Len(canonical) \in Nat
      /\ Rooted(canonical) /\ AllKnown(canonical, stored_parameters)
      /\ stored_parameters \subseteq Config /\ kLibProcessed \in Optional(Nat)
  BY LenProperties DEF NodeInv, StoreTypeOK, ChainInv, ParametersInv
<1>3. start \in EvmBlock
  BY <1>1, <1>2, ElementOfSeq
<1>4. /\ native_blocks' = <<nb>> /\ evm_blocks' = <<start>> /\ new_block' = nb
      /\ evm_lib' \in UninitializedLib /\ published' = <<>> /\ exec_engine' = FALSE
      /\ pc' = "idle" /\ pending' = <<>>
      /\ conn' = "closed" /\ retry_count' = 0 /\ last_lib' = 0 /\ last_block_num' = 0
      /\ stored_num' = num /\ UNCHANGED failures
      /\ handled' = 0 /\ inserted' = canonical /\ consensus_parameters' = stored_parameters
      /\ UNCHANGED <<nodeos_vars, db_vars>>
  BY DEF Restart
<1> HIDE DEF start
<1>5. num \in Nat
  BY <1>3 DEF IdsHaveNumbers, EvmBlock
<1> HIDE DEF num
<1>6. nb \in NativeBlock
  <2>1. start.number \in Nat /\ start.prev_randao \in NativeId
    BY <1>3 DEF EvmBlock
  <2>2. evm_block_num_to_timestamp(start.number) \in Nat
    BY <2>1, ChannelAssumption, TimeAssumption DEF evm_block_num_to_timestamp
  <2>3. <<>> \in Seq(NativeAction)
    BY EmptySeq
  <2> QED BY <1>5, <2>1, <2>2, <2>3, ChannelAssumption DEF LoadedNative, NativeBlock, Optional
<1> HIDE DEF nb
<1>7. ShipTypeOK'
  BY <1>4, <1>5 DEF NodeInv, ShipTypeOK, StreamTypeOK, ReceiverTypeOK, nodeos_vars, chain_vars,
     session_vars
<1>8. TypedLists'
  <2>1. <<nb>> \in Seq(NativeBlock) /\ <<start>> \in Seq(EvmBlock)
    BY <1>3, <1>6
  <2>2. <<>> \in Seq(EvmBlock) /\ <<>> \in Seq(NativeAction)
    BY EmptySeq
  <2>3. evm_lib' \in Nat
    BY <1>4, StartAssumption
  <2>4. TypeOK'
    BY <1>2, <1>4, <1>6, <2>1, <2>2, <2>3 DEF TypeOK
  <2>5. ListsReadable'
    BY <1>4 DEF ListsReadable
  <2> QED BY <2>4, <2>5 DEF TypedLists
<1>9. Len(published') = 0 /\ Len(evm_blocks') = 1 /\ evm_blocks'[1] = start
  BY <1>4
<1>10. StoreTypeOK'
  BY <1>2, <1>4, <1>9 DEF StoreTypeOK, db_vars
<1>11. FitsOn(start, canonical)
  <2>1. start.number = StartBlock.number + k - 1
    BY <1>1, <1>2 DEF Rooted
  <2>2. CASE k = 1
    BY <2>1, <2>2, StartNumber DEF FitsOn
  <2>3. CASE k # 1
    <3>1. k - 1 \in 1 .. Len(canonical) - 1 /\ k - 1 \in 1 .. Len(canonical) /\ (k - 1) + 1 = k
      BY <1>2, <2>3
    <3>2. canonical[(k - 1) + 1].parent_hash = hash(canonical[k - 1])
      BY <1>2, <3>1 DEF Rooted
    <3>3. start.number - StartBlock.number = k - 1
      BY <2>1, StartNumber
    <3> QED BY <1>1, <3>1, <3>2, <3>3 DEF FitsOn
  <2> QED BY <2>2, <2>3
<1>12. ChainInv'
  <2>1. Rooted(inserted)' /\ Rooted(canonical)'
    BY <1>2, <1>4 DEF db_vars
  <2>2. QueuePlaced'
    BY <1>4, <1>9 DEF QueuePlaced
  <2>3. Placed(start, canonical, <<>>, 0, 0)
    BY <1>11 DEF Placed
  <2>4. Fitting(evm_blocks, inserted, published, handled)'
    <3>1. start.number \in Nat
      BY <1>3 DEF EvmBlock
    <3> QED BY <1>4, <1>9, <2>3, <3>1 DEF Fitting
  <2> QED BY <2>1, <2>2, <2>4 DEF ChainInv
<1>13. ParametersInv'
  <2>1. Known(start, stored_parameters)
    BY <1>1, <1>2 DEF AllKnown
  <2> QED BY <1>2, <1>4, <1>9, <2>1 DEF ParametersInv, ConfigInv, AllKnown, Known, db_vars
<1> QED BY <1>7, <1>8, <1>10, <1>12, <1>13 DEF NodeInv

-----------------------------------------------------------------------------
(* The theorems about the database *)

LEMMA InitNode == StorageInit => NodeInv
<1> SUFFICES ASSUME StorageInit PROVE NodeInv
  OBVIOUS
<1>1. ShipTypeOK /\ TypedLists
  BY InitShipTyped, InitTyped DEF StorageInit, SystemInit
<1>2. /\ evm_blocks = <<StartBlock>> /\ published = <<>> /\ handled = 0
      /\ inserted = <<StartBlock>> /\ canonical = <<StartBlock>>
      /\ kLibProcessed = None /\ stored_parameters = {}
  BY DEF StorageInit, SystemInit, Init
<1>3. StartBlock \in EvmBlock /\ StartBlock.number \in Nat
  BY StartAssumption, StartNumber
<1> DEFINE one == <<StartBlock>>
<1>4. one \in Seq(EvmBlock) /\ one # <<>> /\ Len(one) = 1 /\ one[1] = StartBlock
  BY <1>3
<1> HIDE DEF one
<1>5. Len(published) = 0
  BY <1>2
<1>6. StoreTypeOK
  BY <1>2, <1>4, <1>5 DEF StoreTypeOK, Optional, one
<1>7. Rooted(one)
  BY <1>3, <1>4 DEF Rooted
<1>8. Fitting(one, one, published, 0)
  BY <1>3, <1>4 DEF Fitting, Placed
<1>9. ChainInv
  BY <1>2, <1>5, <1>7, <1>8 DEF ChainInv, QueuePlaced, one
<1>10. ParametersInv
  <2>1. \A C : AllKnown(one, C)
    BY <1>4 DEF AllKnown, Known
  <2> QED BY <1>2, <1>5, <2>1 DEF ParametersInv, ConfigInv, AllKnown, one
<1> QED BY <1>1, <1>6, <1>9, <1>10 DEF NodeInv

LEMMA NextNode ==
  ASSUME HistoriesAreIds, IdsHaveNumbers, NodeInv, [StorageNext]_nodevars
  PROVE  NodeInv'
<1>1. CASE HandleNative
  <2>1. ShipTypeOK' /\ [Next]_vars /\ UNCHANGED store_vars
    BY <1>1, DeliverFacts DEF HandleNative, Next, NodeInv
  <2> QED BY <2>1, ConvertKeeps
<1>2. CASE ConvertStep \/ UNCHANGED nodevars
  <2>1. [Next]_vars /\ UNCHANGED <<nodeos_vars, receiver_vars, store_vars>>
    BY <1>2 DEF ConvertStep, Next, nodevars, allvars
  <2>2. ShipTypeOK'
    BY <2>1 DEF NodeInv, ShipTypeOK, StreamTypeOK, ReceiverTypeOK, nodeos_vars, chain_vars,
       session_vars, receiver_vars
  <2> QED BY <2>1, <2>2, ConvertKeeps
<1>3. CASE (ChainStep \/ ConnectionStep) /\ UNCHANGED store_vars
  <2>1. ShipTypeOK' /\ UNCHANGED vars
    BY <1>3, ChainStepTyped, ConnectTyped DEF ChainStep, ConnectionStep, NodeInv
  <2> QED BY <1>3, <2>1, ConvertKeeps
<1>4. CASE StoreStep
  BY <1>4, StoreKeeps
<1>5. CASE \E height \in Heights : Restart(height)
  BY <1>5, RestartKeeps
<1> QED BY <1>1, <1>2, <1>3, <1>4, <1>5 DEF StorageNext

\* For every native chain, whatever forks, failures and crashes happen and however long
\* the queue of EVM blocks is: the node's state keeps its type, and the handler never
\* reads the end of an empty list before its trimming loops.
THEOREM NodeTypeCorrect ==
  ASSUME HistoriesAreIds, IdsHaveNumbers
  PROVE  StorageSpec => [](TypeOK /\ ListsReadable)
<1>1. StorageInit => NodeInv
  BY InitNode
<1>2. NodeInv /\ [StorageNext]_nodevars => NodeInv'
  BY NextNode
<1>3. NodeInv => TypeOK /\ ListsReadable
  BY DEF NodeInv, TypedLists
<1> QED BY <1>1, <1>2, <1>3, PTL DEF StorageSpec

\* For every native chain, after any crash, each EVM block reaches the execution engine
\* after its parent, and the canonical chain of the database is linked.
THEOREM DatabaseLinked ==
  ASSUME HistoriesAreIds, IdsHaveNumbers
  PROVE  StorageSpec => []ParentsInserted
<1>1. StorageInit => NodeInv
  BY InitNode
<1>2. NodeInv /\ [StorageNext]_nodevars => NodeInv'
  BY NextNode
<1>3. NodeInv => ParentsInserted
  BY RootedIsChain DEF NodeInv, StoreTypeOK, ChainInv, ParentsInserted
<1> QED BY <1>1, <1>2, <1>3, PTL DEF StorageSpec

\* For every native chain, wherever a crash falls between the conversion of a block and
\* its insertion, a block in the database names parameters that are in it too.
THEOREM ParametersDurable ==
  ASSUME HistoriesAreIds, IdsHaveNumbers
  PROVE  StorageSpec => []ConfigDurable
<1>1. StorageInit => NodeInv
  BY InitNode
<1>2. NodeInv /\ [StorageNext]_nodevars => NodeInv'
  BY NextNode
<1>3. NodeInv => ConfigDurable
  <2> SUFFICES ASSUME NodeInv PROVE ConfigDurable
    OBVIOUS
  <2>1. DOMAIN canonical = 1 .. Len(canonical) /\ AllKnown(canonical, stored_parameters)
    BY LenProperties DEF NodeInv, StoreTypeOK, ParametersInv
  <2> QED BY <2>1 DEF ConfigDurable, AllKnown, Known
<1> QED BY <1>1, <1>2, <1>3, PTL DEF StorageSpec

-----------------------------------------------------------------------------
(* Seconds *)

LEMMA DivMonotonic ==
  ASSUME NEW d \in Nat \ {0}, NEW a \in Nat, NEW b \in Nat, a <= b
  PROVE  a \div d <= b \div d
OBVIOUS

LEMMA NumberMonotonic ==
  ASSUME NEW a \in Nat, NEW b \in Nat, a <= b
  PROVE  timestamp_to_evm_block_num(a) <= timestamp_to_evm_block_num(b)
<1>1. a \div Second <= b \div Second /\ a \div Second \in Int /\ b \div Second \in Int
  BY ChannelAssumption, DivMonotonic
<1> QED BY <1>1, TimeAssumption DEF timestamp_to_evm_block_num

-----------------------------------------------------------------------------
(* The EVM blocks of a branch *)

\* The EVM block of a native block, and its transactions.
Number(x) == timestamp_to_evm_block_num(x.slot)

TransactionsIn(x) == [i \in DOMAIN x.actions |-> x.actions[i].rlpx.tx]

LEMMA NumberType ==
  ASSUME NEW x \in Bodies
  PROVE  Number(x) \in Nat
BY EvmNumType DEF Number, Bodies

LEMMA BodyTransactions ==
  ASSUME HistoriesAreIds, NEW x \in Bodies
  PROVE  /\ x.actions \in Seq(NativeAction)
         /\ TransactionsIn(x) \in Seq(Tx) /\ Len(TransactionsIn(x)) = Len(x.actions)
<1>1. x.actions \in Seq(NativeAction)
  BY DEF Bodies, HistoriesAreIds
<1>2. /\ Len(x.actions) \in Nat /\ DOMAIN x.actions = 1 .. Len(x.actions)
      /\ \A i \in 1 .. Len(x.actions) : x.actions[i] \in NativeAction
  BY <1>1, LenProperties, ElementOfSeq
<1>3. \A i \in 1 .. Len(x.actions) : x.actions[i].rlpx.tx \in Tx
  BY <1>2 DEF NativeAction, Rlpx
<1> QED BY <1>1, <1>2, <1>3 DEF TransactionsIn

\* Where the block k of a branch is.
LEMMA PositionFacts ==
  ASSUME NEW id \in Histories, NEW k \in 1 .. Len(id)
  PROVE  /\ id[k] \in Bodies
         /\ SlotOf(Prefix(id, k)) = id[k].slot
         /\ NumberOf(Prefix(id, k)) = Number(id[k])
         /\ Prefix(id, k) # <<>> /\ Last(Prefix(id, k)) = id[k]
<1>1. /\ Len(id) \in Nat /\ k \in 0 .. Len(id) /\ id[k] \in Bodies
  BY LenProperties, ElementOfSeq DEF Histories
<1>2. /\ Len(SubSeq(id, 1, k)) = k
      /\ SubSeq(id, 1, k)[k] = id[k]
  BY <1>1, PrefixFacts DEF Histories
<1>3. SubSeq(id, 1, k) # <<>>
  BY <1>2
<1>4. Last(Prefix(id, k)) = id[k] /\ Prefix(id, k) # <<>>
  BY <1>2, <1>3 DEF Last, Prefix
<1> QED BY <1>1, <1>4 DEF SlotOf, NumberOf, Number

LEMMA FullPrefix ==
  ASSUME NEW id \in Histories
  PROVE  Prefix(id, Len(id)) = id /\ Len(id) \in Nat /\ Prefix(id, 0) = <<>>
BY SubSeqFull, SubSeqEmpty, LenProperties DEF Prefix, Histories

\* The native blocks of EVM block m.
LEMMA PositionsFacts ==
  ASSUME NEW id \in Histories, NEW m
  PROVE  /\ PositionsOf(id, m) = {k \in 1 .. Len(id) : Number(id[k]) = m}
         /\ DOMAIN id = 1 .. Len(id)
<1>1. DOMAIN id = 1 .. Len(id)
  BY LenProperties DEF Histories
<1> QED BY <1>1, PositionFacts DEF PositionsOf

\* The transactions of each block of a branch, those of other EVM blocks left out.
ByPosition(id, m) ==
  [k \in DOMAIN id |-> IF Number(id[k]) = m THEN TransactionsIn(id[k]) ELSE <<>>]

LEMMA ByPositionFacts ==
  ASSUME HistoriesAreIds, NEW id \in Histories, NEW m
  PROVE  /\ TransactionsOf(id, m) = FlattenSeq(ByPosition(id, m))
         /\ ByPosition(id, m) \in Seq(Seq(Tx))
         /\ Len(ByPosition(id, m)) = Len(id)
<1>1. DOMAIN id = 1 .. Len(id) /\ Len(id) \in Nat
  BY LenProperties DEF Histories
<1>2. \A k \in DOMAIN id : id[k] \in Bodies
  BY <1>1, ElementOfSeq DEF Histories
<1>3. \A k \in DOMAIN id : k \in PositionsOf(id, m) <=> Number(id[k]) = m
  BY <1>1, PositionsFacts
<1>4. TransactionsOf(id, m) = FlattenSeq(ByPosition(id, m))
  BY <1>3 DEF TransactionsOf, ByPosition, TransactionsIn
<1>5. \A k \in 1 .. Len(id) :
        (IF Number(id[k]) = m THEN TransactionsIn(id[k]) ELSE <<>>) \in Seq(Tx)
  BY <1>1, <1>2, BodyTransactions, EmptySeq
<1>6. ByPosition(id, m) \in Seq(Seq(Tx)) /\ Len(ByPosition(id, m)) = Len(id)
  BY <1>1, <1>5 DEF ByPosition
<1> QED BY <1>4, <1>6

LEMMA ByPositionNext ==
  ASSUME HistoriesAreIds, NEW id \in Histories, NEW k \in 0 .. Len(id) - 1, NEW m
  PROVE  ByPosition(Prefix(id, k + 1), m)
           = Append(ByPosition(Prefix(id, k), m),
                    IF Number(id[k + 1]) = m THEN TransactionsIn(id[k + 1]) ELSE <<>>)
<1> DEFINE new == Prefix(id, k + 1)
           old == Prefix(id, k)
           txs == IF Number(id[k + 1]) = m THEN TransactionsIn(id[k + 1]) ELSE <<>>
<1>1. Len(id) \in Nat /\ k \in 0 .. Len(id) /\ k + 1 \in 0 .. Len(id) /\ k \in Nat
  BY LenProperties DEF Histories
<1>2. /\ new \in Histories /\ Len(new) = k + 1 /\ \A i \in 1 .. k + 1 : new[i] = id[i]
      /\ old \in Histories /\ Len(old) = k /\ \A i \in 1 .. k : old[i] = id[i]
  BY <1>1, PrefixFacts DEF Prefix, Histories
<1> HIDE DEF new, old
<1>3. DOMAIN new = 1 .. k + 1 /\ DOMAIN old = 1 .. k
  BY <1>2, PositionsFacts
<1>4. /\ ByPosition(new, m) \in Seq(Seq(Tx)) /\ Len(ByPosition(new, m)) = k + 1
      /\ ByPosition(old, m) \in Seq(Seq(Tx)) /\ Len(ByPosition(old, m)) = k
  BY <1>2, ByPositionFacts
<1>5. txs \in Seq(Tx)
  <2>1. k + 1 \in 1 .. Len(id)
    BY <1>1
  <2>2. id[k + 1] \in Bodies
    BY <2>1, PositionFacts
  <2> QED BY <2>2, BodyTransactions, EmptySeq
<1>6. /\ \A i \in 1 .. k : ByPosition(new, m)[i] = ByPosition(old, m)[i]
      /\ ByPosition(new, m)[k + 1] = txs
  <2>1. \A i \in 1 .. k : i \in 1 .. k + 1
    BY <1>1
  <2> QED BY <1>1, <1>2, <1>3, <2>1 DEF ByPosition
<1> HIDE DEF txs
<1> DEFINE app == Append(ByPosition(old, m), txs)
<1>7. /\ app \in Seq(Seq(Tx)) /\ Len(app) = k + 1
      /\ \A i \in 1 .. k : app[i] = ByPosition(old, m)[i]
      /\ app[k + 1] = txs
  BY <1>4, <1>5, AppendProperties
<1> HIDE DEF app
<1>8. \A i \in 1 .. k + 1 : ByPosition(new, m)[i] = app[i]
  <2>1. \A i \in 1 .. k + 1 : i \in 1 .. k \/ i = k + 1
    BY <1>1
  <2> QED BY <1>6, <1>7, <2>1
<1>9. ByPosition(new, m) = app
  BY <1>4, <1>7, <1>8, SeqEqual
<1> QED BY <1>9 DEF app, new, old, txs

\* One more block adds its transactions to its EVM block, and none to any other.
LEMMA TransactionsNext ==
  ASSUME HistoriesAreIds, NEW id \in Histories, NEW k \in 0 .. Len(id) - 1, NEW m
  PROVE  /\ TransactionsOf(Prefix(id, k + 1), m)
              = TransactionsOf(Prefix(id, k), m)
                  \o (IF Number(id[k + 1]) = m THEN TransactionsIn(id[k + 1]) ELSE <<>>)
         /\ (IF Number(id[k + 1]) = m THEN TransactionsIn(id[k + 1]) ELSE <<>>) \in Seq(Tx)
<1> DEFINE txs == IF Number(id[k + 1]) = m THEN TransactionsIn(id[k + 1]) ELSE <<>>
<1>1. Len(id) \in Nat /\ k \in 0 .. Len(id) /\ k + 1 \in 0 .. Len(id) /\ k + 1 \in 1 .. Len(id)
  BY LenProperties DEF Histories
<1>2. Prefix(id, k) \in Histories /\ Prefix(id, k + 1) \in Histories /\ id[k + 1] \in Bodies
  BY <1>1, PrefixType, PositionFacts
<1>3. txs \in Seq(Tx)
  BY <1>2, BodyTransactions, EmptySeq
<1>4. ByPosition(Prefix(id, k + 1), m) = Append(ByPosition(Prefix(id, k), m), txs)
  BY ByPositionNext
<1> HIDE DEF txs
<1>5. /\ TransactionsOf(Prefix(id, k + 1), m) = FlattenSeq(ByPosition(Prefix(id, k + 1), m))
      /\ TransactionsOf(Prefix(id, k), m) = FlattenSeq(ByPosition(Prefix(id, k), m))
      /\ ByPosition(Prefix(id, k), m) \in Seq(Seq(Tx))
  BY <1>2, ByPositionFacts
<1>6. TransactionsOf(Prefix(id, k + 1), m) = TransactionsOf(Prefix(id, k), m) \o txs
  BY <1>3, <1>4, <1>5, FlattenAppend
<1> QED BY <1>3, <1>6 DEF txs

LEMMA TransactionsEmpty ==
  ASSUME HistoriesAreIds, NEW m
  PROVE  TransactionsOf(<<>>, m) = <<>>
<1>1. <<>> \in Histories
  BY EmptySeq DEF Histories
<1>2. ByPosition(<<>>, m) \in Seq(Seq(Tx)) /\ Len(ByPosition(<<>>, m)) = Len(<<>>)
  BY <1>1, ByPositionFacts
<1>3. Len(<<>>) = 0
  OBVIOUS
<1>4. ByPosition(<<>>, m) = <<>>
  BY <1>2, <1>3, EmptySeq
<1> QED BY <1>1, <1>4, ByPositionFacts, FlattenEmpty

LEMMA TransactionsType ==
  ASSUME HistoriesAreIds, NEW id \in Histories, NEW m, NEW n \in 0 .. Len(id)
  PROVE  TransactionsOf(Prefix(id, n), m) \in Seq(Tx)
<1> DEFINE T == {k \in 0 .. n : TransactionsOf(Prefix(id, k), m) \notin Seq(Tx)}
<1>1. SUFFICES ASSUME T # {} PROVE FALSE
  <2>1. Len(id) \in Nat
    BY FullPrefix
  <2> QED BY <2>1
<1>2. T \in SUBSET Nat /\ Len(id) \in Nat
  BY FullPrefix
<1> DEFINE k == Min(T)
<1>3. k \in T /\ \A i \in T : k <= i
  <2> HIDE DEF T
  <2> QED BY <1>1, <1>2, MinExists
<1>4. k \in 0 .. n /\ TransactionsOf(Prefix(id, k), m) \notin Seq(Tx)
  BY <1>3
<1> HIDE DEF k
<1>5. CASE k = 0
  <2>1. Prefix(id, k) = <<>>
    BY <1>5, FullPrefix
  <2>2. TransactionsOf(Prefix(id, k), m) = <<>>
    BY <2>1, TransactionsEmpty
  <2> QED BY <1>4, <2>2, EmptySeq
<1>6. CASE k # 0
  <2>1. k - 1 \in 0 .. n /\ k - 1 \in 0 .. Len(id) - 1 /\ k - 1 \notin T /\ (k - 1) + 1 = k
    BY <1>2, <1>3, <1>4, <1>6
  <2>2. TransactionsOf(Prefix(id, k - 1), m) \in Seq(Tx)
    BY <2>1
  <2> HIDE DEF T
  <2>3. PICK txs \in Seq(Tx) :
          TransactionsOf(Prefix(id, (k - 1) + 1), m) = TransactionsOf(Prefix(id, k - 1), m) \o txs
    BY <2>1, TransactionsNext
  <2> QED BY <1>4, <2>1, <2>2, <2>3, ConcatProperties
<1> QED BY <1>5, <1>6

\* Blocks of other EVM blocks change nothing.
LEMMA TransactionsStable ==
  ASSUME HistoriesAreIds, NEW id \in Histories, NEW m,
         NEW n \in 0 .. Len(id), NEW k \in 0 .. n,
         \A j \in k + 1 .. n : Number(id[j]) # m
  PROVE  TransactionsOf(Prefix(id, n), m) = TransactionsOf(Prefix(id, k), m)
<1> DEFINE Same(i) == TransactionsOf(Prefix(id, i), m) = TransactionsOf(Prefix(id, k), m)
           T == {i \in k .. n : ~Same(i)}
<1>1. Len(id) \in Nat /\ n \in Nat /\ k \in Nat
  BY FullPrefix
<1>2. SUFFICES ASSUME T # {} PROVE FALSE
  BY <1>1
<1>3. T \in SUBSET Nat
  BY <1>1
<1> DEFINE i == Min(T)
<1>4. i \in T /\ \A j \in T : i <= j
  <2> HIDE DEF T
  <2> QED BY <1>2, <1>3, MinExists
<1>5. i \in k .. n /\ ~Same(i)
  BY <1>4
<1> HIDE DEF i
<1>6. i # k
  BY <1>5
<1>7. /\ i - 1 \in k .. n /\ i - 1 \in 0 .. Len(id) - 1 /\ i - 1 \notin T /\ (i - 1) + 1 = i
      /\ i \in k + 1 .. n
  BY <1>1, <1>4, <1>5, <1>6
<1>8. Same(i - 1)
  BY <1>7
<1>9. Number(id[i]) # m
  BY <1>7
<1> HIDE DEF T, Same
<1>10. TransactionsOf(Prefix(id, i), m) = TransactionsOf(Prefix(id, i - 1), m) \o <<>>
  <2>1. TransactionsOf(Prefix(id, (i - 1) + 1), m)
          = TransactionsOf(Prefix(id, i - 1), m)
              \o (IF Number(id[(i - 1) + 1]) = m THEN TransactionsIn(id[(i - 1) + 1]) ELSE <<>>)
    BY <1>7, TransactionsNext
  <2> QED BY <1>7, <1>9, <2>1
<1>11. TransactionsOf(Prefix(id, i - 1), m) \in Seq(Tx)
  BY <1>1, <1>7, TransactionsType
<1>12. TransactionsOf(Prefix(id, i), m) = TransactionsOf(Prefix(id, i - 1), m)
  BY <1>10, <1>11, ConcatEmptySeq
<1> QED BY <1>5, <1>8, <1>12 DEF Same

LEMMA PrefixPositions ==
  ASSUME NEW id \in Histories, NEW n \in 0 .. Len(id), NEW m
  PROVE  /\ Prefix(id, n) \in Histories /\ Len(Prefix(id, n)) = n
         /\ \A k \in 1 .. n : Prefix(id, n)[k] = id[k]
         /\ PositionsOf(Prefix(id, n), m) = {k \in 1 .. n : Number(id[k]) = m}
<1>1. /\ Prefix(id, n) \in Histories /\ Len(Prefix(id, n)) = n
      /\ \A k \in 1 .. n : Prefix(id, n)[k] = id[k]
  BY PrefixFacts DEF Prefix, Histories
<1>2. PositionsOf(Prefix(id, n), m) = {k \in 1 .. n : Number(Prefix(id, n)[k]) = m}
  BY <1>1, PositionsFacts
<1> QED BY <1>1, <1>2

\* k is the last of the first n blocks of id that belong to EVM block m.
LastOf(id, n, m, k) ==
  k \in 1 .. n /\ Number(id[k]) = m /\ \A j \in k + 1 .. n : Number(id[j]) # m

LEMMA UpperBoundIs ==
  ASSUME NEW id \in Histories, NEW n \in 0 .. Len(id), NEW m
  PROVE  \/ /\ UpperBoundOf(Prefix(id, n), m) = Zero
            /\ \A j \in 1 .. n : Number(id[j]) # m
         \/ \E k \in 1 .. n : LastOf(id, n, m, k) /\ UpperBoundOf(Prefix(id, n), m) = Prefix(id, k)
<1> DEFINE P == PositionsOf(Prefix(id, n), m)
<1>1. P = {k \in 1 .. n : Number(id[k]) = m} /\ Len(id) \in Nat /\ n \in Nat
  BY PrefixPositions, FullPrefix
<1>2. UpperBoundOf(Prefix(id, n), m) = IF P = {} THEN Zero ELSE Prefix(Prefix(id, n), Max(P))
  BY DEF UpperBoundOf
<1>3. CASE P = {}
  BY <1>1, <1>2, <1>3
<1>4. CASE P # {}
  <2>1. P \in SUBSET (0 .. n)
    BY <1>1
  <2> HIDE DEF P
  <2>2. Max(P) \in P /\ \A y \in P : Max(P) >= y
    BY <1>1, <1>4, <2>1, MaxExists
  <2> DEFINE k == Max(P)
  <2>3. k \in 1 .. n /\ Number(id[k]) = m /\ \A j \in P : k >= j
    BY <1>1, <2>2
  <2>4. UpperBoundOf(Prefix(id, n), m) = Prefix(Prefix(id, n), k)
    BY <1>2, <1>4
  <2> HIDE DEF k
  <2>5. LastOf(id, n, m, k)
    <3> SUFFICES ASSUME NEW j \in k + 1 .. n, Number(id[j]) = m PROVE FALSE
      BY <2>3 DEF LastOf
    <3>1. j \in P
      BY <1>1, <2>3
    <3> QED BY <1>1, <2>3, <3>1
  <2>6. k \in 0 .. n
    BY <2>3
  <2>7. Prefix(Prefix(id, n), k) = Prefix(id, k)
    BY <2>6, PrefixOfPrefix DEF Prefix, Histories
  <2> QED BY <2>3, <2>4, <2>5, <2>7
<1> QED BY <1>3, <1>4

LEMMA UpperBoundStable ==
  ASSUME NEW id \in Histories, NEW m,
         NEW n \in 0 .. Len(id), NEW k \in 0 .. n,
         \A j \in k + 1 .. n : Number(id[j]) # m
  PROVE  UpperBoundOf(Prefix(id, n), m) = UpperBoundOf(Prefix(id, k), m)
<1>1. Len(id) \in Nat /\ n \in Nat /\ k \in Nat /\ k \in 0 .. Len(id)
  BY FullPrefix
<1>2. \A j \in 1 .. n : j \in 1 .. k \/ j \in k + 1 .. n
  BY <1>1
<1>3. CASE \A j \in 1 .. n : Number(id[j]) # m
  <2>1. \A j \in 1 .. k : j \in 1 .. n
    BY <1>1
  <2>2. UpperBoundOf(Prefix(id, n), m) = Zero
    BY <1>3, UpperBoundIs DEF LastOf
  <2>3. UpperBoundOf(Prefix(id, k), m) = Zero
    BY <1>1, <1>3, <2>1, UpperBoundIs DEF LastOf
  <2> QED BY <2>2, <2>3
<1>4. CASE \E j \in 1 .. n : Number(id[j]) = m
  <2>1. PICK a \in 1 .. n : LastOf(id, n, m, a) /\ UpperBoundOf(Prefix(id, n), m) = Prefix(id, a)
    BY <1>4, UpperBoundIs
  <2>2. \E j \in 1 .. k : Number(id[j]) = m
    BY <1>2, <1>4
  <2>3. PICK b \in 1 .. k : LastOf(id, k, m, b) /\ UpperBoundOf(Prefix(id, k), m) = Prefix(id, b)
    BY <1>1, <2>2, UpperBoundIs
  <2>4. a \in 1 .. k /\ Number(id[a]) = m /\ Number(id[b]) = m
    BY <1>2, <2>1, <2>3 DEF LastOf
  <2>5. ~(a < b)
    <3>1. b \in 1 .. n
      BY <1>1
    <3> QED BY <2>1, <2>4, <3>1 DEF LastOf
  <2>6. ~(b < a)
    BY <2>3, <2>4 DEF LastOf
  <2>7. a = b
    BY <1>1, <2>4, <2>5, <2>6
  <2> QED BY <2>1, <2>3, <2>7
<1> QED BY <1>3, <1>4

\* The upper bound of a block's own EVM block.
LEMMA UpperBoundOfTip ==
  ASSUME NEW id \in Histories, NEW k \in 1 .. Len(id)
  PROVE  UpperBoundOf(Prefix(id, k), Number(id[k])) = Prefix(id, k)
<1>1. Len(id) \in Nat /\ k \in 0 .. Len(id) /\ k \in 1 .. k
  BY FullPrefix
<1>2. PICK a \in 1 .. k : LastOf(id, k, Number(id[k]), a)
                          /\ UpperBoundOf(Prefix(id, k), Number(id[k])) = Prefix(id, a)
  BY <1>1, UpperBoundIs
<1>3. a = k
  BY <1>1, <1>2 DEF LastOf
<1> QED BY <1>2, <1>3

-----------------------------------------------------------------------------
(* Blocks that hold what a branch says *)

LEMMA HoldsStable ==
  ASSUME HistoriesAreIds, NEW id \in Histories, NEW b,
         NEW n \in 0 .. Len(id), NEW k \in 0 .. n,
         \A j \in k + 1 .. n : Number(id[j]) # b.number
  PROVE  Holds(b, Prefix(id, n)) <=> Holds(b, Prefix(id, k))
BY TransactionsStable, UpperBoundStable DEF Holds

\* Slots never decrease along a branch, and it starts after the EVM block of the start.
Timed(id) ==
  \A j \in 1 .. Len(id) :
    /\ id[j].slot > StartSlot
    /\ Number(id[j]) > StartBlock.number
    /\ \A k \in j .. Len(id) : id[j].slot <= id[k].slot

LEMMA TimedNumbers ==
  ASSUME NEW id \in Histories, Timed(id)
  PROVE  \A j \in 1 .. Len(id) : \A k \in j .. Len(id) : Number(id[j]) <= Number(id[k])
<1> TAKE j \in 1 .. Len(id)
<1> TAKE k \in j .. Len(id)
<1>1. k \in 1 .. Len(id)
  BY FullPrefix
<1>2. id[j].slot \in Nat /\ id[k].slot \in Nat
  BY <1>1, PositionFacts DEF Bodies
<1>3. id[j].slot <= id[k].slot
  BY DEF Timed
<1> QED BY <1>2, <1>3, NumberMonotonic DEF Number

LEMMA TimedPrefix ==
  ASSUME NEW id \in Histories, Timed(id), NEW n \in 0 .. Len(id)
  PROVE  Timed(Prefix(id, n))
<1>1. /\ Len(id) \in Nat /\ n \in Nat /\ Len(Prefix(id, n)) = n
      /\ \A k \in 1 .. n : Prefix(id, n)[k] = id[k]
  BY FullPrefix, PrefixPositions
<1>2. \A k \in 1 .. n : k \in 1 .. Len(id)
  BY <1>1
<1>3. \A j \in 1 .. n : \A k \in j .. n : k \in 1 .. n /\ k \in j .. Len(id)
  BY <1>1
<1> QED BY <1>1, <1>2, <1>3 DEF Timed

\* What a branch says of an EVM block before that of its k-th block does not depend on
\* what is above that block.
LEMMA HoldsBelow ==
  ASSUME HistoriesAreIds, NEW id \in Histories, Timed(id), NEW b,
         NEW n \in 0 .. Len(id), NEW k \in 1 .. n, b.number \in Nat, b.number < Number(id[k])
  PROVE  Holds(b, Prefix(id, n)) <=> Holds(b, Prefix(id, k))
<1>1. Len(id) \in Nat /\ k \in 0 .. n /\ k \in 1 .. Len(id)
  BY FullPrefix
<1>2. \A j \in k + 1 .. n : Number(id[j]) # b.number
  <2> TAKE j \in k + 1 .. n
  <2>1. j \in k .. Len(id) /\ j \in 1 .. Len(id)
    BY <1>1
  <2>2. Number(id[k]) <= Number(id[j]) /\ Number(id[k]) \in Nat /\ Number(id[j]) \in Nat
    BY <1>1, <2>1, TimedNumbers, PositionFacts, NumberType
  <2> QED BY <2>2
<1> QED BY <1>1, <1>2, HoldsStable

-----------------------------------------------------------------------------
(* The native chain *)

\* What the proofs assume of the start: the EVM block of the start block is made of the
\* native blocks up to the anchor, no later native block belongs to it, the block after
\* the anchor is irreversible, and ids of blocks are not zero.
CleanStart ==
  /\ StartBlock.prev_randao = <<>>
  /\ NumberOf(<<>>) = StartBlock.number
  /\ \A d \in Slots : timestamp_to_evm_block_num(StartSlot + d) > StartBlock.number
  /\ InitLib > StartBlockNum
  /\ Genesis <= StartSlot
  /\ Zero \notin Histories
  /\ None \notin Nat

\* The stream never goes back below the start.
StreamInv ==
  /\ Timed(best)
  /\ lib > StartBlockNum
  /\ behind = 0
  /\ stored_num >= StartBlockNum
  /\ last_lib > 0 => last_lib >= StartBlockNum /\ last_block_num >= StartBlockNum

\* The block of id is irreversible, and so no fork removes it.
Firm(id) ==
  /\ Len(id) <= Len(best) /\ id = Prefix(best, Len(id))
  /\ StartBlockNum + Len(id) <= lib

\* Every native block of EVM block m and of those before it is irreversible.
Settled(m) ==
  \E k \in 1 .. Len(best) : StartBlockNum + k <= lib /\ Number(best[k]) > m

\* nb is the message for the block of best on top of its first c.
Message(nb, c) ==
  /\ c \in 0 .. Len(best) - 1
  /\ nb.id = Prefix(best, c + 1) /\ nb.prev = Prefix(best, c)
  /\ nb.block_num = StartBlockNum + c + 1
  /\ nb.timestamp = best[c + 1].slot
  /\ nb.actions = best[c + 1].actions
  /\ nb.new_config = best[c + 1].new_config
  /\ nb.lib = lib

-----------------------------------------------------------------------------
(* The inductive invariant of the conversion *)

\* s is a window of the branch that it ends with.
Window(s) ==
  LET id == Last(s).id
  IN  /\ id \in Histories /\ Timed(id)
      /\ Len(s) <= Len(id) + 1
      /\ \A i \in 1 .. Len(s) :
           /\ s[i].id = Prefix(id, Len(id) - Len(s) + i)
           /\ s[i].block_num = StartBlockNum + Len(id) - Len(s) + i
      /\ \A i \in 2 .. Len(s) :
           /\ s[i].timestamp = id[Len(id) - Len(s) + i].slot
           /\ s[i].actions = id[Len(id) - Len(s) + i].actions

\* s starts with the block that load_head derives from an EVM block, whose second is
\* settled; its timestamp is of the next second.
Anchored(s) ==
  LET id == s[1].id
  IN  /\ EvmNum(s[1]) = NumberOf(id) + 1
      /\ StartBlockNum + Len(id) < lib
      /\ id = <<>> \/ Len(best) > Len(id)
      /\ Len(best) > Len(id) => Number(best[Len(id) + 1]) > NumberOf(id)
      /\ Len(s) > 1 => Firm(s[2].id)

\* The first block of the cache is irreversible, and the others are above it.
Based(s) ==
  /\ Firm(s[1].id)
  /\ Anchored(s) \/ (EvmNum(s[1]) = NumberOf(s[1].id) /\ s[1].id # <<>>)

\* b is the start block's EVM block, or holds what id says.
Good(b, id) ==
  /\ b.number >= StartBlock.number
  /\ b.number = StartBlock.number => b.prev_randao = <<>>
  /\ b.number > StartBlock.number => Holds(b, id)

TransactionsOfActions(actions) == [i \in DOMAIN actions |-> actions[i].rlpx.tx]

\* Between two native blocks.
IdleInv ==
  pc = "idle" =>
    /\ Last(evm_blocks).number = NumberOf(Branch)
    /\ \A i \in 1 .. Len(evm_blocks) : Good(evm_blocks[i], Branch)

\* The position of the fork point in the cache.
ForkIndex == Len(new_block.prev) - Len(Branch) + Len(native_blocks)

\* b has lost what the removed native blocks had put there; its upper bound is right if it
\* is below the EVM block of the fork point p.
Unwound(b, id, p) ==
  /\ b.number >= StartBlock.number
  /\ b.number = StartBlock.number => b.prev_randao = <<>>
  /\ b.number > StartBlock.number =>
       /\ b.transactions = TransactionsOf(id, b.number)
       /\ b.number < NumberOf(p) => b.prev_randao = UpperBoundOf(p, b.number)

\* The fork point is in the cache, above the irreversible blocks or the last of them.
UnwindInv ==
  pc = "unwind" =>
    LET p == new_block.prev
    IN  /\ Message(new_block, Len(p))
        /\ ForkIndex \in 1 .. Len(native_blocks) /\ native_blocks[ForkIndex].id = p
        /\ EvmNum(native_blocks[ForkIndex]) = NumberOf(p) /\ p # <<>>
        /\ \A i \in 1 .. Len(native_blocks) : Firm(native_blocks[i].id) => i <= ForkIndex
        /\ \A i \in 1 .. Len(evm_blocks) : Unwound(evm_blocks[i], Branch, p)

\* The new block is in the cache, the EVM blocks are still those of its parent.
ExtendInv ==
  pc = "extend" =>
    LET p == new_block.prev
    IN  /\ Message(new_block, Len(p))
        /\ Last(native_blocks) = new_block /\ Len(native_blocks) > 1
        /\ NumberOf(p) <= Last(evm_blocks).number
        /\ Last(evm_blocks).number <= NumberOf(new_block.id)
        /\ \A i \in 1 .. Len(evm_blocks) : Good(evm_blocks[i], p)

\* With the transactions that are still to be added, the last EVM block has those of the
\* new block's branch.
FillInv ==
  pc = "fill" =>
    LET p == new_block.prev
        b == Last(evm_blocks)
    IN  /\ Message(new_block, Len(p))
        /\ Last(native_blocks) = new_block /\ Len(native_blocks) > 1
        /\ b.number = NumberOf(new_block.id)
        /\ \A i \in 1 .. Len(evm_blocks) - 1 : Good(evm_blocks[i], new_block.id)
        /\ b.transactions \o TransactionsOfActions(pending)
             = TransactionsOf(new_block.id, b.number)

\* A published block holds the transactions of its second on the branch it names.
Genuine(b) ==
  b.number > StartBlock.number =>
    IF b.prev_randao = Zero
    THEN b.transactions = <<>>
    ELSE /\ NumberOf(b.prev_randao) = b.number
         /\ b.transactions = TransactionsOf(b.prev_randao, b.number)

\* evm_lib has been computed.
LibComputed == exec_engine \/ (pc = "idle" /\ published # <<>>)

\* An irreversible native block in the cache is later than evm_lib.
LibInv ==
  LibComputed =>
    \E i \in 1 .. Len(native_blocks) :
      Firm(native_blocks[i].id) /\ evm_lib < NumberOf(native_blocks[i].id)

CacheInv ==
  pc # "exited" =>
    /\ Window(native_blocks) /\ Based(native_blocks)
    /\ IdleInv /\ UnwindInv /\ ExtendInv /\ FillInv
    /\ LibInv

-----------------------------------------------------------------------------
(* Windows *)

LEMMA NumberOfMonotonic ==
  ASSUME CleanStart, NEW id \in Histories, Timed(id),
         NEW a \in 0 .. Len(id), NEW b \in a .. Len(id)
  PROVE  /\ NumberOf(Prefix(id, a)) \in Nat
         /\ NumberOf(Prefix(id, a)) <= NumberOf(Prefix(id, b))
         /\ NumberOf(Prefix(id, a)) >= StartBlock.number
         /\ a > 0 => NumberOf(Prefix(id, a)) > StartBlock.number
<1>1. Len(id) \in Nat /\ Prefix(id, 0) = <<>> /\ StartBlock.number \in Nat
  BY FullPrefix, StartNumber
<1>2. \A k \in 1 .. Len(id) : /\ NumberOf(Prefix(id, k)) = Number(id[k]) /\ Number(id[k]) \in Nat
                              /\ Number(id[k]) > StartBlock.number
  BY PositionFacts, NumberType DEF Timed
<1>3. CASE a = 0
  <2>1. NumberOf(Prefix(id, a)) = StartBlock.number
    BY <1>1, <1>3 DEF CleanStart
  <2>2. CASE b = 0
    BY <1>1, <1>3, <2>1, <2>2
  <2>3. CASE b # 0
    <3>1. b \in 1 .. Len(id)
      BY <1>1, <1>3, <2>3
    <3> QED BY <1>1, <1>2, <1>3, <2>1, <3>1
  <2> QED BY <2>2, <2>3
<1>4. CASE a # 0
  <2>1. a \in 1 .. Len(id) /\ b \in 1 .. Len(id)
    BY <1>1, <1>4
  <2>2. Number(id[a]) <= Number(id[b])
    BY <2>1, TimedNumbers
  <2> QED BY <1>1, <1>2, <2>1, <2>2
<1> QED BY <1>3, <1>4

\* Where the i-th block of a window is on its branch.
At(s, i) == Len(Last(s).id) - Len(s) + i

LEMMA WindowFacts ==
  ASSUME NEW s \in Seq(NativeBlock), s # <<>>, Window(s)
  PROVE  /\ Last(s).id \in Histories /\ Timed(Last(s).id)
         /\ Len(Last(s).id) \in Nat /\ Len(s) \in Nat \ {0} /\ DOMAIN s = 1 .. Len(s)
         /\ \A i \in 1 .. Len(s) :
              /\ At(s, i) \in 0 .. Len(Last(s).id)
              /\ s[i] \in NativeBlock
              /\ s[i].id = Prefix(Last(s).id, At(s, i))
              /\ s[i].id \in Histories /\ Timed(s[i].id) /\ Len(s[i].id) = At(s, i)
              /\ s[i].block_num = StartBlockNum + At(s, i)
         /\ \A i \in 2 .. Len(s) :
              /\ At(s, i) \in 1 .. Len(Last(s).id)
              /\ s[i].id # <<>>
              /\ s[i].timestamp = Last(s).id[At(s, i)].slot
              /\ s[i].actions = Last(s).id[At(s, i)].actions
              /\ EvmNum(s[i]) = Number(Last(s).id[At(s, i)])
              /\ EvmNum(s[i]) = NumberOf(s[i].id)
<1> DEFINE id == Last(s).id
<1>1. /\ id \in Histories /\ Timed(id) /\ Len(id) \in Nat
      /\ Len(s) \in Nat \ {0} /\ Len(s) <= Len(id) + 1 /\ DOMAIN s = 1 .. Len(s)
  BY LenProperties, EmptySeq DEF Window, Histories
<1>2. \A i \in 1 .. Len(s) :
        /\ s[i].id = Prefix(id, At(s, i)) /\ s[i].block_num = StartBlockNum + At(s, i)
        /\ At(s, i) \in 0 .. Len(id)
  <2> TAKE i \in 1 .. Len(s)
  <2>1. s[i].id = Prefix(id, At(s, i)) /\ s[i].block_num = StartBlockNum + Len(id) - Len(s) + i
    BY DEF Window, At
  <2>2. At(s, i) \in 0 .. Len(id) /\ StartBlockNum + Len(id) - Len(s) + i = StartBlockNum + At(s, i)
    BY <1>1, ChannelAssumption DEF At
  <2> QED BY <2>1, <2>2
<1>3. \A i \in 1 .. Len(s) : s[i] \in NativeBlock
  BY ElementOfSeq
<1>4. \A i \in 1 .. Len(s) :
        s[i].id \in Histories /\ Timed(s[i].id) /\ Len(s[i].id) = At(s, i)
  BY <1>1, <1>2, PrefixType, TimedPrefix
<1>5. ASSUME NEW i \in 2 .. Len(s)
      PROVE  /\ At(s, i) \in 1 .. Len(id)
             /\ s[i].id # <<>>
             /\ s[i].timestamp = id[At(s, i)].slot /\ s[i].actions = id[At(s, i)].actions
             /\ EvmNum(s[i]) = Number(id[At(s, i)])
             /\ EvmNum(s[i]) = NumberOf(s[i].id)
  <2>1. i \in 1 .. Len(s) /\ At(s, i) \in 1 .. Len(id)
    BY <1>1 DEF At
  <2>2. s[i].timestamp = id[At(s, i)].slot /\ s[i].actions = id[At(s, i)].actions
    BY DEF Window, At
  <2>3. s[i].id # <<>> /\ NumberOf(s[i].id) = Number(id[At(s, i)])
    BY <1>1, <1>2, <2>1, PositionFacts
  <2> QED BY <2>1, <2>2, <2>3 DEF EvmNum, Number
<1> QED BY <1>1, <1>2, <1>3, <1>4, <1>5

LEMMA WindowFront ==
  ASSUME NEW s \in Seq(NativeBlock), Len(s) > 1, Window(s)
  PROVE  /\ Front(s) \in Seq(NativeBlock) /\ Len(Front(s)) = Len(s) - 1
         /\ \A i \in 1 .. Len(s) - 1 : Front(s)[i] = s[i]
         /\ Last(Front(s)).id = Prefix(Last(s).id, Len(Last(s).id) - 1)
         /\ Window(Front(s))
<1> DEFINE t  == Front(s)
           id == Last(s).id
           n  == Len(id) - 1
<1>1. Len(s) \in Nat /\ s # <<>>
  BY LenProperties
<1>2. /\ t \in Seq(NativeBlock) /\ Len(t) = Len(s) - 1 /\ \A i \in 1 .. Len(s) - 1 : t[i] = s[i]
  BY <1>1, FrontFacts
<1>3. /\ id \in Histories /\ Timed(id) /\ Len(id) \in Nat
      /\ \A i \in 1 .. Len(s) :
              /\ At(s, i) \in 0 .. Len(id)
              /\ s[i].id = Prefix(id, At(s, i))
              /\ s[i].block_num = StartBlockNum + At(s, i)
      /\ \A i \in 2 .. Len(s) :
              /\ s[i].timestamp = id[At(s, i)].slot
              /\ s[i].actions = id[At(s, i)].actions
  BY <1>1, WindowFacts
<1>4. /\ Len(s) - 1 \in 1 .. Len(s) /\ Len(s) - 1 \in 1 .. Len(s) - 1
      /\ At(s, Len(s) - 1) = n /\ n \in 0 .. Len(id) /\ Len(s) <= Len(id) + 1
  BY <1>1, <1>3 DEF At, Window
<1>5. Last(t).id = Prefix(id, n)
  BY <1>2, <1>3, <1>4 DEF Last
<1>6. /\ Prefix(id, n) \in Histories /\ Timed(Prefix(id, n)) /\ Len(Prefix(id, n)) = n
      /\ \A j \in 1 .. n : Prefix(id, n)[j] = id[j]
  BY <1>3, <1>4, TimedPrefix, PrefixPositions
<1> HIDE DEF t
<1>7. \A i \in 1 .. Len(t) : i \in 1 .. Len(s) /\ At(t, i) = At(s, i) /\ At(s, i) \in 0 .. n
  <2> TAKE i \in 1 .. Len(t)
  <2>1. i \in 1 .. Len(s) - 1 /\ i \in 1 .. Len(s)
    BY <1>1, <1>2
  <2>2. At(s, i) \in 0 .. Len(id)
    BY <1>3, <2>1
  <2>3. Len(Last(t).id) = n
    BY <1>5, <1>6
  <2> HIDE DEF id
  <2>4. At(t, i) = n - (Len(s) - 1) + i
    BY <1>2, <2>3 DEF At
  <2>5. At(s, i) = Len(id) - Len(s) + i
    BY DEF At, id
  <2> QED BY <1>1, <1>3, <2>1, <2>2, <2>4, <2>5
<1>8. \A i \in 1 .. Len(t) :
        /\ t[i].id = Prefix(Prefix(id, n), At(t, i))
        /\ t[i].block_num = StartBlockNum + At(t, i)
  <2> TAKE i \in 1 .. Len(t)
  <2>1. Prefix(Prefix(id, n), At(s, i)) = Prefix(id, At(s, i))
    BY <1>3, <1>4, <1>7, PrefixOfPrefix DEF Prefix, Histories
  <2> QED BY <1>2, <1>3, <1>7, <2>1
<1>9. \A i \in 2 .. Len(t) :
        /\ t[i].timestamp = Prefix(id, n)[At(t, i)].slot
        /\ t[i].actions = Prefix(id, n)[At(t, i)].actions
  <2> TAKE i \in 2 .. Len(t)
  <2>1. i \in 1 .. Len(t) /\ i \in 2 .. Len(s)
    BY <1>1, <1>2
  <2>2. At(s, i) \in 1 .. n
    BY <1>1, <1>3, <1>4, <1>7, <2>1 DEF At
  <2> QED BY <1>2, <1>3, <1>6, <1>7, <2>1, <2>2
<1>10. Len(t) <= n + 1
  BY <1>1, <1>2, <1>3, <1>4
<1>11. \A i \in 1 .. Len(t) : StartBlockNum + At(t, i) = StartBlockNum + Len(Last(t).id) - Len(t) + i
  BY <1>1, <1>2, <1>5, <1>6, <1>3, ChannelAssumption DEF At
<1>12. Window(t)
  BY <1>5, <1>6, <1>8, <1>9, <1>10, <1>11 DEF Window, At
<1> QED BY <1>2, <1>5, <1>12 DEF t

\* Firm blocks are those of the best branch that are irreversible.
LEMMA FirmPrefix ==
  ASSUME StreamTypeOK, NEW id \in Histories, Firm(id), NEW k \in 0 .. Len(id)
  PROVE  Prefix(id, k) = Prefix(best, k) /\ Firm(Prefix(id, k))
<1>1. Len(id) \in 0 .. Len(best) /\ id = Prefix(best, Len(id)) /\ Len(best) \in Nat /\ Len(id) \in Nat
  BY FullPrefix DEF Firm, StreamTypeOK
<1>2. Prefix(Prefix(best, Len(id)), k) = Prefix(best, k)
  BY <1>1, PrefixOfPrefix DEF Prefix, Histories, StreamTypeOK
<1>3. Prefix(id, k) = Prefix(best, k)
  BY <1>1, <1>2
<1>4. Len(Prefix(best, k)) = k /\ k <= Len(best)
  BY <1>1, PrefixPositions DEF StreamTypeOK
<1>5. StartBlockNum + k <= lib
  BY <1>1, ChannelAssumption DEF Firm, StreamTypeOK
<1> QED BY <1>3, <1>4, <1>5 DEF Firm

\* The block nb of the chain after the last one of a window.
LEMMA MessageFacts ==
  ASSUME best \in Histories, Timed(best), NEW nb, NEW c, Message(nb, c)
  PROVE  /\ c \in Nat /\ c + 1 \in 1 .. Len(best) /\ c \in 0 .. Len(best) /\ c + 1 \in 0 .. Len(best)
         /\ nb.id \in Histories /\ Len(nb.id) = c + 1 /\ Timed(nb.id)
         /\ nb.prev \in Histories /\ Len(nb.prev) = c /\ Timed(nb.prev)
         /\ nb.prev = Prefix(nb.id, c) /\ nb.id # <<>>
         /\ nb.timestamp = nb.id[c + 1].slot /\ nb.actions = nb.id[c + 1].actions
         /\ nb.new_config = nb.id[c + 1].new_config
         /\ EvmNum(nb) = Number(nb.id[c + 1]) /\ EvmNum(nb) = NumberOf(nb.id)
         /\ \A k \in 0 .. c : Prefix(nb.id, k) = Prefix(best, k)
<1>1. Len(best) \in Nat
  BY FullPrefix
<1>2. c \in Nat /\ c + 1 \in 1 .. Len(best) /\ c \in 0 .. Len(best) /\ c + 1 \in 0 .. Len(best)
  BY <1>1 DEF Message
<1>3. nb.id = Prefix(best, c + 1) /\ nb.prev = Prefix(best, c)
  BY DEF Message
<1>4. /\ Prefix(best, c + 1) \in Histories /\ Len(Prefix(best, c + 1)) = c + 1
      /\ \A k \in 1 .. c + 1 : Prefix(best, c + 1)[k] = best[k]
      /\ Prefix(best, c) \in Histories /\ Len(Prefix(best, c)) = c
  BY <1>2, PrefixPositions
<1>5. Timed(Prefix(best, c + 1)) /\ Timed(Prefix(best, c))
  BY <1>2, TimedPrefix
<1>6. \A k \in 0 .. c : Prefix(Prefix(best, c + 1), k) = Prefix(best, k)
  <2> TAKE k \in 0 .. c
  <2>1. k \in 0 .. c + 1
    BY <1>2
  <2> QED BY <1>2, <2>1, PrefixOfPrefix DEF Prefix, Histories
<1>7. c \in 0 .. c /\ c + 1 \in 1 .. c + 1
  BY <1>2
<1>8. Prefix(best, c + 1)[c + 1] = best[c + 1]
  BY <1>4, <1>7
<1>9. /\ nb.timestamp = best[c + 1].slot /\ nb.actions = best[c + 1].actions
      /\ nb.new_config = best[c + 1].new_config
  BY DEF Message
<1>10. NumberOf(Prefix(best, c + 1)) = Number(best[c + 1]) /\ Prefix(best, c + 1) # <<>>
  BY <1>2, PositionFacts
<1> QED BY <1>2, <1>3, <1>4, <1>5, <1>6, <1>7, <1>8, <1>9, <1>10 DEF EvmNum, Number

LEMMA WindowAppend ==
  ASSUME best \in Histories, Timed(best),
         NEW s \in Seq(NativeBlock), s # <<>>, Window(s),
         NEW nb \in NativeBlock, NEW c, Message(nb, c), nb.prev = Last(s).id
  PROVE  /\ Append(s, nb) \in Seq(NativeBlock) /\ Len(Append(s, nb)) = Len(s) + 1
         /\ \A i \in 1 .. Len(s) : Append(s, nb)[i] = s[i]
         /\ Append(s, nb)[Len(s) + 1] = nb
         /\ Last(Append(s, nb)) = nb
         /\ Window(Append(s, nb))
<1> DEFINE t  == Append(s, nb)
           id == nb.id
<1>1. /\ t \in Seq(NativeBlock) /\ Len(t) = Len(s) + 1 /\ Len(s) \in Nat \ {0}
      /\ \A i \in 1 .. Len(s) : t[i] = s[i]
      /\ t[Len(s) + 1] = nb
  BY AppendProperties, EmptySeq
<1> HIDE DEF t
<1>2. Last(t) = nb
  BY <1>1 DEF Last
<1>3. /\ c \in Nat /\ id \in Histories /\ Len(id) = c + 1 /\ Timed(id)
      /\ Len(nb.prev) = c /\ nb.prev = Prefix(id, c)
      /\ nb.timestamp = id[c + 1].slot /\ nb.actions = id[c + 1].actions
      /\ nb.block_num = StartBlockNum + c + 1
  <2>1. nb.block_num = StartBlockNum + c + 1
    BY DEF Message
  <2> QED BY <2>1, MessageFacts
<1>4. /\ Len(Last(s).id) = c /\ Len(s) <= c + 1
      /\ \A i \in 1 .. Len(s) :
              /\ At(s, i) \in 0 .. c
              /\ s[i].id = Prefix(Prefix(id, c), At(s, i))
              /\ s[i].block_num = StartBlockNum + At(s, i)
      /\ \A i \in 2 .. Len(s) :
              /\ At(s, i) \in 1 .. c
              /\ s[i].timestamp = Prefix(id, c)[At(s, i)].slot
              /\ s[i].actions = Prefix(id, c)[At(s, i)].actions
  <2> DEFINE old == Last(s).id
  <2>1. /\ Len(s) <= Len(old) + 1
        /\ \A i \in 1 .. Len(s) :
              /\ At(s, i) \in 0 .. Len(old)
              /\ s[i].id = Prefix(old, At(s, i))
              /\ s[i].block_num = StartBlockNum + At(s, i)
        /\ \A i \in 2 .. Len(s) :
              /\ At(s, i) \in 1 .. Len(old)
              /\ s[i].timestamp = old[At(s, i)].slot
              /\ s[i].actions = old[At(s, i)].actions
    BY WindowFacts DEF Window
  <2>2. old = Prefix(id, c) /\ Len(old) = c
    BY <1>3
  <2> HIDE DEF old, id
  <2>3. Len(Last(s).id) = c
    BY <2>2 DEF old
  <2> QED BY <2>1, <2>2, <2>3
<1>5. /\ \A i \in 1 .. Len(s) : At(t, i) = At(s, i)
      /\ At(t, Len(s) + 1) = c + 1
      /\ \A i : StartBlockNum + Len(Last(t).id) - Len(t) + i = StartBlockNum + (Len(id) - Len(t)) + i
  BY <1>1, <1>2, <1>3, <1>4, ChannelAssumption DEF At
<1>6. \A i \in 1 .. c : Prefix(id, c)[i] = id[i]
  <2>1. c \in 0 .. Len(id)
    BY <1>3
  <2> QED BY <1>3, <2>1, PrefixPositions
<1>7. \A k \in 0 .. c : Prefix(Prefix(id, c), k) = Prefix(id, k)
  <2>1. c \in 0 .. Len(id)
    BY <1>3
  <2> QED BY <1>3, <2>1, PrefixOfPrefix DEF Prefix, Histories
<1>8. Prefix(id, c + 1) = id
  BY <1>3, FullPrefix
<1>9. \A i \in 1 .. Len(t) : i \in 1 .. Len(s) \/ i = Len(s) + 1
  BY <1>1
<1>10. \A i \in 2 .. Len(t) : i \in 2 .. Len(s) \/ i = Len(s) + 1
  BY <1>1
<1> HIDE DEF id
<1>11. \A i \in 1 .. Len(t) :
         t[i].id = Prefix(id, At(t, i)) /\ t[i].block_num = StartBlockNum + At(t, i)
  <2> TAKE i \in 1 .. Len(t)
  <2>1. CASE i \in 1 .. Len(s)
    BY <1>1, <1>4, <1>5, <1>7, <2>1
  <2>2. CASE i = Len(s) + 1
    BY <1>1, <1>3, <1>5, <1>8, <2>2, ChannelAssumption DEF id
  <2> QED BY <1>9, <2>1, <2>2
<1>12. \A i \in 2 .. Len(t) :
         t[i].timestamp = id[At(t, i)].slot /\ t[i].actions = id[At(t, i)].actions
  <2> TAKE i \in 2 .. Len(t)
  <2>1. CASE i \in 2 .. Len(s)
    <3>1. i \in 1 .. Len(s)
      BY <2>1
    <3> QED BY <1>1, <1>4, <1>5, <1>6, <2>1, <3>1
  <2>2. CASE i = Len(s) + 1
    BY <1>1, <1>3, <1>5, <2>2
  <2> QED BY <1>10, <2>1, <2>2
<1>13. \A i \in 1 .. Len(t) : StartBlockNum + At(t, i) = StartBlockNum + Len(Last(t).id) - Len(t) + i
  <2>1. Len(Last(t).id) \in Nat /\ Len(t) \in Nat
    BY <1>1, <1>2, <1>3 DEF id
  <2> QED BY <2>1, ChannelAssumption DEF At
<1>14. Len(t) <= Len(id) + 1
  BY <1>1, <1>3, <1>4
<1>15. Window(t)
  BY <1>2, <1>3, <1>11, <1>12, <1>13, <1>14 DEF Window, At, id
<1> QED BY <1>1, <1>2, <1>15 DEF t

LEMMA WindowFrom ==
  ASSUME NEW s \in Seq(NativeBlock), s # <<>>, Window(s), NEW k \in 1 .. Len(s)
  PROVE  /\ From(s, k) \in Seq(NativeBlock) /\ From(s, k) # <<>>
         /\ Len(From(s, k)) = Len(s) - k + 1
         /\ \A j \in 1 .. Len(s) - k + 1 : From(s, k)[j] = s[k + j - 1]
         /\ Last(From(s, k)) = Last(s)
         /\ Window(From(s, k))
<1> DEFINE t  == From(s, k)
           id == Last(s).id
<1>1. /\ t \in Seq(NativeBlock) /\ t # <<>> /\ Len(t) = Len(s) - k + 1 /\ Len(s) \in Nat \ {0}
      /\ \A j \in 1 .. Len(s) - k + 1 : t[j] = s[k + j - 1]
  BY FromFacts, EmptySeq
<1> HIDE DEF t
<1>2. Last(t) = Last(s)
  <2>1. Len(t) \in 1 .. Len(s) - k + 1 /\ k + Len(t) - 1 = Len(s)
    BY <1>1
  <2> QED BY <1>1, <2>1 DEF Last
<1>3. /\ id \in Histories /\ Timed(id) /\ Len(id) \in Nat /\ Len(s) <= Len(id) + 1
      /\ \A i \in 1 .. Len(s) :
              /\ s[i].id = Prefix(id, At(s, i))
              /\ s[i].block_num = StartBlockNum + At(s, i)
      /\ \A i \in 2 .. Len(s) :
              /\ s[i].timestamp = id[At(s, i)].slot
              /\ s[i].actions = id[At(s, i)].actions
  BY WindowFacts DEF Window
<1> HIDE DEF id
<1>4. \A j \in 1 .. Len(t) : /\ k + j - 1 \in 1 .. Len(s) /\ At(t, j) = At(s, k + j - 1)
                             /\ t[j] = s[k + j - 1]
  <2> TAKE j \in 1 .. Len(t)
  <2>1. k + j - 1 \in 1 .. Len(s) /\ t[j] = s[k + j - 1]
    BY <1>1
  <2>2. At(t, j) = Len(id) - Len(t) + j /\ At(s, k + j - 1) = Len(id) - Len(s) + (k + j - 1)
    BY <1>2 DEF At, id
  <2> QED BY <1>1, <1>3, <2>1, <2>2
<1>5. \A j \in 2 .. Len(t) : j \in 1 .. Len(t) /\ k + j - 1 \in 2 .. Len(s)
  BY <1>1
<1>6. \A j \in 1 .. Len(t) : StartBlockNum + At(t, j) = StartBlockNum + Len(id) - Len(t) + j
  BY <1>1, <1>2, <1>3, ChannelAssumption DEF At, id
<1>7. \A j \in 1 .. Len(t) : /\ t[j].id = Prefix(id, Len(id) - Len(t) + j)
                             /\ t[j].block_num = StartBlockNum + Len(id) - Len(t) + j
  <2> TAKE j \in 1 .. Len(t)
  <2>1. At(s, k + j - 1) = Len(id) - Len(t) + j /\ k + j - 1 \in 1 .. Len(s)
    BY <1>2, <1>4 DEF At, id
  <2>2. t[j].block_num = StartBlockNum + At(t, j)
    BY <1>3, <1>4
  <2> QED BY <1>3, <1>4, <1>6, <2>1, <2>2
<1>8. \A j \in 2 .. Len(t) : /\ t[j].timestamp = id[Len(id) - Len(t) + j].slot
                             /\ t[j].actions = id[Len(id) - Len(t) + j].actions
  <2> TAKE j \in 2 .. Len(t)
  <2>1. At(s, k + j - 1) = Len(id) - Len(t) + j
    BY <1>2, <1>4, <1>5 DEF At, id
  <2> QED BY <1>3, <1>4, <1>5, <2>1
<1>9. Len(t) <= Len(id) + 1
  BY <1>1, <1>3
<1>10. Window(t)
  BY <1>2, <1>3, <1>7, <1>8, <1>9 DEF Window, id
<1> QED BY <1>1, <1>2, <1>10 DEF t

-----------------------------------------------------------------------------
(* What a step of the native chain leaves in place *)

LEMMA TimedAppend ==
  ASSUME CleanStart, NEW id \in Histories, Timed(id), NEW skip \in Slots, NEW payload \in Payload
  PROVE  Timed(Append(id, Body(SlotOf(id) + skip, payload)))
<1> DEFINE x  == Body(SlotOf(id) + skip, payload)
           t  == Append(id, x)
           n  == Len(id)
<1>1. x \in Bodies /\ x.slot = SlotOf(id) + skip
  BY BodyType DEF Body
<1>2. /\ Len(t) = n + 1 /\ n \in Nat /\ \A i \in 1 .. n : t[i] = id[i]
      /\ t[n + 1] = x
  <2> HIDE DEF x
  <2> QED BY <1>1, AppendProperties, LenProperties DEF Histories
<1>3. /\ skip \in Nat \ {0} /\ StartSlot \in Nat /\ SlotOf(id) \in Nat /\ x.slot \in Nat
      /\ StartBlock.number \in Nat
  <2>1. skip \in Nat \ {0} /\ StartSlot \in Nat /\ SlotOf(id) \in Nat
    BY NodeosAssumption, SlotType
  <2> HIDE DEF x
  <2> QED BY <1>1, <2>1, StartNumber
<1> HIDE DEF x, t
<1>4. \A i \in 1 .. n : id[i].slot \in Nat /\ id[i].slot > StartSlot
                        /\ Number(id[i]) > StartBlock.number /\ Number(id[i]) \in Nat
  BY PositionFacts, NumberType DEF Timed, Bodies
<1>5. \A i \in 1 .. n : id[i].slot <= SlotOf(id)
  <2> TAKE i \in 1 .. n
  <2>1. n \in i .. n /\ n \in 1 .. n /\ id # <<>>
    BY <1>2
  <2>2. SlotOf(id) = id[n].slot
    BY <2>1 DEF SlotOf, Last
  <2> QED BY <2>1, <2>2 DEF Timed
<1>6. SlotOf(id) >= StartSlot
  <2>1. CASE id = <<>>
    BY <1>3, <2>1 DEF SlotOf
  <2>2. CASE id # <<>>
    <3>1. n \in 1 .. n
      BY <1>2, <2>2, EmptySeq DEF Histories
    <3> QED BY <1>3, <1>4, <1>5, <3>1
  <2> QED BY <2>1, <2>2
<1>7. x.slot > StartSlot /\ SlotOf(id) <= x.slot
  <2>1. x.slot = SlotOf(id) + skip
    BY <1>1
  <2> QED BY <1>3, <1>6, <2>1
<1> HIDE DEF n
<1>11. \A i \in 1 .. n : id[i].slot <= x.slot
  <2> TAKE i \in 1 .. n
  <2>1. id[i].slot <= SlotOf(id) /\ id[i].slot \in Nat
    BY <1>4, <1>5
  <2> QED BY <1>3, <1>7, <2>1
<1>8. Number(x) > StartBlock.number
  <2>1. CASE id = <<>>
    <3>1. x.slot = StartSlot + skip
      BY <1>1, <2>1 DEF SlotOf
    <3>2. timestamp_to_evm_block_num(StartSlot + skip) > StartBlock.number
      BY DEF CleanStart
    <3> QED BY <3>1, <3>2 DEF Number
  <2>2. CASE id # <<>>
    <3>1. n \in 1 .. n
      BY <1>2, <2>2, EmptySeq DEF Histories, n
    <3>2. id[n].slot \in Nat /\ id[n].slot <= x.slot
      BY <1>4, <1>11, <3>1
    <3>3. Number(id[n]) <= Number(x)
      BY <1>3, <3>2, NumberMonotonic DEF Number
    <3>4. Number(x) \in Nat
      BY <1>1, NumberType
    <3> QED BY <1>3, <1>4, <3>1, <3>3, <3>4
  <2> QED BY <2>1, <2>2
<1>9. ASSUME NEW j \in 1 .. Len(t)
      PROVE  /\ t[j].slot > StartSlot
             /\ Number(t[j]) > StartBlock.number
             /\ \A k \in j .. Len(t) : t[j].slot <= t[k].slot
  <2>1. CASE j = n + 1
    <3>1. \A k \in j .. Len(t) : k = n + 1
      BY <1>2, <2>1
    <3> QED BY <1>2, <1>3, <1>7, <1>8, <2>1, <3>1
  <2>2. CASE j \in 1 .. n
    <3>1. \A k \in j .. Len(t) : k \in j .. n \/ k = n + 1
      BY <1>2
    <3>2. \A k \in j .. n : k \in 1 .. n
      BY <1>2, <2>2
    <3>3. id[j].slot <= x.slot
      BY <1>11, <2>2
    <3>4. \A k \in j .. n : id[j].slot <= id[k].slot
      BY <2>2 DEF Timed, n
    <3> QED BY <1>2, <1>4, <2>2, <3>1, <3>2, <3>3, <3>4
  <2> QED BY <1>2, <1>9, <2>1, <2>2
<1>10. Timed(t)
  BY <1>9 DEF Timed
<1> QED BY <1>10 DEF t, x

\* The first n blocks of the best branch stay, all that are irreversible among them.
Keeps(n) ==
  /\ n \in 0 .. Len(best) /\ n \in 0 .. Len(best')
  /\ \A k \in 0 .. n : Prefix(best', k) = Prefix(best, k)
  /\ \A k \in 1 .. n : best'[k] = best[k]
  /\ lib' >= lib
  /\ n = Len(best) \/ StartBlockNum + n >= lib

LEMMA ChainKeeps ==
  ASSUME CleanStart, ShipTypeOK, StreamInv, ChainStep
  PROVE  StreamInv' /\ \E n \in Nat : Keeps(n)
<1>1. /\ best \in Histories /\ Timed(best) /\ Len(best) \in Nat /\ lib \in Nat
      /\ UNCHANGED <<behind, stored_num, last_lib, last_block_num>>
  BY FullPrefix DEF ChainStep, ShipTypeOK, StreamTypeOK, StreamInv, Produce, AdvanceLib,
     session_vars, receiver_vars
<1>2. CASE AdvanceLib
  <2>1. UNCHANGED best /\ lib' = lib + 1
    BY <1>2 DEF AdvanceLib
  <2>2. Keeps(Len(best))
    BY <1>1, <2>1 DEF Keeps
  <2>3. Timed(best')
    BY <1>1, <2>1
  <2>4. lib' > StartBlockNum
    BY <1>1, <2>1, ChannelAssumption DEF StreamInv
  <2> QED BY <1>1, <2>2, <2>3, <2>4 DEF StreamInv
<1>3. ASSUME NEW k \in 0 .. Len(best), NEW skip \in Slots, NEW payload \in Payload,
             Produce(k, skip, payload)
      PROVE  StreamInv' /\ \E n \in Nat : Keeps(n)
  <2> DEFINE base == Prefix(best, k)
             x    == Body(SlotOf(base) + skip, payload)
  <2>1. best' = Append(base, x) /\ UNCHANGED lib
    BY <1>3, ProduceTyped DEF ShipTypeOK, Produce
  <2>2. /\ base \in Histories /\ Len(base) = k /\ Timed(base)
        /\ \A i \in 1 .. k : base[i] = best[i]
    BY <1>1, TimedPrefix, PrefixPositions
  <2>3. x \in Bodies /\ Timed(Append(base, x))
    <3> HIDE DEF base
    <3> QED BY <2>2, BodyType, TimedAppend
  <2> HIDE DEF x
  <2>4. \A i \in 0 .. k : Prefix(base, i) = Prefix(best, i)
    BY <1>1, PrefixOfPrefix DEF Prefix, Histories
  <2> HIDE DEF base
  <2>5. /\ Append(base, x) \in Histories /\ Len(Append(base, x)) = k + 1
        /\ \A i \in 1 .. k : Append(base, x)[i] = base[i]
    BY <2>2, <2>3, AppendProperties DEF Histories
  <2>6. \A i \in 0 .. k : Prefix(Append(base, x), i) = Prefix(base, i)
    BY <2>2, <2>3, PrefixOfAppend DEF Prefix, Histories
  <2>7. k = Len(best) \/ StartBlockNum + k >= lib
    BY <1>3 DEF Produce, ForkPoint
  <2>8. Keeps(k)
    BY <1>1, <2>1, <2>2, <2>4, <2>5, <2>6, <2>7 DEF Keeps
  <2>9. StreamInv'
    BY <1>1, <2>1, <2>3 DEF StreamInv
  <2> QED BY <1>1, <2>8, <2>9
<1> QED BY <1>2, <1>3 DEF ChainStep

LEMMA KeepsFirm ==
  ASSUME StreamTypeOK, NEW n \in Nat, Keeps(n), StreamTypeOK',
         NEW id \in Histories, Firm(id)
  PROVE  Len(id) \in 0 .. n /\ Firm(id)'
<1>1. /\ Len(id) \in Nat /\ Len(best) \in Nat /\ lib \in Nat /\ lib' \in Nat
      /\ StartBlockNum \in Nat
  BY FullPrefix, ChannelAssumption DEF StreamTypeOK
<1>2. Len(id) \in 0 .. n
  BY <1>1 DEF Keeps, Firm
<1>3. Prefix(best', Len(id)) = Prefix(best, Len(id)) /\ Len(id) <= Len(best')
  BY <1>1, <1>2 DEF Keeps
<1>4. StartBlockNum + Len(id) <= lib'
  BY <1>1 DEF Keeps, Firm
<1> QED BY <1>2, <1>3, <1>4 DEF Firm

LEMMA KeepsAnchored ==
  ASSUME CleanStart, StreamTypeOK, NEW n \in Nat, Keeps(n), StreamTypeOK', Timed(best'),
         NEW s \in Seq(NativeBlock), s # <<>>, Window(s), Based(s)
  PROVE  Based(s)'
<1> DEFINE id == s[1].id
<1>1. /\ id \in Histories /\ Len(id) \in Nat /\ Len(best) \in Nat /\ Len(best') \in Nat
      /\ lib \in Nat /\ lib' \in Nat /\ StartBlockNum \in Nat /\ Len(s) \in Nat \ {0}
  <2>1. 1 \in 1 .. Len(s) /\ Len(s) \in Nat \ {0}
    BY WindowFacts
  <2> QED BY <2>1, WindowFacts, FullPrefix, ChannelAssumption DEF StreamTypeOK
<1>2. Firm(id)' /\ Firm(id)
  BY <1>1, KeepsFirm DEF Based
<1>3. ASSUME Anchored(s) PROVE Anchored(s)'
  <2>1. StartBlockNum + Len(id) < lib'
    BY <1>1, <1>3 DEF Anchored, Keeps
  <2>2. n = Len(best) \/ Len(id) + 1 <= n
    BY <1>1, <1>3 DEF Anchored, Keeps
  <2>3. id = <<>> \/ Len(best') > Len(id)
    BY <1>1, <1>3, <2>2 DEF Anchored, Keeps
  <2>4. ASSUME Len(best') > Len(id) PROVE Number(best'[Len(id) + 1]) > NumberOf(id)
    <3>1. CASE Len(best) > Len(id)
      <4>1. Len(id) + 1 \in 1 .. n
        BY <1>1, <2>2, <3>1
      <4>2. best'[Len(id) + 1] = best[Len(id) + 1]
        BY <4>1 DEF Keeps
      <4> QED BY <1>3, <3>1, <4>2 DEF Anchored
    <3>2. CASE ~(Len(best) > Len(id))
      <4>1. id = <<>>
        BY <1>3, <3>2 DEF Anchored
      <4>2. Len(id) = 0
        BY <4>1
      <4>3. 1 \in 1 .. Len(best')
        BY <1>1, <2>4, <4>2
      <4>4. Number(best'[1]) > StartBlock.number
        BY <4>3 DEF Timed
      <4> QED BY <4>1, <4>2, <4>4 DEF CleanStart
    <3> QED BY <3>1, <3>2
  <2>5. Len(s) > 1 => Firm(s[2].id)'
    <3> SUFFICES ASSUME Len(s) > 1 PROVE Firm(s[2].id)'
      OBVIOUS
    <3>1. 2 \in 1 .. Len(s)
      BY <1>1
    <3>2. s[2].id \in Histories
      BY <3>1, WindowFacts
    <3> QED BY <1>3, <3>2, KeepsFirm DEF Anchored
  <2>6. EvmNum(s[1]) = NumberOf(id) + 1
    BY <1>3 DEF Anchored
  <2> QED BY <2>1, <2>3, <2>4, <2>5, <2>6 DEF Anchored
<1> QED BY <1>2, <1>3 DEF Based

LEMMA ReadNext ==
  ASSUME HistoriesAreIds, ShipTypeOK, StreamInv, NEW nb, ReadBlock(nb)
  PROVE  /\ nb \in NativeBlock /\ UNCHANGED <<best, lib>> /\ StreamInv'
         /\ \E c \in Nat : Message(nb, c)
<1>1. /\ nb \in NativeBlock /\ UNCHANGED <<best, lib, produced>> /\ nb.lib = lib
      /\ SendsOld(nb) \/ SendsNext(nb)
  BY ReadFacts DEF chain_vars
<1>2. /\ best \in Histories /\ Len(best) \in Nat /\ StartBlockNum \in Nat /\ lib \in Nat
  BY FullPrefix, ChannelAssumption DEF ShipTypeOK, StreamTypeOK
<1>3. SendsNext(nb) /\ UNCHANGED behind
  BY <1>1 DEF StreamInv, SendsOld, SendsNext
<1>4. Common \in Nat /\ Common + 1 \in 1 .. Len(best)
  <2>1. Common \in 0 .. Len(sent) /\ Len(sent) \in Nat
    BY CommonFacts, FullPrefix DEF Agree, ShipTypeOK, StreamTypeOK
  <2> QED BY <1>3, <2>1 DEF SendsNext
<1>5. nb = ToNative(sent') /\ sent' = Prefix(best, Common + 1)
  BY <1>3 DEF ReadBlock, Send, SendOld, SendNext, StreamInv
<1>6. /\ SlotOf(Prefix(best, Common + 1)) = best[Common + 1].slot
      /\ Last(Prefix(best, Common + 1)) = best[Common + 1]
  BY <1>2, <1>4, PositionFacts
<1>7. /\ nb.timestamp = best[Common + 1].slot /\ nb.actions = best[Common + 1].actions
      /\ nb.new_config = best[Common + 1].new_config
  BY <1>5, <1>6 DEF ToNative
<1>8. Common \in 0 .. Len(best) - 1
  BY <1>2, <1>4
<1>9. Message(nb, Common)
  BY <1>1, <1>3, <1>5, <1>7, <1>8 DEF Message, SendsNext
<1>10. last_lib' = lib /\ last_block_num' = StartBlockNum + Common + 1 /\ UNCHANGED stored_num
  BY <1>1, <1>3 DEF ReadBlock, SendsNext
<1>11. StreamInv'
  BY <1>1, <1>2, <1>3, <1>4, <1>10 DEF StreamInv
<1> QED BY <1>1, <1>4, <1>9, <1>11

LEMMA ConnectStream ==
  ASSUME ShipTypeOK, StreamInv, Connect
  PROVE  StreamInv' /\ UNCHANGED <<best, lib>>
<1>1. CASE sync
  <2>1. OpenSession(start_from) /\ UNCHANGED <<stored_num, last_lib, last_block_num>>
    BY <1>1 DEF sync
  <2>2. ResumeAfter >= StartBlockNum
    <3>1. /\ last_lib \in Nat /\ last_block_num \in Nat /\ stored_num \in Nat
          /\ StartBlockNum \in Nat
      BY ChannelAssumption DEF ShipTypeOK, ReceiverTypeOK
    <3>2. Min({last_lib, last_block_num})
            = IF last_lib <= last_block_num THEN last_lib ELSE last_block_num
      BY <3>1, MinOfTwo
    <3> QED BY <3>1, <3>2 DEF ResumeAfter, StreamInv
  <2>3. behind' = 0 /\ UNCHANGED <<best, lib>>
    BY <2>1, <2>2, SessionFacts DEF chain_vars
  <2> QED BY <2>1, <2>3 DEF StreamInv
<1>2. CASE Startup \/ ConnectionFails \/ ReadFails
  BY <1>2 DEF Startup, ConnectionFails, ReadFails, reset_connection, StreamInv, nodeos_vars,
     chain_vars, session_vars
<1> QED BY <1>1, <1>2 DEF Connect

-----------------------------------------------------------------------------
(* What the handler's steps keep *)

\* What the proofs about the handler know of the state it starts from.
Ready ==
  /\ ShipTypeOK /\ TypedLists /\ EvmLinked
  /\ StreamInv /\ CacheInv

LEMMA ReadyFacts ==
  ASSUME Ready, pc # "exited"
  PROVE  /\ best \in Histories /\ Timed(best) /\ Len(best) \in Nat /\ lib \in Nat /\ StreamTypeOK
         /\ native_blocks \in Seq(NativeBlock) /\ native_blocks # <<>>
         /\ Len(native_blocks) \in Nat \ {0}
         /\ evm_blocks \in Seq(EvmBlock) /\ Len(evm_blocks) \in Nat
         /\ Window(native_blocks) /\ Based(native_blocks)
         /\ Branch \in Histories /\ Timed(Branch) /\ Len(Branch) \in Nat
         /\ \A i \in 1 .. Len(evm_blocks) : evm_blocks[i] \in EvmBlock /\ evm_blocks[i].number \in Nat
         /\ StartBlock.number \in Nat /\ StartBlockNum \in Nat
<1>1. /\ best \in Histories /\ Timed(best) /\ Len(best) \in Nat /\ lib \in Nat /\ StreamTypeOK
  BY FullPrefix DEF Ready, ShipTypeOK, StreamTypeOK, StreamInv
<1>2. native_blocks \in Seq(NativeBlock) /\ evm_blocks \in Seq(EvmBlock)
  BY DEF Ready, TypedLists, TypeOK
<1>3. native_blocks # <<>>
  <2>1. CASE pc = "unwind"
    <3>1. PICK i \in DOMAIN native_blocks : TRUE
      BY <2>1 DEF Ready, TypedLists, ListsReadable, Cached
    <3> QED BY <1>2, <3>1, EmptySeq
  <2>2. CASE pc # "unwind"
    BY <2>2 DEF Ready, TypedLists, TypeOK, ListsReadable
  <2> QED BY <2>1, <2>2
<1>4. Window(native_blocks) /\ Based(native_blocks)
  BY DEF Ready, CacheInv
<1>5. Branch \in Histories /\ Timed(Branch) /\ Len(Branch) \in Nat /\ Len(native_blocks) \in Nat \ {0}
  BY <1>2, <1>3, <1>4, WindowFacts DEF Branch
<1>6. \A i \in 1 .. Len(evm_blocks) : evm_blocks[i] \in EvmBlock /\ evm_blocks[i].number \in Nat
  <2>1. \A i \in 1 .. Len(evm_blocks) : evm_blocks[i] \in EvmBlock
    BY <1>2, ElementOfSeq
  <2> QED BY <2>1 DEF EvmBlock
<1> QED BY <1>1, <1>2, <1>3, <1>4, <1>5, <1>6, LenProperties, StartNumber, ChannelAssumption

\* Numbers of the cached EVM blocks ascend.
LEMMA Ascending ==
  ASSUME EvmLinked, evm_blocks \in Seq(EvmBlock),
         NEW i \in 1 .. Len(evm_blocks), NEW j \in i .. Len(evm_blocks)
  PROVE  evm_blocks[j].number = evm_blocks[i].number + (j - i)
<1> DEFINE Ok(k) == evm_blocks[k].number = evm_blocks[i].number + (k - i)
           T == {k \in i .. Len(evm_blocks) : ~Ok(k)}
<1>1. Len(evm_blocks) \in Nat /\ \A k \in 1 .. Len(evm_blocks) : evm_blocks[k].number \in Nat
  <2>1. \A k \in 1 .. Len(evm_blocks) : evm_blocks[k] \in EvmBlock
    BY ElementOfSeq
  <2> QED BY <2>1, LenProperties DEF EvmBlock
<1>2. SUFFICES ASSUME T # {} PROVE FALSE
  OBVIOUS
<1>3. T \in SUBSET Nat
  BY <1>1
<1> DEFINE k == Min(T)
<1>4. k \in T /\ \A y \in T : k <= y
  <2> HIDE DEF T
  <2> QED BY <1>2, <1>3, MinExists
<1>5. k \in i .. Len(evm_blocks) /\ ~Ok(k)
  BY <1>4
<1> HIDE DEF k
<1>6. k # i
  BY <1>1, <1>5
<1>7. k - 1 \in i .. Len(evm_blocks) /\ k - 1 \in 1 .. Len(evm_blocks) - 1 /\ k - 1 \notin T
      /\ (k - 1) + 1 = k
  <2>1. k - 1 \in i .. Len(evm_blocks) /\ k - 1 \in 1 .. Len(evm_blocks) - 1 /\ k \in Nat
    BY <1>1, <1>5, <1>6
  <2> HIDE DEF T
  <2>2. k - 1 \notin T
    BY <1>4, <2>1
  <2> QED BY <2>1, <2>2
<1>8. Ok(k - 1)
  BY <1>7
<1>9. evm_blocks[k].number = evm_blocks[k - 1].number + 1
  BY <1>7 DEF EvmLinked
<1>10. evm_blocks[k - 1].number \in Nat /\ evm_blocks[i].number \in Nat
  BY <1>1, <1>7
<1> HIDE DEF T
<1>11. evm_blocks[k].number = (evm_blocks[i].number + ((k - 1) - i)) + 1
  BY <1>8, <1>9
<1>12. k \in Int /\ i \in Int
  BY <1>1, <1>5
<1>13. Ok(k)
  <2> DEFINE a == evm_blocks[i].number
             b == evm_blocks[k].number
  <2>1. a \in Nat /\ b = (a + ((k - 1) - i)) + 1
    BY <1>10, <1>11
  <2> HIDE DEF a, b
  <2>2. b = a + (k - i)
    BY <1>12, <2>1
  <2> QED BY <2>2 DEF a, b
<1> QED BY <1>5, <1>13

\* The cache stays right where nothing that it speaks of changes.
LEMMA BasedSame ==
  ASSUME UNCHANGED <<best, lib>>, NEW s, Based(s)
  PROVE  Based(s)'
BY DEF Based, Anchored, Firm

LEMMA MessageSame ==
  ASSUME UNCHANGED <<best, lib>>, NEW nb, NEW c, Message(nb, c)
  PROVE  Message(nb, c)'
BY DEF Message

LEMMA LibSame ==
  ASSUME UNCHANGED <<best, lib, evm_lib>>, LibComputed' => LibComputed, LibInv,
         NEW t, native_blocks' = t,
         \A i \in 1 .. Len(native_blocks) :
           Firm(native_blocks[i].id) => \E j \in 1 .. Len(t) : t[j].id = native_blocks[i].id
  PROVE  LibInv'
BY DEF LibInv, Firm

LEMMA CacheSame ==
  ASSUME CacheInv, UNCHANGED <<vars, best, lib>>
  PROVE  CacheInv'
<1>1. /\ UNCHANGED native_blocks /\ UNCHANGED evm_blocks /\ UNCHANGED evm_lib
      /\ UNCHANGED published /\ UNCHANGED exec_engine /\ UNCHANGED pc /\ UNCHANGED new_block
      /\ UNCHANGED pending /\ UNCHANGED best /\ UNCHANGED lib
  BY DEF vars
<1>2. CASE pc # "exited"
  <2>1. Window(native_blocks)' /\ Based(native_blocks)'
    BY <1>1, <1>2, BasedSame DEF CacheInv
  <2>2. IdleInv' /\ ExtendInv' /\ FillInv' /\ LibInv'
    BY <1>1, <1>2 DEF CacheInv, IdleInv, ExtendInv, FillInv, LibInv, LibComputed, Message, Firm,
       Branch
  <2>3. UnwindInv'
    BY <1>1, <1>2 DEF CacheInv, UnwindInv, Message, Firm, Branch, ForkIndex
  <2> QED BY <2>1, <2>2, <2>3 DEF CacheInv
<1> QED BY <1>1, <1>2 DEF CacheInv

LEMMA ExitKeeps ==
  ASSUME Exit
  PROVE  CacheInv'
BY DEF Exit, CacheInv

\* An anchored block is followed, in the cache, by an irreversible one.
LEMMA NotAnchored ==
  ASSUME Ready, pc # "exited", NEW f \in 1 .. Len(native_blocks),
         ~(f = 1 /\ Anchored(native_blocks))
  PROVE  EvmNum(native_blocks[f]) = NumberOf(native_blocks[f].id) /\ native_blocks[f].id # <<>>
<1>1. /\ native_blocks \in Seq(NativeBlock) /\ native_blocks # <<>> /\ Window(native_blocks)
      /\ Based(native_blocks) /\ Len(native_blocks) \in Nat
  BY ReadyFacts
<1>2. CASE f = 1
  BY <1>1, <1>2 DEF Based
<1>3. CASE f # 1
  <2>1. f \in 2 .. Len(native_blocks)
    BY <1>1, <1>3
  <2> QED BY <1>1, <2>1, WindowFacts
<1> QED BY <1>2, <1>3

LEMMA ForkFound ==
  ASSUME HistoriesAreIds, CleanStart, Ready, pc = "idle", NEW nb, NEW c, Message(nb, c),
         ~Linked(nb), ~Cached(nb.id), Cached(nb.prev)
  PROVE  \E f \in 1 .. Len(native_blocks) :
           /\ c - Len(Branch) + Len(native_blocks) = f
           /\ native_blocks[f].id = nb.prev
           /\ EvmNum(native_blocks[f]) = NumberOf(nb.prev) /\ nb.prev # <<>>
           /\ \A i \in 1 .. Len(native_blocks) : Firm(native_blocks[i].id) => i <= f
<1> DEFINE N == native_blocks
<1>1. /\ N \in Seq(NativeBlock) /\ N # <<>> /\ Len(N) \in Nat \ {0} /\ Window(N) /\ Based(N)
      /\ Branch \in Histories /\ Len(Branch) \in Nat /\ DOMAIN N = 1 .. Len(N)
      /\ best \in Histories /\ Timed(best) /\ StreamTypeOK
      /\ Branch = Last(N).id /\ Last(N) = N[Len(N)]
  BY ReadyFacts, LenProperties DEF Branch, Last
<1>0. Len(N) \in Nat /\ Len(Branch) \in Nat /\ Last(N) = N[Len(N)]
  BY <1>1
<1>2. /\ c \in Nat /\ Len(nb.prev) = c /\ nb.id = Prefix(best, c + 1) /\ c + 1 \in 0 .. Len(best)
  BY <1>1, MessageFacts DEF Message
<1>3. PICK f \in 1 .. Len(N) : N[f].id = nb.prev
  BY <1>1 DEF Cached
<1>4. /\ \A i \in 1 .. Len(N) : /\ At(N, i) \in 0 .. Len(Branch)
                                /\ N[i].id = Prefix(Branch, At(N, i))
                                /\ N[i].id \in Histories /\ Len(N[i].id) = At(N, i)
  BY <1>1, WindowFacts
<1>5. At(N, f) = c /\ c - Len(Branch) + Len(N) = f
  <2>1. At(N, f) = c
    BY <1>2, <1>3, <1>4
  <2>2. At(N, f) = Len(Branch) - Len(N) + f
    BY <1>1 DEF At
  <2> QED BY <1>0, <1>2, <2>1, <2>2
<1>6. f + 1 \in 1 .. Len(N) /\ At(N, f + 1) = c + 1
  <2>1. f # Len(N)
    BY <1>0, <1>3 DEF Linked
  <2>2. At(N, f + 1) = Len(Branch) - Len(N) + (f + 1) /\ At(N, f) = Len(Branch) - Len(N) + f
    BY <1>1 DEF At
  <2> QED BY <1>0, <1>2, <1>5, <2>1, <2>2
<1>7. N[f + 1].id = Prefix(Branch, c + 1) /\ N[f + 1].id # nb.id
  <2>1. N[f + 1].id = Prefix(Branch, c + 1)
    BY <1>4, <1>6
  <2>2. N[f + 1].id # nb.id
    BY <1>1, <1>6 DEF Cached
  <2> QED BY <2>1, <2>2
<1>8. ASSUME NEW i \in 1 .. Len(N), Firm(N[i].id) PROVE i <= f
  <2> SUFFICES ASSUME i > f PROVE FALSE
    BY <1>1
  <2>1. At(N, i) = Len(Branch) - Len(N) + i /\ At(N, i) \in Nat
    BY <1>1, <1>4 DEF At
  <2>2. At(N, f) = Len(Branch) - Len(N) + f
    BY <1>1 DEF At
  <2>3. c + 1 \in 0 .. At(N, i)
    <3> HIDE DEF N
    <3> QED BY <1>1, <1>2, <1>5, <2>1, <2>2
  <2>4. /\ At(N, i) \in 0 .. Len(Branch) /\ N[i].id = Prefix(Branch, At(N, i))
        /\ N[i].id \in Histories /\ Len(N[i].id) = At(N, i)
    BY <1>4
  <2>5. Prefix(Prefix(Branch, At(N, i)), c + 1) = Prefix(Branch, c + 1)
    BY <1>1, <2>3, <2>4, PrefixOfPrefix DEF Prefix, Histories
  <2>6. Prefix(N[i].id, c + 1) = Prefix(best, c + 1)
    BY <1>1, <1>8, <2>3, <2>4, FirmPrefix
  <2> QED BY <1>2, <1>7, <2>4, <2>5, <2>6
<1>9. ~(f = 1 /\ Anchored(N))
  <2> SUFFICES ASSUME f = 1, Anchored(N) PROVE FALSE
    OBVIOUS
  <2>1. Len(N) > 1 /\ 2 \in 1 .. Len(N)
    BY <1>1, <1>6
  <2>2. Firm(N[2].id)
    BY <2>1 DEF Anchored
  <2> QED BY <1>8, <2>1, <2>2
<1>10. EvmNum(N[f]) = NumberOf(N[f].id) /\ N[f].id # <<>>
  BY <1>9, NotAnchored
<1> QED BY <1>3, <1>5, <1>8, <1>10

LEMMA BasedAppend ==
  ASSUME Ready, pc # "exited", NEW nb \in NativeBlock, NEW c, Message(nb, c), nb.prev = Branch
  PROVE  /\ Window(Append(native_blocks, nb)) /\ Based(Append(native_blocks, nb))
         /\ Last(Append(native_blocks, nb)) = nb
         /\ Len(Append(native_blocks, nb)) = Len(native_blocks) + 1
         /\ \A i \in 1 .. Len(native_blocks) : Append(native_blocks, nb)[i] = native_blocks[i]
<1> DEFINE N == native_blocks
           t == Append(N, nb)
<1>1. /\ N \in Seq(NativeBlock) /\ N # <<>> /\ Window(N) /\ Based(N) /\ Branch = Last(N).id
      /\ best \in Histories /\ Timed(best) /\ StreamTypeOK
  BY ReadyFacts DEF Branch
<1>2. /\ Len(t) = Len(N) + 1 /\ \A i \in 1 .. Len(N) : t[i] = N[i]
      /\ t[Len(N) + 1] = nb /\ Last(t) = nb /\ Window(t)
  BY <1>1, WindowAppend
<1>3. Len(N) \in Nat \ {0}
  BY ReadyFacts
<1>4. 1 \in 1 .. Len(N)
  BY <1>3
<1>5. t[1] = N[1]
  BY <1>2, <1>4
<1>6. ASSUME Anchored(N) PROVE Anchored(t)
  <2>1. Firm(t[2].id)
    <3>1. CASE Len(N) > 1
      <4>1. 2 \in 1 .. Len(N)
        BY <1>3, <3>1
      <4>2. t[2] = N[2]
        BY <1>2, <4>1
      <4> QED BY <1>6, <3>1, <4>2 DEF Anchored
    <3>2. CASE ~(Len(N) > 1)
      <4>0. Len(N) = 1
        <5>1. \A k \in Nat \ {0} : ~(k > 1) => k = 1
          OBVIOUS
        <5> QED BY <1>3, <3>2, <5>1, Zenon
      <4>1. Branch = N[1].id /\ t[2] = nb
        <5>1. Branch = N[Len(N)].id
          BY DEF Last, Branch
        <5>2. t[Len(N) + 1] = nb
          BY <1>2
        <5> HIDE DEF N, t
        <5>3. Len(N) + 1 = 2
          BY <4>0
        <5> QED BY <4>0, <5>1, <5>2, <5>3
      <4>2. /\ Len(Branch) = c /\ c \in Nat /\ c + 1 \in 0 .. Len(best) /\ Len(nb.id) = c + 1
            /\ nb.id = Prefix(best, c + 1)
        BY <1>1, MessageFacts DEF Message
      <4>3. StartBlockNum + Len(Branch) < lib
        BY <1>6, <4>1 DEF Anchored
      <4>4. Len(best) \in Nat /\ lib \in Nat /\ StartBlockNum \in Nat
        BY ReadyFacts
      <4>5. StartBlockNum + (c + 1) <= lib /\ c + 1 <= Len(best)
        <5> HIDE DEF N
        <5>1. Len(Branch) = c /\ c \in Nat /\ c + 1 \in 0 .. Len(best)
          BY <4>2
        <5> QED BY <4>3, <4>4, <5>1
      <4> QED BY <4>1, <4>2, <4>5 DEF Firm
    <3> QED BY <3>1, <3>2
  <2> HIDE DEF t
  <2> QED BY <1>5, <1>6, <2>1 DEF Anchored
<1>7. Firm(t[1].id)
  BY <1>1, <1>5 DEF Based
<1>8. Based(t)
  <2> HIDE DEF t
  <2> QED BY <1>1, <1>5, <1>6, <1>7 DEF Based
<1> QED BY <1>2, <1>8

LEMMA ReceiveKeeps ==
  ASSUME HistoriesAreIds, CleanStart, Ready, UNCHANGED <<best, lib>>,
         NEW nb \in NativeBlock, NEW c, Message(nb, c), Receive(nb)
  PROVE  CacheInv'
<1> DEFINE N == native_blocks
<1>1. pc = "idle" /\ IdleInv /\ LibInv
  BY DEF Receive, ReceiveBeforeGenesis, ReceiveDuplicate, ReceiveUnknownFork, ReceiveFork,
     ReceiveLinked, Ready, CacheInv
<1>2. /\ N \in Seq(NativeBlock) /\ N # <<>> /\ Window(N) /\ Based(N) /\ Len(N) \in Nat \ {0}
      /\ best \in Histories /\ Timed(best) /\ Branch = Last(N).id
      /\ Branch \in Histories /\ Len(Branch) \in Nat /\ Timed(Branch)
  BY <1>1, ReadyFacts DEF Branch
<1>3. /\ c \in Nat /\ Len(nb.prev) = c /\ nb.prev = Prefix(nb.id, c) /\ nb.id \in Histories
      /\ Timed(nb.id) /\ Len(nb.id) = c + 1 /\ Message(nb, Len(nb.prev))
      /\ c + 1 \in 1 .. Len(best)
  BY <1>2, MessageFacts
<1>4. CASE ReceiveBeforeGenesis(nb)
  <2>1. nb.timestamp = best[c + 1].slot /\ best[c + 1].slot > StartSlot
    BY <1>2, <1>3 DEF Message, Timed
  <2>2. best[c + 1].slot \in Nat /\ StartSlot \in Nat /\ Genesis \in Nat
    BY <1>2, <1>3, PositionFacts, NodeosAssumption, TimeAssumption DEF Bodies
  <2>3. Genesis <= StartSlot
    BY DEF CleanStart
  <2> QED BY <1>4, <2>1, <2>2, <2>3 DEF ReceiveBeforeGenesis, BeforeGenesis
<1>5. CASE ReceiveDuplicate(nb)
  BY <1>5, CacheSame DEF ReceiveDuplicate, Ready
<1>6. CASE ReceiveUnknownFork(nb)
  BY <1>6, ExitKeeps DEF ReceiveUnknownFork
<1>7. CASE ReceiveFork(nb)
  <2>1. /\ ~Linked(nb) /\ ~Cached(nb.id) /\ Cached(nb.prev)
        /\ new_block' = nb /\ pc' = "unwind"
        /\ UNCHANGED native_blocks /\ UNCHANGED evm_blocks /\ UNCHANGED evm_lib
        /\ UNCHANGED published /\ UNCHANGED exec_engine
    BY <1>7 DEF ReceiveFork, caches, shared
  <2>2. PICK f \in 1 .. Len(N) :
           /\ c - Len(Branch) + Len(N) = f
           /\ N[f].id = nb.prev
           /\ EvmNum(N[f]) = NumberOf(nb.prev) /\ nb.prev # <<>>
           /\ \A i \in 1 .. Len(N) : Firm(N[i].id) => i <= f
    BY <1>1, <2>1, ForkFound
  <2>3. /\ Last(evm_blocks).number = NumberOf(Branch)
        /\ \A i \in 1 .. Len(evm_blocks) : Good(evm_blocks[i], Branch)
    BY <1>1 DEF IdleInv
  <2>4. nb.prev = Prefix(Branch, c) /\ c \in 1 .. Len(Branch)
    <3>1. At(N, f) = c
      BY <1>2, <1>3, <2>2, WindowFacts
    <3>2. N[f].id = Prefix(Branch, At(N, f)) /\ At(N, f) \in 0 .. Len(Branch)
      BY <1>2, WindowFacts
    <3>3. c # 0
      BY <1>2, <2>2, <3>1, <3>2, FullPrefix
    <3> QED BY <1>2, <1>3, <2>2, <3>1, <3>2, <3>3
  <2>5. ASSUME NEW i \in 1 .. Len(evm_blocks)
        PROVE  Unwound(evm_blocks[i], Branch, nb.prev)
    <3> DEFINE b == evm_blocks[i]
    <3>1. Good(b, Branch) /\ b.number \in Nat
      BY <1>1, <2>3, ReadyFacts
    <3> HIDE DEF b
    <3>2. ASSUME b.number > StartBlock.number, b.number < NumberOf(nb.prev)
          PROVE  b.prev_randao = UpperBoundOf(nb.prev, b.number)
      <4>1. NumberOf(nb.prev) = Number(Branch[c])
        BY <1>2, <2>4, PositionFacts
      <4>2. Holds(b, Branch)
        BY <3>1, <3>2 DEF Good
      <4>3. /\ Len(Branch) \in 0 .. Len(Branch) /\ c \in 1 .. Len(Branch)
            /\ Prefix(Branch, Len(Branch)) = Branch /\ b.number < Number(Branch[c])
        BY <1>2, <2>4, <3>2, <4>1, FullPrefix
      <4>4. Holds(b, Prefix(Branch, Len(Branch))) <=> Holds(b, Prefix(Branch, c))
        BY <1>2, <3>1, <4>3, HoldsBelow
      <4>5. Holds(b, Prefix(Branch, c))
        BY <4>2, <4>3, <4>4
      <4> QED BY <2>4, <4>5 DEF Holds
    <3>3. /\ b.number >= StartBlock.number
          /\ b.number = StartBlock.number => b.prev_randao = <<>>
          /\ b.number > StartBlock.number => b.transactions = TransactionsOf(Branch, b.number)
      BY <3>1 DEF Good, Holds
    <3> QED BY <3>2, <3>3 DEF b, Unwound
  <2>6. Branch' = Branch
    BY <2>1 DEF Branch
  <2>7. Message(new_block, Len(new_block.prev))'
    BY <1>3, <2>1, MessageSame
  <2>8. ForkIndex' = f
    <3>1. ForkIndex' = Len(nb.prev) - Len(Branch) + Len(N)
      BY <2>1, <2>6 DEF ForkIndex
    <3> QED BY <1>3, <2>2, <3>1
  <2>9. \A i \in 1 .. Len(N) : Firm(N[i].id)' => i <= f
    BY <2>1, <2>2 DEF Firm
  <2>10. UnwindInv'
    BY <2>1, <2>2, <2>5, <2>6, <2>7, <2>8, <2>9 DEF UnwindInv
  <2>11. IdleInv' /\ ExtendInv' /\ FillInv'
    BY <2>1 DEF IdleInv, ExtendInv, FillInv
  <2>12. Based(native_blocks)' /\ Window(native_blocks)'
    BY <1>2, <2>1, BasedSame
  <2>13. LibInv'
    BY <1>1, <2>1 DEF LibInv, LibComputed, Firm
  <2> QED BY <2>10, <2>11, <2>12, <2>13 DEF CacheInv
<1>8. CASE ReceiveLinked(nb)
  <2> DEFINE t == Append(N, nb)
  <2>1. /\ nb.prev = Branch
        /\ new_block' = nb /\ pc' = "extend" /\ native_blocks' = t
        /\ UNCHANGED evm_blocks /\ UNCHANGED evm_lib
        /\ UNCHANGED published /\ UNCHANGED exec_engine
    BY <1>2, <1>8 DEF ReceiveLinked, Linked, shared
  <2>2. /\ Window(t) /\ Based(t) /\ Last(t) = nb /\ Len(t) = Len(N) + 1
        /\ \A i \in 1 .. Len(N) : t[i] = N[i]
    BY <1>1, <2>1, BasedAppend
  <2> HIDE DEF t
  <2>3. Window(native_blocks)' /\ Based(native_blocks)'
    BY <2>1, <2>2, BasedSame
  <2>4. /\ Last(evm_blocks).number = NumberOf(Branch)
        /\ \A i \in 1 .. Len(evm_blocks) : Good(evm_blocks[i], Branch)
    BY <1>1 DEF IdleInv
  <2>5. NumberOf(Branch) <= NumberOf(nb.id) /\ NumberOf(Branch) \in Nat
    <3>1. c \in 0 .. Len(nb.id) /\ c + 1 \in c .. Len(nb.id)
      BY <1>3
    <3>2. Prefix(nb.id, c + 1) = nb.id
      BY <1>3, FullPrefix
    <3> QED BY <1>3, <2>1, <3>1, <3>2, NumberOfMonotonic
  <2>6. Message(new_block, Len(new_block.prev))'
    BY <1>3, <2>1, MessageSame
  <2>7. Len(t) > 1
    BY <1>2, <2>2
  <2>8. ExtendInv'
    BY <2>1, <2>2, <2>4, <2>5, <2>6, <2>7 DEF ExtendInv
  <2>9. IdleInv' /\ UnwindInv' /\ FillInv'
    BY <2>1 DEF IdleInv, UnwindInv, FillInv
  <2>10. LibInv'
    <3>1. LibComputed' => LibComputed
      BY <2>1 DEF LibComputed
    <3>2. \A i \in 1 .. Len(N) : i \in 1 .. Len(t)
      BY <1>2, <2>2
    <3> QED BY <1>1, <2>1, <2>2, <3>1, <3>2, LibSame
  <2> QED BY <2>3, <2>8, <2>9, <2>10 DEF CacheInv
<1> QED BY <1>4, <1>5, <1>6, <1>7, <1>8 DEF Receive

-----------------------------------------------------------------------------
(* Unwinding keeps the invariant *)

LEMMA UnwindFacts ==
  ASSUME CleanStart, Ready, pc = "unwind"
  PROVE  LET p == new_block.prev
         IN  /\ Message(new_block, Len(p)) /\ p \in Histories /\ Timed(p) /\ p # <<>>
             /\ Len(p) \in 1 .. Len(Branch) /\ p = Prefix(Branch, Len(p))
             /\ ForkIndex \in 1 .. Len(native_blocks)
             /\ ForkIndex = Len(p) - Len(Branch) + Len(native_blocks)
             /\ EvmNum(fork_block) = NumberOf(p)
             /\ NumberOf(p) = Number(Branch[Len(p)]) /\ NumberOf(p) \in Nat
             /\ NumberOf(p) > StartBlock.number
             /\ \A i \in 1 .. Len(native_blocks) : Firm(native_blocks[i].id) => i <= ForkIndex
             /\ \A i \in 1 .. Len(evm_blocks) : Unwound(evm_blocks[i], Branch, p)
             /\ NativeBlockIsForked => ForkIndex < Len(native_blocks)
<1> DEFINE N == native_blocks
           p == new_block.prev
<1>1. /\ Message(new_block, Len(p)) /\ p # <<>>
      /\ ForkIndex \in 1 .. Len(N) /\ N[ForkIndex].id = p
      /\ EvmNum(N[ForkIndex]) = NumberOf(p)
      /\ \A i \in 1 .. Len(N) : Firm(N[i].id) => i <= ForkIndex
      /\ \A i \in 1 .. Len(evm_blocks) : Unwound(evm_blocks[i], Branch, p)
  BY DEF Ready, CacheInv, UnwindInv
<1>2. /\ N \in Seq(NativeBlock) /\ N # <<>> /\ Window(N) /\ Branch = Last(N).id
      /\ best \in Histories /\ Timed(best)
  BY ReadyFacts DEF Branch
<1>3. /\ Len(N) \in Nat \ {0} /\ Branch \in Histories /\ Timed(Branch) /\ Len(Branch) \in Nat
  BY ReadyFacts
<1>4. p \in Histories /\ Timed(p) /\ Len(p) \in Nat
  BY <1>1, <1>2, MessageFacts
<1>5. \A i \in 1 .. Len(N) : /\ At(N, i) \in 0 .. Len(Branch)
                             /\ N[i].id = Prefix(Branch, At(N, i))
                             /\ Len(N[i].id) = At(N, i)
                             /\ At(N, i) = Len(Branch) - Len(N) + i
  BY <1>2, WindowFacts DEF At
<1>6. p = Prefix(Branch, Len(p)) /\ Len(p) \in 0 .. Len(Branch)
  BY <1>1, <1>5
<1>7. Len(p) # 0
  BY <1>1, <1>3, <1>6, FullPrefix
<1>8. Len(p) \in 1 .. Len(Branch)
  BY <1>3, <1>6, <1>7
<1>9. fork_block = N[ForkIndex]
  <2> DEFINE S == {i \in DOMAIN N : N[i].id = p}
  <2>1. DOMAIN N = 1 .. Len(N)
    BY <1>2, LenProperties
  <2>2. S \in SUBSET Nat /\ S # {}
    BY <1>1, <1>3, <2>1
  <2> HIDE DEF S
  <2>3. Min(S) \in S
    BY <2>2, MinExists
  <2>4. \A i \in S : i \in 1 .. Len(N) /\ N[i].id = p
    BY <2>1 DEF S
  <2> DEFINE m == Min(S)
  <2>5. m \in 1 .. Len(N) /\ N[m].id = p
    BY <2>3, <2>4
  <2>6. fork_block = N[m]
    BY DEF fork_block, S
  <2> HIDE DEF m
  <2>7. At(N, m) = Len(p) /\ At(N, ForkIndex) = Len(p)
    BY <1>1, <1>5, <2>5
  <2>8. Len(Branch) - Len(N) + m = Len(Branch) - Len(N) + ForkIndex
    BY <1>1, <1>5, <2>5, <2>7
  <2>9. m \in Nat /\ ForkIndex \in Nat /\ Len(N) \in Nat
    BY <1>1, <1>3, <2>5
  <2> HIDE DEF N
  <2>10. m = ForkIndex
    BY <1>3, <2>8, <2>9
  <2> QED BY <2>6, <2>10
<1>10. NumberOf(p) = Number(Branch[Len(p)])
  BY <1>3, <1>6, <1>8, PositionFacts
<1>11. Number(Branch[Len(p)]) \in Nat /\ Number(Branch[Len(p)]) > StartBlock.number
  BY <1>3, <1>8, PositionFacts, NumberType DEF Timed
<1>12. NativeBlockIsForked => ForkIndex < Len(N)
  <2>1. Last(N) = N[Len(N)]
    BY DEF Last
  <2>2. ASSUME NativeBlockIsForked PROVE ForkIndex # Len(N)
    BY <1>1, <2>1, <2>2 DEF NativeBlockIsForked
  <2>3. ForkIndex \in Int /\ Len(N) \in Int /\ ForkIndex <= Len(N)
    BY <1>1, <1>3
  <2> QED BY <2>2, <2>3
<1>13. ForkIndex = Len(p) - Len(Branch) + Len(N)
  BY DEF ForkIndex
<1> QED BY <1>1, <1>4, <1>6, <1>8, <1>9, <1>10, <1>11, <1>12, <1>13

LEMMA DropEvmBlockKeeps ==
  ASSUME HistoriesAreIds, CleanStart, Ready, UNCHANGED <<best, lib>>, DropEvmBlock
  PROVE  CacheInv'
<1>1. /\ pc = "unwind" /\ pc' = "unwind" /\ evm_blocks # <<>> /\ evm_blocks' = Front(evm_blocks)
      /\ UNCHANGED native_blocks /\ UNCHANGED evm_lib /\ UNCHANGED new_block
      /\ UNCHANGED exec_engine /\ UNCHANGED published
  BY DEF DropEvmBlock, EvmBlockIsForked, shared, locals
<1>2. CacheInv /\ Window(native_blocks) /\ Based(native_blocks) /\ UnwindInv /\ LibInv
  BY <1>1 DEF Ready, CacheInv
<1>3. Window(native_blocks)' /\ Based(native_blocks)'
  BY <1>1, <1>2, BasedSame
<1>4. IdleInv' /\ ExtendInv' /\ FillInv'
  BY <1>1 DEF IdleInv, ExtendInv, FillInv
<1>5. LibInv'
  BY <1>1, <1>2 DEF LibInv, LibComputed, Firm
<1>6. \A i \in 1 .. Len(evm_blocks') : Unwound(evm_blocks'[i], Branch, new_block.prev)
  <2>1. evm_blocks \in Seq(EvmBlock) /\ Len(evm_blocks) \in Nat
    BY <1>1, ReadyFacts
  <2>2. /\ Len(Front(evm_blocks)) = Len(evm_blocks) - 1
        /\ \A i \in 1 .. Len(evm_blocks) - 1 : Front(evm_blocks)[i] = evm_blocks[i]
    BY <1>1, <2>1, FrontFacts
  <2>3. \A i \in 1 .. Len(evm_blocks) - 1 : i \in 1 .. Len(evm_blocks)
    BY <2>1
  <2>4. \A i \in 1 .. Len(evm_blocks) : Unwound(evm_blocks[i], Branch, new_block.prev)
    BY <1>1, <1>2 DEF UnwindInv
  <2> QED BY <1>1, <2>2, <2>3, <2>4
<1>7. Branch' = Branch /\ ForkIndex' = ForkIndex
  BY <1>1 DEF Branch, ForkIndex
<1>8. Message(new_block, Len(new_block.prev))'
  BY <1>1, <1>2 DEF UnwindInv, Message
<1>9. \A i \in 1 .. Len(native_blocks) : Firm(native_blocks[i].id)' => i <= ForkIndex
  BY <1>1, <1>2 DEF UnwindInv, Firm
<1>10. UnwindInv'
  BY <1>1, <1>2, <1>6, <1>7, <1>8, <1>9 DEF UnwindInv
<1> QED BY <1>3, <1>4, <1>5, <1>10 DEF CacheInv

LEMMA WithoutSuffix ==
  ASSUME NEW S, NEW s \in Seq(S), NEW t \in Seq(S)
  PROVE  SubSeq(s \o t, 1, Len(s \o t) - Len(t)) = s
<1>1. /\ s \o t \in Seq(S) /\ Len(s \o t) = Len(s) + Len(t)
      /\ Len(s) \in Nat /\ Len(t) \in Nat
      /\ \A i \in 1 .. Len(s) : (s \o t)[i] = s[i]
  BY ConcatProperties, LenProperties
<1> DEFINE u == s \o t
<1>2. Len(u) - Len(t) = Len(s) /\ Len(s) \in 0 .. Len(u)
  BY <1>1
<1>3. u \in Seq(S) /\ \A i \in 1 .. Len(s) : u[i] = s[i]
  BY <1>1
<1> HIDE DEF u
<1>4. /\ SubSeq(u, 1, Len(s)) \in Seq(S) /\ Len(SubSeq(u, 1, Len(s))) = Len(s)
      /\ \A i \in 1 .. Len(s) : SubSeq(u, 1, Len(s))[i] = u[i]
  BY <1>2, <1>3, PrefixFacts
<1>5. SubSeq(u, 1, Len(s)) = s
  BY <1>3, <1>4, SeqEqual
<1> QED BY <1>2, <1>5 DEF u

\* What the tip of a branch adds to it.
LEMMA TransactionsTip ==
  ASSUME HistoriesAreIds, NEW id \in Histories, id # <<>>, NEW m
  PROVE  LET n   == Len(id)
             old == TransactionsOf(Prefix(id, n - 1), m)
         IN  /\ n \in Nat /\ n \in 1 .. n /\ n - 1 \in 0 .. n - 1 /\ n - 1 \in 0 .. n
             /\ old \in Seq(Tx) /\ TransactionsIn(id[n]) \in Seq(Tx)
             /\ Number(id[n]) # m => TransactionsOf(id, m) = old
             /\ Number(id[n]) = m => TransactionsOf(id, m) = old \o TransactionsIn(id[n])
<1> DEFINE n   == Len(id)
           old == TransactionsOf(Prefix(id, n - 1), m)
<1>1. n \in Nat /\ Prefix(id, n) = id
  BY FullPrefix
<1>2. n \in 1 .. n /\ n - 1 \in 0 .. n - 1 /\ n - 1 \in 0 .. n /\ (n - 1) + 1 = n
  <2>1. n # 0
    BY <1>1, EmptySeq DEF Histories
  <2> HIDE DEF n
  <2> QED BY <1>1, <2>1
<1>3. old \in Seq(Tx)
  BY <1>2, TransactionsType
<1>4. TransactionsIn(id[n]) \in Seq(Tx)
  BY <1>2, PositionFacts, BodyTransactions
<1>5. TransactionsOf(id, m) = old \o (IF Number(id[n]) = m THEN TransactionsIn(id[n]) ELSE <<>>)
  <2>1. TransactionsOf(Prefix(id, (n - 1) + 1), m)
          = TransactionsOf(Prefix(id, n - 1), m)
              \o (IF Number(id[(n - 1) + 1]) = m THEN TransactionsIn(id[(n - 1) + 1]) ELSE <<>>)
    BY <1>2, TransactionsNext
  <2> QED BY <1>1, <1>2, <2>1
<1> HIDE DEF old, n
<1>6. Number(id[n]) # m => TransactionsOf(id, m) = old
  BY <1>3, <1>5, ConcatEmptySeq
<1>7. Number(id[n]) = m => TransactionsOf(id, m) = old \o TransactionsIn(id[n])
  BY <1>5
<1> QED BY <1>1, <1>2, <1>3, <1>4, <1>6, <1>7 DEF n, old

\* Removing the last native block takes its transactions out of the EVM block they are in.
LEMMA RemovalUnwinds ==
  ASSUME HistoriesAreIds, CleanStart, Ready, DropNativeBlock, NEW i \in 1 .. Len(evm_blocks')
  PROVE  Unwound(evm_blocks'[i], Prefix(Branch, Len(Branch) - 1), new_block.prev)
<1> DEFINE N == native_blocks
           E == evm_blocks
           p == new_block.prev
           x == Branch[Len(Branch)]
           last == Last(N)
           new == Prefix(Branch, Len(Branch) - 1)
<1>1. /\ pc = "unwind" /\ ~EvmBlockIsForked /\ NativeBlockIsForked
      /\ IF MustRemoveTransactions(last)
         THEN /\ E # <<>> /\ CanRemoveTransactions(back, last)
              /\ evm_blocks' = WithBack(E, RemoveTransactions(back, last))
         ELSE evm_blocks' = E
  BY DEF DropNativeBlock
<1>2. /\ p \in Histories /\ Len(p) \in 1 .. Len(Branch)
      /\ ForkIndex \in 1 .. Len(N) /\ ForkIndex < Len(N)
      /\ EvmNum(fork_block) = NumberOf(p)
      /\ NumberOf(p) = Number(Branch[Len(p)]) /\ NumberOf(p) \in Nat
      /\ NumberOf(p) > StartBlock.number
      /\ \A j \in 1 .. Len(E) : Unwound(E[j], Branch, p)
  BY <1>1, UnwindFacts
<1>3. /\ N \in Seq(NativeBlock) /\ N # <<>> /\ Window(N) /\ Len(N) \in Nat
      /\ Branch \in Histories /\ Timed(Branch) /\ Len(Branch) \in Nat /\ Branch = Last(N).id
      /\ E \in Seq(EvmBlock) /\ Len(E) \in Nat
      /\ \A j \in 1 .. Len(E) : E[j] \in EvmBlock /\ E[j].number \in Nat
  BY <1>1, ReadyFacts DEF Branch
<1>4. last.actions = x.actions /\ EvmNum(last) = Number(x) /\ Branch # <<>>
  <2>1. Len(N) \in 2 .. Len(N)
    BY <1>2, <1>3
  <2>2. At(N, Len(N)) = Len(Branch)
    BY <1>3 DEF At
  <2>3. last = N[Len(N)]
    BY DEF Last
  <2>4. /\ N[Len(N)].actions = Last(N).id[At(N, Len(N))].actions
        /\ EvmNum(N[Len(N)]) = Number(Last(N).id[At(N, Len(N))])
        /\ N[Len(N)].id # <<>>
    BY <1>3, <2>1, WindowFacts
  <2> QED BY <1>3, <2>2, <2>3, <2>4
<1>5. Len(Branch) \in 1 .. Len(Branch) /\ Len(Branch) \in Len(p) .. Len(Branch)
  BY <1>2, <1>3
<1>6. Number(x) \in Nat /\ NumberOf(p) <= Number(x) /\ x \in Bodies
  BY <1>2, <1>3, <1>5, TimedNumbers, PositionFacts, NumberType
<1>7. /\ TransactionsIn(x) \in Seq(Tx) /\ Len(TransactionsIn(x)) = Len(x.actions)
      /\ x.actions \in Seq(NativeAction)
  BY <1>6, BodyTransactions
<1> HIDE DEF x, last
<1>8. ASSUME NEW m
      PROVE  /\ TransactionsOf(new, m) \in Seq(Tx)
             /\ Number(x) # m => TransactionsOf(Branch, m) = TransactionsOf(new, m)
             /\ Number(x) = m => TransactionsOf(Branch, m) = TransactionsOf(new, m) \o TransactionsIn(x)
  BY <1>3, <1>4, TransactionsTip DEF x
<1>9. \A j \in 1 .. Len(E) : E[j].number <= NumberOf(p)
  <2> TAKE j \in 1 .. Len(E)
  <2>1. E # <<>> /\ Len(E) \in j .. Len(E) /\ Len(E) \in 1 .. Len(E)
    BY <1>3
  <2>2. back.number <= NumberOf(p) /\ back = E[Len(E)]
    <3>1. back = E[Len(E)] /\ E[Len(E)].number \in Nat
      BY <1>3, <2>1 DEF back, Last
    <3>2. ~(NumberOf(p) < back.number)
      BY <1>1, <1>2, <2>1 DEF EvmBlockIsForked
    <3>3. NumberOf(p) \in Nat
      BY <1>2
    <3> DEFINE z == back.number
    <3>4. z \in Nat /\ ~(NumberOf(p) < z)
      BY <3>1, <3>2
    <3> HIDE DEF z
    <3>5. z <= NumberOf(p)
      BY <3>3, <3>4
    <3> QED BY <3>1, <3>5 DEF z
  <2>3. E[Len(E)].number = E[j].number + (Len(E) - j)
    BY <1>3, <2>1, Ascending DEF Ready
  <2>4. E[j].number \in Nat /\ E[Len(E)].number \in Nat /\ j \in Nat /\ j <= Len(E)
    BY <1>3, <2>1
  <2> DEFINE a == E[j].number
             z == E[Len(E)].number
             n == Len(E)
  <2>5. a \in Nat /\ z \in Nat /\ n \in Nat /\ z = a + (n - j) /\ z <= NumberOf(p)
    BY <1>3, <2>2, <2>3, <2>4
  <2> HIDE DEF a, z, n
  <2>6. j <= n
    BY <2>4 DEF n
  <2>7. a <= NumberOf(p)
    <3>1. NumberOf(p) \in Nat
      BY <1>2
    <3>2. j \in Nat
      BY <2>4
    <3> QED BY <2>5, <2>6, <3>1, <3>2
  <2> QED BY <2>7 DEF a
<1>10. ASSUME ~MustRemoveTransactions(last)
       PROVE  Unwound(evm_blocks'[i], new, p)
  <2>1. evm_blocks' = E /\ i \in 1 .. Len(E)
    BY <1>1, <1>10
  <2>2. Unwound(E[i], Branch, p) /\ E[i].number <= NumberOf(p) /\ E[i].number \in Nat
    BY <1>2, <1>3, <1>9, <2>1
  <2>3. TransactionsOf(Branch, E[i].number) = TransactionsOf(new, E[i].number)
    <3>1. CASE Number(x) # E[i].number
      BY <1>8, <3>1
    <3>2. CASE Number(x) = E[i].number
      <4>1. Number(x) = NumberOf(p)
        BY <1>2, <1>6, <2>2, <3>2
      <4>2. x.actions = <<>>
        BY <1>2, <1>4, <1>10, <4>1 DEF MustRemoveTransactions, HasTransactions
      <4>3. Len(TransactionsIn(x)) = 0
        BY <1>7, <4>2
      <4>4. TransactionsIn(x) = <<>>
        BY <1>7, <4>3, EmptySeq
      <4>5. TransactionsOf(Branch, E[i].number) = TransactionsOf(new, E[i].number) \o <<>>
        BY <1>8, <3>2, <4>4
      <4>6. TransactionsOf(new, E[i].number) \in Seq(Tx)
        BY <1>8
      <4> QED BY <4>5, <4>6, ConcatEmptySeq
    <3> QED BY <3>1, <3>2
  <2> QED BY <2>1, <2>2, <2>3 DEF Unwound
<1>11. ASSUME MustRemoveTransactions(last)
       PROVE  Unwound(evm_blocks'[i], new, p)
  <2> DEFINE b == RemoveTransactions(back, last)
  <2>1. E # <<>> /\ CanRemoveTransactions(back, last) /\ evm_blocks' = WithBack(E, b)
    BY <1>1, <1>11
  <2>2. back \in EvmBlock /\ last \in NativeBlock /\ back = E[Len(E)] /\ Len(E) \in 1 .. Len(E)
    <3>1. Len(E) \in 1 .. Len(E) /\ Len(N) \in 1 .. Len(N)
      BY <1>2, <1>3, <2>1, EmptySeq
    <3>2. E[Len(E)] \in EvmBlock
      BY <1>3, <3>1
    <3>3. N[Len(N)] \in NativeBlock
      BY <1>3, <3>1, ElementOfSeq
    <3> QED BY <3>1, <3>2, <3>3 DEF back, Last, last
  <2>3. b \in EvmBlock
    BY <2>1, <2>2, RemovedType
  <2> HIDE DEF b
  <2>4. /\ Len(evm_blocks') = Len(E)
        /\ \A j \in 1 .. Len(E) - 1 : evm_blocks'[j] = E[j]
        /\ evm_blocks'[Len(E)] = b
    <3>1. E \in Seq(EvmBlock) /\ E # <<>>
      BY <1>3, <2>1
    <3>2. /\ Len(WithBack(E, b)) = Len(E)
          /\ \A j \in 1 .. Len(E) - 1 : WithBack(E, b)[j] = E[j]
          /\ WithBack(E, b)[Len(E)] = b
      BY <2>3, <3>1, WithBackFacts
    <3> QED BY <2>1, <3>2
  <2>5. back.number = Number(x) /\ Number(x) = NumberOf(p)
    BY <1>2, <1>4, <1>11, <2>1 DEF CanRemoveTransactions, MustRemoveTransactions
  <2>6. CASE i = Len(E)
    <3>1. Unwound(back, Branch, p)
      BY <1>2, <2>2
    <3>2. back.transactions = TransactionsOf(new, back.number) \o TransactionsIn(x)
      BY <1>2, <1>8, <2>5, <3>1 DEF Unwound
    <3>3. TransactionsOf(new, back.number) \in Seq(Tx)
      BY <1>8
    <3>4. SubSeq(back.transactions, 1, Len(back.transactions) - Len(x.actions))
            = TransactionsOf(new, back.number)
      BY <1>7, <3>2, <3>3, WithoutSuffix
    <3>5. /\ b.transactions = SubSeq(back.transactions, 1, Len(back.transactions) - Len(x.actions))
          /\ b.number = back.number /\ b.prev_randao = back.prev_randao
      BY <1>4, <2>2 DEF b, RemoveTransactions, EvmBlock
    <3> QED BY <2>4, <2>6, <3>1, <3>4, <3>5 DEF Unwound
  <2>7. CASE i # Len(E)
    <3>1. i \in 1 .. Len(E) - 1 /\ i \in 1 .. Len(E) /\ Len(E) \in i .. Len(E)
      BY <1>3, <2>4, <2>7
    <3>2. evm_blocks'[i] = E[i] /\ Unwound(E[i], Branch, p)
      BY <1>2, <2>4, <3>1
    <3>3. E[i].number # Number(x)
      <4>1. E[Len(E)].number = E[i].number + (Len(E) - i)
        BY <1>3, <3>1, Ascending DEF Ready
      <4>2. E[i].number \in Nat /\ i \in Nat /\ Len(E) \in Nat /\ i < Len(E)
        BY <1>3, <3>1
      <4> DEFINE a == E[i].number
                 n == Len(E)
      <4>3. Number(x) = a + (n - i) /\ a \in Nat /\ n \in Nat
        BY <1>3, <2>2, <2>5, <4>1, <4>2
      <4>4. i < n
        BY <4>2
      <4> HIDE DEF a, n
      <4>5. a # Number(x)
        BY <4>2, <4>3, <4>4
      <4> QED BY <4>5 DEF a
    <3>4. TransactionsOf(Branch, E[i].number) = TransactionsOf(new, E[i].number)
      BY <1>8, <3>3
    <3> QED BY <3>2, <3>4 DEF Unwound
  <2> QED BY <2>6, <2>7
<1> QED BY <1>10, <1>11

LEMMA DropNativeBlockKeeps ==
  ASSUME HistoriesAreIds, CleanStart, Ready, UNCHANGED <<best, lib>>, DropNativeBlock
  PROVE  CacheInv'
<1> DEFINE N == native_blocks
           new == Prefix(Branch, Len(Branch) - 1)
<1>1. /\ pc = "unwind" /\ pc' = "unwind" /\ NativeBlockIsForked
      /\ native_blocks' = Front(N) /\ UNCHANGED evm_lib /\ UNCHANGED new_block
      /\ UNCHANGED exec_engine /\ UNCHANGED published
  BY DEF DropNativeBlock, shared, locals
<1>2. /\ ForkIndex \in 1 .. Len(N) /\ ForkIndex < Len(N)
      /\ ForkIndex = Len(new_block.prev) - Len(Branch) + Len(N)
      /\ Message(new_block, Len(new_block.prev)) /\ new_block.prev # <<>>
      /\ Len(new_block.prev) \in 1 .. Len(Branch)
      /\ \A i \in 1 .. Len(N) : Firm(N[i].id) => i <= ForkIndex
  BY <1>1, UnwindFacts
<1>3. /\ N \in Seq(NativeBlock) /\ Window(N) /\ Based(N) /\ Len(N) \in Nat
      /\ Branch \in Histories /\ Len(Branch) \in Nat /\ Branch = Last(N).id
  BY <1>1, ReadyFacts DEF Branch
<1>0. /\ ForkIndex \in Nat /\ 1 <= ForkIndex /\ ForkIndex < Len(N) /\ Len(N) \in Nat
      /\ Len(new_block.prev) \in Nat /\ Len(Branch) \in Nat
      /\ 1 <= Len(new_block.prev) /\ Len(new_block.prev) <= Len(Branch)
  <2>1. /\ ForkIndex \in 1 .. Len(N) /\ ForkIndex < Len(N)
        /\ Len(new_block.prev) \in 1 .. Len(Branch)
    BY <1>2
  <2>2. Len(N) \in Nat /\ Len(Branch) \in Nat
    BY <1>3
  <2> QED BY <2>1, <2>2
<1>4. Len(N) > 1
  BY <1>0
<1>5. /\ Front(N) \in Seq(NativeBlock) /\ Len(Front(N)) = Len(N) - 1
      /\ \A i \in 1 .. Len(N) - 1 : Front(N)[i] = N[i]
      /\ Last(Front(N)).id = new
      /\ Window(Front(N))
  BY <1>3, <1>4, WindowFront
<1>6. 1 \in 1 .. Len(N) - 1 /\ Len(N) - 1 \in Nat
  BY <1>3, <1>4
<1>7. Branch' = new /\ Len(new) = Len(Branch) - 1
  <2>1. Len(Branch) - 1 \in 0 .. Len(Branch)
    BY <1>0
  <2> QED BY <1>1, <1>3, <1>5, <2>1, PrefixType DEF Branch
<1>8. Based(native_blocks)' /\ Window(native_blocks)'
  <2>1. Anchored(N) => Anchored(Front(N))
    <3>1. Len(N) - 1 > 1 => 2 \in 1 .. Len(N) - 1
      BY <1>3
    <3>2. Len(Front(N)) > 1 => Front(N)[2] = N[2]
      BY <1>5, <3>1
    <3> QED BY <1>4, <1>5, <1>6, <3>2 DEF Anchored
  <2>2. Based(Front(N))
    BY <1>3, <1>5, <1>6, <2>1 DEF Based
  <2> QED BY <1>1, <1>5, <2>2, BasedSame
<1>9. ForkIndex' = ForkIndex
  <2>1. ForkIndex' = Len(new_block.prev) - (Len(Branch) - 1) + (Len(N) - 1)
    BY <1>1, <1>5, <1>7 DEF ForkIndex
  <2>2. Len(new_block.prev) \in Nat
    BY <1>2
  <2>3. ForkIndex = Len(new_block.prev) - Len(Branch) + Len(N)
    BY <1>2
  <2> QED BY <1>0, <2>1, <2>3
<1>10. ForkIndex \in 1 .. Len(N) - 1
  BY <1>0
<1>11. \A i \in 1 .. Len(N) - 1 : i \in 1 .. Len(N)
  BY <1>3
<1>12. UnwindInv'
  <2>1. Message(new_block, Len(new_block.prev))'
    BY <1>1, <1>2 DEF Message
  <2>2. native_blocks'[ForkIndex] = N[ForkIndex]
    BY <1>1, <1>5, <1>10
  <2>3. /\ native_blocks[ForkIndex].id = new_block.prev
        /\ EvmNum(native_blocks[ForkIndex]) = NumberOf(new_block.prev)
    BY <1>1 DEF Ready, CacheInv, UnwindInv
  <2>4. \A i \in 1 .. Len(native_blocks') : Firm(native_blocks[i].id)' => i <= ForkIndex
    <3>1. \A i \in 1 .. Len(Front(N)) : i \in 1 .. Len(N) /\ Front(N)[i].id = N[i].id
      BY <1>5, <1>11
    <3>2. \A i \in 1 .. Len(N) : Firm(N[i].id) => i <= ForkIndex
      BY <1>2
    <3> HIDE DEF N
    <3>3. \A i \in 1 .. Len(native_blocks') : native_blocks'[i].id = N[i].id /\ i \in 1 .. Len(N)
      BY <1>1, <3>1
    <3>4. UNCHANGED best /\ UNCHANGED lib
      OBVIOUS
    <3> QED BY <3>2, <3>3, <3>4 DEF Firm
  <2>5. \A i \in 1 .. Len(evm_blocks') : Unwound(evm_blocks'[i], new, new_block.prev)
    BY RemovalUnwinds
  <2>6. ForkIndex \in 1 .. Len(native_blocks')
    BY <1>1, <1>5, <1>10
  <2>7. pc' = "unwind" /\ new_block' = new_block /\ new_block.prev # <<>>
    BY <1>1, <1>2
  <2>8. /\ native_blocks'[ForkIndex].id = new_block.prev
        /\ EvmNum(native_blocks'[ForkIndex]) = NumberOf(new_block.prev)
    BY <2>2, <2>3
  <2> HIDE DEF N, new
  <2> QED BY <1>7, <1>9, <2>1, <2>4, <2>5, <2>6, <2>7, <2>8 DEF UnwindInv
<1>13. LibInv'
  <2>1. LibInv
    BY <1>1 DEF Ready, CacheInv
  <2>2. LibComputed' => LibComputed
    BY <1>1 DEF LibComputed
  <2>3. \A i \in 1 .. Len(N) : Firm(N[i].id) => i \in 1 .. Len(N) - 1
    <3>1. \A i \in 1 .. Len(N) : Firm(N[i].id) => i <= ForkIndex
      BY <1>2
    <3>2. \A i \in 1 .. Len(N) : i <= ForkIndex => i \in 1 .. Len(N) - 1
      BY <1>0
    <3> QED BY <3>1, <3>2
  <2>4. \A i \in 1 .. Len(N) : Firm(N[i].id) => i \in 1 .. Len(Front(N)) /\ Front(N)[i].id = N[i].id
    BY <1>5, <2>3
  <2> QED BY <1>1, <2>1, <2>2, <2>4, LibSame
<1>14. IdleInv' /\ ExtendInv' /\ FillInv'
  BY <1>1 DEF IdleInv, ExtendInv, FillInv
<1> QED BY <1>8, <1>12, <1>13, <1>14 DEF CacheInv

\* Before the last EVM block, numbers are lower.
LEMMA LowerThanBack ==
  ASSUME Ready, pc # "exited", NEW i \in 1 .. Len(evm_blocks), i # Len(evm_blocks)
  PROVE  /\ evm_blocks[i].number < back.number
         /\ i \in 1 .. Len(evm_blocks) - 1
<1>1. evm_blocks \in Seq(EvmBlock) /\ Len(evm_blocks) \in Nat
  BY ReadyFacts
<1>2. i \in 1 .. Len(evm_blocks) - 1 /\ Len(evm_blocks) \in i .. Len(evm_blocks) /\ i \in Nat
  BY <1>1
<1> DEFINE n == Len(evm_blocks)
<1>3. n \in 1 .. n
  BY <1>1, <1>2
<1>4. evm_blocks[i].number \in Nat /\ evm_blocks[n].number \in Nat
  BY <1>3, ReadyFacts
<1>5. evm_blocks[n].number = evm_blocks[i].number + (n - i)
  BY <1>1, <1>2, Ascending DEF Ready
<1> DEFINE a == evm_blocks[i].number
           z == evm_blocks[n].number
<1>6. a \in Nat /\ z \in Nat /\ z = a + (n - i)
  BY <1>4, <1>5
<1>7. n \in Nat /\ i \in Nat /\ i < n
  BY <1>1, <1>2
<1>8. back.number = z
  BY DEF back, Last
<1> HIDE DEF a, z, n
<1>9. a < z
  BY <1>6, <1>7
<1> QED BY <1>2, <1>8, <1>9 DEF a

LEMMA ResetUpperBoundKeeps ==
  ASSUME HistoriesAreIds, CleanStart, Ready, UNCHANGED <<best, lib>>, ResetUpperBound
  PROVE  CacheInv'
<1> DEFINE N == native_blocks
           E == evm_blocks
           p == new_block.prev
           b == set_upper_bound(back, Last(N))
<1>1. /\ pc = "unwind" /\ ~NativeBlockIsForked /\ pc' = "extend" /\ E # <<>>
      /\ EvmNum(Last(N)) = back.number /\ evm_blocks' = WithBack(E, b)
      /\ native_blocks' = Append(N, new_block) /\ UNCHANGED evm_lib /\ UNCHANGED new_block
      /\ UNCHANGED exec_engine /\ UNCHANGED published
  BY DEF ResetUpperBound, shared, locals
<1>2. /\ Message(new_block, Len(p)) /\ p \in Histories /\ p # <<>> /\ Len(p) \in 1 .. Len(Branch)
      /\ ForkIndex = Len(p) - Len(Branch) + Len(N)
      /\ NumberOf(p) = Number(Branch[Len(p)]) /\ NumberOf(p) > StartBlock.number
      /\ \A j \in 1 .. Len(E) : Unwound(E[j], Branch, p)
  BY <1>1, UnwindFacts
<1>3. NumberOf(p) \in Nat /\ StartBlock.number \in Nat
  BY <1>1, UnwindFacts, StartNumber
<1>4. /\ N \in Seq(NativeBlock) /\ N # <<>> /\ Len(N) \in Nat \ {0} /\ Branch = Last(N).id
      /\ E \in Seq(EvmBlock) /\ Len(E) \in Nat
      /\ \A j \in 1 .. Len(E) : E[j] \in EvmBlock /\ E[j].number \in Nat
      /\ best \in Histories /\ Timed(best)
  BY <1>1, ReadyFacts DEF Branch
<1>5. Branch = p
  BY <1>1, <1>4 DEF NativeBlockIsForked
<1>6. back.number = NumberOf(p)
  <2>1. ForkIndex = Len(N)
    <3>1. Len(p) \in Nat /\ Len(N) \in Nat
      BY <1>2, <1>4
    <3>2. ForkIndex = Len(p) - Len(p) + Len(N)
      BY <1>2, <1>5
    <3> QED BY <3>1, <3>2
  <2>2. EvmNum(N[ForkIndex]) = NumberOf(p)
    BY <1>1 DEF Ready, CacheInv, UnwindInv
  <2> QED BY <1>1, <2>1, <2>2 DEF Last
<1>7. back \in EvmBlock /\ back = E[Len(E)] /\ Len(E) \in 1 .. Len(E)
  <2>1. Len(E) \in 1 .. Len(E)
    BY <1>1, <1>4, EmptySeq
  <2> QED BY <1>4, <2>1 DEF back, Last
<1>8. /\ b \in EvmBlock /\ b.number = back.number /\ b.prev_randao = p
      /\ b.transactions = back.transactions
  <2>1. Last(N) \in NativeBlock
    BY <1>4, FrontFacts
  <2>2. b \in EvmBlock
    BY <1>7, <2>1, UpperBoundType
  <2> QED BY <1>4, <1>5, <1>7, <2>2 DEF set_upper_bound, EvmBlock
<1> HIDE DEF b
<1>9. /\ Len(evm_blocks') = Len(E)
      /\ \A j \in 1 .. Len(E) - 1 : evm_blocks'[j] = E[j]
      /\ evm_blocks'[Len(E)] = b
  <2>1. E \in Seq(EvmBlock) /\ E # <<>> /\ b \in EvmBlock
    BY <1>1, <1>4, <1>8
  <2>2. /\ Len(WithBack(E, b)) = Len(E)
        /\ \A j \in 1 .. Len(E) - 1 : WithBack(E, b)[j] = E[j]
        /\ WithBack(E, b)[Len(E)] = b
    BY <2>1, WithBackFacts
  <2> QED BY <1>1, <2>2
<1>10. UpperBoundOf(p, NumberOf(p)) = p
  <2>1. Len(p) \in 1 .. Len(p) /\ Prefix(p, Len(p)) = p
    BY <1>2, <1>5, FullPrefix
  <2>2. NumberOf(p) = Number(p[Len(p)])
    BY <1>2, <1>5
  <2> QED BY <1>2, <2>1, <2>2, UpperBoundOfTip
<1>11. ASSUME NEW i \in 1 .. Len(evm_blocks')
       PROVE  Good(evm_blocks'[i], p)
  <2>1. CASE i = Len(E)
    <3>1. Unwound(back, p, p)
      BY <1>2, <1>5, <1>7
    <3>2. b.number = NumberOf(p) /\ b.number > StartBlock.number
      BY <1>2, <1>6, <1>8
    <3>3. b.number # StartBlock.number /\ b.number >= StartBlock.number
      BY <1>3, <3>2
    <3>4. back.transactions = TransactionsOf(p, back.number)
      BY <1>6, <1>2, <3>1 DEF Unwound
    <3>5. Holds(b, p)
      BY <1>6, <1>8, <1>10, <3>4 DEF Holds
    <3> QED BY <1>9, <2>1, <3>3, <3>5 DEF Good
  <2>2. CASE i # Len(E)
    <3>1. i \in 1 .. Len(E)
      BY <1>9
    <3>2. E[i].number < back.number /\ i \in 1 .. Len(E) - 1
      BY <1>1, <2>2, <3>1, LowerThanBack
    <3>3. evm_blocks'[i] = E[i] /\ Unwound(E[i], p, p) /\ E[i].number < NumberOf(p)
      BY <1>2, <1>5, <1>6, <1>9, <3>1, <3>2
    <3> QED BY <3>3 DEF Unwound, Good, Holds
  <2> QED BY <2>1, <2>2
<1>12. /\ Window(Append(N, new_block)) /\ Based(Append(N, new_block))
       /\ Last(Append(N, new_block)) = new_block
       /\ Len(Append(N, new_block)) = Len(N) + 1
       /\ \A i \in 1 .. Len(N) : Append(N, new_block)[i] = N[i]
  <2>1. new_block \in NativeBlock
    BY <1>1 DEF Ready, TypedLists, TypeOK
  <2> QED BY <1>1, <1>2, <1>5, <2>1, BasedAppend
<1> DEFINE t == Append(N, new_block)
<1>13. Window(native_blocks)' /\ Based(native_blocks)'
  BY <1>1, <1>12, BasedSame
<1>14. NumberOf(p) <= NumberOf(new_block.id)
  <2> DEFINE c == Len(p)
             id == new_block.id
  <2>1. c \in Nat /\ id \in Histories /\ Len(id) = c + 1 /\ Timed(id) /\ p = Prefix(id, c)
    BY <1>2, <1>4, MessageFacts
  <2>2. Prefix(id, c + 1) = id
    BY <2>1, FullPrefix
  <2> HIDE DEF c, id
  <2>3. c \in 0 .. Len(id) /\ c + 1 \in c .. Len(id)
    BY <2>1
  <2>4. NumberOf(Prefix(id, c)) <= NumberOf(Prefix(id, c + 1))
    BY <2>1, <2>3, NumberOfMonotonic
  <2> QED BY <2>1, <2>2, <2>4 DEF id
<1>15. ExtendInv'
  <2>1. Message(new_block, Len(p))'
    BY <1>1, <1>2 DEF Message
  <2>2. Last(evm_blocks') = b
    BY <1>9 DEF Last
  <2>3. b.number = NumberOf(p)
    BY <1>6, <1>8
  <2>4. Last(native_blocks') = new_block /\ Len(native_blocks') > 1
    <3>1. Len(N) \in Nat /\ Len(N) # 0
      BY <1>4
    <3> DEFINE n == Len(N)
    <3>2. n + 1 > 1
      BY <3>1
    <3> QED BY <1>1, <1>12, <3>2
  <2>5. NumberOf(p) <= b.number
    BY <1>3, <2>3
  <2>6. b.number <= NumberOf(new_block.id)
    BY <1>14, <2>3
  <2>7. pc' = "extend" /\ new_block' = new_block
    BY <1>1
  <2> HIDE DEF E
  <2> QED BY <1>11, <2>1, <2>2, <2>4, <2>5, <2>6, <2>7 DEF ExtendInv
<1>16. LibInv'
  <2>1. LibInv
    BY <1>1 DEF Ready, CacheInv
  <2>2. LibComputed' => LibComputed
    BY <1>1 DEF LibComputed
  <2> HIDE DEF t
  <2>3. native_blocks' = t /\ Len(t) = Len(N) + 1 /\ \A i \in 1 .. Len(N) : t[i] = N[i]
    BY <1>1, <1>12 DEF t
  <2>4. \A i \in 1 .. Len(N) : i \in 1 .. Len(t)
    BY <1>4, <2>3
  <2> QED BY <1>1, <2>1, <2>2, <2>3, <2>4, LibSame
<1>17. IdleInv' /\ UnwindInv' /\ FillInv'
  BY <1>1 DEF IdleInv, UnwindInv, FillInv
<1> QED BY <1>13, <1>15, <1>16, <1>17 DEF CacheInv

-----------------------------------------------------------------------------
(* Extending the EVM chain keeps the invariant *)

\* A branch says nothing of the EVM blocks after that of its tip.
LEMMA BeyondTip ==
  ASSUME HistoriesAreIds, CleanStart, NEW id \in Histories, Timed(id),
         NEW m \in Nat, NumberOf(id) < m
  PROVE  UpperBoundOf(id, m) = Zero /\ TransactionsOf(id, m) = <<>>
<1> DEFINE n == Len(id)
<1>1. n \in Nat /\ Prefix(id, n) = id /\ Prefix(id, 0) = <<>> /\ 0 \in 0 .. n /\ n \in 0 .. n
  BY FullPrefix
<1>2. \A j \in 1 .. n : Number(id[j]) # m
  <2> TAKE j \in 1 .. n
  <2>1. n \in j .. n /\ n \in 1 .. n
    BY <1>1
  <2>2. Number(id[j]) <= Number(id[n]) /\ Number(id[j]) \in Nat /\ Number(id[n]) \in Nat
    BY <2>1, TimedNumbers, PositionFacts, NumberType
  <2>3. NumberOf(Prefix(id, n)) = Number(id[n])
    BY <2>1, PositionFacts
  <2>4. Number(id[n]) < m
    BY <1>1, <2>3
  <2> QED BY <2>2, <2>4
<1>3. \A j \in 0 + 1 .. n : Number(id[j]) # m
  BY <1>2
<1>4. TransactionsOf(Prefix(id, n), m) = TransactionsOf(Prefix(id, 0), m)
  BY <1>1, <1>3, TransactionsStable
<1>5. UpperBoundOf(Prefix(id, n), m) = Zero
  BY <1>1, <1>2, UpperBoundIs DEF LastOf
<1> QED BY <1>1, <1>4, <1>5, TransactionsEmpty

\* What holds what some branch says is genuine.
LEMMA GoodGenuine ==
  ASSUME HistoriesAreIds, CleanStart, NEW id \in Histories, NEW b, Good(b, id)
  PROVE  Genuine(b)
<1> DEFINE n == Len(id)
           m == b.number
<1> SUFFICES ASSUME m > StartBlock.number
             PROVE  IF b.prev_randao = Zero
                    THEN b.transactions = <<>>
                    ELSE /\ NumberOf(b.prev_randao) = b.number
                         /\ b.transactions = TransactionsOf(b.prev_randao, b.number)
  BY DEF Genuine
<1>1. n \in Nat /\ Prefix(id, n) = id /\ Prefix(id, 0) = <<>> /\ 0 \in 0 .. n /\ n \in 0 .. n
  BY FullPrefix
<1>2. b.prev_randao = UpperBoundOf(id, m) /\ b.transactions = TransactionsOf(id, m)
  BY DEF Good, Holds
<1> HIDE DEF m
<1>3. CASE UpperBoundOf(Prefix(id, n), m) = Zero /\ \A j \in 1 .. n : Number(id[j]) # m
  <2>1. \A j \in 0 + 1 .. n : Number(id[j]) # m
    BY <1>3
  <2>2. TransactionsOf(Prefix(id, n), m) = TransactionsOf(Prefix(id, 0), m)
    BY <1>1, <2>1, TransactionsStable
  <2>3. b.transactions = <<>> /\ b.prev_randao = Zero
    BY <1>1, <1>2, <1>3, <2>2, TransactionsEmpty
  <2> QED BY <2>3
<1>4. ASSUME NEW k \in 1 .. n, LastOf(id, n, m, k), UpperBoundOf(Prefix(id, n), m) = Prefix(id, k)
      PROVE  /\ b.prev_randao # Zero /\ NumberOf(b.prev_randao) = m
             /\ b.transactions = TransactionsOf(b.prev_randao, m)
  <2>1. k \in 0 .. n /\ Number(id[k]) = m /\ \A j \in k + 1 .. n : Number(id[j]) # m
    BY <1>4 DEF LastOf
  <2>2. b.prev_randao = Prefix(id, k)
    BY <1>1, <1>2, <1>4
  <2>3. Prefix(id, k) \in Histories /\ NumberOf(Prefix(id, k)) = m
    BY <1>4, <2>1, PrefixType, PositionFacts
  <2>4. Prefix(id, k) # Zero
    BY <2>3 DEF CleanStart
  <2>5. TransactionsOf(Prefix(id, n), m) = TransactionsOf(Prefix(id, k), m)
    BY <1>1, <2>1, TransactionsStable
  <2> QED BY <1>1, <1>2, <2>2, <2>3, <2>4, <2>5
<1>5. \/ UpperBoundOf(Prefix(id, n), m) = Zero /\ \A j \in 1 .. n : Number(id[j]) # m
      \/ \E k \in 1 .. n : LastOf(id, n, m, k) /\ UpperBoundOf(Prefix(id, n), m) = Prefix(id, k)
  BY <1>1, UpperBoundIs
<1> QED BY <1>3, <1>4, <1>5 DEF m

\* The new block is known where the handler works on it.
LEMMA NewBlockFacts ==
  ASSUME Ready, pc \in {"extend", "fill"}
  PROVE  LET p == new_block.prev
             id == new_block.id
         IN  /\ Message(new_block, Len(p)) /\ new_block \in NativeBlock
             /\ p \in Histories /\ Timed(p) /\ Len(p) \in Nat
             /\ id \in Histories /\ Timed(id) /\ Len(id) = Len(p) + 1 /\ id # <<>>
             /\ p = Prefix(id, Len(p))
             /\ EvmNum(new_block) = NumberOf(id) /\ NumberOf(id) = Number(id[Len(id)])
             /\ new_block.actions = id[Len(id)].actions
             /\ new_block.new_config = id[Len(id)].new_config
             /\ Last(native_blocks) = new_block /\ Len(native_blocks) > 1
             /\ evm_blocks \in Seq(EvmBlock) /\ evm_blocks # <<>>
             /\ Len(evm_blocks) \in 1 .. Len(evm_blocks)
             /\ back = evm_blocks[Len(evm_blocks)] /\ back \in EvmBlock /\ back.number \in Nat
<1> DEFINE p == new_block.prev
           id == new_block.id
<1>1. /\ Message(new_block, Len(p)) /\ Last(native_blocks) = new_block /\ Len(native_blocks) > 1
  BY DEF Ready, CacheInv, ExtendInv, FillInv
<1>2. new_block \in NativeBlock /\ evm_blocks # <<>>
  BY DEF Ready, TypedLists, TypeOK, ListsReadable
<1>3. /\ best \in Histories /\ Timed(best) /\ evm_blocks \in Seq(EvmBlock) /\ Len(evm_blocks) \in Nat
      /\ \A i \in 1 .. Len(evm_blocks) : evm_blocks[i] \in EvmBlock /\ evm_blocks[i].number \in Nat
  BY ReadyFacts
<1>4. /\ p \in Histories /\ Timed(p) /\ Len(p) \in Nat
      /\ id \in Histories /\ Timed(id) /\ Len(id) = Len(p) + 1 /\ id # <<>>
      /\ p = Prefix(id, Len(p))
      /\ new_block.actions = id[Len(p) + 1].actions
      /\ new_block.new_config = id[Len(p) + 1].new_config
      /\ EvmNum(new_block) = Number(id[Len(p) + 1]) /\ EvmNum(new_block) = NumberOf(id)
  BY <1>1, <1>3, MessageFacts
<1>5. Len(evm_blocks) \in 1 .. Len(evm_blocks)
  BY <1>2, <1>3, EmptySeq
<1>6. back = evm_blocks[Len(evm_blocks)] /\ back \in EvmBlock /\ back.number \in Nat
  BY <1>3, <1>5 DEF back, Last
<1> QED BY <1>1, <1>2, <1>3, <1>4, <1>5, <1>6

LEMMA ExtendEvmChainKeeps ==
  ASSUME HistoriesAreIds, CleanStart, Ready, UNCHANGED <<best, lib>>, ExtendEvmChain
  PROVE  CacheInv' /\ Genuine(Sealed(back))
<1> DEFINE E == evm_blocks
           p == new_block.prev
           b == Sealed(back)
           g == generate_new_evm_block(b)
           u == WithBack(E, b)
<1>1. /\ pc = "extend" /\ pc' = "extend" /\ back.number < EvmNum(new_block)
      /\ UNCHANGED native_blocks /\ UNCHANGED evm_lib /\ UNCHANGED new_block
      /\ UNCHANGED exec_engine
  BY DEF ExtendEvmChain, locals
<1>2. evm_blocks' = Append(u, g)
  BY ExtendEffect
<1>3. /\ p \in Histories /\ Timed(p) /\ EvmNum(new_block) = NumberOf(new_block.id)
      /\ back = E[Len(E)] /\ back \in EvmBlock /\ Len(E) \in 1 .. Len(E)
  BY <1>1, NewBlockFacts
<1>4. E \in Seq(EvmBlock) /\ E # <<>> /\ Len(E) \in Nat
  BY <1>1, NewBlockFacts, ReadyFacts
<1>5. /\ NumberOf(p) <= back.number /\ back.number <= NumberOf(new_block.id)
      /\ \A i \in 1 .. Len(E) : Good(E[i], p)
      /\ Message(new_block, Len(p))
      /\ Last(native_blocks) = new_block /\ Len(native_blocks) > 1
  BY <1>1 DEF Ready, CacheInv, ExtendInv, back
<1>6. /\ b \in EvmBlock /\ b.number = back.number /\ b.prev_randao = back.prev_randao
      /\ b.transactions = back.transactions
  BY <1>3, SealedType DEF Sealed, EvmBlock
<1> HIDE DEF b
<1>7. g \in EvmBlock /\ g.number = b.number + 1 /\ g.prev_randao = Zero /\ g.transactions = <<>>
  BY <1>6, GeneratedType DEF generate_new_evm_block
<1> HIDE DEF g
<1>8. /\ u \in Seq(EvmBlock) /\ Len(u) = Len(E)
      /\ \A i \in 1 .. Len(E) - 1 : u[i] = E[i]
      /\ u[Len(E)] = b
  BY <1>4, <1>6, WithBackFacts
<1> HIDE DEF u
<1>9. /\ Len(evm_blocks') = Len(E) + 1
      /\ \A i \in 1 .. Len(E) : evm_blocks'[i] = u[i]
      /\ evm_blocks'[Len(E) + 1] = g
  BY <1>2, <1>7, <1>8, AppendProperties
<1>10. NumberOf(p) \in Nat /\ NumberOf(p) >= StartBlock.number
  <2>1. Len(p) \in Nat /\ Prefix(p, Len(p)) = p
    BY <1>3, FullPrefix
  <2>2. Len(p) \in 0 .. Len(p) /\ Len(p) \in Len(p) .. Len(p)
    BY <2>1
  <2>3. NumberOf(Prefix(p, Len(p))) \in Nat /\ NumberOf(Prefix(p, Len(p))) >= StartBlock.number
    BY <1>3, <2>2, NumberOfMonotonic
  <2> QED BY <2>1, <2>3
<1>11. b.number \in Nat /\ g.number \in Nat /\ StartBlock.number \in Nat
  BY <1>6, <1>7, StartNumber DEF EvmBlock
<1>12. Good(back, p)
  BY <1>3, <1>5
<1>13. Good(b, p)
  BY <1>6, <1>12 DEF Good, Holds
<1>14. Good(g, p)
  <2>1. NumberOf(p) < g.number
    BY <1>5, <1>6, <1>7, <1>10, <1>11
  <2>2. UpperBoundOf(p, g.number) = Zero /\ TransactionsOf(p, g.number) = <<>>
    BY <1>3, <1>11, <2>1, BeyondTip
  <2>3. g.number > StartBlock.number
    BY <1>10, <1>11, <2>1
  <2>4. g.number # StartBlock.number /\ g.number >= StartBlock.number
    BY <1>11, <2>3
  <2> QED BY <1>7, <2>2, <2>4 DEF Good, Holds
<1>15. \A i \in 1 .. Len(evm_blocks') : Good(evm_blocks'[i], p)
  <2> TAKE i \in 1 .. Len(evm_blocks')
  <2>1. i \in 1 .. Len(E) - 1 \/ i = Len(E) \/ i = Len(E) + 1
    BY <1>4, <1>9
  <2>2. CASE i \in 1 .. Len(E) - 1
    <3>1. i \in 1 .. Len(E)
      BY <1>4, <2>2
    <3> QED BY <1>5, <1>8, <1>9, <2>2, <3>1
  <2>3. CASE i = Len(E)
    BY <1>3, <1>8, <1>9, <1>13, <2>3
  <2>4. CASE i = Len(E) + 1
    BY <1>9, <1>14, <2>4
  <2> QED BY <2>1, <2>2, <2>3, <2>4
<1>16. ExtendInv'
  <2>1. Last(evm_blocks') = g
    BY <1>9 DEF Last
  <2>2. NumberOf(p) <= g.number
    BY <1>5, <1>6, <1>7, <1>10, <1>11
  <2>3. g.number <= NumberOf(new_block.id)
    <3>1. b.number < NumberOf(new_block.id) /\ g.number = b.number + 1
      BY <1>1, <1>3, <1>6, <1>7
    <3>2. NumberOf(new_block.id) \in Nat
      <4>1. new_block.timestamp \in Nat
        BY <1>1, NewBlockFacts DEF NativeBlock
      <4> QED BY <1>3, <4>1, EvmNumType DEF EvmNum
    <3> QED BY <1>11, <3>1, <3>2
  <2>4. Message(new_block, Len(p))'
    BY <1>1, <1>5 DEF Message
  <2>5. new_block' = new_block /\ native_blocks' = native_blocks
    BY <1>1
  <2> QED BY <1>5, <1>15, <2>1, <2>2, <2>3, <2>4, <2>5 DEF ExtendInv
<1>17. Window(native_blocks)' /\ Based(native_blocks)'
  BY <1>1, ReadyFacts, BasedSame
<1>18. LibInv'
  <2>1. LibInv
    BY <1>1 DEF Ready, CacheInv
  <2>2. LibComputed' => LibComputed
    BY <1>1 DEF LibComputed
  <2> QED BY <1>1, <2>1, <2>2 DEF LibInv, Firm
<1>19. IdleInv' /\ UnwindInv' /\ FillInv'
  BY <1>1 DEF IdleInv, UnwindInv, FillInv
<1>20. Genuine(b)
  BY <1>3, <1>13, GoodGenuine
<1> QED BY <1>16, <1>17, <1>18, <1>19, <1>20 DEF CacheInv, b

LEMMA ApplyConfigKeeps ==
  ASSUME HistoriesAreIds, CleanStart, Ready, UNCHANGED <<best, lib>>, ApplyConfig
  PROVE  CacheInv'
<1> DEFINE E  == evm_blocks
           p  == new_block.prev
           id == new_block.id
           c  == [back EXCEPT !.consensus_parameter_index = new_block.new_config]
<1>1. /\ pc = "extend" /\ pc' = "fill" /\ back.number >= EvmNum(new_block)
      /\ evm_blocks' = E \/ evm_blocks' = WithBack(E, c)
      /\ pending' = new_block.actions
      /\ UNCHANGED native_blocks /\ UNCHANGED evm_lib /\ UNCHANGED new_block
      /\ UNCHANGED exec_engine
  BY DEF ApplyConfig
<1>2. /\ p \in Histories /\ Timed(p) /\ Len(p) \in Nat
      /\ id \in Histories /\ Timed(id) /\ Len(id) = Len(p) + 1 /\ id # <<>> /\ p = Prefix(id, Len(p))
      /\ EvmNum(new_block) = NumberOf(id) /\ NumberOf(id) = Number(id[Len(id)])
      /\ new_block.actions = id[Len(id)].actions
      /\ back = E[Len(E)] /\ back \in EvmBlock /\ back.number \in Nat /\ Len(E) \in 1 .. Len(E)
  BY <1>1, NewBlockFacts
<1>3. E \in Seq(EvmBlock) /\ E # <<>> /\ Len(E) \in Nat /\ new_block \in NativeBlock
  BY <1>1, NewBlockFacts, ReadyFacts
<1>4. /\ back.number <= NumberOf(id)
      /\ \A i \in 1 .. Len(E) : Good(E[i], p)
      /\ Message(new_block, Len(p))
      /\ Last(native_blocks) = new_block /\ Len(native_blocks) > 1
  BY <1>1 DEF Ready, CacheInv, ExtendInv, back
<1>5. NumberOf(id) \in Nat /\ NumberOf(id) > StartBlock.number /\ StartBlock.number \in Nat
  <2>1. Len(id) \in 1 .. Len(id)
    BY <1>2
  <2> QED BY <1>2, <2>1, PositionFacts, NumberType, StartNumber DEF Timed
<1>6. back.number = NumberOf(id)
  BY <1>1, <1>2, <1>4, <1>5
<1>7. /\ Len(evm_blocks') = Len(E)
      /\ \A i \in 1 .. Len(E) - 1 : evm_blocks'[i] = E[i]
      /\ evm_blocks'[Len(E)].number = back.number
      /\ evm_blocks'[Len(E)].transactions = back.transactions
  <2>1. CASE evm_blocks' = E
    <3>1. \A i \in 1 .. Len(E) - 1 : i \in 1 .. Len(E)
      BY <1>3
    <3> QED BY <1>2, <2>1
  <2>2. CASE evm_blocks' = WithBack(E, c)
    <3>1. c \in EvmBlock /\ c.number = back.number /\ c.transactions = back.transactions
      BY <1>2, <1>3 DEF EvmBlock, NativeBlock
    <3> HIDE DEF c
    <3>2. /\ Len(WithBack(E, c)) = Len(E)
          /\ \A i \in 1 .. Len(E) - 1 : WithBack(E, c)[i] = E[i]
          /\ WithBack(E, c)[Len(E)] = c
      BY <1>3, <3>1, WithBackFacts
    <3> QED BY <2>2, <3>1, <3>2
  <2> QED BY <1>1, <2>1, <2>2
<1>8. ASSUME NEW i \in 1 .. Len(E) - 1
      PROVE  Good(evm_blocks'[i], id)
  <2>1. i \in 1 .. Len(E) /\ i # Len(E)
    BY <1>3
  <2>2. E[i].number < back.number /\ Good(E[i], p)
    BY <1>1, <1>4, <2>1, LowerThanBack
  <2>3. E[i].number \in Nat
    BY <1>1, <2>1, ReadyFacts
  <2>4. Holds(E[i], p) <=> Holds(E[i], id)
    <3>1. \A j \in Len(p) + 1 .. Len(id) : Number(id[j]) # E[i].number
      <4> TAKE j \in Len(p) + 1 .. Len(id)
      <4>1. j = Len(id)
        BY <1>2
      <4>2. Number(id[j]) = NumberOf(id)
        BY <1>2, <4>1
      <4> QED BY <1>5, <1>6, <2>2, <2>3, <4>2
    <3>2. Len(id) \in 0 .. Len(id) /\ Len(p) \in 0 .. Len(id)
      BY <1>2
    <3>3. Holds(E[i], Prefix(id, Len(id))) <=> Holds(E[i], Prefix(id, Len(p)))
      BY <1>2, <3>1, <3>2, HoldsStable
    <3> QED BY <1>2, <3>3, FullPrefix
  <2> QED BY <1>7, <2>2, <2>4 DEF Good
<1>9. back.transactions \o TransactionsOfActions(new_block.actions) = TransactionsOf(id, back.number)
  <2>1. back.number > StartBlock.number /\ Good(back, p)
    BY <1>2, <1>4, <1>5, <1>6
  <2>2. back.transactions = TransactionsOf(p, back.number)
    BY <2>1 DEF Good, Holds
  <2>3. Number(id[Len(id)]) = back.number /\ Len(id) - 1 = Len(p)
    BY <1>2, <1>6
  <2>4. TransactionsOf(id, back.number)
          = TransactionsOf(Prefix(id, Len(id) - 1), back.number) \o TransactionsIn(id[Len(id)])
    BY <1>2, <2>3, TransactionsTip
  <2>5. TransactionsIn(id[Len(id)]) = TransactionsOfActions(new_block.actions)
    BY <1>2 DEF TransactionsIn, TransactionsOfActions
  <2> QED BY <1>2, <2>2, <2>3, <2>4, <2>5
<1>10. FillInv'
  <2>1. Message(new_block, Len(p))'
    BY <1>1, <1>4 DEF Message
  <2>2. Last(evm_blocks') = evm_blocks'[Len(E)]
    BY <1>7 DEF Last
  <2>3. new_block' = new_block /\ native_blocks' = native_blocks
    BY <1>1
  <2>4. Last(evm_blocks').number = NumberOf(id)
    BY <1>6, <1>7, <2>2
  <2>5. Last(evm_blocks').transactions \o TransactionsOfActions(pending')
          = TransactionsOf(id, Last(evm_blocks').number)
    BY <1>1, <1>7, <1>9, <2>2
  <2>6. \A i \in 1 .. Len(evm_blocks') - 1 : Good(evm_blocks'[i], id)
    BY <1>7, <1>8
  <2> QED BY <1>4, <2>1, <2>3, <2>4, <2>5, <2>6 DEF FillInv
<1>11. Window(native_blocks)' /\ Based(native_blocks)'
  BY <1>1, ReadyFacts, BasedSame
<1>12. LibInv'
  <2>1. LibInv
    BY <1>1 DEF Ready, CacheInv
  <2>2. LibComputed' => LibComputed
    BY <1>1 DEF LibComputed
  <2> QED BY <1>1, <2>1, <2>2 DEF LibInv, Firm
<1>13. IdleInv' /\ UnwindInv' /\ ExtendInv'
  BY <1>1 DEF IdleInv, UnwindInv, ExtendInv
<1> QED BY <1>10, <1>11, <1>12, <1>13 DEF CacheInv

-----------------------------------------------------------------------------
(* Adding transactions keeps the invariant *)

LEMMA MoveHead ==
  ASSUME NEW S, NEW s \in Seq(S), NEW t \in Seq(S), t # <<>>
  PROVE  Append(s, Head(t)) \o Tail(t) = s \o t
<1> DEFINE u == Append(s, Head(t))
<1>1. Head(t) \in S /\ Tail(t) \in Seq(S)
  BY HeadTailProperties
<1>2. u = s \o <<Head(t)>> /\ <<Head(t)>> \in Seq(S)
  BY <1>1, AppendIsConcat
<1>3. u \o Tail(t) = s \o (<<Head(t)>> \o Tail(t))
  BY <1>1, <1>2, ConcatAssociative
<1>4. <<Head(t)>> \o Tail(t) = t
  <2>1. /\ Len(Tail(t)) = Len(t) - 1 /\ Len(t) \in Nat
        /\ \A i \in 1 .. Len(Tail(t)) : Tail(t)[i] = t[i + 1]
        /\ Head(t) = t[1]
    BY HeadTailProperties, LenProperties
  <2> DEFINE v == <<Head(t)>> \o Tail(t)
  <2>2. v \in Seq(S) /\ Len(v) = 1 + Len(Tail(t))
    BY <1>1, <1>2, ConcatProperties
  <2>3. \A i \in 1 .. Len(v) : v[i] = t[i]
    <3> TAKE i \in 1 .. Len(v)
    <3>1. v[i] = IF i <= 1 THEN <<Head(t)>>[i] ELSE Tail(t)[i - 1]
      BY <1>1, <1>2, <2>2, ConcatProperties
    <3> QED BY <2>1, <2>2, <3>1
  <2> QED BY <2>1, <2>2, <2>3, SeqEqual
<1> QED BY <1>3, <1>4

LEMMA ActionsFacts ==
  ASSUME NEW s \in Seq(NativeAction)
  PROVE  /\ TransactionsOfActions(s) \in Seq(Tx)
         /\ s = <<>> => TransactionsOfActions(s) = <<>>
         /\ s # <<>> => /\ TransactionsOfActions(s) # <<>>
                        /\ Head(TransactionsOfActions(s)) = Head(s).rlpx.tx
                        /\ Tail(TransactionsOfActions(s)) = TransactionsOfActions(Tail(s))
<1>1. \A t \in Seq(NativeAction) :
        /\ TransactionsOfActions(t) \in Seq(Tx) /\ Len(TransactionsOfActions(t)) = Len(t)
        /\ \A i \in 1 .. Len(t) : TransactionsOfActions(t)[i] = t[i].rlpx.tx
        /\ Len(t) \in Nat
  <2> TAKE t \in Seq(NativeAction)
  <2>1. /\ Len(t) \in Nat /\ DOMAIN t = 1 .. Len(t)
        /\ \A i \in 1 .. Len(t) : t[i] \in NativeAction
    BY LenProperties, ElementOfSeq
  <2>2. \A i \in 1 .. Len(t) : t[i].rlpx.tx \in Tx
    BY <2>1 DEF NativeAction, Rlpx
  <2> QED BY <2>1, <2>2 DEF TransactionsOfActions
<1> DEFINE u == TransactionsOfActions(s)
<1>2. u \in Seq(Tx) /\ Len(u) = Len(s) /\ Len(s) \in Nat /\ \A i \in 1 .. Len(s) : u[i] = s[i].rlpx.tx
  BY <1>1
<1> HIDE DEF u
<1>3. ASSUME s = <<>> PROVE u = <<>>
  <2>1. Len(u) = 0
    BY <1>2, <1>3
  <2> QED BY <1>2, <2>1, EmptySeq
<1>4. ASSUME s # <<>>
      PROVE  u # <<>> /\ Head(u) = Head(s).rlpx.tx /\ Tail(u) = TransactionsOfActions(Tail(s))
  <2>1. Len(s) \in Nat \ {0} /\ 1 \in 1 .. Len(s)
    BY <1>2, <1>4, EmptySeq
  <2>2. u # <<>>
    BY <1>2, <2>1
  <2>3. Head(u) = u[1] /\ Head(s) = s[1]
    OBVIOUS
  <2>4. /\ Tail(u) \in Seq(Tx) /\ Len(Tail(u)) = Len(u) - 1
        /\ \A i \in 1 .. Len(Tail(u)) : Tail(u)[i] = u[i + 1]
    BY <1>2, <2>2, HeadTailProperties
  <2>5. /\ Tail(s) \in Seq(NativeAction) /\ Len(Tail(s)) = Len(s) - 1
        /\ \A i \in 1 .. Len(Tail(s)) : Tail(s)[i] = s[i + 1]
    BY <1>4, HeadTailProperties
  <2>6. /\ TransactionsOfActions(Tail(s)) \in Seq(Tx)
        /\ Len(TransactionsOfActions(Tail(s))) = Len(Tail(s))
        /\ \A i \in 1 .. Len(Tail(s)) : TransactionsOfActions(Tail(s))[i] = Tail(s)[i].rlpx.tx
    <3>1. Tail(s) \in Seq(NativeAction)
      BY <2>5
    <3> QED BY <1>1, <3>1
  <2>7. \A i \in 1 .. Len(s) - 1 : i + 1 \in 1 .. Len(s)
    BY <1>2
  <2>8. \A i \in 1 .. Len(Tail(u)) : Tail(u)[i] = TransactionsOfActions(Tail(s))[i]
    BY <1>2, <2>4, <2>5, <2>6, <2>7
  <2>9. Tail(u) = TransactionsOfActions(Tail(s))
    BY <1>2, <2>4, <2>5, <2>6, <2>8, SeqEqual
  <2> QED BY <1>2, <2>1, <2>2, <2>3, <2>9
<1> QED BY <1>2, <1>3, <1>4 DEF u

LEMMA AddTransactionKeeps ==
  ASSUME HistoriesAreIds, CleanStart, Ready, UNCHANGED <<best, lib>>, AddTransaction
  PROVE  CacheInv'
<1> DEFINE E  == evm_blocks
           p  == new_block.prev
           id == new_block.id
           dtx == deserialize_tx(Head(pending))
           b  == BlockWithTx(back, dtx)
<1>1. /\ pc = "fill" /\ pc' = "fill" /\ pending # <<>> /\ Acceptable(back, dtx)
      /\ evm_blocks' = WithBack(E, b) /\ pending' = Tail(pending)
      /\ UNCHANGED native_blocks /\ UNCHANGED evm_lib /\ UNCHANGED new_block
      /\ UNCHANGED exec_engine /\ UNCHANGED published
  BY DEF AddTransaction, shared
<1>2. back = E[Len(E)] /\ back \in EvmBlock /\ Len(E) \in 1 .. Len(E)
  BY <1>1, NewBlockFacts
<1>3. E \in Seq(EvmBlock) /\ E # <<>> /\ Len(E) \in Nat
  BY <1>1, NewBlockFacts, ReadyFacts
<1>4. pending \in Seq(NativeAction)
  BY DEF Ready, TypedLists, TypeOK
<1>5. /\ back.number = NumberOf(id)
      /\ \A i \in 1 .. Len(E) - 1 : Good(E[i], id)
      /\ back.transactions \o TransactionsOfActions(pending) = TransactionsOf(id, back.number)
      /\ Message(new_block, Len(p))
      /\ Last(native_blocks) = new_block /\ Len(native_blocks) > 1
  BY <1>1 DEF Ready, CacheInv, FillInv, back
<1>6. Head(pending) \in NativeAction /\ dtx \in NativeAction /\ dtx.rlpx = Head(pending).rlpx
  <2>1. Head(pending) \in NativeAction
    BY <1>1, <1>4, HeadTailProperties
  <2>2. dtx \in NativeAction
    BY <2>1, DeserializedType
  <2>3. \A na \in NativeAction : deserialize_tx(na).rlpx = na.rlpx
    BY DEF deserialize_tx, NativeAction
  <2> QED BY <2>1, <2>2, <2>3
<1> HIDE DEF dtx
<1>7. /\ b \in EvmBlock /\ b.number = back.number
      /\ b.transactions = Append(back.transactions, dtx.rlpx.tx)
  <2>1. b \in EvmBlock
    BY <1>1, <1>2, <1>6, WithTxType
  <2> QED BY <1>2, <2>1 DEF BlockWithTx, EvmBlock
<1> HIDE DEF b
<1>8. /\ Len(WithBack(E, b)) = Len(E)
      /\ \A i \in 1 .. Len(E) - 1 : WithBack(E, b)[i] = E[i]
      /\ WithBack(E, b)[Len(E)] = b
  BY <1>3, <1>7, WithBackFacts
<1>9. b.transactions \o TransactionsOfActions(Tail(pending)) = TransactionsOf(id, b.number)
  <2> DEFINE u == TransactionsOfActions(pending)
  <2>1. u \in Seq(Tx) /\ u # <<>> /\ Head(u) = Head(pending).rlpx.tx
        /\ Tail(u) = TransactionsOfActions(Tail(pending))
    BY <1>1, <1>4, ActionsFacts
  <2> HIDE DEF u
  <2>2. back.transactions \in Seq(Tx)
    BY <1>2 DEF EvmBlock
  <2>3. Append(back.transactions, Head(u)) \o Tail(u) = back.transactions \o u
    BY <2>1, <2>2, MoveHead
  <2>4. b.transactions = Append(back.transactions, Head(u))
    BY <1>6, <1>7, <2>1
  <2> QED BY <1>5, <1>7, <2>1, <2>3, <2>4 DEF u
<1>10. FillInv'
  <2>1. Message(new_block, Len(p))'
    BY <1>1, <1>5 DEF Message
  <2>2. Last(evm_blocks') = b /\ Len(evm_blocks') = Len(E)
    BY <1>1, <1>8 DEF Last
  <2>3. new_block' = new_block /\ native_blocks' = native_blocks /\ pending' = Tail(pending)
    BY <1>1
  <2>4. \A i \in 1 .. Len(E) - 1 : Good(evm_blocks'[i], id)
    BY <1>1, <1>5, <1>8
  <2> QED BY <1>5, <1>7, <1>9, <2>1, <2>2, <2>3, <2>4 DEF FillInv
<1>11. Window(native_blocks)' /\ Based(native_blocks)'
  BY <1>1, ReadyFacts, BasedSame
<1>12. LibInv'
  <2>1. LibInv
    BY <1>1 DEF Ready, CacheInv
  <2>2. LibComputed' => LibComputed
    BY <1>1 DEF LibComputed
  <2> QED BY <1>1, <2>1, <2>2 DEF LibInv, Firm
<1>13. IdleInv' /\ UnwindInv' /\ ExtendInv'
  BY <1>1 DEF IdleInv, UnwindInv, ExtendInv
<1> QED BY <1>10, <1>11, <1>12, <1>13 DEF CacheInv

-----------------------------------------------------------------------------
(* The end of the handler keeps the invariant *)

\* The cached blocks that new_block reports irreversible are the firm ones, the first
\* among them; evm_lib is computed from the last.
LEMMA LibIs ==
  ASSUME CleanStart, Ready, pc = "fill"
  PROVE  LET f == Max(IrreversibleIndices)
         IN  /\ IrreversibleIndices # {} /\ f \in 1 .. Len(native_blocks)
             /\ \A i \in 1 .. Len(native_blocks) : Firm(native_blocks[i].id) <=> i <= f
             /\ native_blocks[f].id # <<>>
             /\ EvmNum(native_blocks[f]) = NumberOf(native_blocks[f].id)
             /\ EvmNum(native_blocks[f]) \in Nat \ {0}
             /\ ComputedLib = (EvmNum(native_blocks[f]) - 1) % Word
             /\ ComputedLib \in Nat
             /\ ComputedLib < NumberOf(native_blocks[f].id)
<1> DEFINE N == native_blocks
           id == new_block.id
           Irr == IrreversibleIndices
           f == Max(Irr)
<1>1. /\ N \in Seq(NativeBlock) /\ N # <<>> /\ Window(N) /\ Based(N) /\ Len(N) \in Nat \ {0}
      /\ best \in Histories /\ Timed(best) /\ Len(best) \in Nat /\ lib \in Nat /\ StreamTypeOK
      /\ StartBlockNum \in Nat
  BY ReadyFacts
<1>2. /\ id \in Histories /\ Len(id) \in Nat /\ Last(N) = new_block /\ Len(N) > 1
      /\ Message(new_block, Len(new_block.prev))
  BY NewBlockFacts, FullPrefix
<1>3. id = Prefix(best, Len(id)) /\ Len(id) \in 0 .. Len(best) /\ new_block.lib = lib
  <2>1. Len(id) = Len(new_block.prev) + 1 /\ Len(new_block.prev) + 1 \in 0 .. Len(best)
    BY <1>1, <1>2, MessageFacts
  <2> QED BY <1>2, <2>1 DEF Message
<1>4. \A i \in 1 .. Len(N) : /\ N[i].id = Prefix(best, At(N, i)) /\ Len(N[i].id) = At(N, i)
                             /\ At(N, i) \in 0 .. Len(id)
                             /\ N[i].block_num = StartBlockNum + At(N, i)
                             /\ At(N, i) = (Len(id) - Len(N)) + i
                             /\ N[i] \in NativeBlock /\ N[i].id \in Histories
  <2> TAKE i \in 1 .. Len(N)
  <2>1. /\ N[i].id = Prefix(id, At(N, i)) /\ Len(N[i].id) = At(N, i) /\ At(N, i) \in 0 .. Len(id)
        /\ N[i].block_num = StartBlockNum + At(N, i)
        /\ N[i] \in NativeBlock /\ N[i].id \in Histories
    BY <1>1, <1>2, WindowFacts
  <2>2. Prefix(Prefix(best, Len(id)), At(N, i)) = Prefix(best, At(N, i))
    BY <1>1, <1>3, <2>1, PrefixOfPrefix DEF Prefix, Histories
  <2>3. At(N, i) = (Len(id) - Len(N)) + i
    BY <1>2 DEF At
  <2> QED BY <1>3, <2>1, <2>2, <2>3
<1>5. DOMAIN N = 1 .. Len(N)
  BY <1>1, LenProperties
<1>6. \A i \in 1 .. Len(N) : i \in Irr <=> Firm(N[i].id)
  <2> TAKE i \in 1 .. Len(N)
  <2>1. i \in Irr <=> StartBlockNum + At(N, i) <= lib
    BY <1>3, <1>4, <1>5 DEF IrreversibleIndices
  <2>2. At(N, i) <= Len(best)
    <3>1. At(N, i) \in 0 .. Len(id) /\ Len(id) \in 0 .. Len(best)
      BY <1>3, <1>4
    <3> QED BY <1>1, <3>1
  <2>3. Firm(N[i].id) <=> StartBlockNum + At(N, i) <= lib
    BY <1>4, <2>2 DEF Firm
  <2> QED BY <2>1, <2>3
<1>7. 1 \in Irr /\ 1 \in 1 .. Len(N)
  <2>1. 1 \in 1 .. Len(N)
    BY <1>1
  <2> QED BY <1>1, <1>6, <2>1 DEF Based
<1>8. Irr \in SUBSET (0 .. Len(N)) /\ Irr \in SUBSET (1 .. Len(N))
  BY <1>1, <1>5 DEF IrreversibleIndices
<1>9. f \in Irr /\ \A i \in Irr : f >= i
  <2> HIDE DEF Irr
  <2>1. Len(N) \in Nat
    BY <1>1
  <2> QED BY <1>7, <1>8, <2>1, MaxExists
<1> HIDE DEF f
<1>10. f \in 1 .. Len(N)
  BY <1>8, <1>9
<1>11. \A i \in 1 .. Len(N) : Firm(N[i].id) <=> i <= f
  <2> TAKE i \in 1 .. Len(N)
  <2>1. Firm(N[i].id) => i <= f
    BY <1>6, <1>9, <1>10
  <2>2. ASSUME i <= f PROVE Firm(N[i].id)
    <3>1. Firm(N[f].id)
      BY <1>6, <1>9, <1>10
    <3>2. StartBlockNum + At(N, f) <= lib
      BY <1>4, <1>10, <3>1 DEF Firm
    <3>3. At(N, i) = (Len(id) - Len(N)) + i /\ At(N, f) = (Len(id) - Len(N)) + f
      BY <1>4, <1>10
    <3>4. Len(N) \in Nat /\ Len(id) \in Nat /\ lib \in Nat /\ StartBlockNum \in Nat
      BY <1>1, <1>2
    <3>5. i \in Nat /\ f \in Nat
      BY <1>1, <1>10
    <3> HIDE DEF N, id
    <3>6. StartBlockNum + At(N, i) <= lib
      BY <2>2, <3>2, <3>3, <3>4, <3>5
    <3>7. i \in Irr
      BY <1>3, <1>4, <1>5, <3>6 DEF IrreversibleIndices, N
    <3> QED BY <1>6, <3>7
  <2> QED BY <2>1, <2>2
<1>12. ~(f = 1 /\ Anchored(N))
  <2> SUFFICES ASSUME f = 1, Anchored(N) PROVE FALSE
    OBVIOUS
  <2>1. 2 \in 1 .. Len(N)
    BY <1>1, <1>2
  <2>2. Firm(N[2].id)
    BY <1>2 DEF Anchored
  <2> QED BY <1>11, <2>1, <2>2
<1>13. EvmNum(N[f]) = NumberOf(N[f].id) /\ N[f].id # <<>>
  BY <1>10, <1>12, NotAnchored
<1>14. EvmNum(N[f]) \in Nat \ {0}
  <2>1. N[f].timestamp \in Nat
    BY <1>4, <1>10 DEF NativeBlock
  <2>2. EvmNum(N[f]) \in Nat
    BY <2>1, EvmNumType DEF EvmNum
  <2>3. N[f].id \in Histories /\ Timed(N[f].id)
    BY <1>1, <1>10, WindowFacts
  <2> DEFINE h == N[f].id
  <2>4. h \in Histories /\ Timed(h) /\ Len(h) \in Nat /\ h # <<>> /\ Prefix(h, Len(h)) = h
    BY <1>13, <2>3, FullPrefix
  <2>5. NumberOf(h) > StartBlock.number
    <3> HIDE DEF h
    <3>1. Len(h) # 0
      BY <2>4, EmptySeq DEF Histories
    <3>2. Len(h) \in 0 .. Len(h) /\ Len(h) \in Len(h) .. Len(h) /\ Len(h) > 0
      BY <2>4, <3>1
    <3> QED BY <2>4, <3>2, NumberOfMonotonic
  <2> QED BY <1>13, <2>2, <2>5, StartNumber
<1>15. ComputedLib = (EvmNum(N[f]) - 1) % Word
  BY DEF ComputedLib, f
<1>16. ComputedLib \in Nat /\ ComputedLib < EvmNum(N[f])
  <2> DEFINE e == EvmNum(N[f])
  <2>1. e - 1 \in Nat /\ Word \in Nat \ {0}
    BY <1>14, TimeAssumption
  <2> HIDE DEF e
  <2>2. \A a \in Nat : \A w \in Nat \ {0} : a % w \in Nat /\ a % w <= a
    OBVIOUS
  <2>3. (e - 1) % Word \in Nat /\ (e - 1) % Word <= e - 1
    BY <2>1, <2>2
  <2>4. e \in Nat
    BY <1>14 DEF e
  <2>5. (e - 1) % Word < e
    BY <2>1, <2>3, <2>4
  <2> QED BY <1>15, <2>3, <2>5 DEF e
<1> QED BY <1>7, <1>10, <1>11, <1>13, <1>14, <1>15, <1>16 DEF f

LEMMA FinishAndTrimKeeps ==
  ASSUME HistoriesAreIds, CleanStart, Ready, UNCHANGED <<best, lib>>, FinishAndTrim
  PROVE  CacheInv'
<1> DEFINE N  == native_blocks
           E  == evm_blocks
           id == new_block.id
           b  == set_upper_bound(back, new_block)
           u  == WithBack(E, b)
           f  == Max(IrreversibleIndices)
           k  == Min(RetainedNative)
           j  == Min(RetainedEvm)
           s  == From(N, k)
           t  == From(u, j)
<1>1. /\ pc = "fill" /\ pc' = "idle" /\ pending = <<>>
      /\ RetainedNative # {} /\ RetainedEvm # {}
      /\ native_blocks' = s /\ evm_blocks' = t /\ evm_lib' = ComputedLib
  BY DEF FinishAndTrim, EvmBlocksWithUpperBound
<1>2. /\ back = E[Len(E)] /\ back \in EvmBlock /\ Len(E) \in 1 .. Len(E)
      /\ Last(N) = new_block /\ id \in Histories /\ id # <<>>
      /\ NumberOf(id) = Number(id[Len(id)]) /\ Timed(id)
  BY <1>1, NewBlockFacts
<1>3. E \in Seq(EvmBlock) /\ E # <<>> /\ Len(E) \in Nat /\ new_block \in NativeBlock
  BY <1>1, NewBlockFacts, ReadyFacts
<1>4. /\ N \in Seq(NativeBlock) /\ N # <<>> /\ Window(N) /\ Based(N) /\ Len(N) \in Nat \ {0}
  BY <1>1, ReadyFacts
<1>5. /\ back.number = NumberOf(id)
      /\ \A i \in 1 .. Len(E) - 1 : Good(E[i], id)
      /\ back.transactions \o TransactionsOfActions(pending) = TransactionsOf(id, back.number)
  BY <1>1 DEF Ready, CacheInv, FillInv, back
<1>6. /\ IrreversibleIndices # {} /\ f \in 1 .. Len(N)
      /\ \A i \in 1 .. Len(N) : Firm(N[i].id) <=> i <= f
      /\ N[f].id # <<>> /\ EvmNum(N[f]) = NumberOf(N[f].id) /\ EvmNum(N[f]) \in Nat \ {0}
      /\ ComputedLib \in Nat /\ ComputedLib < NumberOf(N[f].id)
  BY <1>1, LibIs
<1>7. k \in RetainedNative /\ j \in RetainedEvm
  BY <1>1, <1>6, LibFacts DEF Ready
<1>8. k \in 1 .. Len(N) /\ j \in 1 .. Len(E)
  BY <1>3, <1>4, <1>7, LenProperties DEF RetainedNative, RetainedEvm
<1>9. k <= f
  <2>1. f \in RetainedNative
    <3>1. EvmNum(N[f]) >= ComputedLib /\ f \in DOMAIN N
      <4>1. f \in 1 .. Len(N) /\ DOMAIN N = 1 .. Len(N)
        BY <1>4, <1>6, LenProperties
      <4>2. ComputedLib \in Nat /\ ComputedLib < EvmNum(N[f]) /\ EvmNum(N[f]) \in Nat
        BY <1>6
      <4> HIDE DEF N, f
      <4> QED BY <4>1, <4>2
    <3> QED BY <3>1 DEF RetainedNative
  <2>2. RetainedNative \in SUBSET Nat
    BY <1>4, LenProperties DEF RetainedNative
  <2> QED BY <1>1, <2>1, <2>2, MinExists
<1> HIDE DEF k, j, f
<1>10. /\ s \in Seq(NativeBlock) /\ s # <<>> /\ Len(s) = Len(N) - k + 1
       /\ \A i \in 1 .. Len(N) - k + 1 : s[i] = N[k + i - 1]
       /\ Last(s) = Last(N) /\ Window(s)
  BY <1>4, <1>8, WindowFrom
<1> HIDE DEF s
<1>11. k \in Nat /\ f \in Nat /\ 1 <= k /\ k <= f /\ f <= Len(N) /\ Len(N) \in Nat
  BY <1>4, <1>6, <1>8, <1>9
<1>12. s[1] = N[k] /\ s[f - k + 1] = N[f] /\ f - k + 1 \in 1 .. Len(s)
  <2>1. 1 \in 1 .. Len(N) - k + 1 /\ f - k + 1 \in 1 .. Len(N) - k + 1
        /\ k + 1 - 1 = k /\ k + (f - k + 1) - 1 = f
    BY <1>11
  <2>2. s[1] = N[k + 1 - 1]
    BY <1>10, <2>1
  <2>3. s[f - k + 1] = N[k + (f - k + 1) - 1]
    BY <1>10, <2>1
  <2> QED BY <1>10, <2>1, <2>2, <2>3
<1>13. Based(s)
  <2>1. Firm(s[1].id)
    BY <1>6, <1>8, <1>9, <1>12
  <2>2. CASE k = 1 /\ Anchored(N)
    <3>1. Len(s) = Len(N)
      BY <1>10, <1>11, <2>2
    <3>2. Len(s) > 1 => s[2] = N[2]
      <4> SUFFICES ASSUME Len(s) > 1 PROVE s[2] = N[2]
        OBVIOUS
      <4>1. 2 \in 1 .. Len(N) - 1 + 1 /\ 1 + 2 - 1 = 2
        BY <1>11, <3>1
      <4> QED BY <1>10, <2>2, <4>1
    <3>3. s[1] = N[1]
      BY <1>12, <2>2
    <3>4. Anchored(s)
      BY <2>2, <3>1, <3>2, <3>3 DEF Anchored
    <3> QED BY <2>1, <3>4 DEF Based
  <2>3. CASE ~(k = 1 /\ Anchored(N))
    <3>1. EvmNum(N[k]) = NumberOf(N[k].id) /\ N[k].id # <<>>
      BY <1>1, <1>8, <2>3, NotAnchored
    <3> QED BY <1>12, <2>1, <3>1 DEF Based
  <2> QED BY <2>2, <2>3
<1>14. Window(native_blocks)' /\ Based(native_blocks)'
  BY <1>1, <1>10, <1>13, BasedSame
<1>15. /\ b \in EvmBlock /\ b.number = back.number /\ b.prev_randao = id
       /\ b.transactions = back.transactions
  <2>1. b \in EvmBlock
    BY <1>2, <1>3, UpperBoundType
  <2> QED BY <1>2, <2>1 DEF set_upper_bound, EvmBlock
<1> HIDE DEF b
<1>16. /\ u \in Seq(EvmBlock) /\ u # <<>> /\ Len(u) = Len(E)
       /\ \A i \in 1 .. Len(E) - 1 : u[i] = E[i]
       /\ u[Len(E)] = b
  <2>1. E \in Seq(EvmBlock) /\ E # <<>> /\ b \in EvmBlock
    BY <1>3, <1>15
  <2>2. /\ WithBack(E, b) \in Seq(EvmBlock) /\ WithBack(E, b) # <<>>
        /\ Len(WithBack(E, b)) = Len(E)
        /\ \A i \in 1 .. Len(E) - 1 : WithBack(E, b)[i] = E[i]
        /\ WithBack(E, b)[Len(E)] = b
    BY <2>1, WithBackFacts
  <2> QED BY <2>2
<1> HIDE DEF u
<1>17. Good(b, id)
  <2>1. back.transactions = TransactionsOf(id, back.number)
    <3>1. TransactionsOfActions(pending) = <<>>
      BY <1>1, EmptySeq, ActionsFacts
    <3>2. back.transactions \in Seq(Tx)
      BY <1>2 DEF EvmBlock
    <3> QED BY <1>5, <3>1, <3>2, ConcatEmptySeq
  <2>2. Len(id) \in 1 .. Len(id) /\ Prefix(id, Len(id)) = id
    <3>1. Len(id) \in Nat /\ Len(id) # 0
      BY <1>2, FullPrefix, EmptySeq DEF Histories
    <3> HIDE DEF id
    <3>2. Len(id) \in 1 .. Len(id)
      BY <3>1
    <3> QED BY <1>2, <3>2, FullPrefix
  <2>3. UpperBoundOf(id, NumberOf(id)) = id
    BY <1>2, <2>2, UpperBoundOfTip
  <2>4. NumberOf(id) > StartBlock.number /\ NumberOf(id) \in Nat
    BY <1>2, <2>2, PositionFacts, NumberType DEF Timed
  <2>5. b.number # StartBlock.number /\ b.number >= StartBlock.number
    BY <1>5, <1>15, <2>4, StartNumber
  <2> QED BY <1>5, <1>15, <2>1, <2>3, <2>5 DEF Good, Holds
<1>18. \A i \in 1 .. Len(u) : Good(u[i], id)
  <2> TAKE i \in 1 .. Len(u)
  <2>1. i \in 1 .. Len(E) - 1 \/ i = Len(E)
    <3>1. i \in 1 .. Len(E) /\ Len(E) \in Nat
      BY <1>3, <1>16
    <3> QED BY <3>1
  <2> QED BY <1>5, <1>16, <1>17, <2>1
<1>19. /\ t \in Seq(EvmBlock) /\ t # <<>> /\ Len(t) = Len(u) - j + 1
       /\ \A i \in 1 .. Len(u) - j + 1 : t[i] = u[j + i - 1]
  <2>1. j \in 1 .. Len(u)
    BY <1>8, <1>16
  <2> QED BY <1>16, <2>1, FromFacts
<1> HIDE DEF t
<1>20. j \in Nat /\ 1 <= j /\ j <= Len(u) /\ Len(u) \in Nat
  BY <1>3, <1>8, <1>16
<1>21. Last(t) = b /\ \A i \in 1 .. Len(t) : Good(t[i], id)
  <2>1. Len(t) \in 1 .. Len(u) - j + 1 /\ j + Len(t) - 1 = Len(u)
    BY <1>19, <1>20
  <2>2. Last(t) = u[Len(u)]
    BY <1>19, <2>1 DEF Last
  <2>3. \A i \in 1 .. Len(t) : j + i - 1 \in 1 .. Len(u) /\ i \in 1 .. Len(u) - j + 1
    <3>1. Len(t) = Len(u) - j + 1
      BY <1>19
    <3>2. \A i \in 1 .. Len(u) - j + 1 : j + i - 1 \in 1 .. Len(u)
      BY <1>20
    <3> QED BY <3>1, <3>2, Zenon
  <2> QED BY <1>16, <1>18, <1>19, <2>2, <2>3
<1>22. IdleInv'
  <2>1. Branch' = id
    BY <1>1, <1>2, <1>10 DEF Branch
  <2>2. Last(evm_blocks').number = NumberOf(id)
    BY <1>1, <1>5, <1>15, <1>21
  <2>3. \A i \in 1 .. Len(evm_blocks') : Good(evm_blocks'[i], id)
    BY <1>1, <1>21
  <2> QED BY <2>1, <2>2, <2>3 DEF IdleInv
<1>23. LibInv'
  <2>1. Firm(N[f].id) /\ ComputedLib < NumberOf(N[f].id)
    <3>1. f <= f
      BY <1>11
    <3> QED BY <1>6, <3>1
  <2> DEFINE e == f - k + 1
             h == N[f].id
  <2>2. e \in 1 .. Len(s) /\ s[e].id = h /\ Firm(h) /\ ComputedLib < NumberOf(h)
    BY <1>12, <2>1
  <2> HIDE DEF e, h
  <2>3. native_blocks' = s /\ evm_lib' = ComputedLib /\ best' = best /\ lib' = lib
    BY <1>1
  <2>4. \E i \in 1 .. Len(native_blocks') :
          native_blocks'[i].id = h /\ evm_lib' < NumberOf(native_blocks'[i].id)
    BY <2>2, <2>3
  <2> QED BY <2>2, <2>3, <2>4 DEF LibInv, Firm
<1>24. UnwindInv' /\ ExtendInv' /\ FillInv'
  BY <1>1 DEF UnwindInv, ExtendInv, FillInv
<1> QED BY <1>14, <1>22, <1>23, <1>24 DEF CacheInv

LEMMA HandlerKeeps ==
  ASSUME HistoriesAreIds, CleanStart, Ready, UNCHANGED <<best, lib>>, HandlerStep
  PROVE  CacheInv'
<1>1. CASE DropEvmBlock \/ DropNativeBlock \/ ResetUpperBound
  BY <1>1, DropEvmBlockKeeps, DropNativeBlockKeeps, ResetUpperBoundKeeps
<1>2. CASE ExtendEvmChain \/ ApplyConfig \/ AddTransaction \/ FinishAndTrim
  BY <1>2, ExtendEvmChainKeeps, ApplyConfigKeeps, AddTransactionKeeps, FinishAndTrimKeeps
<1>3. CASE FinishWithoutLib
  BY <1>3, LibIs DEF FinishWithoutLib
<1>4. CASE FailToRemove \/ FailToSetUpperBound \/ FailToSetConfig \/ RejectTransaction \/ FailToTrim
  BY <1>4, ExitKeeps
     DEF FailToRemove, FailToSetUpperBound, FailToSetConfig, RejectTransaction, FailToTrim
<1> QED BY <1>1, <1>2, <1>3, <1>4 DEF HandlerStep

\* Opening the execution engine; evm_lib has been computed before.
LEMMA OpenKeeps ==
  ASSUME CacheInv, UNCHANGED <<best, lib, native_blocks, evm_blocks, evm_lib, published, pc,
                               new_block, pending>>,
         pc = "idle", published # <<>>
  PROVE  CacheInv'
<1>1. LibComputed
  BY DEF LibComputed
<1>2. Window(native_blocks)' /\ Based(native_blocks)'
  BY BasedSame DEF CacheInv
<1>3. IdleInv' /\ LibInv'
  BY <1>1 DEF CacheInv, IdleInv, LibInv, Firm, Branch
<1>4. UnwindInv' /\ ExtendInv' /\ FillInv'
  BY DEF UnwindInv, ExtendInv, FillInv
<1> QED BY <1>2, <1>3, <1>4 DEF CacheInv

-----------------------------------------------------------------------------
(* The start *)

LEMMA LoadedNumber ==
  ASSUME NEW n \in Nat
  PROVE  timestamp_to_evm_block_num(evm_block_num_to_timestamp(n)) = n + 1
<1>1. Genesis \in Nat /\ Second \in Nat \ {0}
  BY TimeAssumption, ChannelAssumption
<1>2. ((Genesis + n) * Second) \div Second = Genesis + n
  <2>1. \A x \in Nat, d \in Nat \ {0} : (x * d) \div d = x
    OBVIOUS
  <2> QED BY <1>1, <2>1
<1> QED BY <1>1, <1>2 DEF timestamp_to_evm_block_num, evm_block_num_to_timestamp

\* What load_head makes of an EVM block whose upper bound is on the best branch, with
\* the whole of its second irreversible, is a base of the cache.
LEMMA LoadedBased ==
  ASSUME NEW start \in EvmBlock, NEW id \in Histories, start.prev_randao = id,
         Timed(id), Firm(id), start.number = NumberOf(id), best \in Histories, lib \in Nat,
         StartBlockNum + Len(id) < lib,
         id = <<>> \/ Len(best) > Len(id),
         Len(best) > Len(id) => Number(best[Len(id) + 1]) > NumberOf(id)
  PROVE  LET s == <<LoadedNative(start, to_block_num(id))>>
         IN  Window(s) /\ Based(s) /\ Last(s).id = id /\ Len(s) = 1 /\ Anchored(s)
<1> DEFINE x == LoadedNative(start, to_block_num(id))
           s == <<x>>
<1>1. /\ x.id = id /\ x.block_num = StartBlockNum + Len(id)
      /\ EvmNum(x) = NumberOf(id) + 1
  <2>1. start.number \in Nat
    BY DEF EvmBlock
  <2>2. x.timestamp = evm_block_num_to_timestamp(start.number)
    BY DEF LoadedNative
  <2> QED BY <2>1, <2>2, LoadedNumber DEF LoadedNative, to_block_num, EvmNum
<1> HIDE DEF x
<1>2. Len(s) = 1 /\ s[1] = x /\ Last(s) = x
  BY DEF Last
<1> HIDE DEF s
<1>3. Len(id) \in Nat /\ Prefix(id, Len(id)) = id /\ StartBlockNum \in Nat
  BY FullPrefix, ChannelAssumption
<1>4. Window(s)
  <2>1. \A i \in 1 .. Len(s) : i = 1 /\ Len(id) - Len(s) + i = Len(id)
                               /\ StartBlockNum + Len(id) - Len(s) + i = StartBlockNum + Len(id)
    BY <1>2, <1>3
  <2>2. \A i \in 1 .. Len(s) :
           /\ s[i].id = Prefix(id, Len(id) - Len(s) + i)
           /\ s[i].block_num = StartBlockNum + Len(id) - Len(s) + i
    BY <1>1, <1>2, <1>3, <2>1
  <2>3. 2 .. Len(s) = {}
    BY <1>2
  <2>4. Len(s) <= Len(id) + 1
    BY <1>2, <1>3
  <2>5. Last(s).id = id
    BY <1>1, <1>2
  <2> QED BY <2>2, <2>3, <2>4, <2>5 DEF Window
<1>5. Anchored(s)
  BY <1>1, <1>2 DEF Anchored
<1> QED BY <1>1, <1>2, <1>4, <1>5 DEF Based, s, x

LEMMA InitReady ==
  ASSUME HistoriesAreIds, CleanStart, SystemInit
  PROVE  Ready /\ published = <<>>
<1>1. /\ native_blocks = <<LoadedNative(StartBlock, StartBlockNum)>>
      /\ evm_blocks = <<StartBlock>> /\ pc = "idle" /\ published = <<>> /\ ~exec_engine
      /\ best = <<>> /\ lib = InitLib /\ behind = 0
      /\ stored_num = StartBlockNum /\ last_lib = 0
  BY DEF SystemInit, Init, NodeosInit, ReceiverInit
<1>2. ShipTypeOK /\ TypedLists
  BY InitShipTyped, InitTyped DEF SystemInit
<1>3. best \in Histories /\ lib \in Nat
  BY <1>2 DEF ShipTypeOK, StreamTypeOK
<1>4. Len(best) = 0 /\ StartBlockNum \in Nat /\ Prefix(best, 0) = <<>>
  BY <1>1, <1>3, ChannelAssumption, FullPrefix
<1>5. StreamInv
  BY <1>1, <1>3, <1>4 DEF StreamInv, CleanStart, Timed
<1>6. EvmLinked
  <2>1. Len(evm_blocks) = 1
    BY <1>1
  <2>2. 1 .. Len(evm_blocks) - 1 = {}
    BY <2>1
  <2> QED BY <2>2 DEF EvmLinked
<1>7. StartBlock \in EvmBlock /\ StartBlock.number \in Nat
  BY StartAssumption, StartNumber
<1>8. Firm(best)
  BY <1>1, <1>3, <1>4 DEF Firm, CleanStart
<1>9. /\ Window(native_blocks) /\ Based(native_blocks) /\ Branch = <<>>
  <2>1. to_block_num(best) = StartBlockNum
    BY <1>4 DEF to_block_num
  <2>2. StartBlock.prev_randao = best /\ Timed(best) /\ StartBlock.number = NumberOf(best)
        /\ StartBlockNum + Len(best) < lib
    BY <1>1, <1>4, <1>5 DEF CleanStart, StreamInv
  <2> QED BY <1>1, <1>3, <1>4, <1>7, <1>8, <2>1, <2>2, LoadedBased DEF Branch
<1>10. IdleInv
  <2>1. Last(evm_blocks) = StartBlock /\ Len(evm_blocks) = 1 /\ evm_blocks[1] = StartBlock
    BY <1>1 DEF Last
  <2>2. Good(StartBlock, Branch)
    BY <1>7 DEF Good, CleanStart
  <2>3. \A i \in 1 .. Len(evm_blocks) : i = 1
    BY <2>1
  <2> QED BY <1>9, <2>1, <2>2, <2>3 DEF IdleInv, CleanStart
<1>11. UnwindInv /\ ExtendInv /\ FillInv /\ LibInv
  BY <1>1 DEF UnwindInv, ExtendInv, FillInv, LibInv, LibComputed
<1> QED BY <1>1, <1>2, <1>5, <1>6, <1>9, <1>10, <1>11 DEF Ready, CacheInv

-----------------------------------------------------------------------------
(* Every step keeps the invariant *)

LEMMA ChainStepKeeps ==
  ASSUME CleanStart, Ready, ShipTypeOK', ChainStep
  PROVE  StreamInv' /\ CacheInv'
<1>1. /\ pc = "idle" /\ UNCHANGED vars
      /\ StreamTypeOK /\ StreamTypeOK' /\ StreamInv /\ CacheInv
  BY DEF ChainStep, Ready, ShipTypeOK
<1>2. PICK n \in Nat : Keeps(n)
  BY ChainKeeps DEF Ready
<1>3. StreamInv'
  BY ChainKeeps DEF Ready
<1>4. /\ UNCHANGED native_blocks /\ UNCHANGED evm_blocks /\ UNCHANGED evm_lib
      /\ UNCHANGED published /\ UNCHANGED exec_engine /\ UNCHANGED pc
  BY <1>1 DEF vars
<1>5. /\ native_blocks \in Seq(NativeBlock) /\ native_blocks # <<>>
      /\ Window(native_blocks) /\ Based(native_blocks)
  BY <1>1, ReadyFacts
<1>6. Window(native_blocks)' /\ Based(native_blocks)'
  <2>1. Timed(best')
    BY <1>3 DEF StreamInv
  <2>2. Based(native_blocks)'
    BY <1>1, <1>2, <1>4, <1>5, <2>1, KeepsAnchored
  <2> QED BY <1>4, <1>5, <2>2
<1>7. LibInv'
  <2>1. CASE ~LibComputed
    BY <1>4, <2>1 DEF LibInv, LibComputed
  <2>2. CASE LibComputed
    <3>1. PICK i \in 1 .. Len(native_blocks) :
             Firm(native_blocks[i].id) /\ evm_lib < NumberOf(native_blocks[i].id)
      BY <1>1, <2>2 DEF LibInv, CacheInv
    <3>2. native_blocks[i].id \in Histories
      BY <1>5, WindowFacts
    <3>3. PICK h \in Histories : h = native_blocks[i].id
      BY <3>2
    <3>4. Firm(h)'
      BY <1>1, <1>2, <3>1, <3>3, KeepsFirm
    <3> QED BY <1>4, <3>1, <3>3, <3>4 DEF LibInv, Firm
  <2> QED BY <2>1, <2>2
<1>8. IdleInv'
  BY <1>1, <1>4 DEF CacheInv, IdleInv, Branch
<1>9. UnwindInv' /\ ExtendInv' /\ FillInv'
  BY <1>1, <1>4 DEF UnwindInv, ExtendInv, FillInv
<1> QED BY <1>3, <1>6, <1>7, <1>8, <1>9 DEF CacheInv

\* The handler leaves the stream alone.
LEMMA StreamSame ==
  ASSUME StreamInv, UNCHANGED <<nodeos_vars, receiver_vars>>
  PROVE  StreamInv' /\ UNCHANGED <<best, lib>>
BY DEF StreamInv, nodeos_vars, chain_vars, session_vars, receiver_vars

LEMMA NextReady ==
  ASSUME HistoriesAreIds, CleanStart, Ready, [SystemNext]_allvars
  PROVE  Ready'
<1>1. ShipTypeOK' /\ [Next]_vars
  BY SystemStep DEF Ready
<1>2. TypedLists' /\ EvmLinked'
  BY <1>1, NextTyped, NextChain DEF Ready
<1>3. StreamInv' /\ CacheInv'
  <2>1. CASE Deliver
    <3>1. PICK nb : ReadBlock(nb) /\ Receive(nb)
      BY <2>1 DEF Deliver
    <3>2. nb \in NativeBlock /\ UNCHANGED <<best, lib>> /\ StreamInv'
      BY <3>1, ReadNext DEF Ready
    <3>3. PICK c \in Nat : Message(nb, c)
      BY <3>1, ReadNext DEF Ready
    <3> QED BY <3>1, <3>2, <3>3, ReceiveKeeps
  <2>2. CASE ChainStep
    BY <1>1, <2>2, ChainStepKeeps
  <2>3. CASE ConnectionStep
    <3>1. StreamInv' /\ UNCHANGED <<best, lib>> /\ UNCHANGED vars
      BY <2>3, ConnectStream DEF ConnectionStep, Ready
    <3> QED BY <3>1, CacheSame DEF Ready
  <2>4. CASE NodeStep
    <3>1. StreamInv' /\ UNCHANGED <<best, lib>>
      BY <2>4, StreamSame DEF NodeStep, Ready
    <3>2. CASE HandlerStep
      BY <3>1, <3>2, HandlerKeeps
    <3>3. CASE OpenExecutionEngine
      BY <3>1, <3>3, OpenKeeps DEF OpenExecutionEngine, caches, locals, Ready
    <3> QED BY <2>4, <3>2, <3>3 DEF NodeStep
  <2>5. CASE UNCHANGED allvars
    <3>1. StreamInv' /\ UNCHANGED <<best, lib>> /\ UNCHANGED vars
      BY <2>5, StreamSame DEF allvars, Ready
    <3> QED BY <3>1, CacheSame DEF Ready
  <2> QED BY <2>1, <2>2, <2>3, <2>4, <2>5 DEF SystemNext
<1> QED BY <1>1, <1>2, <1>3 DEF Ready

-----------------------------------------------------------------------------
(* The theorems about the conversion *)

\* Every published block is genuine.
GenuineInv == \A i \in 1 .. Len(published) : Genuine(published[i])

LEMMA HandlerGenuine ==
  ASSUME HistoriesAreIds, CleanStart, Ready, GenuineInv, UNCHANGED <<best, lib>>, HandlerStep
  PROVE  GenuineInv'
<1>1. CASE ExtendEvmChain
  <2> DEFINE P == published
             b == Sealed(back)
  <2>1. P \in Seq(EvmBlock) /\ b \in EvmBlock
    <3>1. pc = "extend"
      BY <1>1 DEF ExtendEvmChain
    <3>2. back \in EvmBlock
      BY <3>1, NewBlockFacts
    <3> QED BY <3>2, SealedType DEF Ready, TypedLists, TypeOK
  <2>2. published' = Append(P, b) /\ Genuine(b)
    BY <1>1, ExtendEffect, ExtendEvmChainKeeps
  <2> HIDE DEF b
  <2>3. /\ Len(P) \in Nat /\ Len(Append(P, b)) = Len(P) + 1
        /\ \A i \in 1 .. Len(P) : Append(P, b)[i] = P[i]
        /\ Append(P, b)[Len(P) + 1] = b
    BY <2>1, AppendedFacts
  <2>4. ASSUME NEW i \in 1 .. Len(P) + 1 PROVE Genuine(Append(P, b)[i])
    <3>1. i \in 1 .. Len(P) \/ i = Len(P) + 1
      BY <2>3
    <3> QED BY <2>2, <2>3, <3>1 DEF GenuineInv
  <2> QED BY <2>2, <2>3, <2>4 DEF GenuineInv
<1>2. CASE ~ExtendEvmChain
  <2>1. UNCHANGED published
    BY <1>2 DEF HandlerStep, DropEvmBlock, DropNativeBlock, FailToRemove, ResetUpperBound,
       FailToSetUpperBound, ApplyConfig, FailToSetConfig, AddTransaction, RejectTransaction,
       FinishWithoutLib, FinishAndTrim, FailToTrim, Exit, shared
  <2> QED BY <2>1 DEF GenuineInv
<1> QED BY <1>1, <1>2

LEMMA NextGenuine ==
  ASSUME HistoriesAreIds, CleanStart, Ready, GenuineInv, [SystemNext]_allvars
  PROVE  GenuineInv'
<1>1. CASE NodeStep /\ HandlerStep
  <2>1. UNCHANGED <<best, lib>>
    BY <1>1, StreamSame DEF NodeStep, Ready
  <2> QED BY <1>1, <2>1, HandlerGenuine
<1>2. CASE ~(NodeStep /\ HandlerStep)
  <2>1. CASE Deliver
    <3>1. PICK nb : Receive(nb)
      BY <2>1 DEF Deliver
    <3>2. UNCHANGED published
      BY <3>1 DEF Receive, ReceiveBeforeGenesis, ReceiveDuplicate, ReceiveUnknownFork,
         ReceiveFork, ReceiveLinked, Exit, shared, vars
    <3> QED BY <3>2 DEF GenuineInv
  <2>2. CASE ~Deliver
    <3>1. UNCHANGED published
      BY <1>2, <2>2 DEF SystemNext, ChainStep, ConnectionStep, NodeStep, OpenExecutionEngine,
         allvars, vars
    <3> QED BY <3>1 DEF GenuineInv
  <2> QED BY <2>1, <2>2
<1> QED BY <1>1, <1>2

LEMMA InitGenuine ==
  ASSUME published = <<>>
  PROVE  GenuineInv
<1>1. Len(published) = 0
  OBVIOUS
<1>2. 1 .. Len(published) = {}
  BY <1>1
<1> QED BY <1>2 DEF GenuineInv

\* What the invariant says between two native blocks.
LEMMA ReadyMatches ==
  ASSUME CleanStart, Ready, GenuineInv
  PROVE  TransactionsMatch /\ UpperBoundMatch /\ PublishedMatch
<1>1. ASSUME pc = "idle", NEW i \in Converted(evm_blocks)
      PROVE  Holds(evm_blocks[i], Branch)
  <2>1. DOMAIN evm_blocks = 1 .. Len(evm_blocks)
    BY <1>1, ReadyFacts, LenProperties
  <2>2. i \in 1 .. Len(evm_blocks) /\ evm_blocks[i].number > StartBlock.number
    BY <2>1 DEF Converted
  <2>3. Good(evm_blocks[i], Branch)
    BY <1>1, <2>2 DEF Ready, CacheInv, IdleInv
  <2> QED BY <2>2, <2>3 DEF Good
<1>2. TransactionsMatch
  BY <1>1 DEF TransactionsMatch, Holds
<1>3. UpperBoundMatch
  <2>1. pc = "idle" => Last(evm_blocks).number = NumberOf(Branch)
    BY DEF Ready, CacheInv, IdleInv
  <2> QED BY <1>1, <2>1 DEF UpperBoundMatch, Holds
<1>4. PublishedMatch
  <2>1. DOMAIN published = 1 .. Len(published)
    BY LenProperties DEF Ready, TypedLists, TypeOK
  <2> QED BY <2>1 DEF PublishedMatch, Converted, GenuineInv, Genuine
<1> QED BY <1>2, <1>3, <1>4

LEMMA ConversionInvariant ==
  ASSUME HistoriesAreIds, CleanStart
  PROVE  SystemSpec => [](Ready /\ GenuineInv)
<1>1. SystemInit => Ready /\ GenuineInv
  BY InitReady, InitGenuine
<1>2. Ready /\ GenuineInv /\ [SystemNext]_allvars => Ready' /\ GenuineInv'
  BY NextReady, NextGenuine
<1> QED BY <1>1, <1>2, PTL DEF SystemSpec

\* For every native chain, whatever forks, duplicates and reconnections happen, the EVM
\* blocks that the handler of block_conversion_plugin keeps contain exactly the
\* transactions of the current branch, each in the block of its second.
THEOREM TransactionsOfTheBranch ==
  ASSUME HistoriesAreIds, CleanStart
  PROVE  SystemSpec => []TransactionsMatch
<1>1. Ready /\ GenuineInv => TransactionsMatch
  BY ReadyMatches
<1> QED BY <1>1, ConversionInvariant, PTL

\* For every native chain, the upper bound that set_upper_bound leaves in each EVM block
\* is the last native block of its second on the current branch, after every fork, and
\* the last EVM block is that of the tip.
THEOREM UpperBoundsOfTheBranch ==
  ASSUME HistoriesAreIds, CleanStart
  PROVE  SystemSpec => []UpperBoundMatch
<1>1. Ready /\ GenuineInv => UpperBoundMatch
  BY ReadyMatches
<1> QED BY <1>1, ConversionInvariant, PTL

\* For every native chain, no block goes out on the evm_blocks channel that mixes two
\* branches: it holds the transactions of its second on the branch of its prev_randao.
THEOREM PublishedOfOneBranch ==
  ASSUME HistoriesAreIds, CleanStart
  PROVE  SystemSpec => []PublishedMatch
<1>1. Ready /\ GenuineInv => PublishedMatch
  BY ReadyMatches
<1> QED BY <1>1, ConversionInvariant, PTL
=============================================================================
