---------------------------- MODULE RestartProofs ----------------------------
(***************************************************************************)
(* Proofs that what is in the database, and what the execution engine has, *)
(* is what the native chain says, through forks, crashes and restarts.     *)
(***************************************************************************)
EXTENDS NodeProofs

-----------------------------------------------------------------------------
(* What the execution engine has of a branch *)

\* Once the blocks at positions h + 1 .. of P have been inserted into chain, its block m
\* is that of the branch id: it is one of them, or it is there and none of them is low
\* enough to replace it.
Given(m, id, chain, P, h) ==
  \/ /\ \A l \in h + 1 .. Len(P) : P[l].number > m
     /\ m - StartBlock.number + 1 \in 1 .. Len(chain)
     /\ chain[m - StartBlock.number + 1].number = m
     /\ Holds(chain[m - StartBlock.number + 1], id)
  \/ \E j \in h + 1 .. Len(P) :
       /\ P[j].number = m /\ Holds(P[j], id)
       /\ \A l \in j + 1 .. Len(P) : P[l].number > m

\* So are all its blocks before block n, from the start block on.
AllGiven(n, id, chain, P, h) ==
  \A m \in StartBlock.number + 1 .. n - 1 : Given(m, id, chain, P, h)

LEMMA GivenBranch ==
  ASSUME NEW m, NEW id, NEW new, NEW chain, NEW P, NEW h, Given(m, id, chain, P, h),
         \A b : b.number = m /\ Holds(b, id) => Holds(b, new)
  PROVE  Given(m, new, chain, P, h)
BY DEF Given

LEMMA GivenAppend ==
  ASSUME NEW P \in Seq(EvmBlock), NEW b \in EvmBlock, NEW chain, NEW h \in 0 .. Len(P),
         NEW m \in Nat, NEW id,
         \/ b.number > m /\ Given(m, id, chain, P, h)
         \/ b.number = m /\ Holds(b, id)
  PROVE  Given(m, id, chain, Append(P, b), h)
<1> DEFINE Q == Append(P, b)
           n == Len(P)
<1>1. /\ n \in Nat /\ Len(Q) = n + 1 /\ Q[n + 1] = b
      /\ \A i \in 1 .. n : Q[i] = P[i]
  BY AppendedFacts
<1> HIDE DEF Q, n
<1>2. h \in 0 .. n
  BY DEF n
<1>3. CASE b.number = m /\ Holds(b, id)
  <2>1. n + 1 \in h + 1 .. n + 1 /\ (n + 1) + 1 .. n + 1 = {}
    BY <1>1, <1>2
  <2> QED BY <1>1, <1>3, <2>1 DEF Given, Q
<1>4. CASE b.number > m /\ Given(m, id, chain, P, h)
  <2>1. \A a \in h .. n : \A l \in a + 1 .. n + 1 : l = n + 1 \/ (l \in a + 1 .. n /\ l \in 1 .. n)
    BY <1>1, <1>2
  <2>2. \A a \in h .. n :
          (\A l \in a + 1 .. n : P[l].number > m) => \A l \in a + 1 .. n + 1 : Q[l].number > m
    BY <1>1, <1>4, <2>1
  <2>3. h \in h .. n /\ \A j \in h + 1 .. n : j \in h .. n /\ j \in 1 .. n /\ j \in h + 1 .. n + 1
    BY <1>1, <1>2
  <2>4. CASE \A l \in h + 1 .. n : P[l].number > m
    <3>1. \A l \in h + 1 .. Len(Q) : Q[l].number > m
      BY <1>1, <2>2, <2>3, <2>4
    <3>2. ~ \E j \in h + 1 .. n : P[j].number = m
      <4>1. \A j \in h + 1 .. n : P[j].number \in Nat
        <5>1. \A j \in 1 .. n : P[j] \in EvmBlock
          BY ElementOfSeq DEF n
        <5> QED BY <2>3, <5>1 DEF EvmBlock
      <4> QED BY <2>4, <4>1
    <3> QED BY <1>4, <3>1, <3>2 DEF Given, Q, n
  <2>5. CASE ~ \A l \in h + 1 .. n : P[l].number > m
    <3>1. PICK j \in h + 1 .. n : /\ P[j].number = m /\ Holds(P[j], id)
                                  /\ \A l \in j + 1 .. n : P[l].number > m
      BY <1>4, <2>5 DEF Given, n
    <3>2. Q[j] = P[j] /\ j \in h + 1 .. Len(Q) /\ \A l \in j + 1 .. Len(Q) : Q[l].number > m
      BY <1>1, <2>2, <2>3, <3>1
    <3> QED BY <3>1, <3>2 DEF Given, Q
  <2> QED BY <2>4, <2>5
<1> QED BY <1>3, <1>4

LEMMA GivenInsert ==
  ASSUME NEW P \in Seq(EvmBlock), NEW chain \in Seq(EvmBlock), NEW h \in Nat,
         h + 1 \in 1 .. Len(P), FitsOn(P[h + 1], chain), NEW id,
         NEW m \in Nat, m > StartBlock.number, Given(m, id, chain, P, h)
  PROVE  Given(m, id, insert_block(chain, P[h + 1]), P, h + 1)
<1> DEFINE b   == P[h + 1]
           new == insert_block(chain, b)
           at  == b.number - StartBlock.number
           n   == Len(P)
           k   == m - StartBlock.number + 1
<1>1. b \in EvmBlock /\ n \in Nat /\ b.number \in Nat /\ StartBlock.number \in Nat
  <2>1. b \in EvmBlock /\ n \in Nat
    BY ElementOfSeq, LenProperties
  <2> QED BY <2>1, StartNumber DEF EvmBlock
<1>2. /\ at \in 0 .. Len(chain) /\ Len(new) = at + 1 /\ Len(chain) \in Nat
      /\ \A i \in 1 .. at : new[i] = chain[i]
      /\ new[at + 1] = Stored(b)
  BY <1>1, InsertedFacts, LenProperties
<1>3. Stored(b).number = b.number /\ (Holds(b, id) => Holds(Stored(b), id))
  <2>1. Stored(b).number = b.number /\ Stored(b).prev_randao = b.prev_randao
        /\ Stored(b).transactions = b.transactions
    BY <1>1 DEF Stored, EvmBlock
  <2> QED BY <2>1 DEF Holds
<1> HIDE DEF b, new, n
<1>4. h + 1 \in h + 1 .. n /\ \A l \in (h + 1) + 1 .. n : l \in h + 1 .. n
  BY <1>1 DEF n
<1>5. CASE /\ \A l \in h + 1 .. n : P[l].number > m
           /\ k \in 1 .. Len(chain) /\ chain[k].number = m /\ Holds(chain[k], id)
  <2>1. k \in 1 .. at /\ k \in 1 .. Len(new)
    <3>1. b.number > m
      BY <1>4, <1>5 DEF b
    <3>2. k \in 1 .. at
      <4>1. \A x, y, z \in Nat : x > z /\ y > x => x - z + 1 \in 1 .. y - z
        OBVIOUS
      <4>2. b.number \in Nat /\ StartBlock.number \in Nat
        BY <1>1
      <4> QED BY <3>1, <4>1, <4>2
    <3>3. at \in Nat /\ Len(new) = at + 1
      BY <1>2
    <3> HIDE DEF at
    <3> QED BY <3>2, <3>3
  <2>2. new[k] = chain[k]
    BY <1>2, <2>1
  <2>3. \A l \in (h + 1) + 1 .. n : P[l].number > m
    BY <1>4, <1>5
  <2> QED BY <1>5, <2>1, <2>2, <2>3 DEF Given, new, b, n
<1>6. ASSUME NEW j \in h + 1 .. n, P[j].number = m, Holds(P[j], id),
             \A l \in j + 1 .. n : P[l].number > m
      PROVE  Given(m, id, new, P, h + 1)
  <2>1. CASE j = h + 1
    <3>1. at + 1 = k /\ k \in 1 .. Len(new)
      <4>1. b.number = m
        BY <1>6, <2>1 DEF b
      <4>2. at + 1 = k
        BY <1>1, <4>1
      <4>3. at \in Nat /\ Len(new) = at + 1
        BY <1>2
      <4> HIDE DEF at, k
      <4> QED BY <4>2, <4>3
    <3>2. new[k].number = m /\ Holds(new[k], id)
      BY <1>2, <1>3, <1>6, <2>1, <3>1 DEF b
    <3> QED BY <1>6, <2>1, <3>1, <3>2 DEF Given, n
  <2>2. CASE j # h + 1
    <3>1. j \in (h + 1) + 1 .. n
      BY <1>1, <2>2
    <3> QED BY <1>6, <3>1 DEF Given, n
  <2> QED BY <2>1, <2>2
<1> QED BY <1>5, <1>6 DEF Given, new, b, n

LEMMA AllGivenBranch ==
  ASSUME HistoriesAreIds, NEW id \in Histories, Timed(id), NEW k \in 1 .. Len(id),
         NEW chain, NEW P, NEW h, NEW n, n <= Number(id[k]), n \in Nat
  PROVE  AllGiven(n, id, chain, P, h) <=> AllGiven(n, Prefix(id, k), chain, P, h)
<1>1. /\ Len(id) \in Nat /\ Len(id) \in 0 .. Len(id) /\ k \in 1 .. Len(id)
      /\ Prefix(id, Len(id)) = id /\ Number(id[k]) \in Nat /\ StartBlock.number \in Nat
  BY FullPrefix, PositionFacts, NumberType, StartNumber
<1>2. ASSUME NEW m \in StartBlock.number + 1 .. n - 1
      PROVE  \A b : b.number = m => (Holds(b, id) <=> Holds(b, Prefix(id, k)))
  <2>1. m \in Nat /\ m < Number(id[k])
    BY <1>1
  <2> SUFFICES ASSUME NEW b, b.number = m
               PROVE  Holds(b, id) <=> Holds(b, Prefix(id, k))
    OBVIOUS
  <2>2. Holds(b, Prefix(id, Len(id))) <=> Holds(b, Prefix(id, k))
    BY <1>1, <2>1, HoldsBelow
  <2> QED BY <1>1, <2>2
<1> QED BY <1>2, GivenBranch DEF AllGiven

LEMMA AllGivenLess ==
  ASSUME NEW n \in Nat, NEW k \in Nat, k <= n, NEW id, NEW chain, NEW P, NEW h,
         AllGiven(n, id, chain, P, h)
  PROVE  AllGiven(k, id, chain, P, h)
<1>1. \A m \in StartBlock.number + 1 .. k - 1 : m \in StartBlock.number + 1 .. n - 1
  BY StartNumber
<1> QED BY <1>1 DEF AllGiven

LEMMA AllGivenAppend ==
  ASSUME NEW P \in Seq(EvmBlock), NEW b \in EvmBlock, NEW chain, NEW h \in 0 .. Len(P), NEW id,
         AllGiven(b.number, id, chain, P, h),
         b.number > StartBlock.number => Holds(b, id)
  PROVE  AllGiven(b.number + 1, id, chain, Append(P, b), h)
<1>1. b.number \in Nat /\ StartBlock.number \in Nat
  BY StartNumber DEF EvmBlock
<1> SUFFICES ASSUME NEW m \in StartBlock.number + 1 .. (b.number + 1) - 1
             PROVE  Given(m, id, chain, Append(P, b), h)
  BY DEF AllGiven
<1>2. m \in Nat /\ (m = b.number \/ (b.number > m /\ m \in StartBlock.number + 1 .. b.number - 1))
      /\ (m = b.number => b.number > StartBlock.number)
  BY <1>1
<1>3. CASE m = b.number
  BY <1>2, <1>3, GivenAppend
<1>4. CASE b.number > m /\ m \in StartBlock.number + 1 .. b.number - 1
  <2>1. Given(m, id, chain, P, h)
    BY <1>4 DEF AllGiven
  <2> QED BY <1>2, <1>4, <2>1, GivenAppend
<1> QED BY <1>2, <1>3, <1>4

LEMMA AllGivenInsert ==
  ASSUME NEW P \in Seq(EvmBlock), NEW chain \in Seq(EvmBlock), NEW h \in Nat,
         h + 1 \in 1 .. Len(P), FitsOn(P[h + 1], chain), NEW id, NEW n \in Nat,
         AllGiven(n, id, chain, P, h)
  PROVE  AllGiven(n, id, insert_block(chain, P[h + 1]), P, h + 1)
<1>1. \A m \in StartBlock.number + 1 .. n - 1 : m \in Nat /\ m > StartBlock.number
  BY StartNumber
<1> QED BY <1>1, GivenInsert DEF AllGiven

-----------------------------------------------------------------------------
(* The inductive invariant of the database *)

\* What the execution engine has, or gets from the queue, is the branch of the cache up
\* to the EVM block that is being built; while a fork is handled, that of its parent.
HeldInv ==
  /\ pc = "idle" => AllGiven(NumberOf(Branch), Branch, inserted, published, handled)
  /\ pc = "unwind" =>
       AllGiven(NumberOf(new_block.prev), new_block.prev, inserted, published, handled)
  /\ pc = "extend" =>
       AllGiven(Last(evm_blocks).number, new_block.prev, inserted, published, handled)
  /\ pc = "fill" =>
       AllGiven(Last(evm_blocks).number, new_block.id, inserted, published, handled)

\* The start block keeps its upper bound wherever it goes.
StartInv ==
  /\ inserted[1].prev_randao = <<>> /\ canonical[1].prev_randao = <<>>
  /\ \A i \in 1 .. Len(published) :
       published[i].number = StartBlock.number => published[i].prev_randao = <<>>

\* Up to the last irreversible EVM block stored, the database is final.
FinalInv ==
  /\ kLibProcessed = None => Len(canonical) = 1
  /\ kLibProcessed # None /\ kLibProcessed > StartBlock.number =>
       /\ Settled(kLibProcessed)
       /\ \A i \in 2 .. Len(canonical) :
            canonical[i].number <= kLibProcessed => Holds(canonical[i], best)

\* The EVM blocks that wait ascend: no native block is handled while they do.
QueueInv ==
  /\ pc = "unwind" => handled = Len(published)
  /\ \A i \in handled + 1 .. Len(published) :
       /\ \A j \in i + 1 .. Len(published) : published[i].number < published[j].number
       /\ pc # "exited" => published[i].number < Last(evm_blocks).number

-----------------------------------------------------------------------------
(* What the execution engine has, while the converter runs *)

LEMMA HeldSame ==
  ASSUME HeldInv, UNCHANGED <<pc, native_blocks, evm_blocks, new_block, inserted, published, handled>>
  PROVE  HeldInv'
<1>1. Branch' = Branch
  BY DEF Branch
<1> QED BY <1>1 DEF HeldInv

\* The fork point is on the branch of the cache.
LEMMA ForkBelow ==
  ASSUME HistoriesAreIds, CleanStart, Ready, pc = "idle", NEW nb, NEW c, Message(nb, c),
         ~Linked(nb), ~Cached(nb.id), Cached(nb.prev)
  PROVE  c \in 1 .. Len(Branch) /\ nb.prev = Prefix(Branch, c)
<1> DEFINE N == native_blocks
<1>1. /\ N \in Seq(NativeBlock) /\ N # <<>> /\ Window(N) /\ Branch = Last(N).id
      /\ best \in Histories /\ Timed(best) /\ Branch \in Histories /\ Len(Branch) \in Nat
  BY ReadyFacts DEF Branch
<1>2. c \in Nat /\ Len(nb.prev) = c
  BY <1>1, MessageFacts
<1>3. PICK f \in 1 .. Len(N) : N[f].id = nb.prev /\ nb.prev # <<>>
  BY ForkFound
<1>4. /\ N[f].id = Prefix(Branch, At(N, f)) /\ At(N, f) \in 0 .. Len(Branch)
      /\ Len(N[f].id) = At(N, f)
  BY <1>1, WindowFacts
<1>5. At(N, f) = c /\ c # 0
  BY <1>1, <1>2, <1>3, <1>4, FullPrefix
<1> QED BY <1>1, <1>2, <1>3, <1>4, <1>5

LEMMA ReceiveHeld ==
  ASSUME HistoriesAreIds, CleanStart, Ready, HeldInv, UNCHANGED <<inserted, handled>>,
         NEW nb, NEW c, Message(nb, c), Receive(nb)
  PROVE  HeldInv'
<1>1. pc = "idle" /\ UNCHANGED published
  BY DEF Receive, ReceiveBeforeGenesis, ReceiveDuplicate, ReceiveUnknownFork, ReceiveFork,
     ReceiveLinked, Exit, shared, vars
<1>2. /\ best \in Histories /\ Timed(best) /\ Branch \in Histories /\ Timed(Branch)
  BY <1>1, ReadyFacts
<1>3. AllGiven(NumberOf(Branch), Branch, inserted, published, handled)
  BY <1>1 DEF HeldInv
<1>4. CASE ReceiveBeforeGenesis(nb)
  <2>1. c + 1 \in 1 .. Len(best) /\ nb.timestamp = best[c + 1].slot
    BY <1>2, MessageFacts DEF Message
  <2>2. best[c + 1].slot > StartSlot /\ best[c + 1].slot \in Nat
    BY <1>2, <2>1, PositionFacts DEF Timed, Bodies
  <2>3. StartSlot \in Nat /\ Genesis \in Nat /\ Genesis <= StartSlot
    BY NodeosAssumption, TimeAssumption DEF CleanStart
  <2> QED BY <1>4, <2>1, <2>2, <2>3 DEF ReceiveBeforeGenesis, BeforeGenesis
<1>5. CASE ReceiveDuplicate(nb)
  BY <1>5, HeldSame DEF ReceiveDuplicate, vars
<1>6. CASE ReceiveUnknownFork(nb)
  BY <1>6 DEF ReceiveUnknownFork, Exit, HeldInv
<1>7. CASE ReceiveFork(nb)
  <2>1. /\ ~Linked(nb) /\ ~Cached(nb.id) /\ Cached(nb.prev) /\ new_block' = nb /\ pc' = "unwind"
    BY <1>7 DEF ReceiveFork
  <2>2. c \in 1 .. Len(Branch) /\ nb.prev = Prefix(Branch, c)
    BY <1>1, <2>1, ForkBelow
  <2>3. /\ NumberOf(nb.prev) = Number(Branch[c]) /\ Number(Branch[c]) \in Nat
    BY <1>2, <2>2, PositionFacts, NumberType
  <2>4. NumberOf(nb.prev) <= NumberOf(Branch) /\ NumberOf(Branch) \in Nat
    <3>1. /\ c \in 0 .. Len(Branch) /\ Len(Branch) \in c .. Len(Branch)
          /\ Len(Branch) \in 0 .. Len(Branch)
          /\ Prefix(Branch, Len(Branch)) = Branch
      BY <1>2, <2>2, FullPrefix
    <3>2. NumberOf(Prefix(Branch, c)) <= NumberOf(Prefix(Branch, Len(Branch)))
      BY <1>2, <3>1, NumberOfMonotonic
    <3>3. NumberOf(Prefix(Branch, Len(Branch))) \in Nat
      BY <1>2, <3>1, NumberOfMonotonic
    <3> QED BY <2>2, <3>1, <3>2, <3>3
  <2>5. AllGiven(NumberOf(nb.prev), Branch, inserted, published, handled)
    BY <1>3, <2>3, <2>4, AllGivenLess
  <2>6. AllGiven(NumberOf(nb.prev), nb.prev, inserted, published, handled)
    BY <1>2, <2>2, <2>3, <2>5, AllGivenBranch
  <2> QED BY <1>1, <2>1, <2>6 DEF HeldInv
<1>8. CASE ReceiveLinked(nb)
  <2>1. /\ nb.prev = Branch /\ new_block' = nb /\ pc' = "extend" /\ UNCHANGED evm_blocks
    <3>1. native_blocks # <<>>
      BY <1>1, ReadyFacts
    <3> QED BY <1>8, <3>1 DEF ReceiveLinked, Linked, Branch
  <2>2. Last(evm_blocks).number = NumberOf(Branch)
    BY <1>1 DEF Ready, CacheInv, IdleInv
  <2> QED BY <1>1, <1>3, <2>1, <2>2 DEF HeldInv
<1> QED BY <1>4, <1>5, <1>6, <1>7, <1>8 DEF Receive

-----------------------------------------------------------------------------
(* What the execution engine has, while the handler works *)

\* Changing the last EVM block changes neither its number nor what is published.
LEMMA ReplacesBack ==
  ASSUME TypedLists, StepKeeps \/ StepReplaces
  PROVE  Last(evm_blocks').number = back.number /\ UNCHANGED published
<1>1. CASE StepKeeps
  BY <1>1 DEF StepKeeps, back
<1>2. CASE StepReplaces
  <2>1. PICK e \in EvmBlock, k \in 1 .. Len(evm_blocks) :
          e.number = back.number /\ evm_blocks' = From(WithBack(evm_blocks, e), k)
    BY <1>2 DEF StepReplaces, Replaces
  <2> DEFINE w == WithBack(evm_blocks, e)
             n == Len(evm_blocks)
  <2>2. /\ w \in Seq(EvmBlock) /\ Len(w) = n /\ w[n] = e /\ n \in Nat
    BY <1>2, WithBackFacts, LenProperties DEF StepReplaces, TypedLists, TypeOK
  <2> HIDE DEF w
  <2>3. /\ Len(From(w, k)) = n - k + 1
        /\ \A j \in 1 .. n - k + 1 : From(w, k)[j] = w[k + j - 1]
    BY <2>2, FromFacts
  <2>4. n - k + 1 \in 1 .. n - k + 1 /\ k + (n - k + 1) - 1 = n
    BY <2>2
  <2>5. From(w, k)[n - k + 1] = e
    BY <2>2, <2>3, <2>4
  <2> QED BY <1>2, <2>1, <2>3, <2>5 DEF StepReplaces, Last, w
<1> QED BY <1>1, <1>2

LEMMA UnwindHeld ==
  ASSUME HistoriesAreIds, CleanStart, Ready, HeldInv, UNCHANGED <<inserted, handled>>,
         DropEvmBlock \/ DropNativeBlock \/ ResetUpperBound
  PROVE  HeldInv'
<1> DEFINE p == new_block.prev
<1>1. /\ pc = "unwind" /\ UNCHANGED <<new_block, published>>
      /\ AllGiven(NumberOf(p), p, inserted, published, handled)
  BY DEF DropEvmBlock, DropNativeBlock, ResetUpperBound, HeldInv, shared, locals
<1>2. CASE DropEvmBlock \/ DropNativeBlock
  <2>1. pc' = "unwind"
    BY <1>2 DEF DropEvmBlock, DropNativeBlock
  <2> QED BY <1>1, <2>1 DEF HeldInv
<1>3. CASE ResetUpperBound
  <2>1. /\ pc' = "extend" /\ evm_blocks # <<>> /\ ~EvmBlockIsForked
        /\ evm_blocks' = WithBack(evm_blocks, set_upper_bound(back, Last(native_blocks)))
    BY <1>3 DEF ResetUpperBound
  <2>2. /\ EvmNum(fork_block) = NumberOf(p) /\ NumberOf(p) \in Nat
    BY <1>1, UnwindFacts
  <2>3. /\ native_blocks \in Seq(NativeBlock) /\ native_blocks # <<>> /\ TypedLists
        /\ evm_blocks \in Seq(EvmBlock)
    BY <1>1, ReadyFacts DEF Ready
  <2>4. Last(evm_blocks').number = back.number
    <3>1. Last(native_blocks) \in NativeBlock
      BY <2>3, FrontFacts
    <3>2. StepReplaces
      BY <1>1, <2>1, <2>3, <3>1, BoundReplaces, WithBackIsFrom
    <3> QED BY <2>3, <3>2, ReplacesBack
  <2>5. back.number \in Nat
    BY <2>1, <2>3, BackType DEF EvmBlock, TypedLists
  <2>6. back.number <= NumberOf(p)
    BY <2>1, <2>2, <2>5 DEF EvmBlockIsForked
  <2>7. AllGiven(back.number, p, inserted, published, handled)
    BY <1>1, <2>2, <2>5, <2>6, AllGivenLess
  <2> QED BY <1>1, <2>1, <2>4, <2>7 DEF HeldInv
<1> QED BY <1>2, <1>3

LEMMA ExtendHeld ==
  ASSUME HistoriesAreIds, CleanStart, Ready, HeldInv, UNCHANGED <<inserted, handled>>,
         handled \in 0 .. Len(published), ExtendEvmChain
  PROVE  HeldInv'
<1> DEFINE b == Sealed(back)
           p == new_block.prev
<1>1. /\ pc = "extend" /\ pc' = "extend" /\ UNCHANGED new_block
      /\ published' = Append(published, b)
      /\ evm_blocks' = Append(WithBack(evm_blocks, b), generate_new_evm_block(b))
  BY ExtendEffect DEF ExtendEvmChain, locals
<1>2. /\ evm_blocks \in Seq(EvmBlock) /\ evm_blocks # <<>> /\ published \in Seq(EvmBlock)
      /\ back \in EvmBlock /\ back = evm_blocks[Len(evm_blocks)]
      /\ Len(evm_blocks) \in 1 .. Len(evm_blocks)
  BY <1>1, NewBlockFacts DEF Ready, TypedLists, TypeOK
<1>3. b \in EvmBlock /\ b.number = back.number /\ b.prev_randao = back.prev_randao
      /\ b.transactions = back.transactions
  BY <1>2, SealedType DEF Sealed, EvmBlock
<1>4. Last(evm_blocks').number = b.number + 1
  <2>1. WithBack(evm_blocks, b) \in Seq(EvmBlock) /\ generate_new_evm_block(b) \in EvmBlock
    BY <1>2, <1>3, WithBackFacts, GeneratedType
  <2>2. Last(evm_blocks') = generate_new_evm_block(b)
    BY <1>1, <2>1, AppendProperties, LenProperties DEF Last
  <2> QED BY <2>2 DEF generate_new_evm_block
<1>5. Good(back, p)
  BY <1>1, <1>2 DEF Ready, CacheInv, ExtendInv
<1>6. b.number > StartBlock.number => Holds(b, p)
  BY <1>3, <1>5 DEF Good, Holds
<1>7. AllGiven(b.number, p, inserted, published, handled)
  BY <1>1, <1>3 DEF HeldInv, back
<1> HIDE DEF b, p
<1>8. AllGiven(b.number + 1, p, inserted, Append(published, b), handled)
  BY <1>2, <1>3, <1>6, <1>7, AllGivenAppend
<1> QED BY <1>1, <1>4, <1>8 DEF HeldInv, p

LEMMA ConfigHeld ==
  ASSUME HistoriesAreIds, CleanStart, Ready, HeldInv, UNCHANGED <<inserted, handled>>, ApplyConfig
  PROVE  HeldInv'
<1> DEFINE p  == new_block.prev
           id == new_block.id
<1>1. /\ pc = "extend" /\ pc' = "fill" /\ UNCHANGED <<new_block, published>>
      /\ back.number >= EvmNum(new_block)
  BY DEF ApplyConfig
<1>2. /\ id \in Histories /\ Timed(id) /\ p \in Histories /\ Timed(p) /\ Len(p) \in Nat
      /\ Len(id) = Len(p) + 1 /\ p = Prefix(id, Len(p))
      /\ EvmNum(new_block) = NumberOf(id) /\ NumberOf(id) = Number(id[Len(id)])
      /\ back.number \in Nat
  BY <1>1, NewBlockFacts
<1>3. Last(evm_blocks').number = back.number
  BY ConfigReplaces, ReplacesBack DEF Ready
<1>4. back.number <= NumberOf(id) /\ AllGiven(back.number, p, inserted, published, handled)
  BY <1>1 DEF Ready, CacheInv, ExtendInv, HeldInv, back
<1>5. NumberOf(id) \in Nat
  BY <1>2, PositionFacts, NumberType
<1>6. back.number = NumberOf(id)
  BY <1>1, <1>2, <1>4, <1>5
<1>7. AllGiven(back.number, id, inserted, published, handled)
  <2> SUFFICES ASSUME NEW m \in StartBlock.number + 1 .. back.number - 1
               PROVE  Given(m, id, inserted, published, handled)
    BY DEF AllGiven
  <2>1. Given(m, p, inserted, published, handled)
    BY <1>4 DEF AllGiven
  <2>2. m \in Nat /\ m # Number(id[Len(id)])
    BY <1>2, <1>5, <1>6, StartNumber
  <2>3. ASSUME NEW b, b.number = m, Holds(b, p)
        PROVE  Holds(b, id)
    <3>1. /\ Len(id) \in 0 .. Len(id) /\ Len(p) \in 0 .. Len(id)
          /\ \A j \in Len(p) + 1 .. Len(id) : j = Len(id)
          /\ Prefix(id, Len(id)) = id
      BY <1>2, FullPrefix
    <3>2. \A j \in Len(p) + 1 .. Len(id) : Number(id[j]) # b.number
      BY <2>2, <2>3, <3>1
    <3>3. Holds(b, Prefix(id, Len(id))) <=> Holds(b, Prefix(id, Len(p)))
      BY <1>2, <3>1, <3>2, HoldsStable
    <3> QED BY <1>2, <2>3, <3>1, <3>3
  <2> QED BY <2>1, <2>3, GivenBranch
<1> QED BY <1>1, <1>3, <1>7 DEF HeldInv

LEMMA FinishHeld ==
  ASSUME HistoriesAreIds, CleanStart, Ready, HeldInv, UNCHANGED <<inserted, handled>>, FinishAndTrim
  PROVE  HeldInv'
<1>1. /\ pc = "fill" /\ pc' = "idle" /\ UNCHANGED <<new_block, published>>
      /\ RetainedNative # {} /\ IrreversibleIndices # {}
      /\ native_blocks' = From(native_blocks, Min(RetainedNative))
  BY DEF FinishAndTrim, locals, shared
<1>2. /\ Last(native_blocks) = new_block /\ back.number = NumberOf(new_block.id)
      /\ native_blocks \in Seq(NativeBlock) /\ native_blocks # <<>> /\ Window(native_blocks)
  BY <1>1, ReadyFacts DEF Ready, CacheInv, FillInv, back
<1>3. Min(RetainedNative) \in 1 .. Len(native_blocks)
  <2>1. Min(RetainedNative) \in RetainedNative
    BY <1>1, LibFacts DEF Ready
  <2> QED BY <1>2, <2>1, LenProperties DEF RetainedNative
<1>4. Branch' = new_block.id
  <2>1. Last(From(native_blocks, Min(RetainedNative))) = Last(native_blocks)
    BY <1>2, <1>3, WindowFrom
  <2> QED BY <1>1, <1>2, <2>1 DEF Branch
<1> QED BY <1>1, <1>2, <1>4 DEF HeldInv, back

LEMMA HandlerHeld ==
  ASSUME HistoriesAreIds, CleanStart, Ready, HeldInv, UNCHANGED <<inserted, handled>>,
         handled \in 0 .. Len(published), HandlerStep
  PROVE  HeldInv'
<1>1. CASE DropEvmBlock \/ DropNativeBlock \/ ResetUpperBound
  BY <1>1, UnwindHeld
<1>2. CASE FailToRemove \/ FailToSetUpperBound \/ FailToSetConfig \/ RejectTransaction \/ FailToTrim
  <2>1. Exit
    BY <1>2 DEF FailToRemove, FailToSetUpperBound, FailToSetConfig, RejectTransaction, FailToTrim
  <2> QED BY <2>1 DEF Exit, HeldInv
<1>3. CASE ExtendEvmChain
  BY <1>3, ExtendHeld
<1>4. CASE ApplyConfig
  BY <1>4, ConfigHeld
<1>5. CASE AddTransaction
  <2>1. pc = "fill" /\ UNCHANGED <<pc, new_block, published>>
    BY <1>5 DEF AddTransaction, shared
  <2>2. Last(evm_blocks').number = back.number
    BY <1>5, TransactionReplaces, ReplacesBack DEF Ready
  <2> QED BY <2>1, <2>2 DEF HeldInv, back
<1>6. CASE FinishWithoutLib
  <2>1. pc = "fill" /\ IrreversibleIndices = {}
    BY <1>6 DEF FinishWithoutLib
  <2> QED BY <2>1, LibIs
<1>7. CASE FinishAndTrim
  BY <1>7, FinishHeld
<1> QED BY <1>1, <1>2, <1>3, <1>4, <1>5, <1>6, <1>7 DEF HandlerStep

-----------------------------------------------------------------------------
(* The rest of the invariant, while the handler works *)

\* A handler's step publishes nothing, or the last EVM block of the cache.
LEMMA HandlerPublishes ==
  ASSUME CleanStart, Ready, HandlerStep
  PROVE  \/ UNCHANGED published
         \/ /\ ExtendEvmChain /\ pc = "extend" /\ pc' = "extend"
            /\ back \in EvmBlock /\ published \in Seq(EvmBlock)
            /\ published' = Append(published, Sealed(back))
            /\ Last(evm_blocks').number = back.number + 1
            /\ Good(back, new_block.prev)
<1>1. CASE ExtendEvmChain
  <2> DEFINE b == Sealed(back)
  <2>1. /\ pc = "extend" /\ pc' = "extend"
        /\ published' = Append(published, b)
        /\ evm_blocks' = Append(WithBack(evm_blocks, b), generate_new_evm_block(b))
    BY <1>1, ExtendEffect DEF ExtendEvmChain
  <2>2. /\ evm_blocks \in Seq(EvmBlock) /\ evm_blocks # <<>> /\ published \in Seq(EvmBlock)
        /\ back \in EvmBlock /\ back = evm_blocks[Len(evm_blocks)]
        /\ Len(evm_blocks) \in 1 .. Len(evm_blocks)
    BY <2>1, NewBlockFacts DEF Ready, TypedLists, TypeOK
  <2>3. b \in EvmBlock /\ b.number = back.number
    BY <2>2, SealedType DEF Sealed, EvmBlock
  <2>4. WithBack(evm_blocks, b) \in Seq(EvmBlock) /\ generate_new_evm_block(b) \in EvmBlock
    BY <2>2, <2>3, WithBackFacts, GeneratedType
  <2>5. Last(evm_blocks') = generate_new_evm_block(b)
    BY <2>1, <2>4, AppendProperties, LenProperties DEF Last
  <2>6. Good(back, new_block.prev)
    BY <2>1, <2>2 DEF Ready, CacheInv, ExtendInv
  <2> QED BY <1>1, <2>1, <2>2, <2>3, <2>5, <2>6 DEF generate_new_evm_block
<1>2. CASE ~ExtendEvmChain
  BY <1>2 DEF HandlerStep, Exit, shared, DropEvmBlock, DropNativeBlock, FailToRemove,
     ResetUpperBound, FailToSetUpperBound, ApplyConfig, FailToSetConfig, AddTransaction,
     RejectTransaction, FinishWithoutLib, FinishAndTrim, FailToTrim
<1> QED BY <1>1, <1>2

LEMMA HandlerStart ==
  ASSUME CleanStart, Ready, StartInv, UNCHANGED <<inserted, canonical>>, HandlerStep
  PROVE  StartInv'
<1>1. CASE UNCHANGED published
  BY <1>1 DEF StartInv
<1>2. ASSUME back \in EvmBlock, published \in Seq(EvmBlock), Good(back, new_block.prev),
             published' = Append(published, Sealed(back))
      PROVE  StartInv'
  <2> DEFINE b == Sealed(back)
  <2>1. b \in EvmBlock /\ b.number = back.number /\ b.prev_randao = back.prev_randao
    BY <1>2, SealedType DEF Sealed, EvmBlock
  <2>2. b.number = StartBlock.number => b.prev_randao = <<>>
    BY <1>2, <2>1 DEF Good
  <2> HIDE DEF b
  <2>3. /\ Len(published) \in Nat /\ Len(Append(published, b)) = Len(published) + 1
        /\ \A i \in 1 .. Len(published) : Append(published, b)[i] = published[i]
        /\ Append(published, b)[Len(published) + 1] = b
    BY <1>2, <2>1, AppendedFacts
  <2>4. \A i \in 1 .. Len(published) + 1 : i \in 1 .. Len(published) \/ i = Len(published) + 1
    BY <2>3
  <2>5. \A i \in 1 .. Len(Append(published, b)) :
          Append(published, b)[i].number = StartBlock.number
            => Append(published, b)[i].prev_randao = <<>>
    BY <2>2, <2>3, <2>4 DEF StartInv
  <2> QED BY <1>2, <2>5 DEF StartInv, b
<1> QED BY <1>1, <1>2, HandlerPublishes

LEMMA HandlerQueue ==
  ASSUME CleanStart, Ready, QueueInv, UNCHANGED handled, handled \in 0 .. Len(published),
         HandlerStep
  PROVE  QueueInv'
<1>1. published \in Seq(EvmBlock) /\ evm_blocks \in Seq(EvmBlock) /\ pc # "exited" /\ pc # "idle"
  BY DEF Ready, TypedLists, TypeOK, HandlerStep, DropEvmBlock, DropNativeBlock, FailToRemove,
     ResetUpperBound, FailToSetUpperBound, ExtendEvmChain, ApplyConfig, FailToSetConfig,
     AddTransaction, RejectTransaction, FinishWithoutLib, FinishAndTrim, FailToTrim
<1>2. CASE UNCHANGED published /\ pc = "unwind"
  <2>1. handled + 1 .. Len(published) = {} /\ handled = Len(published)
    BY <1>2, <1>1, LenProperties DEF QueueInv
  <2> QED BY <1>2, <2>1 DEF QueueInv
<1>3. CASE UNCHANGED published /\ pc # "unwind"
  <2>1. pc' # "unwind"
    BY <1>1, <1>3 DEF HandlerStep, Exit, DropEvmBlock, DropNativeBlock, FailToRemove,
       ResetUpperBound, FailToSetUpperBound, ExtendEvmChain, ApplyConfig, FailToSetConfig,
       AddTransaction, RejectTransaction, FinishWithoutLib, FinishAndTrim, FailToTrim
  <2>2. pc' = "exited" \/ Last(evm_blocks').number = back.number
    <3>1. CASE FailToSetConfig \/ RejectTransaction \/ FailToTrim
      BY <3>1 DEF FailToSetConfig, RejectTransaction, FailToTrim, Exit
    <3>2. CASE ApplyConfig
      BY <3>2, ConfigReplaces, ReplacesBack DEF Ready
    <3>3. CASE AddTransaction
      BY <3>3, TransactionReplaces, ReplacesBack DEF Ready
    <3>4. CASE FinishAndTrim
      BY <3>4, TrimReplaces, ReplacesBack DEF Ready
    <3>5. CASE FinishWithoutLib
      BY <3>5, LibIs DEF FinishWithoutLib
    <3>6. CASE ExtendEvmChain
      <4>1. published' = Append(published, Sealed(back)) /\ Sealed(back) \in EvmBlock
        BY <3>6, ExtendEffect, SealedType, NewBlockFacts DEF ExtendEvmChain
      <4>2. Len(Append(published, Sealed(back))) = Len(published) + 1 /\ Len(published) \in Nat
        BY <1>1, <4>1, AppendedFacts
      <4> QED BY <1>3, <4>1, <4>2
    <3> QED BY <1>3, <3>1, <3>2, <3>3, <3>4, <3>5, <3>6
         DEF HandlerStep, DropEvmBlock, DropNativeBlock, FailToRemove, ResetUpperBound,
             FailToSetUpperBound
  <2> QED BY <1>1, <1>3, <2>1, <2>2 DEF QueueInv, back
<1>4. ASSUME pc = "extend", pc' = "extend", back \in EvmBlock,
             published' = Append(published, Sealed(back)),
             Last(evm_blocks').number = back.number + 1
      PROVE  QueueInv'
  <2> DEFINE b == Sealed(back)
             Q == Append(published, b)
             n == Len(published)
  <2>1. b \in EvmBlock /\ b.number = back.number /\ back.number \in Nat
    BY <1>4, SealedType DEF Sealed, EvmBlock
  <2> HIDE DEF b
  <2>2. /\ n \in Nat /\ Len(Q) = n + 1 /\ \A i \in 1 .. n : Q[i] = published[i]
        /\ Q[n + 1] = b
    BY <1>1, <2>1, AppendedFacts
  <2>3. \A i \in handled + 1 .. n : published[i].number < back.number /\ i \in 1 .. n
    BY <1>1, <2>2 DEF QueueInv, back
  <2>4. \A i \in 1 .. n : published[i].number \in Nat
    <3>1. \A i \in 1 .. n : published[i] \in EvmBlock
      BY <1>1, ElementOfSeq
    <3> QED BY <3>1 DEF EvmBlock
  <2> HIDE DEF Q, n
  <2>5. ASSUME NEW i \in handled + 1 .. n + 1
        PROVE  /\ \A j \in i + 1 .. n + 1 : Q[i].number < Q[j].number
               /\ Q[i].number < back.number + 1
    <3>1. CASE i = n + 1
      <4>1. i + 1 .. n + 1 = {}
        BY <2>2, <3>1
      <4>2. Q[i].number < back.number + 1
        BY <2>1, <2>2, <3>1
      <4> QED BY <4>1, <4>2
    <3>2. CASE i # n + 1
      <4>1. i \in handled + 1 .. n
        BY <2>2, <3>2
      <4>2. Q[i] = published[i] /\ published[i].number < back.number
            /\ published[i].number \in Nat
        BY <2>2, <2>3, <2>4, <4>1
      <4>3. ASSUME NEW j \in i + 1 .. n + 1 PROVE Q[i].number < Q[j].number
        <5>1. CASE j = n + 1
          BY <2>1, <2>2, <4>2, <5>1
        <5>2. CASE j # n + 1
          <6>1. j \in i + 1 .. n /\ j \in 1 .. n
            BY <2>2, <2>3, <4>1, <5>2
          <6>2. published[i].number < published[j].number
            BY <4>1, <6>1 DEF QueueInv, n
          <6> QED BY <2>2, <4>2, <6>1, <6>2
        <5> QED BY <5>1, <5>2
      <4>4. published[i].number < back.number + 1
        BY <2>1, <4>2
      <4> QED BY <4>2, <4>3, <4>4
    <3> QED BY <3>1, <3>2
  <2>6. published' = Q /\ Len(Q) = n + 1
    BY <1>4, <2>2 DEF Q, b
  <2> QED BY <1>4, <2>5, <2>6 DEF QueueInv
<1> QED BY <1>2, <1>3, <1>4, HandlerPublishes

-----------------------------------------------------------------------------
(* What is final *)

\* What a block holds of the branch of the cache, below an irreversible native block
\* that is in the cache, is what it holds of the native chain.
LEMMA FirmHolds ==
  ASSUME HistoriesAreIds, CleanStart, Ready, pc # "exited",
         NEW i \in 1 .. Len(native_blocks), Firm(native_blocks[i].id),
         NEW m \in Nat, m > StartBlock.number, m < NumberOf(native_blocks[i].id)
  PROVE  /\ m < NumberOf(Branch) /\ NumberOf(Branch) \in Nat /\ Settled(m)
         /\ \A b : b.number = m => (Holds(b, Branch) <=> Holds(b, best))
<1> DEFINE N == native_blocks
<1>1. /\ N \in Seq(NativeBlock) /\ N # <<>> /\ Window(N) /\ Branch = Last(N).id
      /\ best \in Histories /\ Timed(best) /\ Branch \in Histories /\ Timed(Branch)
      /\ Len(Branch) \in Nat /\ Len(best) \in Nat /\ lib \in Nat
  BY ReadyFacts DEF Branch
<1>2. PICK c \in 0 .. Len(Branch) : N[i].id = Prefix(Branch, c) /\ Len(N[i].id) = c
  BY <1>1, WindowFacts
<1>3. c \in 0 .. Len(best) /\ Prefix(Branch, c) = Prefix(best, c) /\ StartBlockNum + c <= lib
  BY <1>1, <1>2 DEF Firm
<1>4. c # 0
  <2>1. Prefix(Branch, 0) = <<>>
    BY <1>1, FullPrefix
  <2>2. NumberOf(<<>>) = StartBlock.number
    BY DEF CleanStart
  <2> QED BY <1>2, <2>1, <2>2, StartNumber
<1>5. /\ c \in 1 .. Len(Branch) /\ c \in 1 .. Len(best)
      /\ Len(Branch) \in 0 .. Len(Branch) /\ Len(best) \in 0 .. Len(best)
      /\ Len(Branch) \in c .. Len(Branch) /\ c \in 0 .. Len(Branch)
      /\ Prefix(Branch, Len(Branch)) = Branch /\ Prefix(best, Len(best)) = best
  BY <1>1, <1>2, <1>3, <1>4, FullPrefix
<1>6. NumberOf(N[i].id) = Number(Branch[c]) /\ NumberOf(N[i].id) = Number(best[c])
  BY <1>1, <1>2, <1>3, <1>5, PositionFacts
<1>7. /\ NumberOf(N[i].id) <= NumberOf(Branch)
      /\ NumberOf(N[i].id) \in Nat /\ NumberOf(Branch) \in Nat
  <2>1. \A k \in 0 .. Len(Branch) : NumberOf(Prefix(Branch, k)) \in Nat
    BY <1>1, <1>5, NumberOfMonotonic
  <2>2. NumberOf(Prefix(Branch, c)) <= NumberOf(Prefix(Branch, Len(Branch)))
    BY <1>1, <1>5, NumberOfMonotonic
  <2> QED BY <1>2, <1>5, <2>1, <2>2
<1>8. m < NumberOf(Branch)
  BY <1>7
<1>9. Settled(m)
  BY <1>3, <1>5, <1>6 DEF Settled
<1>10. ASSUME NEW b, b.number = m
       PROVE  Holds(b, Branch) <=> Holds(b, best)
  <2>1. b.number \in Nat /\ b.number < Number(Branch[c]) /\ b.number < Number(best[c])
    BY <1>6, <1>10
  <2>2. Holds(b, Prefix(Branch, Len(Branch))) <=> Holds(b, Prefix(Branch, c))
    BY <1>1, <1>5, <2>1, HoldsBelow
  <2>3. Holds(b, Prefix(best, Len(best))) <=> Holds(b, Prefix(best, c))
    BY <1>1, <1>5, <2>1, HoldsBelow
  <2> QED BY <1>3, <1>5, <2>2, <2>3
<1> QED BY <1>7, <1>8, <1>9, <1>10

\* Whatever the native chain does next, what is final stays so.
LEMMA ChainFinal ==
  ASSUME HistoriesAreIds, FinalInv, UNCHANGED <<canonical, kLibProcessed>>,
         canonical \in Seq(EvmBlock), kLibProcessed \in Optional(Nat),
         StreamTypeOK, StreamTypeOK', Timed(best), Timed(best'), NEW n \in Nat, Keeps(n)
  PROVE  FinalInv'
<1> SUFFICES ASSUME kLibProcessed # None, kLibProcessed > StartBlock.number
             PROVE  /\ Settled(kLibProcessed)'
                    /\ \A i \in 2 .. Len(canonical) :
                         canonical[i].number <= kLibProcessed => Holds(canonical[i], best')
  BY DEF FinalInv
<1>1. /\ best \in Histories /\ best' \in Histories /\ lib \in Nat /\ lib' \in Nat
      /\ StartBlockNum \in Nat
      /\ kLibProcessed \in Nat /\ Len(best) \in Nat /\ Len(best') \in Nat
  BY ChannelAssumption, LenProperties DEF StreamTypeOK, Histories, Optional
<1>2. PICK c \in 1 .. Len(best) : StartBlockNum + c <= lib /\ Number(best[c]) > kLibProcessed
  BY DEF FinalInv, Settled
<1>3. /\ c \in 1 .. n /\ c \in 0 .. n /\ c \in 1 .. Len(best') /\ c \in 1 .. Len(best)
      /\ c \in 0 .. Len(best') /\ c \in 0 .. Len(best)
      /\ StartBlockNum + c <= lib'
  BY <1>1, <1>2 DEF Keeps
<1>4. Prefix(best', c) = Prefix(best, c) /\ best'[c] = best[c]
  BY <1>3 DEF Keeps
<1>5. Settled(kLibProcessed)'
  BY <1>2, <1>3, <1>4 DEF Settled
<1>6. ASSUME NEW i \in 2 .. Len(canonical), canonical[i].number <= kLibProcessed
      PROVE  Holds(canonical[i], best')
  <2> DEFINE b == canonical[i]
  <2>1. b.number \in Nat
    <3>1. b \in EvmBlock
      BY ElementOfSeq, LenProperties
    <3> QED BY <3>1 DEF EvmBlock
  <2>2. Number(best[c]) \in Nat
    BY <1>1, <1>3, PositionFacts, NumberType
  <2>3. Holds(b, best)
    BY <1>6 DEF FinalInv
  <2> HIDE DEF b
  <2>4. b.number < Number(best[c]) /\ b.number < Number(best'[c])
    <3>1. Number(best'[c]) = Number(best[c])
      BY <1>4
    <3>2. b.number <= kLibProcessed
      BY <1>6 DEF b
    <3>3. b.number < Number(best[c])
      <4>1. \A x, y, z \in Nat : x <= y /\ z > y => x < z
        OBVIOUS
      <4>2. kLibProcessed \in Nat /\ Number(best[c]) > kLibProcessed
        BY <1>1, <1>2
      <4> QED BY <2>1, <2>2, <3>2, <4>1, <4>2
    <3> QED BY <3>1, <3>3
  <2>5. /\ Prefix(best, Len(best)) = best /\ Prefix(best', Len(best')) = best'
        /\ Len(best) \in 0 .. Len(best) /\ Len(best') \in 0 .. Len(best')
    BY <1>1, FullPrefix
  <2>6. Holds(b, Prefix(best, Len(best))) <=> Holds(b, Prefix(best, c))
    BY <1>1, <1>3, <2>1, <2>4, <2>5, HoldsBelow
  <2>7. Holds(b, Prefix(best', Len(best'))) <=> Holds(b, Prefix(best', c))
    BY <1>1, <1>3, <2>1, <2>4, <2>5, HoldsBelow
  <2> QED BY <1>4, <2>3, <2>5, <2>6, <2>7 DEF b
<1> QED BY <1>5, <1>6

\* In a chain of blocks that are where their numbers say.
LEMMA RootedAt ==
  ASSUME NEW chain \in Seq(EvmBlock), Rooted(chain), NEW i \in 1 .. Len(chain)
  PROVE  /\ chain[i] \in EvmBlock /\ chain[i].number \in Nat
         /\ chain[i].number = StartBlock.number + i - 1
         /\ chain[i].number - StartBlock.number + 1 = i
<1>1. chain[i] \in EvmBlock /\ chain[i].number = StartBlock.number + i - 1
  BY ElementOfSeq DEF Rooted
<1>2. chain[i].number \in Nat /\ i \in Nat /\ Len(chain) \in Nat
  BY <1>1, LenProperties DEF EvmBlock
<1> QED BY <1>1, <1>2, StartNumber

-----------------------------------------------------------------------------
(* blockchain_plugin takes a block *)

\* What the converter and the stream see of it.
LEMMA StoreQuiet ==
  ASSUME NodeInv, StoreStep
  PROVE  /\ pc = "idle" /\ [SystemNext]_allvars
         /\ UNCHANGED <<caches, evm_lib, published, pc, locals, best, lib>>
<1>1. Insert
  BY DEF StoreStep, InsertInBatch, InsertAndVerify
<1>2. /\ pc = "idle" /\ exec_engine' = TRUE
      /\ UNCHANGED <<nodeos_vars, receiver_vars, caches, evm_lib, published,
                     consensus_parameters, pc, locals>>
  BY <1>1 DEF Insert
<1>3. published # <<>>
  <2>1. handled + 1 \in 1 .. Len(published)
    BY StoreFacts
  <2> QED BY <2>1
<1>4. CASE exec_engine
  BY <1>2, <1>4 DEF NodeInv, TypedLists, TypeOK, vars, allvars, caches, locals, nodeos_vars,
     chain_vars
<1>5. CASE ~exec_engine
  BY <1>2, <1>3, <1>5 DEF OpenExecutionEngine, NodeStep, SystemNext, nodeos_vars, chain_vars
<1> QED BY <1>2, <1>4, <1>5

\* The block taken, and where it goes.
LEMMA StoreTakes ==
  ASSUME NodeInv, StoreStep
  PROVE  LET b == published[handled + 1]
         IN  /\ b \in EvmBlock /\ b.number \in Nat /\ FitsOn(b, inserted)
             /\ published \in Seq(EvmBlock) /\ Len(published) \in Nat /\ handled \in Nat
             /\ handled + 1 \in 1 .. Len(published) /\ handled' = handled + 1
             /\ inserted \in Seq(EvmBlock) /\ inserted' \in Seq(EvmBlock) /\ Rooted(inserted')
             /\ inserted' = insert_block(inserted, b)
             /\ b.number - StartBlock.number \in 0 .. Len(inserted)
             /\ Len(inserted') = b.number - StartBlock.number + 1
             /\ \A i \in 1 .. b.number - StartBlock.number : inserted'[i] = inserted[i]
             /\ inserted'[b.number - StartBlock.number + 1] = Stored(b)
<1> DEFINE b == published[handled + 1]
<1>1. /\ handled + 1 \in 1 .. Len(published) /\ handled' = handled + 1
      /\ inserted' = insert_block(inserted, b)
  BY StoreFacts DEF NextBlock
<1>2. /\ published \in Seq(EvmBlock) /\ Len(published) \in Nat /\ handled \in Nat
      /\ inserted \in Seq(EvmBlock) /\ Rooted(inserted)
  BY LenProperties DEF NodeInv, TypedLists, TypeOK, StoreTypeOK, ChainInv
<1>3. b \in EvmBlock
  BY <1>1, <1>2, ElementOfSeq
<1>4. FitsOn(b, inserted)
  <2>1. Placed(published[handled + 1], inserted, published, handled, (handled + 1) - 1)
    BY <1>1, <1>2 DEF NodeInv, ChainInv, QueuePlaced
  <2>2. (handled + 1) - 1 = handled /\ handled + 1 .. handled = {}
    BY <1>2
  <2> QED BY <2>1, <2>2 DEF Placed, FitsOn
<1>5. b.number \in Nat
  BY <1>3 DEF EvmBlock
<1> HIDE DEF b
<1>6. /\ insert_block(inserted, b) \in Seq(EvmBlock)
      /\ b.number - StartBlock.number \in 0 .. Len(inserted)
      /\ Len(insert_block(inserted, b)) = b.number - StartBlock.number + 1
      /\ \A i \in 1 .. b.number - StartBlock.number : insert_block(inserted, b)[i] = inserted[i]
      /\ insert_block(inserted, b)[b.number - StartBlock.number + 1] = Stored(b)
  BY <1>2, <1>3, <1>4, InsertedFacts
<1>7. Rooted(insert_block(inserted, b))
  BY <1>2, <1>3, <1>4, InsertedRooted
<1> QED BY <1>1, <1>2, <1>3, <1>4, <1>5, <1>6, <1>7 DEF b

LEMMA StoreHeld ==
  ASSUME NodeInv, Ready, HeldInv, StoreStep
  PROVE  HeldInv'
<1>1. /\ pc = "idle" /\ pc' = "idle" /\ UNCHANGED <<native_blocks, published>>
  BY StoreQuiet DEF caches
<1>2. AllGiven(NumberOf(Branch), Branch, inserted, published, handled)
  BY <1>1 DEF HeldInv
<1>3. NumberOf(Branch) \in Nat
  <2>1. NumberOf(Branch) = Last(evm_blocks).number
    BY <1>1 DEF Ready, CacheInv, IdleInv
  <2>2. evm_blocks \in Seq(EvmBlock) /\ evm_blocks # <<>>
    BY <1>1 DEF Ready, TypedLists, TypeOK, ListsReadable
  <2>3. Last(evm_blocks) \in EvmBlock
    BY <2>2, FrontFacts
  <2> QED BY <2>1, <2>3 DEF EvmBlock
<1>4. AllGiven(NumberOf(Branch), Branch, inserted', published, handled')
  BY <1>2, <1>3, StoreTakes, AllGivenInsert
<1> QED BY <1>1, <1>4 DEF HeldInv, Branch

LEMMA StoreStart ==
  ASSUME NodeInv, StartInv, StoreStep
  PROVE  StartInv'
<1> DEFINE b == published[handled + 1]
<1>1. UNCHANGED published
  BY StoreQuiet
<1>2. /\ b \in EvmBlock /\ b.number \in Nat /\ handled + 1 \in 1 .. Len(published)
      /\ b.number - StartBlock.number \in 0 .. Len(inserted)
      /\ \A i \in 1 .. b.number - StartBlock.number : inserted'[i] = inserted[i]
      /\ inserted'[b.number - StartBlock.number + 1] = Stored(b)
      /\ Len(inserted) \in Nat
  BY StoreTakes, LenProperties
<1>3. Stored(b).prev_randao = b.prev_randao
  BY <1>2 DEF Stored, EvmBlock
<1>4. b.number = StartBlock.number => b.prev_randao = <<>>
  BY <1>2 DEF StartInv
<1> HIDE DEF b
<1>5. inserted'[1].prev_randao = <<>>
  <2>1. CASE b.number = StartBlock.number
    <3>1. b.number - StartBlock.number + 1 = 1
      BY <2>1, StartNumber
    <3> QED BY <1>2, <1>3, <1>4, <2>1, <3>1
  <2>2. CASE b.number # StartBlock.number
    <3>1. 1 \in 1 .. b.number - StartBlock.number
      BY <1>2, <2>2, StartNumber
    <3> QED BY <1>2, <3>1 DEF StartInv
  <2> QED BY <2>1, <2>2
<1>6. canonical' = canonical \/ canonical' = inserted'
  BY StoreFacts DEF db_vars
<1> QED BY <1>1, <1>5, <1>6 DEF StartInv

LEMMA StoreQueue ==
  ASSUME NodeInv, QueueInv, StoreStep
  PROVE  QueueInv'
<1>1. pc = "idle" /\ UNCHANGED <<evm_blocks, published, pc>>
  BY StoreQuiet DEF caches
<1>2. handled' = handled + 1 /\ handled \in Nat /\ Len(published) \in Nat
  BY StoreTakes
<1>3. \A i \in handled' + 1 .. Len(published) : i \in handled + 1 .. Len(published)
  BY <1>2
<1> QED BY <1>1, <1>3 DEF QueueInv

LEMMA StoreFinal ==
  ASSUME HistoriesAreIds, CleanStart, NodeInv, Ready, HeldInv, QueueInv, FinalInv, StoreStep
  PROVE  FinalInv'
<1> DEFINE b == published[handled + 1]
<1>1. /\ pc = "idle" /\ pc' = "idle" /\ UNCHANGED <<native_blocks, published, best, lib>>
  BY StoreQuiet DEF caches
<1>2. CASE UNCHANGED db_vars
  BY <1>1, <1>2 DEF FinalInv, Settled, db_vars
<1>3. CASE canonical' = inserted' /\ kLibProcessed' = evm_lib
  <2>1. /\ b \in EvmBlock /\ b.number \in Nat
        /\ published \in Seq(EvmBlock) /\ Len(published) \in Nat /\ handled \in Nat
        /\ handled + 1 \in 1 .. Len(published) /\ handled' = handled + 1
        /\ inserted' \in Seq(EvmBlock) /\ Rooted(inserted')
        /\ Len(inserted') = b.number - StartBlock.number + 1
    BY StoreTakes
  <2>2. evm_lib \in Nat /\ None \notin Nat /\ StartBlock.number \in Nat
    BY StartNumber DEF Ready, TypedLists, TypeOK, CleanStart
  <2>3. PICK f \in 1 .. Len(native_blocks) :
          Firm(native_blocks[f].id) /\ evm_lib < NumberOf(native_blocks[f].id)
    <3>1. published # <<>>
      BY <2>1
    <3> QED BY <1>1, <3>1 DEF Ready, CacheInv, LibInv, LibComputed
  <2>4. HeldInv'
    BY StoreHeld
  <2> SUFFICES ASSUME evm_lib > StartBlock.number
               PROVE  /\ Settled(evm_lib)
                      /\ \A i \in 2 .. Len(inserted') :
                           inserted'[i].number <= evm_lib => Holds(inserted'[i], best)
    BY <1>1, <1>3, <2>2 DEF FinalInv, Settled
  <2>5. Settled(evm_lib)
    BY <1>1, <2>2, <2>3, FirmHolds
  <2>6. ASSUME NEW i \in 2 .. Len(inserted'), inserted'[i].number <= evm_lib
        PROVE  Holds(inserted'[i], best)
    <3> DEFINE m == inserted'[i].number
    <3>1. /\ i \in 1 .. Len(inserted') /\ m \in Nat /\ m = StartBlock.number + i - 1
          /\ m - StartBlock.number + 1 = i
      BY <2>1, LenProperties, RootedAt
    <3>2. m > StartBlock.number /\ m <= b.number
      <4>1. \A x, y, z, l \in Nat : l = y - x + 1 /\ z \in 2 .. l => x + z - 1 > x /\ x + z - 1 <= y
        OBVIOUS
      <4>2. Len(inserted') \in Nat /\ i \in Nat
        BY <2>1, LenProperties
      <4> HIDE DEF m
      <4> QED BY <2>1, <2>2, <3>1, <4>1, <4>2
    <3> HIDE DEF m
    <3>3. m < NumberOf(native_blocks[f].id)
      <4>1. NumberOf(native_blocks[f].id) \in Nat
        <5>1. native_blocks \in Seq(NativeBlock) /\ native_blocks # <<>> /\ Window(native_blocks)
          BY <1>1, ReadyFacts
        <5>2. native_blocks[f].id \in Histories /\ Timed(native_blocks[f].id)
          BY <5>1, WindowFacts
        <5>3. /\ Prefix(native_blocks[f].id, Len(native_blocks[f].id)) = native_blocks[f].id
              /\ Len(native_blocks[f].id) \in 0 .. Len(native_blocks[f].id)
              /\ Len(native_blocks[f].id) \in Len(native_blocks[f].id) .. Len(native_blocks[f].id)
          BY <5>2, FullPrefix
        <5> QED BY <5>2, <5>3, NumberOfMonotonic
      <4> QED BY <2>2, <2>3, <2>6, <3>1, <4>1 DEF m
    <3>4. /\ m < NumberOf(Branch) /\ NumberOf(Branch) \in Nat
          /\ \A c : c.number = m => (Holds(c, Branch) <=> Holds(c, best))
      BY <1>1, <2>3, <3>1, <3>2, <3>3, FirmHolds
    <3>5. Given(m, Branch, inserted', published, handled + 1)
      <4>1. m \in StartBlock.number + 1 .. NumberOf(Branch) - 1
        <5>1. \A x, y, z \in Nat : y > x /\ y < z => y \in x + 1 .. z - 1
          OBVIOUS
        <5> QED BY <2>2, <3>1, <3>2, <3>4, <5>1
      <4>2. Branch' = Branch
        BY <1>1 DEF Branch
      <4>3. AllGiven(NumberOf(Branch), Branch, inserted', published, handled + 1)
        BY <1>1, <2>1, <2>4, <4>2 DEF HeldInv
      <4> QED BY <4>1, <4>3 DEF AllGiven
    <3>6. \A l \in (handled + 1) + 1 .. Len(published) : published[l].number # m
      <4> TAKE l \in (handled + 1) + 1 .. Len(published)
      <4>1. handled + 1 \in handled + 1 .. Len(published) /\ l \in 1 .. Len(published)
        BY <2>1
      <4>2. b.number < published[l].number
        BY <4>1 DEF QueueInv
      <4>3. published[l].number \in Nat
        <5>1. published[l] \in EvmBlock
          BY <2>1, <4>1, ElementOfSeq
        <5> QED BY <5>1 DEF EvmBlock
      <4>4. \A x, y, z \in Nat : x <= y /\ y < z => z # x
        OBVIOUS
      <4> HIDE DEF b
      <4> QED BY <2>1, <3>1, <3>2, <4>2, <4>3, <4>4
    <3>7. inserted'[i].number = m /\ Holds(inserted'[i], Branch)
      BY <3>1, <3>5, <3>6 DEF Given
    <3> QED BY <3>4, <3>7
  <2> QED BY <2>5, <2>6
<1> QED BY <1>2, <1>3, StoreFacts

-----------------------------------------------------------------------------
(* The start after a crash *)

\* The option ship-start-from-canonical-height is not used to resume above the start block.
OptionUnused == \A height \in Heights : height = None \/ height <= StartBlock.number

\* Where a start resumes is in the database, which is final up to there.
LEMMA StartIsFinal ==
  ASSUME CleanStart, NodeInv, FinalInv,
         NEW height, height = None \/ (height \in Nat /\ height <= StartBlock.number)
  PROVE  \E k \in 1 .. Len(canonical) :
           /\ get_canonical_block_at_height(height) = canonical[k]
           /\ k > 1 => /\ canonical[k].prev_randao # Zero
                       /\ kLibProcessed # None /\ kLibProcessed > StartBlock.number
                       /\ canonical[k].number <= kLibProcessed
<1> DEFINE e  == EffectiveHeight
           h  == IF height = None THEN e ELSE height
           is == {i \in DOMAIN canonical :
                    canonical[i].number <= h /\ canonical[i].prev_randao # Zero}
<1>1. /\ canonical \in Seq(EvmBlock) /\ Rooted(canonical) /\ canonical # <<>>
      /\ Len(canonical) \in Nat \ {0} /\ DOMAIN canonical = 1 .. Len(canonical)
      /\ kLibProcessed \in Optional(Nat)
  BY LenProperties, EmptySeq DEF NodeInv, StoreTypeOK, ChainInv
<1>2. get_canonical_block_at_height(height) = IF is = {} THEN canonical[1] ELSE canonical[Max(is)]
  BY DEF get_canonical_block_at_height, find_block_with_valid_eos_id
<1>3. is \in SUBSET (1 .. Len(canonical))
  BY <1>1
<1>4. \A i \in is : canonical[i].number <= h /\ canonical[i].prev_randao # Zero
  OBVIOUS
<1> HIDE DEF is
<1>5. is # {} => Max(is) \in is
  <2>1. is \in SUBSET (0 .. Len(canonical))
    BY <1>1, <1>3
  <2> QED BY <1>1, <2>1, MaxExists
<1>6. 1 \in 1 .. Len(canonical)
  BY <1>1
<1>7. CASE is = {} \/ Max(is) = 1
  BY <1>2, <1>6, <1>7
<1>8. CASE is # {} /\ Max(is) # 1
  <2>1. PICK k \in 2 .. Len(canonical) : k = Max(is)
    <3>1. Max(is) \in 1 .. Len(canonical) /\ Max(is) # 1
      BY <1>3, <1>5, <1>8
    <3>2. \A i \in 1 .. Len(canonical) : i # 1 => i \in 2 .. Len(canonical)
      BY <1>1
    <3> QED BY <3>1, <3>2
  <2>2. /\ canonical[k].number <= h /\ canonical[k].prev_randao # Zero
        /\ get_canonical_block_at_height(height) = canonical[k]
    BY <1>2, <1>4, <1>5, <1>8, <2>1
  <2>3. /\ k \in 1 .. Len(canonical) /\ canonical[k].number > StartBlock.number
        /\ canonical[k].number \in Nat
    <3>1. k \in 1 .. Len(canonical)
      BY <1>1, <2>1
    <3>2. canonical[k].number \in Nat /\ canonical[k].number = StartBlock.number + k - 1
      BY <1>1, <3>1, RootedAt
    <3>3. \A x \in Nat : x + k - 1 > x
      BY <2>1
    <3> QED BY <3>1, <3>2, <3>3, StartNumber
  <2>4. height = None
    <3>1. CASE height # None
      <4>1. h = height /\ height \in Nat /\ height <= StartBlock.number
        BY <3>1
      <4>2. canonical[k].number <= height
        BY <2>2, <4>1
      <4> HIDE DEF h
      <4> QED BY <2>3, <4>1, <4>2, StartNumber
    <3> QED BY <3>1
  <2>5. kLibProcessed # None
    <3>1. CASE kLibProcessed = None
      <4>1. Len(canonical) = 1
        BY <3>1 DEF FinalInv
      <4> QED BY <2>1, <4>1
    <3> QED BY <3>1
  <2>6. kLibProcessed \in Nat
    BY <1>1, <2>5 DEF Optional
  <2>7. canonical[k].number <= kLibProcessed
    <3>1. get_head_canonical_header.number \in Nat
      <4>1. Last(canonical) \in EvmBlock
        BY <1>1, FrontFacts
      <4> QED BY <4>1 DEF get_head_canonical_header, EvmBlock
    <3>2. e = IF kLibProcessed <= get_head_canonical_header.number
              THEN kLibProcessed ELSE get_head_canonical_header.number
      BY <2>5, <2>6, <3>1, MinOfTwo DEF EffectiveHeight
    <3>3. canonical[k].number <= e
      BY <2>2, <2>4
    <3> HIDE DEF e
    <3> QED BY <2>3, <2>6, <3>1, <3>2, <3>3
  <2> QED BY <2>2, <2>3, <2>5, <2>6, <2>7, StartNumber
<1> QED BY <1>7, <1>8

\* The block that a start resumes at stands for irreversible native blocks, and all of
\* its second.
LEMMA StartFirm ==
  ASSUME HistoriesAreIds, CleanStart, NodeInv, StreamInv, StartInv, FinalInv,
         NEW height, height = None \/ (height \in Nat /\ height <= StartBlock.number)
  PROVE  LET start == get_canonical_block_at_height(height)
             id    == start.prev_randao
         IN  /\ start \in EvmBlock
             /\ id \in Histories /\ Timed(id) /\ Firm(id) /\ start.number = NumberOf(id)
             /\ StartBlockNum + Len(id) < lib
             /\ id = <<>> \/ Len(best) > Len(id)
             /\ Len(best) > Len(id) => Number(best[Len(id) + 1]) > NumberOf(id)
             /\ Good(start, id)
             /\ start.number = StartBlock.number => id = <<>>
             /\ \E k \in 1 .. Len(canonical) : start = canonical[k]
             /\ \A i \in 2 .. Len(canonical) :
                  canonical[i].number <= start.number => Holds(canonical[i], best)
<1>1. PICK k \in 1 .. Len(canonical) :
        /\ get_canonical_block_at_height(height) = canonical[k]
        /\ k > 1 => /\ canonical[k].prev_randao # Zero
                    /\ kLibProcessed # None /\ kLibProcessed > StartBlock.number
                    /\ canonical[k].number <= kLibProcessed
  BY StartIsFinal
<1> DEFINE start == canonical[k]
           id    == start.prev_randao
<1>2. /\ canonical \in Seq(EvmBlock) /\ Rooted(canonical) /\ Len(canonical) \in Nat
      /\ best \in Histories /\ Timed(best) /\ Len(best) \in Nat /\ lib \in Nat /\ lib > StartBlockNum
      /\ StartBlock.number \in Nat /\ StartBlockNum \in Nat /\ kLibProcessed \in Optional(Nat)
      /\ Prefix(best, Len(best)) = best /\ Prefix(best, 0) = <<>>
      /\ Len(best) \in 0 .. Len(best)
  <2>1. /\ canonical \in Seq(EvmBlock) /\ Rooted(canonical) /\ best \in Histories
        /\ Timed(best) /\ lib \in Nat /\ lib > StartBlockNum /\ kLibProcessed \in Optional(Nat)
    BY DEF NodeInv, StoreTypeOK, ChainInv, ShipTypeOK, StreamTypeOK, StreamInv
  <2> QED BY <2>1, StartNumber, ChannelAssumption, FullPrefix, LenProperties
<1>3. start \in EvmBlock /\ start.number \in Nat /\ start.number = StartBlock.number + k - 1
  BY <1>2, RootedAt
<1>4. NumberOf(<<>>) = StartBlock.number
  BY DEF CleanStart
<1>5. CASE k = 1
  <2>1. id = <<>> /\ start.number = StartBlock.number
    BY <1>2, <1>3, <1>5 DEF StartInv
  <2>2. Len(<<>>) = 0 /\ <<>> \in Histories /\ Timed(<<>>)
    BY EmptySeq DEF Histories, Timed
  <2>3. Firm(<<>>) /\ StartBlockNum + Len(<<>>) < lib
    BY <1>2, <2>2 DEF Firm
  <2>4. Len(best) > 0 => Number(best[0 + 1]) > NumberOf(<<>>)
    <3>1. Len(best) > 0 => 0 + 1 \in 1 .. Len(best)
      BY <1>2
    <3> QED BY <1>2, <1>4, <3>1 DEF Timed
  <2>5. Good(start, <<>>)
    BY <1>2, <2>1 DEF Good
  <2>6. \A i \in 2 .. Len(canonical) : ~(canonical[i].number <= start.number)
    <3> TAKE i \in 2 .. Len(canonical)
    <3>1. i \in 1 .. Len(canonical)
      BY <1>2
    <3>2. canonical[i].number \in Nat /\ canonical[i].number = StartBlock.number + i - 1
      BY <1>2, <3>1, RootedAt
    <3>3. \A x \in Nat : ~(x + i - 1 <= x)
      OBVIOUS
    <3> HIDE DEF start
    <3> QED BY <1>2, <2>1, <3>2, <3>3
  <2> QED BY <1>1, <1>3, <1>4, <2>1, <2>2, <2>3, <2>4, <2>5, <2>6
<1>6. CASE k # 1
  <2>1. /\ k \in 2 .. Len(canonical) /\ k > 1
    BY <1>2, <1>6
  <2>2. /\ start.prev_randao # Zero /\ kLibProcessed # None /\ kLibProcessed > StartBlock.number
        /\ start.number <= kLibProcessed /\ kLibProcessed \in Nat
    BY <1>1, <1>2, <2>1 DEF Optional
  <2>3. /\ Settled(kLibProcessed)
        /\ \A i \in 2 .. Len(canonical) :
             canonical[i].number <= kLibProcessed => Holds(canonical[i], best)
    BY <2>2 DEF FinalInv
  <2>4. PICK f \in 1 .. Len(best) : StartBlockNum + f <= lib /\ Number(best[f]) > kLibProcessed
    BY <2>3 DEF Settled
  <2>5. Holds(start, best) /\ start.number > StartBlock.number
    <3>1. \A x \in Nat : x + k - 1 > x
      BY <2>1
    <3>2. start.number > StartBlock.number
      BY <1>2, <1>3, <3>1
    <3> QED BY <2>1, <2>2, <2>3, <3>2
  <2> HIDE DEF start
  <2>6. PICK c \in 1 .. Len(best) : LastOf(best, Len(best), start.number, c) /\ id = Prefix(best, c)
    <3>1. UpperBoundOf(Prefix(best, Len(best)), start.number) = id
      BY <1>2, <2>5 DEF Holds
    <3> QED BY <1>2, <2>2, <3>1, UpperBoundIs
  <2>7. /\ Number(best[c]) = start.number
        /\ \A j \in c + 1 .. Len(best) : Number(best[j]) # start.number
    BY <2>6 DEF LastOf
  <2>8. \A j \in 1 .. Len(best) : Number(best[j]) \in Nat
    BY <1>2, PositionFacts, NumberType
  <2>9. c < f
    <3>1. CASE f <= c
      <4>1. c \in f .. Len(best)
        BY <3>1
      <4>2. Number(best[f]) <= Number(best[c])
        BY <1>2, <4>1, TimedNumbers
      <4>3. Number(best[f]) <= start.number /\ Number(best[f]) \in Nat
        BY <2>7, <2>8, <4>2
      <4>4. \A x, y, z \in Nat : x <= y /\ y <= z => ~(x > z)
        OBVIOUS
      <4> QED BY <1>3, <2>2, <2>4, <4>3, <4>4
    <3> QED BY <3>1
  <2>10. /\ id \in Histories /\ Len(id) = c /\ Timed(id) /\ NumberOf(id) = start.number
         /\ c \in 0 .. Len(best)
    <3>1. c \in 0 .. Len(best)
      BY <1>2
    <3> QED BY <1>2, <2>6, <2>7, <3>1, PrefixType, TimedPrefix, PositionFacts
  <2>11. Firm(id) /\ StartBlockNum + Len(id) < lib
    <3>1. StartBlockNum + c < lib
      BY <1>2, <2>4, <2>9
    <3> QED BY <1>2, <2>6, <2>10, <3>1 DEF Firm
  <2>12. c + 1 \in c + 1 .. Len(best) /\ c + 1 \in 1 .. Len(best) /\ c + 1 \in c .. Len(best)
         /\ Len(best) > c
    BY <1>2, <2>9
  <2>13. Number(best[c + 1]) > start.number
    <3>1. Number(best[c]) <= Number(best[c + 1]) /\ Number(best[c + 1]) \in Nat
      BY <1>2, <2>8, <2>12, TimedNumbers
    <3> QED BY <1>3, <2>7, <2>12, <3>1
  <2>14. Good(start, id)
    <3>1. Holds(start, Prefix(best, Len(best))) <=> Holds(start, Prefix(best, c))
      BY <1>2, <2>7, <2>10, HoldsStable
    <3> QED BY <1>2, <1>3, <2>5, <2>6, <3>1 DEF Good
  <2>15. \A i \in 2 .. Len(canonical) :
           canonical[i].number <= start.number => Holds(canonical[i], best)
    <3> SUFFICES ASSUME NEW i \in 2 .. Len(canonical), canonical[i].number <= start.number
                 PROVE  Holds(canonical[i], best)
      OBVIOUS
    <3>1. i \in 1 .. Len(canonical)
      BY <1>2
    <3>2. canonical[i].number \in Nat
      BY <1>2, <3>1, RootedAt
    <3>3. \A x, y, z \in Nat : x <= y /\ y <= z => x <= z
      OBVIOUS
    <3>4. start.number \in Nat /\ start.number <= kLibProcessed
      BY <1>3, <2>2 DEF start
    <3>5. canonical[i].number <= kLibProcessed
      BY <2>2, <3>2, <3>3, <3>4
    <3> QED BY <2>3, <3>5
  <2>16. start.number # StartBlock.number
    BY <1>2, <1>3, <2>5
  <2> QED BY <1>1, <1>3, <2>10, <2>11, <2>12, <2>13, <2>14, <2>15, <2>16 DEF start
<1> QED BY <1>5, <1>6

LEMMA RestartReady ==
  ASSUME HistoriesAreIds, IdsHaveNumbers, CleanStart, NodeInv, Ready, StartInv, FinalInv,
         NEW height, height = None \/ (height \in Nat /\ height <= StartBlock.number),
         Restart(height)
  PROVE  Ready' /\ GenuineInv' /\ HeldInv' /\ StartInv' /\ FinalInv' /\ QueueInv'
<1> DEFINE start == get_canonical_block_at_height(height)
           id    == start.prev_randao
           num   == to_block_num(id)
           nb    == LoadedNative(start, num)
<1>1. /\ start \in EvmBlock
      /\ id \in Histories /\ Timed(id) /\ Firm(id) /\ start.number = NumberOf(id)
      /\ StartBlockNum + Len(id) < lib
      /\ id = <<>> \/ Len(best) > Len(id)
      /\ Len(best) > Len(id) => Number(best[Len(id) + 1]) > NumberOf(id)
      /\ Good(start, id)
      /\ \A i \in 2 .. Len(canonical) :
           canonical[i].number <= start.number => Holds(canonical[i], best)
  BY StartFirm DEF Ready
<1>2. PICK k \in 1 .. Len(canonical) : start = canonical[k]
  BY StartFound
<1>3. /\ native_blocks' = <<nb>> /\ evm_blocks' = <<start>>
      /\ published' = <<>> /\ exec_engine' = FALSE /\ pc' = "idle"
      /\ last_lib' = 0 /\ stored_num' = num
      /\ handled' = 0 /\ inserted' = canonical
      /\ UNCHANGED <<nodeos_vars, db_vars>>
  BY DEF Restart
<1>4. NodeInv'
  BY RestartKeeps
<1>5. /\ best \in Histories /\ Timed(best) /\ lib \in Nat /\ StartBlockNum \in Nat
      /\ Len(best) \in Nat /\ Len(id) \in Nat /\ start.number \in Nat
      /\ UNCHANGED <<best, lib, behind>>
      /\ canonical \in Seq(EvmBlock) /\ Rooted(canonical) /\ Len(canonical) \in Nat
  <2>1. start.number \in Nat
    BY <1>1 DEF EvmBlock
  <2> HIDE DEF start
  <2> QED BY <1>1, <1>3, <2>1, FullPrefix, ChannelAssumption, LenProperties
          DEF Ready, NodeInv, ShipTypeOK, StreamTypeOK, StreamInv, nodeos_vars, chain_vars,
              session_vars, StoreTypeOK, ChainInv
<1>6. /\ Window(<<nb>>) /\ Based(<<nb>>) /\ Last(<<nb>>).id = id
  <2> HIDE DEF start
  <2> QED BY <1>1, <1>5, LoadedBased
<1> HIDE DEF nb
<1> PICK t : t = <<nb>>
  OBVIOUS
<1> HIDE DEF start
<1>7. StreamInv'
  <2>1. num >= StartBlockNum
    BY <1>5 DEF to_block_num
  <2> QED BY <1>3, <1>5, <2>1 DEF StreamInv, Ready
<1>8. Len(evm_blocks') = 1 /\ evm_blocks'[1] = start /\ Last(evm_blocks') = start
  BY <1>3 DEF Last
<1>9. Branch' = id
  BY <1>3, <1>6 DEF Branch
<1>10. CacheInv'
  <2>1. Window(native_blocks)' /\ Based(native_blocks)'
    <3>1. Window(native_blocks')
      BY <1>3, <1>6
    <3>2. Based(t)'
      BY <1>5, <1>6, BasedSame
    <3> QED BY <1>3, <3>1, <3>2
  <2>2. IdleInv'
    BY <1>1, <1>8, <1>9 DEF IdleInv
  <2>3. UnwindInv' /\ ExtendInv' /\ FillInv'
    BY <1>3 DEF UnwindInv, ExtendInv, FillInv
  <2>4. LibInv'
    BY <1>3 DEF LibInv, LibComputed
  <2> QED BY <2>1, <2>2, <2>3, <2>4 DEF CacheInv
<1>11. EvmLinked'
  BY <1>8 DEF EvmLinked
<1>12. Ready'
  BY <1>4, <1>7, <1>10, <1>11 DEF Ready, NodeInv
<1>13. GenuineInv'
  BY <1>3, InitGenuine DEF GenuineInv
<1>14. HeldInv'
  <2> SUFFICES ASSUME NEW m \in StartBlock.number + 1 .. NumberOf(id) - 1
               PROVE  Given(m, id, canonical, <<>>, 0)
    BY <1>3, <1>9 DEF HeldInv, AllGiven
  <2>1. /\ StartBlock.number \in Nat /\ m \in Nat /\ m > StartBlock.number
        /\ m < start.number
    <3>1. \A x, y \in Nat : \A z \in x + 1 .. y - 1 : z \in Nat /\ z > x /\ z < y
      OBVIOUS
    <3>2. m \in StartBlock.number + 1 .. start.number - 1
      BY <1>1
    <3> QED BY <1>5, <3>1, <3>2, StartNumber
  <2> DEFINE i == m - StartBlock.number + 1
  <2>2. i \in 2 .. Len(canonical) /\ i \in 1 .. Len(canonical)
    <3>1. start.number = StartBlock.number + k - 1
      BY <1>2, <1>5, RootedAt
    <3>2. \A x, y \in Nat : \A z \in 1 .. Len(canonical) :
            y > x /\ y < x + z - 1 => y - x + 1 \in 2 .. Len(canonical)
      BY <1>5
    <3>3. i \in 2 .. Len(canonical)
      BY <2>1, <3>1, <3>2
    <3> HIDE DEF i
    <3> QED BY <1>5, <3>3
  <2>3. canonical[i].number = m
    <3>1. canonical[i].number = StartBlock.number + i - 1
      BY <1>5, <2>2 DEF Rooted
    <3> QED BY <2>1, <3>1
  <2>4. Holds(canonical[i], best)
    <3> HIDE DEF i
    <3>1. canonical[i].number <= start.number
      <4>1. \A x, y \in Nat : x < y => x <= y
        OBVIOUS
      <4> QED BY <1>5, <2>1, <2>3, <4>1
    <3> QED BY <1>1, <2>2, <3>1
  <2> HIDE DEF i
  <2>5. Holds(canonical[i], id)
    <3> DEFINE c == Len(id)
    <3>1. id = Prefix(best, c) /\ c <= Len(best)
      BY <1>1 DEF Firm
    <3>2. c # 0
      <4>1. c = 0 => id = <<>>
        BY <1>5, <3>1, FullPrefix
      <4> QED BY <1>1, <1>5, <2>1, <4>1 DEF CleanStart
    <3> HIDE DEF c
    <3>3. c \in 1 .. Len(best) /\ Len(best) \in 0 .. Len(best) /\ Prefix(best, Len(best)) = best
      BY <1>5, <3>1, <3>2, FullPrefix DEF c
    <3>4. m < Number(best[c])
      BY <1>1, <1>5, <2>1, <3>1, <3>3, PositionFacts
    <3>5. Holds(canonical[i], Prefix(best, Len(best))) <=> Holds(canonical[i], Prefix(best, c))
      BY <1>5, <2>1, <2>3, <3>3, <3>4, HoldsBelow
    <3> QED BY <2>4, <3>1, <3>3, <3>5
  <2>6. \A l \in 0 + 1 .. Len(<<>>) : FALSE
    OBVIOUS
  <2> QED BY <2>2, <2>3, <2>5, <2>6 DEF Given, i
<1>15. StartInv'
  BY <1>3 DEF StartInv, db_vars
<1>16. FinalInv'
  BY <1>3, <1>5 DEF FinalInv, Settled, db_vars
<1>17. QueueInv'
  BY <1>3 DEF QueueInv
<1> QED BY <1>12, <1>13, <1>14, <1>15, <1>16, <1>17

-----------------------------------------------------------------------------
(* Every step keeps the invariant *)

\* What holds of the whole node.  The database is final because no native block is handled
\* while EVM blocks wait in the queue.
WholeInv ==
  NodeInv /\ Ready /\ GenuineInv /\ HeldInv /\ StartInv /\ FinalInv /\ QueueInv

LEMMA StepOrRestart ==
  ASSUME NodeInv, [StorageNext]_nodevars
  PROVE  [SystemNext]_allvars \/ \E height \in Heights : Restart(height)
<1>1. CASE HandleNative
  BY <1>1 DEF HandleNative, SystemNext
<1>2. CASE ConvertStep
  BY <1>2 DEF ConvertStep, SystemNext, NodeStep
<1>3. CASE (ChainStep \/ ConnectionStep) /\ UNCHANGED store_vars
  BY <1>3 DEF SystemNext
<1>4. CASE StoreStep
  BY <1>4, StoreQuiet
<1>5. CASE UNCHANGED nodevars
  BY <1>5 DEF nodevars
<1> QED BY <1>1, <1>2, <1>3, <1>4, <1>5 DEF StorageNext

\* The steps of the converter and of the native chain.
LEMMA ConvertWhole ==
  ASSUME HistoriesAreIds, IdsHaveNumbers, CleanStart, WholeInv, UNCHANGED store_vars,
         HandleNative \/ ConvertStep \/ ChainStep \/ ConnectionStep \/ UNCHANGED nodevars
  PROVE  HeldInv' /\ StartInv' /\ FinalInv' /\ QueueInv'
<1>1. /\ NodeInv /\ Ready /\ HeldInv /\ StartInv
      /\ UNCHANGED <<handled, inserted, canonical, kLibProcessed>>
      /\ handled \in 0 .. Len(published) /\ Len(published) \in Nat
      /\ canonical \in Seq(EvmBlock) /\ kLibProcessed \in Optional(Nat)
  BY LenProperties DEF WholeInv, store_vars, db_vars, NodeInv, StoreTypeOK, TypedLists, TypeOK
<1>2. CASE HandleNative
  <2>1. PICK nb : ReadBlock(nb) /\ Receive(nb)
    BY <1>2 DEF HandleNative, Deliver
  <2>2. UNCHANGED <<best, lib>> /\ \E c \in Nat : Message(nb, c)
    BY <1>1, <2>1, ReadNext DEF Ready
  <2>3. UNCHANGED published
    BY <2>1 DEF Receive, ReceiveBeforeGenesis, ReceiveDuplicate, ReceiveUnknownFork,
       ReceiveFork, ReceiveLinked, Exit, shared, vars
  <2>4. HeldInv'
    BY <1>1, <2>1, <2>2, ReceiveHeld
  <2>5. StartInv'
    BY <1>1, <2>3 DEF StartInv
  <2>6. FinalInv' /\ QueueInv'
    <3>1. handled + 1 .. Len(published) = {} /\ handled = Len(published)
      BY <1>1, <1>2 DEF HandleNative
    <3>2. QueueInv'
      BY <1>1, <2>3, <3>1 DEF QueueInv
    <3>3. FinalInv'
      BY <1>1, <2>2 DEF WholeInv, FinalInv, Settled
    <3> QED BY <3>2, <3>3
  <2> QED BY <2>4, <2>5, <2>6
<1>3. CASE ConvertStep
  <2>1. HandlerStep /\ UNCHANGED <<best, lib>>
    BY <1>3 DEF ConvertStep, nodeos_vars, chain_vars
  <2>2. HeldInv'
    BY <1>1, <2>1, HandlerHeld
  <2>3. StartInv'
    BY <1>1, <2>1, HandlerStart
  <2>4. FinalInv' /\ QueueInv'
    BY <1>1, <2>1, HandlerQueue DEF WholeInv, FinalInv, Settled
  <2> QED BY <2>2, <2>3, <2>4
<1>4. CASE ChainStep \/ ConnectionStep \/ UNCHANGED nodevars
  <2>1. UNCHANGED <<pc, native_blocks, evm_blocks, new_block, published>>
    BY <1>4 DEF ChainStep, ConnectionStep, nodevars, allvars, vars, caches, locals
  <2>2. HeldInv' /\ StartInv'
    BY <1>1, <2>1, HeldSame DEF StartInv
  <2>3. QueueInv' /\ FinalInv'
    <3>1. QueueInv'
      BY <1>1, <2>1 DEF WholeInv, QueueInv
    <3>2. FinalInv'
      <4>1. CASE ChainStep
        <5>1. StreamTypeOK /\ Timed(best) /\ FinalInv /\ ShipTypeOK /\ StreamInv
          BY <1>1 DEF WholeInv, Ready, ShipTypeOK, StreamInv
        <5>2. StreamTypeOK'
          BY <4>1, <5>1, ChainStepTyped DEF ShipTypeOK
        <5>3. StreamInv' /\ \E n \in Nat : Keeps(n)
          BY <4>1, <5>1, ChainKeeps
        <5> QED BY <1>1, <5>1, <5>2, <5>3, ChainFinal DEF StreamInv
      <4>2. CASE ConnectionStep \/ UNCHANGED nodevars
        <5>1. UNCHANGED <<best, lib>>
          BY <1>1, <4>2, ConnectStream
             DEF ConnectionStep, Ready, nodevars, allvars, nodeos_vars, chain_vars
        <5> QED BY <1>1, <5>1 DEF WholeInv, FinalInv, Settled
      <4> QED BY <1>4, <4>1, <4>2
    <3> QED BY <3>1, <3>2
  <2> QED BY <2>2, <2>3
<1> QED BY <1>2, <1>3, <1>4

LEMMA NextWhole ==
  ASSUME HistoriesAreIds, IdsHaveNumbers, CleanStart, OptionUnused, WholeInv,
         [StorageNext]_nodevars
  PROVE  WholeInv'
<1>1. NodeInv'
  BY NextNode DEF WholeInv
<1>3. CASE [SystemNext]_allvars /\ ~ \E height \in Heights : Restart(height)
  <2>1. Ready' /\ GenuineInv'
    BY <1>3, NextReady, NextGenuine DEF WholeInv
  <2>2. CASE StoreStep
    BY <1>1, <2>1, <2>2, StoreHeld, StoreStart, StoreQueue, StoreFinal DEF WholeInv
  <2>3. CASE ~StoreStep
    <3>1. /\ UNCHANGED store_vars
          /\ HandleNative \/ ConvertStep \/ ChainStep \/ ConnectionStep \/ UNCHANGED nodevars
      BY <1>3, <2>3 DEF StorageNext, HandleNative, ConvertStep, nodevars
    <3> QED BY <1>1, <2>1, <3>1, ConvertWhole DEF WholeInv
  <2> QED BY <2>2, <2>3
<1>4. ASSUME NEW height \in Heights, Restart(height)
      PROVE  WholeInv'
  <2>2. height = None \/ (height \in Nat /\ height <= StartBlock.number)
    BY <1>4, StorageAssumption DEF OptionUnused, Optional
  <2> QED BY <1>1, <1>4, <2>2, RestartReady DEF WholeInv
<1> QED BY <1>3, <1>4, StepOrRestart DEF WholeInv

LEMMA InitWhole ==
  ASSUME HistoriesAreIds, CleanStart, StorageInit
  PROVE  WholeInv
<1>1. NodeInv /\ Ready /\ published = <<>>
  BY InitNode, InitReady DEF StorageInit
<1>2. /\ inserted = <<StartBlock>> /\ canonical = <<StartBlock>> /\ handled = 0
      /\ kLibProcessed = None /\ pc = "idle"
      /\ native_blocks = <<LoadedNative(StartBlock, StartBlockNum)>>
  BY DEF StorageInit, SystemInit, Init
<1>3. StartInv
  BY <1>1, <1>2 DEF StartInv, CleanStart
<1>4. FinalInv
  BY <1>2 DEF FinalInv
<1>5. QueueInv
  BY <1>1, <1>2 DEF QueueInv
<1>6. HeldInv
  <2>1. Branch = <<>>
    BY <1>2 DEF Branch, LoadedNative, CleanStart, Last
  <2>2. StartBlock.number + 1 .. StartBlock.number - 1 = {}
    BY StartNumber
  <2> QED BY <1>2, <2>1, <2>2 DEF HeldInv, AllGiven, CleanStart
<1> QED BY <1>1, <1>2, <1>3, <1>4, <1>5, <1>6, InitGenuine DEF WholeInv

LEMMA WholeInvariant ==
  ASSUME HistoriesAreIds, IdsHaveNumbers, CleanStart, OptionUnused
  PROVE  StorageSpec => []WholeInv
<1>1. StorageInit => WholeInv
  BY InitWhole
<1>2. WholeInv /\ [StorageNext]_nodevars => WholeInv'
  BY NextWhole
<1> QED BY <1>1, <1>2, PTL DEF StorageSpec

-----------------------------------------------------------------------------
(* The theorems about the database *)

LEMMA GivenHeldFrom ==
  ASSUME published \in Seq(EvmBlock), handled \in 0 .. Len(published), inserted \in Seq(EvmBlock),
         NEW m \in Nat, NEW id, Given(m, id, inserted, published, handled)
  PROVE  HeldFrom(m, id)
<1> DEFINE Q == QueueUpTo(m)
           n == Len(published)
<1>1. /\ n \in Nat /\ handled \in 0 .. n /\ DOMAIN inserted = 1 .. Len(inserted)
      /\ \A l \in handled + 1 .. n : published[l].number \in Nat
  <2>1. n \in Nat /\ DOMAIN inserted = 1 .. Len(inserted)
    BY LenProperties
  <2>2. \A l \in handled + 1 .. n : published[l] \in EvmBlock
    BY <2>1, ElementOfSeq
  <2> QED BY <2>1, <2>2 DEF EvmBlock
<1>2. \A l \in handled + 1 .. n : l \in Q <=> ~(published[l].number > m)
  BY <1>1 DEF QueueUpTo
<1>3. Q \subseteq handled + 1 .. n
  BY DEF QueueUpTo
<1>4. CASE \A l \in handled + 1 .. n : published[l].number > m
  <2>1. Q = {}
    BY <1>2, <1>3, <1>4
  <2>2. ~ \E j \in handled + 1 .. n : published[j].number = m
    BY <1>1, <1>4
  <2> QED BY <1>1, <2>1, <2>2 DEF Given, HeldFrom, Held
<1>5. CASE ~ \A l \in handled + 1 .. n : published[l].number > m
  <2>1. PICK j \in handled + 1 .. n :
          /\ published[j].number = m /\ Holds(published[j], id)
          /\ \A l \in j + 1 .. n : published[l].number > m
    BY <1>5 DEF Given
  <2>2. j \in Q
    BY <1>2, <2>1
  <2> HIDE DEF Q, n
  <2>3. Max(Q) \in Q /\ \A y \in Q : Max(Q) >= y
    <3>1. Q \in SUBSET (0 .. n)
      BY <1>1, <1>3
    <3> QED BY <1>1, <2>2, <3>1, MaxExists
  <2>4. Max(Q) = j
    <3>1. /\ Max(Q) \in handled + 1 .. n /\ Max(Q) >= j
          /\ ~(published[Max(Q)].number > m)
      BY <1>2, <1>3, <2>2, <2>3
    <3>2. Max(Q) \notin j + 1 .. n
      BY <2>1, <3>1
    <3> QED BY <1>1, <2>1, <3>1, <3>2
  <2>5. Held(m) = published[j]
    BY <2>2, <2>4 DEF Held, Q
  <2> QED BY <2>1, <2>2, <2>5 DEF HeldFrom, Q
<1> QED BY <1>4, <1>5

LEMMA WholeLib ==
  ASSUME HistoriesAreIds, CleanStart, WholeInv
  PROVE  LibIsFinal
<1> SUFFICES ASSUME pc = "idle", exec_engine, NEW m \in StartBlock.number + 1 .. evm_lib
             PROVE  HeldFrom(m, best)
  BY DEF LibIsFinal
<1>1. /\ Ready /\ HeldInv /\ published \in Seq(EvmBlock) /\ inserted \in Seq(EvmBlock)
      /\ handled \in 0 .. Len(published) /\ evm_lib \in Nat /\ StartBlock.number \in Nat
  BY StartNumber DEF WholeInv, NodeInv, StoreTypeOK, TypedLists, TypeOK
<1>2. m \in Nat /\ m > StartBlock.number /\ m <= evm_lib
  BY <1>1
<1>3. PICK f \in 1 .. Len(native_blocks) :
        Firm(native_blocks[f].id) /\ evm_lib < NumberOf(native_blocks[f].id)
  BY <1>1 DEF Ready, CacheInv, LibInv, LibComputed
<1>4. NumberOf(native_blocks[f].id) \in Nat
  <2>1. native_blocks \in Seq(NativeBlock) /\ native_blocks # <<>> /\ Window(native_blocks)
    BY <1>1, ReadyFacts
  <2>2. native_blocks[f].id \in Histories
    BY <2>1, WindowFacts
  <2> QED BY <2>2, SlotType, EvmNumType DEF NumberOf
<1>5. m < NumberOf(native_blocks[f].id)
  BY <1>1, <1>2, <1>3, <1>4
<1>6. /\ m < NumberOf(Branch) /\ NumberOf(Branch) \in Nat
      /\ \A b : b.number = m => (Holds(b, Branch) <=> Holds(b, best))
  BY <1>1, <1>2, <1>3, <1>5, FirmHolds
<1>7. Given(m, Branch, inserted, published, handled)
  <2>1. m \in StartBlock.number + 1 .. NumberOf(Branch) - 1
    <3>1. \A x, y, z \in Nat : y > x /\ y < z => y \in x + 1 .. z - 1
      OBVIOUS
    <3> QED BY <1>1, <1>2, <1>6, <3>1
  <2> QED BY <1>1, <2>1 DEF HeldInv, AllGiven
<1>8. Given(m, best, inserted, published, handled)
  BY <1>6, <1>7, GivenBranch
<1> QED BY <1>1, <1>2, <1>8, GivenHeldFrom

LEMMA WholeRestart ==
  ASSUME HistoriesAreIds, CleanStart, WholeInv
  PROVE  RestartComplete
<1>1. /\ canonical \in Seq(EvmBlock) /\ Rooted(canonical) /\ Len(canonical) \in Nat
      /\ StartBlock.number \in Nat
  BY StartNumber, LenProperties DEF WholeInv, NodeInv, StoreTypeOK, ChainInv
<1>2. /\ \E k \in 1 .. Len(canonical) : RestartBlock = canonical[k]
      /\ \A i \in 2 .. Len(canonical) :
           canonical[i].number <= RestartBlock.number => Holds(canonical[i], best)
  BY StartFirm DEF WholeInv, Ready, RestartBlock
<1>3. PICK k \in 1 .. Len(canonical) : RestartBlock = canonical[k]
  BY <1>2
<1>4. RestartBlock.number - StartBlock.number + 1 = k
  BY <1>1, <1>3, RootedAt
<1>5. ASSUME NEW i \in 2 .. k
      PROVE  Holds(canonical[i], best)
  <2>1. i \in 2 .. Len(canonical) /\ i \in 1 .. Len(canonical) /\ i <= k
    BY <1>1
  <2>2. canonical[i].number = StartBlock.number + i - 1
        /\ canonical[k].number = StartBlock.number + k - 1
    BY <1>1, <2>1, RootedAt
  <2>3. canonical[i].number <= canonical[k].number
    BY <1>1, <2>1, <2>2
  <2> QED BY <1>2, <1>3, <2>1, <2>3
<1> QED BY <1>4, <1>5 DEF RestartComplete

\* For every native chain, whatever forks, failed connections and restarts happen: the
\* converter's EVM blocks contain exactly the transactions of the current branch, each in
\* the block of its second.  After a restart load_head has read the first of them from the
\* database, which is final there.
THEOREM TransactionsThroughRestarts ==
  ASSUME HistoriesAreIds, IdsHaveNumbers, CleanStart, OptionUnused
  PROVE  StorageSpec => []TransactionsMatch
<1>1. WholeInv => TransactionsMatch
  BY ReadyMatches DEF WholeInv
<1> QED BY <1>1, WholeInvariant, PTL

\* So are the upper bounds that set_upper_bound leaves in them, and the last EVM block is
\* that of the tip.
THEOREM UpperBoundsThroughRestarts ==
  ASSUME HistoriesAreIds, IdsHaveNumbers, CleanStart, OptionUnused
  PROVE  StorageSpec => []UpperBoundMatch
<1>1. WholeInv => UpperBoundMatch
  BY ReadyMatches DEF WholeInv
<1> QED BY <1>1, WholeInvariant, PTL

\* And no restart publishes a block on the evm_blocks channel that mixes two branches.
THEOREM PublishedThroughRestarts ==
  ASSUME HistoriesAreIds, IdsHaveNumbers, CleanStart, OptionUnused
  PROVE  StorageSpec => []PublishedMatch
<1>1. WholeInv => PublishedMatch
  BY ReadyMatches DEF WholeInv
<1> QED BY <1>1, WholeInvariant, PTL

\* Whenever blockchain_plugin may read evm_lib, the execution engine has, or gets from the
\* queue, what the native chain says up to there, now and after every later fork.
THEOREM LibFinal ==
  ASSUME HistoriesAreIds, IdsHaveNumbers, CleanStart, OptionUnused
  PROVE  StorageSpec => []LibIsFinal
<1>1. WholeInv => LibIsFinal
  BY WholeLib
<1> QED BY <1>1, WholeInvariant, PTL

\* A crash at any moment leaves a database that is, up to the block that engine_plugin
\* resumes at, what the native chain says: no transaction is missing, none is of a fork.
THEOREM RestartsComplete ==
  ASSUME HistoriesAreIds, IdsHaveNumbers, CleanStart, OptionUnused
  PROVE  StorageSpec => []RestartComplete
<1>1. WholeInv => RestartComplete
  BY WholeRestart
<1> QED BY <1>1, WholeInvariant, PTL

-----------------------------------------------------------------------------
(* evm_lib never goes back *)

\* EVM block numbers are uint32_t: that of the tip of the native chain fits.
InRange == NumberOf(best) < Word

\* No block at or below evm_lib is published: the EVM block being built is at least that
\* of the new block's parent.
LibBelow == pc = "extend" /\ exec_engine => evm_lib < NumberOf(new_block.prev)

LEMMA WindowNumbers ==
  ASSUME CleanStart, NEW s \in Seq(NativeBlock), s # <<>>, Window(s),
         NEW i \in 1 .. Len(s), NEW j \in i .. Len(s)
  PROVE  /\ NumberOf(s[i].id) \in Nat /\ NumberOf(s[j].id) \in Nat
         /\ NumberOf(s[i].id) <= NumberOf(s[j].id)
<1> DEFINE id == Last(s).id
<1>1. /\ id \in Histories /\ Timed(id) /\ Len(s) \in Nat /\ Len(id) \in Nat
      /\ \A k \in 1 .. Len(s) : At(s, k) \in 0 .. Len(id) /\ s[k].id = Prefix(id, At(s, k))
  BY WindowFacts
<1>2. j \in 1 .. Len(s) /\ At(s, j) \in At(s, i) .. Len(id)
  <2>1. j \in 1 .. Len(s) /\ i <= j
    BY <1>1
  <2>2. \A x, y \in Nat : x - y + i <= x - y + j
    BY <2>1
  <2>3. At(s, i) <= At(s, j)
    BY <1>1, <2>2 DEF At
  <2>4. At(s, i) \in 0 .. Len(id) /\ At(s, j) \in 0 .. Len(id)
    BY <1>1, <2>1
  <2> QED BY <1>1, <2>1, <2>3, <2>4
<1>3. At(s, i) \in 0 .. Len(id) /\ At(s, j) \in 0 .. Len(id)
  BY <1>1, <1>2
<1>4. At(s, j) \in At(s, j) .. Len(id)
  BY <1>1, <1>3
<1> HIDE DEF id
<1>5. NumberOf(Prefix(id, At(s, j))) \in Nat
  BY <1>1, <1>3, <1>4, NumberOfMonotonic
<1> QED BY <1>1, <1>2, <1>3, <1>5, NumberOfMonotonic

\* The value that the handler computes is at least every number below that of an
\* irreversible native block in the cache, evm_lib among them.
LEMMA LibGrows ==
  ASSUME CleanStart, Ready, InRange, pc = "fill",
         NEW i \in 1 .. Len(native_blocks), Firm(native_blocks[i].id),
         NEW m \in Nat, m < NumberOf(native_blocks[i].id)
  PROVE  IrreversibleIndices # {} /\ m <= ComputedLib
<1> DEFINE N == native_blocks
           f == Max(IrreversibleIndices)
<1>1. /\ IrreversibleIndices # {} /\ f \in 1 .. Len(N) /\ i <= f
      /\ Firm(N[f].id)
      /\ EvmNum(N[f]) = NumberOf(N[f].id)
      /\ ComputedLib = (EvmNum(N[f]) - 1) % Word
  <2>1. \A j \in 1 .. Len(N) : Firm(N[j].id) <=> j <= f
    BY LibIs
  <2>2. f \in 1 .. Len(N) /\ f <= f
    <3>1. f \in 1 .. Len(N)
      BY LibIs
    <3> QED BY <3>1
  <2> QED BY <2>1, <2>2, LibIs
<1>2. /\ N \in Seq(NativeBlock) /\ N # <<>> /\ Window(N) /\ Len(N) \in Nat
      /\ best \in Histories /\ Timed(best) /\ Len(best) \in Nat
  BY ReadyFacts
<1> HIDE DEF f
<1>3. f \in i .. Len(N)
  BY <1>1, <1>2
<1>4. /\ NumberOf(N[i].id) \in Nat /\ NumberOf(N[f].id) \in Nat
      /\ NumberOf(N[i].id) <= NumberOf(N[f].id)
  BY <1>2, <1>3, WindowNumbers
<1>5. NumberOf(N[f].id) <= NumberOf(best) /\ NumberOf(best) \in Nat
  <2>1. PICK c : c = Len(N[f].id)
    OBVIOUS
  <2>2. N[f].id \in Histories
    BY <1>1, <1>2, WindowFacts
  <2>3. N[f].id = Prefix(best, c) /\ c <= Len(best) /\ c \in Nat
    BY <1>1, <2>1, <2>2, FullPrefix DEF Firm
  <2>4. /\ c \in 0 .. Len(best) /\ Len(best) \in c .. Len(best) /\ Len(best) \in 0 .. Len(best)
        /\ Len(best) \in Len(best) .. Len(best) /\ Prefix(best, Len(best)) = best
    BY <1>2, <2>3, FullPrefix
  <2>5. NumberOf(Prefix(best, c)) <= NumberOf(Prefix(best, Len(best)))
    BY <1>2, <2>4, NumberOfMonotonic
  <2>6. NumberOf(Prefix(best, Len(best))) \in Nat
    BY <1>2, <2>4, NumberOfMonotonic
  <2> QED BY <2>3, <2>4, <2>5, <2>6
<1>6. PICK x \in Nat : x = NumberOf(N[f].id)
  BY <1>4
<1>7. x < Word /\ x \in Nat \ {0} /\ m <= x - 1
  <2>1. x < Word
    BY <1>5, <1>6, TimeAssumption DEF InRange
  <2>2. \A a, b, c \in Nat : a < b /\ b <= c => a <= c - 1 /\ c # 0
    OBVIOUS
  <2> QED BY <1>4, <1>6, <2>1, <2>2
<1>8. (x - 1) % Word = x - 1
  <2>1. \A a, w \in Nat : a # 0 /\ a < w => (a - 1) % w = a - 1
    OBVIOUS
  <2> QED BY <1>7, <2>1, TimeAssumption
<1> QED BY <1>1, <1>6, <1>7, <1>8

LEMMA NextBelow ==
  ASSUME HistoriesAreIds, CleanStart, Ready, LibBelow, [SystemNext]_allvars
  PROVE  LibBelow'
<1> DEFINE N == native_blocks
<1>1. CASE Deliver
  <2>1. PICK nb : ReadBlock(nb) /\ Receive(nb)
    BY <1>1 DEF Deliver
  <2>2. pc = "idle" /\ UNCHANGED <<evm_lib, exec_engine>>
    BY <2>1 DEF Receive, ReceiveBeforeGenesis, ReceiveDuplicate, ReceiveUnknownFork,
       ReceiveFork, ReceiveLinked, Exit, shared, vars
  <2>3. CASE ReceiveLinked(nb)
    <3> SUFFICES ASSUME exec_engine
                 PROVE  evm_lib < NumberOf(nb.prev)
      BY <2>2, <2>3 DEF ReceiveLinked, LibBelow
    <3>1. N \in Seq(NativeBlock) /\ N # <<>> /\ Window(N) /\ Len(N) \in Nat
          /\ nb.prev = N[Len(N)].id /\ evm_lib \in Nat
      BY <2>2, <2>3, ReadyFacts DEF ReceiveLinked, Linked, Last, Ready, TypedLists, TypeOK
    <3>2. PICK f \in 1 .. Len(N) : Firm(N[f].id) /\ evm_lib < NumberOf(N[f].id)
      BY <2>2 DEF Ready, CacheInv, LibInv, LibComputed
    <3>3. Len(N) \in f .. Len(N)
      BY <3>1, <3>2
    <3>4. /\ NumberOf(N[f].id) <= NumberOf(N[Len(N)].id)
          /\ NumberOf(N[f].id) \in Nat /\ NumberOf(N[Len(N)].id) \in Nat
      BY <3>1, <3>3, WindowNumbers
    <3> QED BY <3>1, <3>2, <3>4
  <2>4. CASE ~ReceiveLinked(nb)
    BY <2>1, <2>2, <2>4 DEF LibBelow, Receive, ReceiveBeforeGenesis, ReceiveDuplicate,
       ReceiveUnknownFork, ReceiveFork, Exit, vars
  <2> QED BY <2>3, <2>4
<1>2. CASE ResetUpperBound
  <2>1. pc = "unwind" /\ pc' = "extend" /\ UNCHANGED <<evm_lib, exec_engine, new_block>>
    BY <1>2 DEF ResetUpperBound, shared, locals
  <2> SUFFICES ASSUME exec_engine
               PROVE  evm_lib < NumberOf(new_block.prev)
    BY <2>1 DEF LibBelow
  <2>2. N \in Seq(NativeBlock) /\ N # <<>> /\ Window(N) /\ Len(N) \in Nat /\ evm_lib \in Nat
    BY <2>1, ReadyFacts DEF Ready, TypedLists, TypeOK
  <2>3. PICK f \in 1 .. Len(N) : Firm(N[f].id) /\ evm_lib < NumberOf(N[f].id)
    BY <2>1 DEF Ready, CacheInv, LibInv, LibComputed
  <2>4. /\ ForkIndex \in 1 .. Len(N) /\ N[ForkIndex].id = new_block.prev /\ f <= ForkIndex
    BY <2>1, <2>3 DEF Ready, CacheInv, UnwindInv
  <2>5. ForkIndex \in f .. Len(N)
    BY <2>2, <2>4
  <2>6. /\ NumberOf(N[f].id) <= NumberOf(N[ForkIndex].id)
        /\ NumberOf(N[f].id) \in Nat /\ NumberOf(N[ForkIndex].id) \in Nat
    BY <2>2, <2>5, WindowNumbers
  <2> QED BY <2>2, <2>3, <2>4, <2>6
<1>3. CASE HandlerStep /\ ~ResetUpperBound
  BY <1>3 DEF HandlerStep, Exit, DropEvmBlock, DropNativeBlock, FailToRemove,
     FailToSetUpperBound, ExtendEvmChain, ApplyConfig, FailToSetConfig, AddTransaction,
     RejectTransaction, FinishWithoutLib, FinishAndTrim, FailToTrim, LibBelow, shared, locals
<1>4. CASE OpenExecutionEngine
  BY <1>4 DEF OpenExecutionEngine, LibBelow
<1>5. CASE ChainStep \/ ConnectionStep \/ UNCHANGED allvars
  BY <1>5 DEF ChainStep, ConnectionStep, allvars, vars, LibBelow, locals
<1> QED BY <1>1, <1>2, <1>3, <1>4, <1>5 DEF SystemNext, NodeStep

LEMMA StepBelow ==
  ASSUME HistoriesAreIds, CleanStart, WholeInv, LibBelow, [StorageNext]_nodevars
  PROVE  LibBelow'
<1>1. CASE [SystemNext]_allvars
  BY <1>1, NextBelow DEF WholeInv
<1>2. CASE \E height \in Heights : Restart(height)
  BY <1>2 DEF Restart, LibBelow
<1> QED BY <1>1, <1>2, StepOrRestart DEF WholeInv

LEMMA MonotonicStep ==
  ASSUME HistoriesAreIds, CleanStart, Ready, LibBelow, InRange, exec_engine,
         [SystemNext]_allvars
  PROVE  /\ evm_lib' >= evm_lib
         /\ published' # published => Last(published').number > evm_lib
<1>1. evm_lib \in Nat
  BY DEF Ready, TypedLists, TypeOK
<1>2. CASE FinishAndTrim
  <2>1. pc = "fill" /\ evm_lib' = ComputedLib /\ UNCHANGED published
    BY <1>2 DEF FinishAndTrim, shared
  <2>2. PICK f \in 1 .. Len(native_blocks) :
          Firm(native_blocks[f].id) /\ evm_lib < NumberOf(native_blocks[f].id)
    BY <2>1 DEF Ready, CacheInv, LibInv, LibComputed
  <2>3. evm_lib <= ComputedLib /\ ComputedLib \in Nat
    BY <1>1, <2>1, <2>2, LibGrows, LibIs
  <2> QED BY <1>1, <2>1, <2>3
<1>3. CASE HandlerStep /\ ~FinishAndTrim
  <2>1. evm_lib' = evm_lib
    BY <1>3 DEF HandlerStep, Exit, DropEvmBlock, DropNativeBlock, FailToRemove,
       ResetUpperBound, FailToSetUpperBound, ExtendEvmChain, ApplyConfig, FailToSetConfig,
       AddTransaction, RejectTransaction, FinishWithoutLib, FailToTrim
  <2>2. ASSUME pc = "extend", back \in EvmBlock, published \in Seq(EvmBlock),
               published' = Append(published, Sealed(back))
        PROVE  Last(published').number > evm_lib
    <3>1. Sealed(back) \in EvmBlock /\ Sealed(back).number = back.number /\ back.number \in Nat
      BY <2>2, SealedType DEF Sealed, EvmBlock
    <3>2. Last(published') = Sealed(back)
      <4>1. /\ Len(Append(published, Sealed(back))) = Len(published) + 1
            /\ Append(published, Sealed(back))[Len(published) + 1] = Sealed(back)
        BY <2>2, <3>1, AppendedFacts
      <4> QED BY <2>2, <4>1 DEF Last
    <3>3. NumberOf(new_block.prev) <= back.number
      BY <2>2 DEF Ready, CacheInv, ExtendInv, back
    <3>4. evm_lib < NumberOf(new_block.prev)
      BY <2>2 DEF LibBelow
    <3>5. NumberOf(new_block.prev) \in Nat
      <4>1. new_block.prev \in Histories
        BY <2>2, NewBlockFacts
      <4> QED BY <4>1, SlotType, EvmNumType DEF NumberOf
    <3> QED BY <1>1, <3>1, <3>2, <3>3, <3>4, <3>5
  <2> QED BY <1>1, <1>3, <2>1, <2>2, HandlerPublishes
<1>4. CASE Deliver \/ ChainStep \/ ConnectionStep \/ OpenExecutionEngine \/ UNCHANGED allvars
  <2>1. UNCHANGED <<evm_lib, published>>
    BY <1>4 DEF Deliver, Receive, ReceiveBeforeGenesis, ReceiveDuplicate, ReceiveUnknownFork,
       ReceiveFork, ReceiveLinked, Exit, shared, vars, ChainStep, ConnectionStep,
       OpenExecutionEngine, allvars
  <2> QED BY <1>1, <2>1
<1> QED BY <1>2, <1>3, <1>4 DEF SystemNext, NodeStep

\* While the number of the native chain's tip fits its 32 bits, evm_lib never goes back
\* once blockchain_plugin reads it, and no block is published at or below it: what a
\* consumer has been told is irreversible is never replaced.
THEOREM LibNeverBack ==
  ASSUME HistoriesAreIds, IdsHaveNumbers, CleanStart, OptionUnused
  PROVE  StorageSpec /\ []InRange => LibMonotonic
<1>1. StorageInit => WholeInv /\ LibBelow
  <2>1. StorageInit => LibBelow
    BY DEF StorageInit, SystemInit, Init, LibBelow
  <2> QED BY <2>1, InitWhole
<1>2. WholeInv /\ LibBelow /\ [StorageNext]_nodevars => WholeInv' /\ LibBelow'
  <2> SUFFICES ASSUME WholeInv, LibBelow, [StorageNext]_nodevars
               PROVE  WholeInv' /\ LibBelow'
    OBVIOUS
  <2> QED BY NextWhole, StepBelow
<1>3. WholeInv /\ LibBelow /\ InRange /\ [StorageNext]_nodevars =>
        [exec_engine /\ exec_engine' =>
           /\ evm_lib' >= evm_lib
           /\ published' # published => Last(published').number > evm_lib]_allvars
  <2> SUFFICES ASSUME WholeInv, LibBelow, InRange, [StorageNext]_nodevars,
                      exec_engine, exec_engine'
               PROVE  /\ evm_lib' >= evm_lib
                      /\ published' # published => Last(published').number > evm_lib
    OBVIOUS
  <2>1. CASE [SystemNext]_allvars
    BY <2>1, MonotonicStep DEF WholeInv
  <2>2. CASE \E height \in Heights : Restart(height)
    BY <2>2 DEF Restart
  <2> QED BY <2>1, <2>2, StepOrRestart DEF WholeInv
<1> QED BY <1>1, <1>2, <1>3, PTL DEF StorageSpec, LibMonotonic

-----------------------------------------------------------------------------
(* The database implements the finalized log *)

\* Until the execution engine has its first block, the cache is what load_head made of
\* the block that the start resumed at, and then the first native block after it.
FreshInv ==
  ~exec_engine =>
    /\ handled = 0 /\ pc # "unwind"
    /\ pc = "idle" /\ published = <<>> => Len(native_blocks) = 1
    /\ pc \in {"extend", "fill"} => Len(native_blocks) = 2
    /\ pc = "extend" /\ published = <<>> =>
         Last(evm_blocks).number = NumberOf(new_block.prev)
    /\ pc = "fill" => published # <<>>
    /\ (pc = "idle" /\ published = <<>>) \/ pc \in {"extend", "fill"} =>
         /\ EvmNum(native_blocks[1]) = NumberOf(native_blocks[1].id) + 1
         /\ NumberOf(native_blocks[1].id) = RestartBlock.number

\* The block that a start now would resume at is not above evm_lib, nor above an EVM
\* block that waits.
CopyBelow ==
  /\ RestartBlock.number > StartBlock.number /\ LibComputed => RestartBlock.number <= evm_lib
  /\ \A i \in handled + 1 .. Len(published) : published[i].number >= RestartBlock.number

\* The first native block after the one resumed at is irreversible, of a later second.
LEMMA AfterResumed ==
  ASSUME CleanStart, Ready, pc \in {"extend", "fill"}, Len(native_blocks) = 2,
         EvmNum(native_blocks[1]) = NumberOf(native_blocks[1].id) + 1
  PROVE  /\ 2 \in 1 .. Len(native_blocks) /\ native_blocks[2] = new_block
         /\ native_blocks[1].id = new_block.prev
         /\ Firm(native_blocks[2].id)
         /\ NumberOf(native_blocks[1].id) \in Nat /\ NumberOf(native_blocks[2].id) \in Nat
         /\ NumberOf(native_blocks[1].id) < NumberOf(native_blocks[2].id)
<1> DEFINE N  == native_blocks
           id == new_block.id
           p  == new_block.prev
<1>1. /\ N \in Seq(NativeBlock) /\ N # <<>> /\ Window(N) /\ Based(N)
      /\ best \in Histories /\ Timed(best) /\ Len(best) \in Nat
  BY ReadyFacts
<1>2. /\ p \in Histories /\ Len(p) \in Nat /\ id \in Histories /\ Len(id) = Len(p) + 1
      /\ p = Prefix(id, Len(p)) /\ Last(N) = new_block
  BY NewBlockFacts
<1>3. N[2] = new_block
  BY <1>2 DEF Last
<1>4. N[1].id = p
  <2>1. 1 \in 1 .. Len(N)
    OBVIOUS
  <2>2. N[1].id = Prefix(id, At(N, 1)) /\ At(N, 1) = Len(id) - 2 + 1
    BY <1>1, <1>2, <2>1, WindowFacts DEF At
  <2> QED BY <1>2, <2>2
<1>5. NumberOf(N[1].id) \in Nat /\ NumberOf(N[2].id) \in Nat
  <2>1. 1 \in 1 .. Len(N) /\ 2 \in 1 .. Len(N)
    OBVIOUS
  <2>2. 2 \in 1 .. Len(N) /\ 1 \in 1 .. Len(N) /\ 2 \in 1 .. Len(N)
    OBVIOUS
  <2>3. 2 \in 1 .. Len(N) /\ 2 \in 2 .. Len(N) /\ 2 \in 1 .. Len(N)
    OBVIOUS
  <2> QED BY <1>1, <2>1, <2>3, WindowNumbers
<1>6. Anchored(N)
  <2>1. NumberOf(N[1].id) + 1 # NumberOf(N[1].id)
    BY <1>5
  <2> QED BY <1>1, <2>1 DEF Based
<1>7. Firm(N[2].id)
  BY <1>6 DEF Anchored
<1>8. id = Prefix(best, Len(id)) /\ Len(id) \in 1 .. Len(best) /\ Len(p) + 1 \in 1 .. Len(best)
      /\ Len(best) > Len(p)
  BY <1>1, <1>2, <1>3, <1>7 DEF Firm
<1>9. NumberOf(N[2].id) = Number(best[Len(p) + 1])
  BY <1>1, <1>2, <1>3, <1>8, PositionFacts
<1>10. Number(best[Len(p) + 1]) > NumberOf(N[1].id)
  BY <1>4, <1>6, <1>8 DEF Anchored
<1> QED BY <1>3, <1>4, <1>5, <1>7, <1>9, <1>10

LEMMA RestartBlockFacts ==
  ASSUME NodeInv
  PROVE  /\ \E k \in 1 .. Len(canonical) : RestartBlock = canonical[k]
         /\ RestartBlock \in EvmBlock /\ RestartBlock.number \in Nat
         /\ RestartBlock.number >= StartBlock.number
<1>1. canonical \in Seq(EvmBlock) /\ Rooted(canonical)
  BY DEF NodeInv, StoreTypeOK, ChainInv
<1>2. PICK k \in 1 .. Len(canonical) : RestartBlock = canonical[k]
  BY StartFound DEF RestartBlock
<1>3. /\ canonical[k] \in EvmBlock /\ canonical[k].number \in Nat
      /\ canonical[k].number = StartBlock.number + k - 1
  BY <1>1, RootedAt
<1> QED BY <1>2, <1>3, StartNumber

LEMMA RestartBlockSame ==
  ASSUME UNCHANGED <<canonical, kLibProcessed>>
  PROVE  RestartBlock' = RestartBlock
BY DEF RestartBlock, get_canonical_block_at_height, find_block_with_valid_eos_id,
   EffectiveHeight, get_head_canonical_header

\* The blocks that the converter adds do not come from before the start.
LEMMA AfterGenesis ==
  ASSUME CleanStart, Ready, pc # "exited", NEW nb, NEW c, Message(nb, c)
  PROVE  ~BeforeGenesis(nb)
<1>1. best \in Histories /\ Timed(best) /\ Len(best) \in Nat
  BY ReadyFacts
<1>2. c + 1 \in 1 .. Len(best) /\ nb.timestamp = best[c + 1].slot
  BY <1>1, MessageFacts DEF Message
<1>3. best[c + 1].slot > StartSlot /\ best[c + 1].slot \in Nat
  BY <1>1, <1>2, PositionFacts DEF Timed, Bodies
<1>4. StartSlot \in Nat /\ Genesis \in Nat /\ Genesis <= StartSlot
  BY NodeosAssumption, TimeAssumption DEF CleanStart
<1> QED BY <1>2, <1>3, <1>4 DEF BeforeGenesis

LEMMA NativeAppended ==
  ASSUME NEW s \in Seq(NativeBlock), NEW nb \in NativeBlock
  PROVE  /\ Len(Append(s, nb)) = Len(s) + 1
         /\ \A i \in 1 .. Len(s) : Append(s, nb)[i] = s[i]
BY AppendProperties, LenProperties

LEMMA ReceiveFresh ==
  ASSUME CleanStart, Ready, FreshInv, UNCHANGED <<handled, canonical, kLibProcessed>>,
         handled \in Nat, Len(published) - handled <= 0,
         NEW nb \in NativeBlock, NEW c, Message(nb, c), Receive(nb)
  PROVE  FreshInv'
<1> DEFINE N == native_blocks
<1>1. pc = "idle" /\ UNCHANGED <<exec_engine, published, evm_blocks>>
  BY DEF Receive, ReceiveBeforeGenesis, ReceiveDuplicate, ReceiveUnknownFork, ReceiveFork,
     ReceiveLinked, Exit, shared, vars, caches
<1>2. RestartBlock' = RestartBlock
  BY RestartBlockSame
<1> SUFFICES ASSUME ~exec_engine
             PROVE  FreshInv'
  BY <1>1 DEF FreshInv
<1>3. published = <<>>
  <2>1. handled = 0
    BY DEF FreshInv
  <2>2. published \in Seq(EvmBlock) /\ Len(published) \in Nat
    BY LenProperties DEF Ready, TypedLists, TypeOK
  <2>3. Len(published) = 0
    BY <2>1, <2>2
  <2> QED BY <2>2, <2>3, EmptySeq
<1>4. /\ handled = 0 /\ Len(N) = 1 /\ N # <<>> /\ N \in Seq(NativeBlock)
      /\ EvmNum(N[1]) = NumberOf(N[1].id) + 1 /\ NumberOf(N[1].id) = RestartBlock.number
      /\ Last(N) = N[1] /\ DOMAIN N = 1 .. Len(N)
  BY <1>1, <1>3, ReadyFacts, LenProperties DEF FreshInv, Last
<1>5. ~BeforeGenesis(nb)
  BY <1>1, AfterGenesis
<1>6. Cached(nb.prev) => Linked(nb)
  BY <1>4 DEF Cached, Linked
<1>7. CASE ReceiveDuplicate(nb) \/ ReceiveUnknownFork(nb)
  BY <1>1, <1>2, <1>3, <1>4, <1>7 DEF ReceiveDuplicate, ReceiveUnknownFork, Exit, vars, caches,
     FreshInv
<1>8. CASE ReceiveLinked(nb)
  <2>1. /\ native_blocks' = Append(N, nb) /\ new_block' = nb /\ pc' = "extend"
        /\ nb.prev = N[1].id
    BY <1>4, <1>8 DEF ReceiveLinked, Linked
  <2>2. Len(Append(N, nb)) = 2 /\ Append(N, nb)[1] = N[1]
    <3>1. N \in Seq(NativeBlock)
      BY <1>4
    <3>2. /\ Len(Append(N, nb)) = Len(N) + 1
          /\ \A i \in 1 .. Len(N) : Append(N, nb)[i] = N[i]
      BY <3>1, NativeAppended
    <3>3. Len(N) = 1 /\ 1 \in 1 .. Len(N)
      BY <1>4
    <3> QED BY <3>2, <3>3
  <2>3. Last(evm_blocks).number = NumberOf(N[1].id)
    BY <1>1, <1>4 DEF Ready, CacheInv, IdleInv, Branch
  <2> QED BY <1>1, <1>2, <1>4, <2>1, <2>2, <2>3 DEF FreshInv
<1> QED BY <1>5, <1>6, <1>7, <1>8 DEF Receive, ReceiveBeforeGenesis, ReceiveFork

LEMMA HandlerFresh ==
  ASSUME CleanStart, Ready, FreshInv, UNCHANGED <<handled, canonical, kLibProcessed>>,
         HandlerStep
  PROVE  FreshInv'
<1>1. UNCHANGED exec_engine
  BY DEF HandlerStep, Exit, DropEvmBlock, DropNativeBlock, FailToRemove, ResetUpperBound,
     FailToSetUpperBound, ExtendEvmChain, ApplyConfig, FailToSetConfig, AddTransaction,
     RejectTransaction, FinishWithoutLib, FinishAndTrim, FailToTrim, shared
<1>2. RestartBlock' = RestartBlock
  BY RestartBlockSame
<1> SUFFICES ASSUME ~exec_engine
             PROVE  FreshInv'
  BY <1>1 DEF FreshInv
<1>3. handled = 0 /\ pc # "unwind"
  BY DEF FreshInv
<1>4. CASE ExtendEvmChain
  <2>1. /\ pc = "extend" /\ pc' = "extend" /\ UNCHANGED <<native_blocks, new_block>>
        /\ published' = Append(published, Sealed(back))
    BY <1>4, ExtendEffect DEF ExtendEvmChain, locals
  <2>2. published' # <<>>
    <3>1. published \in Seq(EvmBlock) /\ Sealed(back) \in EvmBlock
      BY <2>1, SealedType, NewBlockFacts DEF Ready, TypedLists, TypeOK
    <3>2. Len(Append(published, Sealed(back))) = Len(published) + 1 /\ Len(published) \in Nat
      BY <3>1, AppendedFacts, LenProperties
    <3> QED BY <2>1, <3>2
  <2> QED BY <1>1, <1>2, <1>3, <2>1, <2>2 DEF FreshInv
<1>5. CASE ApplyConfig
  <2>1. /\ pc = "extend" /\ pc' = "fill" /\ UNCHANGED <<native_blocks, published, new_block>>
        /\ back.number >= EvmNum(new_block)
    BY <1>5 DEF ApplyConfig
  <2>2. published # <<>>
    <3> SUFFICES ASSUME published = <<>>
                 PROVE  FALSE
      OBVIOUS
    <3>1. /\ Len(native_blocks) = 2 /\ back.number = NumberOf(new_block.prev)
          /\ EvmNum(native_blocks[1]) = NumberOf(native_blocks[1].id) + 1
      BY <2>1 DEF FreshInv, back
    <3>2. /\ native_blocks[1].id = new_block.prev /\ native_blocks[2] = new_block
          /\ NumberOf(native_blocks[1].id) \in Nat /\ NumberOf(native_blocks[2].id) \in Nat
          /\ NumberOf(native_blocks[1].id) < NumberOf(native_blocks[2].id)
      BY <2>1, <3>1, AfterResumed
    <3>3. EvmNum(new_block) = NumberOf(new_block.id)
      BY <2>1, NewBlockFacts
    <3> QED BY <2>1, <3>1, <3>2, <3>3
  <2> QED BY <1>1, <1>2, <1>3, <2>1, <2>2 DEF FreshInv
<1>6. CASE AddTransaction
  <2>1. pc = "fill" /\ pc' = "fill" /\ UNCHANGED <<native_blocks, published, new_block>>
    BY <1>6 DEF AddTransaction, shared
  <2> QED BY <1>1, <1>2, <1>3, <2>1 DEF FreshInv
<1>7. CASE FinishWithoutLib \/ FinishAndTrim
  <2>1. pc = "fill" /\ pc' = "idle" /\ UNCHANGED published
    BY <1>7 DEF FinishWithoutLib, FinishAndTrim, shared
  <2> QED BY <1>1, <1>2, <1>3, <2>1 DEF FreshInv
<1>8. CASE FailToSetConfig \/ RejectTransaction \/ FailToTrim
  BY <1>1, <1>3, <1>8 DEF FailToSetConfig, RejectTransaction, FailToTrim, Exit, FreshInv
<1> QED BY <1>3, <1>4, <1>5, <1>6, <1>7, <1>8 DEF HandlerStep, DropEvmBlock, DropNativeBlock,
        FailToRemove, ResetUpperBound, FailToSetUpperBound

\* The block taken opens the execution engine, and the database does not forget.
LEMMA StoreFresh ==
  ASSUME StoreStep
  PROVE  FreshInv'
<1>1. exec_engine' = TRUE
  BY DEF StoreStep, InsertInBatch, InsertAndVerify, Insert
<1> QED BY <1>1 DEF FreshInv

\* load_head starts the cache with the block resumed at.
LEMMA RestartFresh ==
  ASSUME HistoriesAreIds, CleanStart, NodeInv, Ready, StartInv, FinalInv, Restart(None)
  PROVE  FreshInv'
<1> DEFINE id == RestartBlock.prev_randao
           nb == LoadedNative(RestartBlock, to_block_num(id))
<1>1. /\ native_blocks' = <<nb>> /\ published' = <<>> /\ handled' = 0 /\ pc' = "idle"
      /\ UNCHANGED <<canonical, kLibProcessed>>
  BY DEF Restart, RestartBlock, db_vars
<1>2. RestartBlock' = RestartBlock
  BY <1>1, RestartBlockSame
<1>3. RestartBlock.number = NumberOf(id) /\ RestartBlock.number \in Nat
  BY StartFirm, RestartBlockFacts DEF Ready, RestartBlock
<1>4. nb.id = id /\ EvmNum(nb) = RestartBlock.number + 1
  BY <1>3, LoadedNumber DEF LoadedNative, EvmNum
<1> HIDE DEF nb
<1>5. Len(<<nb>>) = 1 /\ <<nb>>[1] = nb
  OBVIOUS
<1> QED BY <1>1, <1>2, <1>3, <1>4, <1>5 DEF FreshInv

LEMMA InitFresh ==
  ASSUME CleanStart, StorageInit
  PROVE  FreshInv /\ CopyBelow
<1> DEFINE nb == LoadedNative(StartBlock, StartBlockNum)
<1>1. /\ native_blocks = <<nb>> /\ published = <<>> /\ handled = 0 /\ pc = "idle"
      /\ canonical = <<StartBlock>> /\ exec_engine = FALSE
  BY DEF StorageInit, SystemInit, Init
<1>2. RestartBlock = StartBlock
  <2>1. NodeInv
    BY InitNode
  <2>2. PICK k \in 1 .. Len(canonical) : RestartBlock = canonical[k]
    BY <2>1, RestartBlockFacts
  <2> QED BY <1>1, <2>2
<1>3. /\ nb.id = <<>> /\ EvmNum(nb) = StartBlock.number + 1
      /\ NumberOf(<<>>) = StartBlock.number
  BY StartNumber, LoadedNumber DEF LoadedNative, EvmNum, CleanStart
<1> HIDE DEF nb
<1>4. Len(<<nb>>) = 1 /\ <<nb>>[1] = nb
  OBVIOUS
<1>5. FreshInv
  BY <1>1, <1>2, <1>3, <1>4 DEF FreshInv
<1>6. CopyBelow
  BY <1>1, <1>2, StartNumber DEF CopyBelow, LibComputed
<1> QED BY <1>5, <1>6

LEMMA HandlerCopy ==
  ASSUME HistoriesAreIds, CleanStart, NodeInv, Ready, LibBelow, InRange, FreshInv, CopyBelow,
         UNCHANGED <<handled, canonical, kLibProcessed>>, HandlerStep
  PROVE  CopyBelow'
<1> DEFINE N == native_blocks
<1>1. RestartBlock' = RestartBlock
  BY RestartBlockSame
<1>2. PICK r \in Nat : r = RestartBlock.number
  BY RestartBlockFacts
<1>3. /\ handled \in Nat /\ published \in Seq(EvmBlock) /\ evm_lib \in Nat
      /\ StartBlock.number \in Nat
  BY StartNumber DEF NodeInv, StoreTypeOK, Ready, TypedLists, TypeOK
<1>4. ASSUME r > StartBlock.number, LibComputed'
      PROVE  r <= evm_lib'
  <2>1. CASE FinishAndTrim
    <3>1. pc = "fill" /\ evm_lib' = ComputedLib
      BY <2>1 DEF FinishAndTrim
    <3>2. \E i \in 1 .. Len(N) : Firm(N[i].id) /\ r < NumberOf(N[i].id)
      <4>1. CASE LibComputed
        <5>1. PICK f \in 1 .. Len(N) : Firm(N[f].id) /\ evm_lib < NumberOf(N[f].id)
          BY <3>1, <4>1 DEF Ready, CacheInv, LibInv
        <5>2. r <= evm_lib
          BY <1>2, <1>4, <4>1 DEF CopyBelow
        <5>3. NumberOf(N[f].id) \in Nat
          <6>1. N \in Seq(NativeBlock) /\ N # <<>> /\ Window(N) /\ f \in f .. Len(N)
            BY <3>1, ReadyFacts
          <6> QED BY <6>1, WindowNumbers
        <5> QED BY <1>3, <5>1, <5>2, <5>3
      <4>2. CASE ~LibComputed
        <5>1. /\ Len(N) = 2 /\ EvmNum(N[1]) = NumberOf(N[1].id) + 1
              /\ NumberOf(N[1].id) = r
          BY <1>2, <3>1, <4>2 DEF FreshInv, LibComputed
        <5>2. /\ 2 \in 1 .. Len(N) /\ Firm(N[2].id)
              /\ NumberOf(N[1].id) < NumberOf(N[2].id)
          BY <3>1, <5>1, AfterResumed
        <5> QED BY <5>1, <5>2
      <4> QED BY <4>1, <4>2
    <3>3. r <= ComputedLib
      BY <3>1, <3>2, LibGrows
    <3> QED BY <3>1, <3>3
  <2>2. CASE ~FinishAndTrim
    <3>1. UNCHANGED <<evm_lib, exec_engine>> /\ (pc' = "idle" => FinishWithoutLib)
      BY <2>2 DEF HandlerStep, Exit, DropEvmBlock, DropNativeBlock, FailToRemove,
         ResetUpperBound, FailToSetUpperBound, ExtendEvmChain, ApplyConfig, FailToSetConfig,
         AddTransaction, RejectTransaction, FinishWithoutLib, FailToTrim, shared
    <3>2. ~FinishWithoutLib
      BY LibIs DEF FinishWithoutLib
    <3>3. LibComputed
      BY <1>4, <3>1, <3>2 DEF LibComputed
    <3> QED BY <1>2, <1>4, <3>1, <3>3 DEF CopyBelow
  <2> QED BY <2>1, <2>2
<1>5. ASSUME pc = "extend", back \in EvmBlock, published' = Append(published, Sealed(back)),
             Good(back, new_block.prev)
      PROVE  \A i \in handled + 1 .. Len(published') : published'[i].number >= r
  <2>1. /\ Sealed(back) \in EvmBlock /\ Sealed(back).number = back.number
        /\ back.number \in Nat /\ back.number >= StartBlock.number
    BY <1>5, SealedType DEF Sealed, EvmBlock, Good
  <2>2. NumberOf(new_block.prev) <= back.number /\ NumberOf(new_block.prev) \in Nat
    <3>1. NumberOf(new_block.prev) <= back.number
      BY <1>5 DEF Ready, CacheInv, ExtendInv, back
    <3>2. new_block.prev \in Histories
      BY <1>5, NewBlockFacts
    <3> QED BY <3>1, <3>2, SlotType, EvmNumType DEF NumberOf
  <2>3. back.number >= r
    <3>1. CASE exec_engine
      <4>1. evm_lib < NumberOf(new_block.prev)
        BY <1>5, <3>1 DEF LibBelow
      <4>2. r > StartBlock.number => r <= evm_lib
        BY <1>2, <3>1 DEF CopyBelow, LibComputed
      <4> QED BY <1>3, <2>1, <2>2, <4>1, <4>2
    <3>2. CASE ~exec_engine
      <4>1. /\ Len(N) = 2 /\ EvmNum(N[1]) = NumberOf(N[1].id) + 1
            /\ NumberOf(N[1].id) = r
        BY <1>2, <1>5, <3>2 DEF FreshInv
      <4>2. N[1].id = new_block.prev
        BY <1>5, <4>1, AfterResumed
      <4> QED BY <2>1, <2>2, <4>1, <4>2
    <3> QED BY <3>1, <3>2
  <2>4. /\ Len(published) \in Nat /\ Len(published') = Len(published) + 1
        /\ \A i \in 1 .. Len(published) : published'[i] = published[i]
        /\ published'[Len(published) + 1] = Sealed(back)
    BY <1>3, <1>5, <2>1, AppendedFacts
  <2> TAKE i \in handled + 1 .. Len(published')
  <2>5. i \in handled + 1 .. Len(published) \/ i = Len(published) + 1
    BY <1>3, <2>4
  <2>6. CASE i = Len(published) + 1
    BY <2>1, <2>3, <2>4, <2>6
  <2>7. CASE i \in handled + 1 .. Len(published)
    <3>1. i \in 1 .. Len(published)
      BY <1>3, <2>4, <2>7
    <3> QED BY <1>2, <2>4, <2>7, <3>1 DEF CopyBelow
  <2> QED BY <2>5, <2>6, <2>7
<1>6. \A i \in handled + 1 .. Len(published') : published'[i].number >= r
  BY <1>2, <1>5, HandlerPublishes DEF CopyBelow
<1> QED BY <1>1, <1>2, <1>4, <1>6 DEF CopyBelow

\* Where a start resumes, of a chain and the number stored with it.
NamedUpTo(chain, h) ==
  {i \in DOMAIN chain : chain[i].number <= h /\ chain[i].prev_randao # Zero}

ResumeAt(chain, stored) ==
  LET is == NamedUpTo(chain, Min({stored, Last(chain).number}))
  IN  IF is = {} THEN chain[1] ELSE chain[Max(is)]

LEMMA ResumeAtFacts ==
  ASSUME NEW chain \in Seq(EvmBlock), chain # <<>>, Rooted(chain), NEW stored \in Nat
  PROVE  LET x == ResumeAt(chain, stored)
         IN  /\ \E k \in 1 .. Len(chain) : x = chain[k]
             /\ x.number \in Nat /\ x.number <= Last(chain).number
             /\ x.number > StartBlock.number => x.number <= stored
             /\ \A i \in 1 .. Len(chain) :
                  chain[i].number <= stored /\ chain[i].prev_randao # Zero =>
                    chain[i].number <= x.number
<1> DEFINE n  == Len(chain)
           h  == Min({stored, Last(chain).number})
           is == NamedUpTo(chain, h)
           x  == ResumeAt(chain, stored)
<1>1. /\ n \in Nat \ {0} /\ DOMAIN chain = 1 .. n /\ StartBlock.number \in Nat
      /\ 1 \in 1 .. n /\ n \in 1 .. n /\ Last(chain) = chain[n]
  BY StartNumber, LenProperties, EmptySeq DEF Last
<1>2. \A i \in 1 .. n : chain[i].number \in Nat /\ chain[i].number = StartBlock.number + i - 1
  BY RootedAt
<1>3. \A i \in 1 .. n : \A j \in i .. n : j \in 1 .. n /\ chain[i].number <= chain[j].number
  <2> TAKE i \in 1 .. n
  <2> TAKE j \in i .. n
  <2>1. j \in 1 .. n /\ i <= j
    BY <1>1
  <2>2. /\ chain[i].number = StartBlock.number + i - 1
        /\ chain[j].number = StartBlock.number + j - 1
    BY <1>2, <2>1
  <2> QED BY <1>1, <2>1, <2>2
<1>4. /\ h = IF stored <= Last(chain).number THEN stored ELSE Last(chain).number
      /\ h \in Nat /\ h <= stored
  <2>1. Last(chain).number \in Nat
    BY <1>1, <1>2
  <2>2. h = IF stored <= Last(chain).number THEN stored ELSE Last(chain).number
    BY <2>1, MinOfTwo
  <2> HIDE DEF h
  <2> QED BY <2>1, <2>2
<1>5. is = {i \in 1 .. n : chain[i].number <= h /\ chain[i].prev_randao # Zero}
  BY <1>1 DEF NamedUpTo
<1>6. \A i \in 1 .. n : chain[i].number <= Last(chain).number
  BY <1>1, <1>3
<1>7. \A i \in 1 .. n :
        chain[i].number <= stored /\ chain[i].prev_randao # Zero => i \in is
  BY <1>4, <1>5, <1>6
<1>8. x = IF is = {} THEN chain[1] ELSE chain[Max(is)]
  BY DEF ResumeAt
<1> HIDE DEF is, h, x
<1>9. CASE is = {}
  <2>1. x = chain[1] /\ chain[1].number = StartBlock.number
    <3>1. chain[1].number = StartBlock.number + 1 - 1
      BY <1>1, <1>2
    <3> QED BY <1>1, <1>8, <1>9, <3>1
  <2> QED BY <1>1, <1>2, <1>6, <1>7, <1>9, <2>1 DEF x
<1>10. CASE is # {}
  <2>1. Max(is) \in is /\ \A i \in is : Max(is) >= i
    <3>1. is \in SUBSET (0 .. n)
      BY <1>1, <1>5
    <3> QED BY <1>1, <1>10, <3>1, MaxExists
  <2>2. PICK k \in 1 .. n : k = Max(is) /\ chain[k].number <= h
    BY <1>5, <2>1
  <2>3. /\ x = chain[k] /\ x.number \in Nat
        /\ x.number <= Last(chain).number /\ x.number <= stored
    <3>1. x = chain[k]
      BY <1>8, <1>10, <2>2
    <3>2. \A a, b, c \in Nat : a <= b /\ b <= c => a <= c
      OBVIOUS
    <3>3. chain[k].number <= stored
      BY <1>2, <1>4, <2>2, <3>2
    <3> QED BY <1>2, <1>6, <3>1, <3>3
  <2>4. \A i \in is : chain[i].number <= x.number
    <3> TAKE i \in is
    <3>1. i \in 1 .. n /\ i <= k
      BY <1>5, <2>1, <2>2
    <3>2. k \in i .. n
      BY <1>1, <3>1
    <3> QED BY <1>3, <2>3, <3>1, <3>2
  <2> QED BY <1>7, <2>2, <2>3, <2>4 DEF x
<1> QED BY <1>9, <1>10

\* A block that is verified moves the block to resume at forward, up to evm_lib, and not
\* above what waits.
LEMMA StoreCopy ==
  ASSUME HistoriesAreIds, CleanStart, NodeInv, Ready, HeldInv, StartInv, FinalInv, QueueInv,
         CopyBelow, StoreStep
  PROVE  CopyBelow' /\ RestartBlock'.number >= RestartBlock.number
<1> DEFINE b == published[handled + 1]
<1>1. /\ pc = "idle" /\ pc' = "idle" /\ UNCHANGED <<native_blocks, published, best, lib, evm_lib>>
  BY StoreQuiet DEF caches
<1>2. /\ b \in EvmBlock /\ b.number \in Nat
      /\ published \in Seq(EvmBlock) /\ Len(published) \in Nat /\ handled \in Nat
      /\ handled + 1 \in 1 .. Len(published) /\ handled' = handled + 1
      /\ inserted' \in Seq(EvmBlock) /\ Rooted(inserted')
      /\ b.number - StartBlock.number \in 0 .. Len(inserted)
      /\ Len(inserted') = b.number - StartBlock.number + 1
      /\ inserted'[b.number - StartBlock.number + 1] = Stored(b)
  BY StoreTakes
<1>3. LibComputed
  <2>1. published # <<>>
    BY <1>2
  <2> QED BY <1>1, <2>1 DEF LibComputed
<1>4. PICK r \in Nat : r = RestartBlock.number /\ r >= StartBlock.number
  BY RestartBlockFacts
<1>5. evm_lib \in Nat /\ StartBlock.number \in Nat /\ None \notin Nat
  BY StartNumber DEF Ready, TypedLists, TypeOK, CleanStart
<1>6. /\ r > StartBlock.number => r <= evm_lib
      /\ \A i \in handled + 1 .. Len(published) : published[i].number >= r
  BY <1>3, <1>4 DEF CopyBelow
<1>7. \A i \in handled' + 1 .. Len(published) :
        i \in handled + 1 .. Len(published) /\ i \in (handled + 1) + 1 .. Len(published)
  BY <1>2
<1>8. CASE UNCHANGED db_vars
  <2>1. RestartBlock' = RestartBlock
    BY <1>8, RestartBlockSame DEF db_vars
  <2> QED BY <1>1, <1>4, <1>6, <1>7, <2>1 DEF CopyBelow
<1>9. CASE canonical' = inserted' /\ kLibProcessed' = evm_lib
  <2> DEFINE chain == inserted'
             x     == ResumeAt(chain, evm_lib)
             n     == Len(chain)
  <2>1. RestartBlock' = x
    <3>1. kLibProcessed' # None
      BY <1>5, <1>9
    <3>2. RestartBlock' = ResumeAt(canonical', kLibProcessed')
      BY <3>1 DEF RestartBlock, get_canonical_block_at_height, find_block_with_valid_eos_id,
         EffectiveHeight, get_head_canonical_header, ResumeAt, NamedUpTo
    <3> QED BY <1>9, <3>2
  <2>2. /\ n \in Nat \ {0} /\ chain # <<>> /\ n \in 1 .. n
        /\ Last(chain).number = b.number
    <3>1. n \in Nat \ {0} /\ chain # <<>> /\ n \in 1 .. n
      <4>1. inserted \in Seq(EvmBlock) /\ Len(inserted) \in Nat
        BY LenProperties DEF NodeInv, StoreTypeOK
      <4>2. \A l \in Nat : \A d \in 0 .. l : d + 1 \in Nat \ {0} /\ d + 1 \in 1 .. d + 1
        OBVIOUS
      <4>3. n \in Nat \ {0} /\ n \in 1 .. n
        <5> HIDE DEF b
        <5> QED BY <1>2, <4>1, <4>2
      <4> HIDE DEF n
      <4>4. chain \in Seq(EvmBlock)
        BY <1>2
      <4> QED BY <4>3, <4>4, EmptySeq DEF n
    <3>2. Stored(b).number = b.number
      BY <1>2 DEF Stored, EvmBlock
    <3> QED BY <1>2, <3>1, <3>2 DEF Last
  <2>3. /\ x.number \in Nat /\ x.number <= b.number
        /\ x.number > StartBlock.number => x.number <= evm_lib
        /\ \A i \in 1 .. n :
             chain[i].number <= evm_lib /\ chain[i].prev_randao # Zero =>
               chain[i].number <= x.number
    BY <1>2, <1>5, <2>2, ResumeAtFacts
  <2>4. x.number >= StartBlock.number
    <3>1. PICK k \in 1 .. n : x = chain[k]
      BY <1>2, <1>5, <2>2, ResumeAtFacts
    <3>2. k \in Nat \ {0} /\ k \in 1 .. Len(chain)
      <4> HIDE DEF x
      <4> QED BY <2>2, <3>1
    <3>3. chain[k].number = StartBlock.number + k - 1
      <4>1. inserted' \in Seq(EvmBlock) /\ Rooted(inserted')
        BY <1>2
      <4> HIDE DEF x
      <4> QED BY <3>2, <4>1, RootedAt
    <3>4. \A u \in Nat : \A v \in Nat \ {0} : u + v - 1 >= u
      OBVIOUS
    <3> HIDE DEF x
    <3> QED BY <1>5, <3>1, <3>2, <3>3, <3>4
  <2>5. x.number >= r
    <3>1. CASE r = StartBlock.number
      BY <2>4, <3>1
    <3>2. CASE r # StartBlock.number
      <4> DEFINE i == r - StartBlock.number + 1
      <4>1. r > StartBlock.number /\ r <= evm_lib /\ r <= b.number
        <5>1. handled + 1 \in handled + 1 .. Len(published)
          BY <1>2
        <5>2. r > StartBlock.number /\ b.number >= r
          BY <1>4, <1>5, <1>6, <3>2, <5>1
        <5> HIDE DEF b
        <5> QED BY <1>2, <1>6, <5>2
      <4>2. i \in 2 .. n /\ i \in 1 .. n
        <5>1. \A u, v, w \in Nat : v > u /\ v <= w =>
                v - u + 1 \in 2 .. w - u + 1 /\ v - u + 1 \in 1 .. w - u + 1
          OBVIOUS
        <5> HIDE DEF b
        <5> QED BY <1>2, <1>5, <4>1, <5>1
      <4>3. chain[i].number = r
        <5>1. chain[i].number = StartBlock.number + i - 1
          BY <1>2, <4>2, RootedAt
        <5> QED BY <1>5, <5>1
      <4> HIDE DEF i
      <4>4. Holds(chain[i], best)
        <5>1. FinalInv'
          BY StoreFinal
        <5>2. kLibProcessed' # None /\ kLibProcessed' > StartBlock.number
          BY <1>5, <1>9, <4>1
        <5>3. \A j \in 2 .. Len(canonical') :
                canonical'[j].number <= kLibProcessed' => Holds(canonical'[j], best')
          BY <5>1, <5>2 DEF FinalInv
        <5> QED BY <1>1, <1>9, <4>1, <4>2, <4>3, <5>3
      <4>5. chain[i].prev_randao = UpperBoundOf(best, r)
        BY <4>3, <4>4 DEF Holds
      <4>6. /\ RestartBlock.prev_randao = UpperBoundOf(best, r)
            /\ RestartBlock.prev_randao \in Histories
        <5>1. /\ RestartBlock.prev_randao \in Histories
              /\ \A j \in 2 .. Len(canonical) :
                   canonical[j].number <= RestartBlock.number => Holds(canonical[j], best)
          BY StartFirm DEF Ready, RestartBlock
        <5>2. PICK k \in 1 .. Len(canonical) : RestartBlock = canonical[k]
          BY RestartBlockFacts
        <5>3. k \in 2 .. Len(canonical)
          <6>1. canonical \in Seq(EvmBlock) /\ Rooted(canonical) /\ Len(canonical) \in Nat
            BY LenProperties DEF NodeInv, StoreTypeOK, ChainInv
          <6>2. canonical[k].number = StartBlock.number + k - 1
            BY <6>1, RootedAt
          <6> QED BY <1>4, <1>5, <4>1, <5>2, <6>1, <6>2
        <5>4. Holds(RestartBlock, best)
          BY <1>4, <5>1, <5>2, <5>3
        <5> QED BY <1>4, <5>1, <5>4 DEF Holds
      <4>7. chain[i].prev_randao # Zero
        BY <4>5, <4>6 DEF CleanStart
      <4> HIDE DEF x, n
      <4> QED BY <2>3, <4>1, <4>2, <4>3, <4>7 DEF x, n
    <3> QED BY <3>1, <3>2
  <2>6. \A i \in handled' + 1 .. Len(published) : published[i].number >= x.number
    <3> TAKE i \in handled' + 1 .. Len(published)
    <3>1. i \in (handled + 1) + 1 .. Len(published) /\ i \in 1 .. Len(published)
      BY <1>2, <1>7
    <3>2. handled + 1 \in handled + 1 .. Len(published)
      BY <1>2
    <3>3. b.number < published[i].number
      BY <3>1, <3>2 DEF QueueInv
    <3>4. published[i].number \in Nat
      <4>1. published[i] \in EvmBlock
        BY <1>2, <3>1, ElementOfSeq
      <4> QED BY <4>1 DEF EvmBlock
    <3>5. \A u, v, w \in Nat : u <= v /\ v < w => w >= u
      OBVIOUS
    <3> HIDE DEF b, x
    <3> QED BY <1>2, <2>3, <3>3, <3>4, <3>5
  <2> HIDE DEF x
  <2> QED BY <1>1, <1>4, <2>1, <2>3, <2>5, <2>6 DEF CopyBelow
<1> QED BY <1>8, <1>9, StoreFacts

\* Every step keeps them, and never moves the block to resume at back.
LEMMA NextFresh ==
  ASSUME HistoriesAreIds, IdsHaveNumbers, CleanStart,
         \A height \in Heights : height = None,
         WholeInv, LibBelow, InRange, FreshInv, CopyBelow, [StorageNext]_nodevars
  PROVE  FreshInv' /\ CopyBelow' /\ RestartBlock'.number >= RestartBlock.number
<1>1. /\ NodeInv /\ Ready /\ HeldInv /\ StartInv /\ FinalInv /\ QueueInv
      /\ handled \in Nat /\ RestartBlock.number \in Nat
  BY RestartBlockFacts DEF WholeInv, NodeInv, StoreTypeOK
<1>2. CASE StoreStep
  BY <1>1, <1>2, StoreFresh, StoreCopy
<1>3. CASE UNCHANGED store_vars /\ ~ \E height \in Heights : Restart(height)
  <2>1. UNCHANGED <<handled, canonical, kLibProcessed>>
    BY <1>3 DEF store_vars, db_vars
  <2>2. RestartBlock' = RestartBlock
    BY <2>1, RestartBlockSame
  <2>3. CASE HandleNative
    <3>1. PICK nb : ReadBlock(nb) /\ Receive(nb)
      BY <2>3 DEF HandleNative, Deliver
    <3>2. nb \in NativeBlock /\ \E c \in Nat : Message(nb, c)
      BY <1>1, <3>1, ReadNext DEF Ready
    <3>3. PICK c \in Nat : Message(nb, c)
      BY <3>2
    <3>4. Len(published) - handled <= 0
      BY <1>1, <2>3 DEF HandleNative
    <3>5. FreshInv'
      BY <1>1, <2>1, <3>1, <3>2, <3>3, <3>4, ReceiveFresh
    <3>6. pc = "idle" /\ UNCHANGED <<exec_engine, published, evm_lib>>
      BY <3>1 DEF Receive, ReceiveBeforeGenesis, ReceiveDuplicate, ReceiveUnknownFork,
         ReceiveFork, ReceiveLinked, Exit, shared, vars
    <3>7. CopyBelow'
      BY <2>1, <2>2, <3>6 DEF CopyBelow, LibComputed
    <3> QED BY <1>1, <2>2, <3>5, <3>7
  <2>4. CASE ConvertStep
    <3>1. HandlerStep
      BY <2>4 DEF ConvertStep
    <3> QED BY <1>1, <2>1, <2>2, <3>1, HandlerFresh, HandlerCopy
  <2>5. CASE ChainStep \/ ConnectionStep \/ UNCHANGED nodevars
    <3>1. UNCHANGED <<pc, native_blocks, evm_blocks, new_block, published, exec_engine, evm_lib>>
      BY <2>5 DEF ChainStep, ConnectionStep, nodevars, allvars, vars, caches, locals
    <3>2. FreshInv'
      BY <2>1, <2>2, <3>1 DEF FreshInv
    <3>3. CopyBelow'
      BY <2>1, <2>2, <3>1 DEF CopyBelow, LibComputed
    <3> QED BY <1>1, <2>2, <3>2, <3>3
  <2>6. ~StoreStep
    BY <1>1, <1>3, <2>1 DEF StoreStep, InsertInBatch, InsertAndVerify, Insert
  <2> QED BY <1>3, <2>3, <2>4, <2>5, <2>6 DEF StorageNext
<1>4. CASE \E height \in Heights : Restart(height)
  <2>1. Restart(None)
    BY <1>4
  <2>2. UNCHANGED <<canonical, kLibProcessed>> /\ pc' = "idle" /\ exec_engine' = FALSE
        /\ published' = <<>> /\ handled' = 0
    BY <2>1 DEF Restart, db_vars
  <2>3. RestartBlock' = RestartBlock
    BY <2>2, RestartBlockSame
  <2>4. FreshInv'
    BY <1>1, <2>1, RestartFresh
  <2>5. CopyBelow'
    BY <2>2 DEF CopyBelow, LibComputed
  <2> QED BY <1>1, <2>3, <2>4, <2>5
<1>5. StoreStep \/ UNCHANGED store_vars \/ \E height \in Heights : Restart(height)
  BY DEF StorageNext, HandleNative, ConvertStep, nodevars
<1> QED BY <1>2, <1>3, <1>4, <1>5

\* The block that a start resumes at stands for an irreversible native block, the last of
\* its second.
CopyFirm ==
  LET id == RestartBlock.prev_randao
  IN  /\ id \in Histories /\ Firm(id)
      /\ RestartBlock.number = NumberOf(id) /\ RestartBlock.number \in Nat
      /\ StartBlockNum + Len(id) < lib
      /\ Len(best) > Len(id) => Number(best[Len(id) + 1]) > NumberOf(id)

LEMMA WholeCopy ==
  ASSUME HistoriesAreIds, CleanStart, WholeInv
  PROVE  CopyFirm
<1> DEFINE start == get_canonical_block_at_height(None)
           id    == start.prev_randao
<1>1. /\ id \in Histories /\ Firm(id) /\ start.number = NumberOf(id)
      /\ StartBlockNum + Len(id) < lib
      /\ Len(best) > Len(id) => Number(best[Len(id) + 1]) > NumberOf(id)
  BY StartFirm DEF WholeInv, Ready
<1>2. RestartBlock.number \in Nat
  BY RestartBlockFacts DEF WholeInv
<1> QED BY <1>1, <1>2 DEF CopyFirm, RestartBlock

LEMMA PrefixGrows ==
  ASSUME NEW id \in Histories, NEW j \in 0 .. Len(id), NEW i \in 0 .. j
  PROVE  IsPrefix(Prefix(id, i), Prefix(id, j))
<1>1. Len(id) \in Nat /\ i \in 0 .. Len(id) /\ i <= j
  BY FullPrefix
<1>2. Len(Prefix(id, i)) = i /\ Len(Prefix(id, j)) = j
  BY <1>1, PrefixPositions
<1>3. SubSeq(Prefix(id, i), 1, i) = Prefix(id, i)
  <2>1. i \in 0 .. i
    BY <1>1
  <2> QED BY <1>1, <2>1, PrefixOfPrefix DEF Prefix, Histories
<1>4. SubSeq(Prefix(id, j), 1, i) = Prefix(id, i)
  BY <1>1, PrefixOfPrefix DEF Prefix, Histories
<1> QED BY <1>1, <1>2, <1>3, <1>4 DEF IsPrefix

\* How much of the branch id is irreversible.
FirmLength(id, num) == Min({num - StartBlockNum, Len(id)})

LEMMA FirmLengthFacts ==
  ASSUME NEW id \in Histories, NEW num \in Nat, num > StartBlockNum
  PROVE  LET m == FirmLength(id, num)
         IN  /\ m \in 0 .. Len(id) /\ m \in Nat /\ StartBlockNum + m <= num
             /\ \A k \in Nat : k <= Len(id) /\ StartBlockNum + k <= num => k \in 0 .. m
<1> DEFINE a == num - StartBlockNum
           l == Len(id)
           m == FirmLength(id, num)
<1>1. l \in Nat /\ a \in Nat /\ StartBlockNum \in Nat /\ StartBlockNum + a = num
  BY FullPrefix, ChannelAssumption
<1>2. \A k \in Nat : StartBlockNum + k <= num <=> k <= a
  BY <1>1
<1> HIDE DEF a, l
<1>3. m = IF a <= l THEN a ELSE l
  <2>1. m = Min({a, l})
    BY DEF FirmLength, a, l
  <2> HIDE DEF m
  <2> QED BY <1>1, <2>1, MinOfTwo
<1> HIDE DEF m
<1>4. m \in 0 .. l /\ m \in Nat /\ m <= a /\ \A k \in Nat : k <= l /\ k <= a => k \in 0 .. m
  BY <1>1, <1>3
<1> QED BY <1>2, <1>4 DEF m, l

\* Whatever step the node takes, the irreversible blocks stay.
LEMMA StepKeepsBest ==
  ASSUME HistoriesAreIds, CleanStart, WholeInv, [StorageNext]_nodevars
  PROVE  \E n \in Nat : Keeps(n)
<1>1. NodeInv /\ Ready /\ ShipTypeOK /\ StreamInv /\ best \in Histories /\ lib \in Nat
  BY DEF WholeInv, Ready, ShipTypeOK, StreamTypeOK
<1>2. CASE ChainStep
  BY <1>1, <1>2, ChainKeeps
<1>3. CASE UNCHANGED <<best, lib>>
  <2>1. Len(best) \in Nat
    BY <1>1, FullPrefix
  <2>2. Keeps(Len(best))
    BY <1>1, <1>3, <2>1 DEF Keeps
  <2> QED BY <2>1, <2>2
<1>4. UNCHANGED <<best, lib>> \/ ChainStep
  <2>1. CASE HandleNative
    <3>1. PICK nb : ReadBlock(nb)
      BY <2>1 DEF HandleNative, Deliver
    <3> QED BY <1>1, <3>1, ReadNext
  <2>2. CASE ConvertStep \/ StoreStep \/ (\E height \in Heights : Restart(height))
    BY <2>2 DEF ConvertStep, StoreStep, InsertInBatch, InsertAndVerify, Insert, Restart,
       nodeos_vars, chain_vars
  <2>3. CASE ConnectionStep \/ UNCHANGED nodevars
    BY <1>1, <2>3, ConnectStream DEF ConnectionStep, nodevars, allvars, nodeos_vars, chain_vars
  <2> QED BY <2>1, <2>2, <2>3 DEF StorageNext
<1> QED BY <1>2, <1>3, <1>4

\* However the native chain changes, the copy stays within what is irreversible and does
\* not go back.
LEMMA GrowStep ==
  ASSUME CleanStart, StreamTypeOK, StreamInv, StreamTypeOK', StreamInv', NEW n \in Nat, Keeps(n),
         CopyFirm, CopyFirm', RestartBlock'.number >= RestartBlock.number
  PROVE  Log!Grow
<1> PICK id, id2 : id = RestartBlock.prev_randao /\ id2 = RestartBlock'.prev_randao
  OBVIOUS
<1> PICK c, c2 : c = Len(id) /\ c2 = Len(id2)
  OBVIOUS
<1>1. /\ best \in Histories /\ Len(best) \in Nat /\ lib \in Nat /\ StartBlockNum \in Nat
      /\ best' \in Histories /\ Len(best') \in Nat /\ lib' \in Nat /\ Timed(best')
      /\ lib > StartBlockNum /\ lib' > StartBlockNum
  BY FullPrefix, ChannelAssumption DEF StreamTypeOK, StreamInv
<1> DEFINE m  == FirmLength(best, lib)
           m2 == FirmLength(best', lib')
<1>2. /\ m \in 0 .. Len(best) /\ m \in Nat /\ StartBlockNum + m <= lib
      /\ m2 \in 0 .. Len(best') /\ m2 \in Nat
      /\ \A k \in Nat : k <= Len(best') /\ StartBlockNum + k <= lib' => k \in 0 .. m2
  BY <1>1, FirmLengthFacts
<1> HIDE DEF m, m2
<1>3. /\ id \in Histories /\ Firm(id) /\ c \in Nat
      /\ RestartBlock.number = NumberOf(id) /\ RestartBlock.number \in Nat
  BY FullPrefix DEF CopyFirm
<1>4. /\ id2 \in Histories /\ c2 \in Nat
      /\ id2 = Prefix(best', c2) /\ c2 \in 0 .. Len(best')
      /\ RestartBlock'.number = NumberOf(id2) /\ RestartBlock'.number \in Nat
      /\ StartBlockNum + c2 < lib'
      /\ Len(best') > c2 => Number(best'[c2 + 1]) > NumberOf(id2)
  <2>1. /\ id2 \in Histories /\ c2 <= Len(best') /\ id2 = Prefix(best', c2)
        /\ RestartBlock'.number = NumberOf(id2) /\ RestartBlock'.number \in Nat
        /\ StartBlockNum + c2 < lib'
        /\ Len(best') > c2 => Number(best'[c2 + 1]) > NumberOf(id2)
    BY DEF CopyFirm, Firm
  <2>2. c2 \in Nat
    BY <2>1, FullPrefix
  <2> QED BY <1>1, <2>1, <2>2
<1>5. IsPrefix(Prefix(best, m), Prefix(best', m2))
  <2>1. m \in 0 .. n /\ m <= Len(best') /\ StartBlockNum + m <= lib'
    BY <1>1, <1>2 DEF Keeps
  <2>2. Prefix(best, m) = Prefix(best', m)
    BY <2>1 DEF Keeps
  <2>3. m \in 0 .. m2
    BY <1>2, <2>1
  <2> QED BY <1>1, <1>2, <2>2, <2>3, PrefixGrows
<1>6. IsPrefix(id2, Prefix(best', m2))
  <2>1. c2 \in 0 .. m2
    BY <1>1, <1>2, <1>4
  <2> QED BY <1>1, <1>2, <1>4, <2>1, PrefixGrows
<1>7. id = Prefix(best', c) /\ c \in 0 .. Len(best')
  <2>1. Firm(id)'
    BY <1>3, KeepsFirm
  <2>2. c <= Len(best') /\ id = Prefix(best', c)
    BY <2>1 DEF Firm
  <2> QED BY <1>1, <1>3, <2>2
<1>8. c <= c2
  <2> SUFFICES ASSUME c > c2 PROVE FALSE
    BY <1>3, <1>4
  <2>1. /\ c2 + 1 \in 1 .. Len(best') /\ c \in c2 + 1 .. Len(best') /\ c \in 1 .. Len(best')
        /\ Len(best') > c2
    <3>1. \A x, y, z \in Nat : x > y /\ x <= z =>
            y + 1 \in 1 .. z /\ x \in y + 1 .. z /\ x \in 1 .. z /\ z > y
      OBVIOUS
    <3>2. c <= Len(best')
      BY <1>1, <1>7
    <3> QED BY <1>1, <1>3, <1>4, <3>1, <3>2
  <2>2. Number(best'[c2 + 1]) <= Number(best'[c])
    BY <1>1, <2>1, TimedNumbers
  <2>3. NumberOf(id) = Number(best'[c])
    BY <1>1, <1>7, <2>1, PositionFacts
  <2>4. Number(best'[c2 + 1]) > NumberOf(id2)
    BY <1>4, <2>1
  <2>5. Number(best'[c2 + 1]) \in Nat /\ Number(best'[c]) \in Nat
    BY <1>1, <2>1, PositionFacts, NumberType
  <2> QED BY <1>3, <1>4, <2>2, <2>3, <2>4, <2>5
<1>9. IsPrefix(id, id2)
  <2>1. c \in 0 .. c2
    BY <1>3, <1>4, <1>8
  <2> QED BY <1>1, <1>4, <1>7, <2>1, PrefixGrows
<1> QED BY <1>5, <1>6, <1>9 DEF Log!Grow, FirmLength, m, m2, IsPrefix, Log!IsPrefix

\* While the number of EVM blocks fits their width, what engine_plugin would resume at
\* stands, at every moment and whatever a crash loses, for irreversible native blocks, and
\* never goes back.
THEOREM DatabaseImplementsLog ==
  ASSUME HistoriesAreIds, IdsHaveNumbers, CleanStart,
         \A height \in Heights : height = None
  PROVE  StorageSpec /\ []InRange => Finalized
<1> DEFINE Inv == WholeInv /\ LibBelow /\ FreshInv /\ CopyBelow
<1>1. OptionUnused
  BY DEF OptionUnused
<1>2. StorageInit => Inv
  <2>1. StorageInit => LibBelow
    BY DEF StorageInit, SystemInit, Init, LibBelow
  <2> QED BY <2>1, InitWhole, InitFresh
<1>3. Inv /\ InRange /\ [StorageNext]_nodevars => Inv'
  <2> SUFFICES ASSUME Inv, InRange, [StorageNext]_nodevars
               PROVE  Inv'
    OBVIOUS
  <2>1. WholeInv' /\ FreshInv' /\ CopyBelow'
    BY <1>1, NextWhole, NextFresh
  <2>2. LibBelow'
    BY <1>1, StepBelow
  <2> QED BY <2>1, <2>2
<1>4. Inv => CopyFirm
  BY WholeCopy
<1>5. StorageInit => Log!Init
  <2> SUFFICES ASSUME StorageInit
               PROVE  Log!Init
    OBVIOUS
  <2>1. best = <<>> /\ lib = InitLib /\ canonical = <<StartBlock>>
    BY DEF StorageInit, SystemInit, NodeosInit
  <2>2. RestartBlock = StartBlock
    <3>1. PICK k \in 1 .. Len(canonical) : RestartBlock = canonical[k]
      BY InitNode, RestartBlockFacts
    <3> QED BY <2>1, <3>1
  <2>3. FirmLength(best, lib) = 0 /\ Prefix(best, 0) = <<>>
    <3>1. best \in Histories /\ Len(best) = 0
      BY <2>1 DEF Histories
    <3>2. FirmLength(best, lib) \in 0 .. Len(best)
      <4>1. lib \in Nat /\ lib > StartBlockNum
        BY InitWhole DEF WholeInv, Ready, ShipTypeOK, StreamTypeOK, StreamInv
      <4> QED BY <3>1, <4>1, FirmLengthFacts
    <3> QED BY <3>1, <3>2, FullPrefix
  <2> QED BY <2>2, <2>3 DEF Log!Init, FirmLength, CleanStart
<1>6. Inv /\ Inv' /\ CopyFirm /\ CopyFirm' /\ InRange /\ [StorageNext]_nodevars =>
        [Log!Grow]_<<Prefix(best, Min({lib - StartBlockNum, Len(best)})),
                     RestartBlock.prev_randao>>
  <2> SUFFICES ASSUME Inv, Inv', CopyFirm, CopyFirm', InRange, [StorageNext]_nodevars
               PROVE  Log!Grow
    OBVIOUS
  <2>1. NodeInv /\ StreamTypeOK /\ StreamInv /\ StreamTypeOK' /\ StreamInv'
    BY DEF WholeInv, Ready, ShipTypeOK
  <2>2. PICK n \in Nat : Keeps(n)
    BY StepKeepsBest
  <2>3. RestartBlock'.number >= RestartBlock.number
    BY NextFresh
  <2> QED BY <2>1, <2>2, <2>3, GrowStep
<1> QED BY <1>2, <1>3, <1>4, <1>5, <1>6, PTL DEF StorageSpec, Finalized, Log!Spec
=============================================================================
