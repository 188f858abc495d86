----------------------------- MODULE NodeStorage -----------------------------
(***************************************************************************)
(* The whole of eos-evm-node over a native chain, with its database:       *)
(* blockchain_plugin hands each published EVM block to the execution       *)
(* engine and stores evm_lib with it, engine_plugin finds the block that   *)
(* a restarted node resumes at.  The node may crash between any two steps  *)
(* and is then started again: only what was committed survives.            *)
(*                                                                         *)
(* The execution engine and its database are external: insert_block keeps  *)
(* a block, verify_chain makes the chain that ends in a block canonical    *)
(* and commits what was written since the last commit.  A chain is the     *)
(* sequence of its blocks from the start block on.                         *)
(***************************************************************************)
EXTENDS ConversionOverShip

CONSTANTS
  BatchSize,    \* irreversible blocks verified at once, 5000 in the code
  Heights,      \* what option ship-start-from-canonical-height may be, None if not given
  MaxRestarts   \* bound on the number of restarts

ASSUME StorageAssumption ==
  /\ BatchSize \in Nat \ {0} /\ MaxRestarts \in Nat
  /\ Heights \subseteq Optional(Nat)

VARIABLES
  handled,            \* published blocks that blockchain_plugin has handled
  block_count,        \* those inserted since the last verification
  inserted,           \* the chain of the last block inserted
  canonical,          \* the canonical chain of the database
  kLibProcessed,      \* the last irreversible EVM block in the database
  stored_parameters,  \* the consensus parameters in the database
  restarts

db_vars == <<canonical, kLibProcessed, stored_parameters>>
store_vars == <<handled, block_count, inserted, db_vars, restarts>>
nodevars == <<allvars, store_vars>>

-----------------------------------------------------------------------------
(* blockchain_plugin: the handler of the evm_blocks channel *)

\* irreversible is a member of the block in memory, not of the header.
Stored(b) == [b EXCEPT !.irreversible = FALSE]

\* Wrong variant of insert_block: what a fork replaces stays below the block.
append_block(chain, b) == Append(chain, Stored(b))

\* A chain with b on top of its parent.
insert_block(chain, b) ==
  Append(SubSeq(chain, 1, b.number - StartBlock.number), Stored(b))

NextBlock == published[handled + 1]

MustVerify(b) == (block_count + 1) % BatchSize = 0 \/ ~b.irreversible

Insert ==
  /\ pc = "idle" /\ conn # "quit"
  /\ handled < Len(published)
  /\ exec_engine' = TRUE
  /\ handled' = handled + 1
  /\ inserted' = insert_block(inserted, NextBlock)
  /\ UNCHANGED <<nodeos_vars, receiver_vars, caches, evm_lib, published,
                 consensus_parameters, pc, locals, restarts>>

InsertInBatch ==
  /\ Insert
  /\ ~MustVerify(NextBlock)
  /\ block_count' = block_count + 1
  /\ UNCHANGED db_vars

\* Wrong variant of InsertAndVerify: the block counts as irreversible itself.
InsertAndVerifyOwn ==
  /\ Insert
  /\ MustVerify(NextBlock)
  /\ block_count' = 0
  /\ canonical' = inserted'
  /\ kLibProcessed' = NextBlock.number
  /\ stored_parameters' = consensus_parameters

\* evm_lib is the converter's of this moment, which has handled the whole native block
\* since it published this EVM block.
InsertAndVerify ==
  /\ Insert
  /\ MustVerify(NextBlock)
  /\ block_count' = 0
  /\ canonical' = inserted'
  /\ kLibProcessed' = evm_lib
  /\ stored_parameters' = consensus_parameters

StoreStep == InsertInBatch \/ InsertAndVerify

-----------------------------------------------------------------------------
(* engine_plugin: where a start resumes *)

get_head_canonical_header == Last(canonical)

\* Wrong variant of EffectiveHeight: the head, whatever is irreversible.
HeadHeight == get_head_canonical_header.number

\* The stored height, if there is one, or the head; never above the head.
EffectiveHeight ==
  IF kLibProcessed = None
  THEN get_head_canonical_header.number
  ELSE Min({kLibProcessed, get_head_canonical_header.number})

\* The last block up to height that names a native block, or else the first block.
find_block_with_valid_eos_id(height) ==
  LET is == {i \in DOMAIN canonical :
               canonical[i].number <= height /\ canonical[i].prev_randao # Zero}
  IN  IF is = {} THEN canonical[1] ELSE canonical[Max(is)]

\* An option overrides what is stored.
get_canonical_block_at_height(height) ==
  find_block_with_valid_eos_id(IF height = None THEN EffectiveHeight ELSE height)

\* Where a start without the option resumes.
RestartBlock == get_canonical_block_at_height(None)

\* Wrong variant of to_block_num: off by one.
to_next_block_num(id) == StartBlockNum + Len(id) + 1

to_block_num(id) == StartBlockNum + Len(id)

-----------------------------------------------------------------------------
(* A crash, or a shutdown, and the start that follows it *)

Restart(height) ==
  LET start == get_canonical_block_at_height(height)
      num   == to_block_num(start.prev_randao)
  IN  /\ restarts < MaxRestarts
      /\ restarts' = restarts + 1
      \* block_conversion_plugin: load_head
      /\ native_blocks' = <<LoadedNative(start, num)>>
      /\ evm_blocks' = <<start>>
      /\ new_block' = LoadedNative(start, num)
      /\ evm_lib' \in UninitializedLib
      /\ published' = <<>> /\ exec_engine' = FALSE
      /\ pc' = "idle" /\ pending' = <<>>
      \* ship_receiver_plugin
      /\ conn' = "closed" /\ retry_count' = 0
      /\ last_lib' = 0 /\ last_block_num' = 0 /\ stored_num' = num
      \* blockchain_plugin; what was not committed is lost
      /\ handled' = 0 /\ block_count' = 0
      /\ inserted' = canonical
      /\ consensus_parameters' = stored_parameters
      /\ UNCHANGED <<failures, nodeos_vars, db_vars>>

-----------------------------------------------------------------------------
StorageInit ==
  /\ SystemInit
  /\ handled = 0 /\ block_count = 0
  /\ inserted = <<StartBlock>>
  /\ canonical = <<StartBlock>>
  /\ kLibProcessed = None
  /\ stored_parameters = {}
  /\ restarts = 0

\* Both channels share one queue, and the handler of a read, which publishes a native block
\* and starts the next read, comes after all that is posted: by then the EVM blocks
\* published before have been handled.
HandleNative ==
  /\ handled = Len(published)
  /\ Deliver
  /\ UNCHANGED store_vars

ConvertStep ==
  /\ HandlerStep
  /\ UNCHANGED <<nodeos_vars, receiver_vars, store_vars>>

StorageNext ==
  \/ HandleNative
  \/ ConvertStep
  \/ (ChainStep \/ ConnectionStep) /\ UNCHANGED store_vars
  \/ StoreStep
  \/ \E height \in Heights : Restart(height)

StorageSpec == StorageInit /\ [][StorageNext]_nodevars

FairStorageSpec ==
  /\ StorageSpec
  /\ WF_nodevars(HandleNative)
  /\ WF_nodevars(ConvertStep)
  /\ WF_nodevars(StoreStep)
  /\ WF_nodevars(pc = "idle" /\ (Startup \/ sync) /\ UNCHANGED <<vars, store_vars>>)

-----------------------------------------------------------------------------
(* Properties *)

\* The blocks of the queue that replace, or cut off, what is inserted at number m.
QueueUpTo(m) == {j \in handled + 1 .. Len(published) : published[j].number <= m}

\* Block m of the inserted chain once the queue is empty, if it gets that far.
Held(m) ==
  IF QueueUpTo(m) = {} THEN inserted[m - StartBlock.number + 1] ELSE published[Max(QueueUpTo(m))]

Holds(b, id) ==
  b.prev_randao = UpperBoundOf(id, b.number) /\ b.transactions = TransactionsOf(id, b.number)

\* The execution engine has block m of the branch id, or gets it from the queue.
HeldFrom(m, id) ==
  /\ QueueUpTo(m) = {} => m - StartBlock.number + 1 \in DOMAIN inserted
  /\ Held(m).number = m
  /\ Holds(Held(m), id)

IsChain(chain) ==
  \A i \in 1 .. Len(chain) - 1 :
    chain[i + 1].number = chain[i].number + 1 /\ chain[i + 1].parent_hash = hash(chain[i])

\* Whatever forks and restarts happen, and however many blocks one native block publishes,
\* each reaches the execution engine after its parent, and the canonical chain of the
\* database is linked.
ParentsInserted == IsChain(inserted) /\ IsChain(canonical)

\* Whenever blockchain_plugin may read evm_lib, the chain that it has, or gets from the
\* queue, holds up to there what the native chain does, now and after every later fork.
LibIsFinal ==
  pc = "idle" /\ exec_engine => \A m \in StartBlock.number + 1 .. evm_lib : HeldFrom(m, best)

\* Up to the block that a start now would resume at, the canonical chain holds what the
\* native chain does: no transaction is missing, none is of a fork.
RestartComplete ==
  pc = "idle" =>
    \A i \in 2 .. RestartBlock.number - StartBlock.number + 1 : Holds(canonical[i], best)

Log == INSTANCE FinalizedLog WITH
         log  <- Prefix(best, Min({lib - StartBlockNum, Len(best)})),
         copy <- RestartBlock.prev_randao

\* The database implements the finalized log: whatever a crash loses, the block that a
\* restart resumes at stands for irreversible native blocks, and it only moves forward.
Finalized == Log!Spec

\* Of what the contract allows, as long as no fork cuts a second in two, only a configchange
\* that comes before the execution engine is open stops the node, after a restart as well.
OnlyEarlyConfigExits ==
  /\ conn # "quit"
  /\ pc = "exited" => ~exec_engine /\ new_block.new_config # None

\* A block in the database names consensus parameters that are in it too, although the
\* converter writes them long before the block is inserted, and a crash may fall between.
ConfigDurable ==
  \A i \in DOMAIN canonical :
    canonical[i].consensus_parameter_index
      \in stored_parameters \cup {StartBlock.consensus_parameter_index}

\* After the last restart, once the chain stops growing, the execution engine has every
\* complete EVM block of the best branch.  It may still have the end of a longer fork.
EngineFollows ==
  \A m \in StartBlock.number + 1 .. NumberOf(best) - 1 :
    \E i \in DOMAIN inserted : inserted[i].number = m
                               /\ inserted[i].prev_randao = UpperBoundOf(best, m)

DatabaseCatchesUp == <>[](pc = "idle" /\ Branch = best /\ EngineFollows)
=============================================================================
