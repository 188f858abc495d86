----------------------------- MODULE BlockMonitor -----------------------------
(***************************************************************************)
(* block-monitor.js of the websocket proxy: follows the EVM chain by       *)
(* polling the RPC, through awaits between which the chain may change, the *)
(* monitor may be stopped and started, and another poll may run.           *)
(*                                                                         *)
(* The RPC and the chain behind it are external.  The hash of an EVM block *)
(* is the sequence of the bodies up to it, its parent's hash all but the   *)
(* last of them, and its number their count.                               *)
(***************************************************************************)
EXTENDS Integers, SequencesExt

CONSTANTS
  None,         \* undefined
  Null,         \* the answer about a block that the RPC does not have
  Body,         \* what distinguishes EVM blocks
  GrowthBody,   \* bound: bodies of the blocks that extend the chain
  InitialChain, \* the chain when the proxy starts
  MaxBlocks,    \* bound on the length of the chain
  MaxReorgs,    \* bound on the number of reorganisations
  MaxErrors,    \* bound on the number of failed requests
  DeepForks,    \* may a reorganisation replace the first block in the deque
  Poll,         \* calls of poll that may run at once: numbers for them
  Keep,         \* 180 in the code: reversible blocks kept in any case
  Slack,        \* 6 in the code: how many more before the front is trimmed
  LibAhead      \* bound: how far nodeos may be ahead of the EVM node

ASSUME MonitorAssumption ==
  /\ InitialChain \in Seq(Body) /\ Len(InitialChain) >= 2
  /\ GrowthBody \subseteq Body
  /\ MaxBlocks \in Nat /\ Len(InitialChain) <= MaxBlocks /\ MaxReorgs \in Nat /\ MaxErrors \in Nat
  /\ DeepForks \in BOOLEAN /\ Poll \subseteq Nat
  /\ Keep \in Nat /\ Slack \in Nat /\ LibAhead \in Nat

VARIABLES
  chain,             \* the canonical chain, as the RPC knows it
  lib,               \* number of the last irreversible block
  reorgs, errors,    \* numbers of reorganisations and of failed requests so far
  reversible_blocks, \* hashes of the blocks in the deque
  run,
  timer,             \* timer_id is that of a timer that has yet to fire
  polls,             \* the state of each call of poll
  emitted            \* events emitted in the last step, in order

rpc_vars == <<chain, lib, reorgs, errors>>
monitor_vars == <<rpc_vars, reversible_blocks, run, timer, polls, emitted>>

\* at: which answer it awaits, "idle" if it is not running; reply: the answer; last and
\* found_next_block: its locals; first: it looks for a block to start from.
NotRunning == [at |-> "idle", ask |-> 0, reply |-> None, last |-> None,
               found_next_block |-> FALSE, first |-> FALSE]

MonitorInit ==
  /\ chain = InitialChain
  /\ lib = Len(InitialChain) - 1
  /\ reorgs = 0 /\ errors = 0
  /\ reversible_blocks = <<>>
  /\ run = FALSE /\ timer = FALSE
  /\ polls = [p \in Poll |-> NotRunning]
  /\ emitted = <<>>

-----------------------------------------------------------------------------
(* The chain and its RPC *)

Prefix(id, k) == SubSeq(id, 1, k)

Extend ==
  /\ Len(chain) < MaxBlocks
  /\ \E b \in GrowthBody : chain' = Append(chain, b)
  /\ UNCHANGED <<lib, reorgs, errors>>

\* The number of the block that every reorganisation keeps, besides the last
\* irreversible one.
Kept ==
  CASE DeepForks                              -> 0
    [] ~DeepForks /\ reversible_blocks = <<>> -> Len(chain)
    [] OTHER                                  -> Len(Head(reversible_blocks))

Reorganise ==
  /\ reorgs < MaxReorgs
  /\ \E k \in Max({lib, Kept}) .. Len(chain) - 1 : \E b \in Body \ {chain[k + 1]} :
       chain' = Append(Prefix(chain, k), b)
  /\ reorgs' = reorgs + 1
  /\ UNCHANGED <<lib, errors>>

Finalise == lib < Len(chain) /\ lib' = lib + 1 /\ UNCHANGED <<chain, reorgs, errors>>

ChainMoves ==
  /\ Extend \/ Reorganise \/ Finalise
  /\ emitted' = <<>>
  /\ UNCHANGED <<reversible_blocks, run, timer, polls>>

\* The RPC answers with a block, or null, some time before the poll goes on.  The
\* number of the head and the irreversible one are read when it goes on: while one poll
\* runs, nothing else looks at the chain, and what moves it in between could as well
\* move it after.
Reply(p) ==
  /\ polls[p].at = "block" /\ polls[p].reply = None
  /\ polls' = [polls EXCEPT ![p].reply =
                 IF polls[p].ask <= Len(chain) THEN Prefix(chain, polls[p].ask) ELSE Null]
  /\ emitted' = <<>>
  /\ UNCHANGED <<rpc_vars, reversible_blocks, run, timer>>

-----------------------------------------------------------------------------
(* poll *)

Back == IF reversible_blocks = <<>> THEN None ELSE Last(reversible_blocks)

Await(p, at, poll) ==
  polls' = [polls EXCEPT ![p] = [poll EXCEPT !.at = at, !.reply = None]]

\* The timer fires, whether or not the monitor runs.  The call gets the first free name.
StartPoll(p) ==
  /\ timer /\ polls[p].at = "idle"
  /\ \A q \in Poll : q < p => polls[q].at # "idle"
  /\ timer' = FALSE
  /\ Await(p, "head", [NotRunning EXCEPT !.last = Back, !.first = (Back = None)])
  /\ emitted' = <<>>
  /\ UNCHANGED <<rpc_vars, reversible_blocks, run>>

\* Wrong variant of EndPoll: the next poll is scheduled only if this one found a block.
EndIfFound(p, blocks) ==
  /\ polls' = [polls EXCEPT ![p] = NotRunning]
  /\ timer' = IF run THEN timer \/ polls[p].found_next_block ELSE FALSE
  /\ reversible_blocks' = IF run THEN blocks ELSE <<>>
  /\ UNCHANGED run

\* What follows the try block, with the deque as blocks.
EndPoll(p, blocks) ==
  /\ polls' = [polls EXCEPT ![p] = NotRunning]
  /\ timer' = run
  /\ reversible_blocks' = IF run THEN blocks ELSE <<>>
  /\ UNCHANGED run

\* The loop is over: the front is trimmed if there is enough of it.
AfterLoop(p, poll) ==
  IF poll.found_next_block /\ Len(reversible_blocks) > Keep + Slack
  THEN Await(p, "lib", poll) /\ UNCHANGED <<reversible_blocks, run, timer>>
  ELSE EndPoll(p, reversible_blocks)

\* get_next_block: with no block to start from, the one before the head; otherwise the
\* next one, if it is two below the head or more.
ResumeHead(p) ==
  LET poll == polls[p]
      head == Len(chain)
  IN  /\ poll.at = "head"
      /\ IF poll.last = None
         THEN /\ Await(p, "block", [poll EXCEPT !.ask = head - 1])
              /\ UNCHANGED <<reversible_blocks, run, timer>>
         ELSE IF Len(poll.last) + 1 >= head - 1
              THEN AfterLoop(p, poll)
              ELSE /\ Await(p, "block", [poll EXCEPT !.ask = Len(poll.last) + 1])
                   /\ UNCHANGED <<reversible_blocks, run, timer>>
      /\ emitted' = <<>>
      /\ UNCHANGED rpc_vars

\* The RPC has no such block, or the request failed: the error is caught.
PollFails(p) ==
  /\ \/ polls[p].at = "block" /\ polls[p].reply = Null /\ UNCHANGED rpc_vars
     \/ /\ polls[p].at # "idle" /\ polls[p].reply = None /\ errors < MaxErrors
        /\ errors' = errors + 1
        /\ UNCHANGED <<chain, lib, reorgs>>
  /\ EndPoll(p, reversible_blocks)
  /\ emitted' = <<>>

append_new_block(p, poll) ==
  /\ reversible_blocks' = Append(reversible_blocks, poll.reply)
  /\ emitted' = <<[event |-> "appended", block |-> poll.reply]>>
  /\ Await(p, "head", [poll EXCEPT !.last = poll.reply, !.first = FALSE])
  /\ UNCHANGED <<rpc_vars, run, timer>>

\* A block to start from, which is not counted as found.
ResumeFirst(p) ==
  LET poll == polls[p]
  IN  /\ poll.at = "block" /\ poll.reply \notin {None, Null}
      /\ poll.last = None /\ poll.first
      /\ append_new_block(p, poll)

ResumeLinked(p) ==
  LET poll == polls[p]
  IN  /\ poll.at = "block" /\ poll.reply \notin {None, Null}
      /\ poll.last # None /\ Front(poll.reply) = poll.last
      /\ append_new_block(p, [poll EXCEPT !.found_next_block = TRUE])

\* Wrong variant of ResumeForked: the new block takes the place of the last one, without
\* a look at the one before.
ForkAndAppend(p) ==
  LET poll == polls[p]
  IN  /\ poll.at = "block" /\ poll.reply \notin {None, Null}
      /\ poll.last # None /\ Front(poll.reply) # poll.last
      /\ append_new_block(p, [poll EXCEPT !.found_next_block = TRUE])

\* fork_last_block: the last block of the deque goes, which need not be the one that
\* this poll holds; without any, the read of its number throws.
ResumeForked(p) ==
  LET poll   == polls[p]
      remain == Front(reversible_blocks)
  IN  /\ poll.at = "block" /\ poll.reply \notin {None, Null}
      /\ poll.last # None /\ Front(poll.reply) # poll.last
      /\ IF reversible_blocks = <<>>
         THEN EndPoll(p, <<>>) /\ emitted' = <<>>
         ELSE /\ reversible_blocks' = remain
              /\ emitted' = <<[event |-> "forked", block |-> Back]>>
              /\ Await(p, "head", [poll EXCEPT !.found_next_block = TRUE,
                                     !.last = IF remain = <<>> THEN None ELSE Last(remain)])
              /\ UNCHANGED <<run, timer>>
      /\ UNCHANGED rpc_vars

\* No block is left in the deque: the one before the head is read, and not used.
ResumeUnused(p) ==
  LET poll == polls[p]
  IN  /\ poll.at = "block" /\ poll.reply \notin {None, Null}
      /\ poll.last = None /\ ~poll.first
      /\ AfterLoop(p, poll)
      /\ emitted' = <<>>
      /\ UNCHANGED rpc_vars

\* Blocks below evm_lib, as many as leave Keep in the deque.
Removable(evm_lib) ==
  Max({k \in 0 .. Len(reversible_blocks) :
         k = 0 \/ (/\ Len(reversible_blocks) - k >= Keep
                   /\ \A i \in 1 .. k : Len(reversible_blocks[i]) < evm_lib)})

\* get_evm_lib asks nodeos, which may be behind the EVM node or ahead of it.
ResumeLib(p) ==
  \E evm_lib \in 0 .. lib + LibAhead :
    LET k == Removable(evm_lib)
    IN  /\ polls[p].at = "lib"
        /\ EndPoll(p, SubSeq(reversible_blocks, k + 1, Len(reversible_blocks)))
        /\ emitted' = [i \in 1 .. k |-> [event |-> "removed", block |-> reversible_blocks[i]]]
        /\ UNCHANGED rpc_vars

PollStep(p) ==
  \/ StartPoll(p) \/ Reply(p) \/ PollFails(p)
  \/ ResumeHead(p) \/ ResumeFirst(p) \/ ResumeLinked(p) \/ ResumeForked(p)
  \/ ResumeUnused(p) \/ ResumeLib(p)

\* start() and stop() as check_start_monitor and check_stop_monitor call them.
start == run' = TRUE /\ timer' = TRUE /\ UNCHANGED <<rpc_vars, reversible_blocks, polls>>

stop == run' = FALSE /\ UNCHANGED <<rpc_vars, reversible_blocks, timer, polls>>
=============================================================================
