----------------------------- MODULE ShipReceiver -----------------------------
(***************************************************************************)
(* ship_receiver_plugin: the connection to the state-history endpoint, its *)
(* retries, and the block from which it resumes.                           *)
(*                                                                         *)
(* Every call but the resolver's and the reads of blocks is synchronous,   *)
(* on the application thread: connecting, reading the ABI, asking for the  *)
(* status and requesting blocks are one step, of which any part may fail.  *)
(* conn = "quit" stands for sys::error, which stops the application, and   *)
(* for an exception that leaves a callback.                                *)
(***************************************************************************)
EXTENDS Nodeos

CONSTANTS
  max_retry,          \* option ship-max-retry
  trace_begin_block,  \* the first block that the endpoint still has
  MaxFailures         \* bound on the number of failures of the connection

ASSUME ReceiverAssumption ==
  max_retry \in Nat /\ trace_begin_block \in Nat /\ MaxFailures \in Nat

VARIABLES
  conn,            \* "closed", "connecting", "reading" or "quit"
  retry_count,     \* attempts since the last block was read
  last_lib,        \* irreversible block number in the last message, 0 before the first
  last_block_num,  \* number of the last block read
  stored_num,      \* native number of the block that the database starts from
  failures         \* number of failures so far

receiver_vars == <<conn, retry_count, last_lib, last_block_num, stored_num, failures>>

ReceiverInit ==
  /\ conn = "closed"
  /\ retry_count = 0
  /\ last_lib = 0
  /\ last_block_num = 0
  /\ stored_num = StartBlockNum
  /\ failures = 0

\* plugin_startup: there is no stream yet, so this does not count as a retry.
Startup ==
  /\ conn = "closed"
  /\ conn' = "connecting"
  /\ UNCHANGED <<retry_count, last_lib, last_block_num, stored_num, failures, nodeos_vars>>

\* Closing a broken stream, then another attempt unless there were too many.
reset_connection ==
  /\ failures < MaxFailures
  /\ failures' = failures + 1
  /\ retry_count' = retry_count + 1
  /\ conn' = IF retry_count' > max_retry THEN "quit" ELSE "connecting"
  /\ UNCHANGED <<last_lib, last_block_num, stored_num, nodeos_vars>>

\* The resolver, the connection, its handshake, or one of the two requests of sync
\* fails.
ConnectionFails == conn = "connecting" /\ reset_connection

ReadFails == conn = "reading" /\ reset_connection

\* initial_read parses what it has read before its caller looks at the error: the
\* parser throws.
InitialReadFails ==
  /\ conn = "connecting"
  /\ failures < MaxFailures
  /\ failures' = failures + 1
  /\ conn' = "quit"
  /\ UNCHANGED <<retry_count, last_lib, last_block_num, stored_num, nodeos_vars>>

\* Wrong variants of start_from: after the last block, whatever is irreversible; at
\* the last irreversible block, not after it.
start_after_last ==
  IF last_lib > 0 THEN last_block_num + 1 ELSE stored_num + 1

start_at_last_lib ==
  IF last_lib > 0 THEN Min({last_lib, last_block_num}) ELSE stored_num + 1

\* Where sync resumes.  While catching up, after the last block read; otherwise after
\* the last irreversible one, because of forks.  At first, after the start block.
start_from ==
  IF last_lib > 0
  THEN Min({last_lib, last_block_num}) + 1
  ELSE stored_num + 1

NotAvailable ==
  /\ conn = "connecting"
  /\ trace_begin_block > start_from
  /\ conn' = "quit"
  /\ UNCHANGED <<retry_count, last_lib, last_block_num, stored_num, failures, nodeos_vars>>

sync ==
  /\ conn = "connecting"
  /\ trace_begin_block <= start_from
  /\ OpenSession(start_from)
  /\ conn' = "reading"
  /\ UNCHANGED <<retry_count, last_lib, last_block_num, stored_num, failures>>

\* A block is read and published on the native_blocks channel.
ReadBlock(nb) ==
  /\ conn = "reading"
  /\ Send(nb)
  /\ last_lib' = nb.lib
  /\ last_block_num' = nb.block_num
  /\ retry_count' = 0
  /\ UNCHANGED <<conn, stored_num, failures>>

\* Steps of the connection that a fault-free start and a working endpoint leave.
Connect == Startup \/ sync \/ ConnectionFails \/ ReadFails
=============================================================================
