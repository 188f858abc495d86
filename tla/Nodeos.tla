-------------------------------- MODULE Nodeos --------------------------------
(***************************************************************************)
(* The native chain and its state-history stream as the EVM node sees it:  *)
(* a best branch that may be reorganised above the last irreversible       *)
(* block, and a connection that sends the blocks of the best branch in     *)
(* order, from the fork point again after a reorganisation.  External to   *)
(* the repository, except for the fields of a message.                     *)
(*                                                                         *)
(* One time unit is one slot.  The branch is relative to the block that    *)
(* the EVM node starts from, and the id of a native block is the sequence  *)
(* of the bodies from there to it: equal ids mean equal histories.         *)
(***************************************************************************)
EXTENDS Channels, SequencesExt

CONSTANTS
  Payload,          \* what a block may carry: records with actions and new_config
  Slots,            \* distances, in slots, from one block to the next
  StartSlot,        \* slot of the start block
  InitLib,          \* irreversible block number when the node starts
  MaxLib,           \* bound on lib
  MaxProduced,      \* bound on the number of blocks produced
  ForkSplitsSecond, \* may a fork remove some, not all, blocks of a second
  Ancestor          \* stands for the id of any block below the start block

ASSUME NodeosAssumption ==
  /\ Slots \subseteq Nat \ {0}
  /\ StartSlot \in Nat /\ InitLib \in Nat /\ MaxLib \in Nat
  /\ MaxProduced \in Nat
  /\ ForkSplitsSecond \in BOOLEAN

VARIABLES
  best,      \* the best branch
  lib,       \* number of the last irreversible native block
  sent,      \* id of the last block sent on the connection
  behind,    \* number of blocks up to the start block to send before those of best
  produced   \* number of blocks produced

chain_vars == <<best, lib, produced>>
session_vars == <<sent, behind>>
nodeos_vars == <<chain_vars, session_vars>>

\* lib may be ahead of best: the blocks up to it are then still to be fetched.
NodeosInit ==
  /\ best = <<>>
  /\ lib = InitLib
  /\ sent = <<>>
  /\ behind = 0
  /\ produced = 0

SlotOf(id) == IF id = <<>> THEN StartSlot ELSE Last(id).slot

SecondOf(id) == SlotOf(id) \div Second

Prefix(id, k) == SubSeq(id, 1, k)

\* Length of the branch that the receiver and the chain have in common.
Common == Max({k \in 0 .. Len(sent) : k <= Len(best) /\ Prefix(sent, k) = Prefix(best, k)})

CanSend == behind > 0 \/ Common < Len(best)

\* Fork points: the tip, or a block that is not below the last irreversible one.
\* The tip grows only when its block has been sent: a block that nobody has seen
\* can as well be produced later.
ForkPoint(k) ==
  \/ k = Len(best) /\ ~CanSend
  \/ /\ k < Len(best)
     /\ StartBlockNum + k >= lib
     /\ ForkSplitsSecond \/ SecondOf(Prefix(best, k)) # SecondOf(Prefix(best, k + 1))

Fee(a) == <<a.base_fee_per_gas, a.gas_prices>>

\* What the EVM contract guarantees of a branch: versions never decrease, the
\* transactions of one second have one version and one price, and a configchange
\* precedes them.
ContractAllows(id) ==
  \A i, j \in DOMAIN id : i < j =>
    LET same == SecondOf(Prefix(id, i)) = SecondOf(Prefix(id, j))
    IN  /\ same /\ id[j].new_config # None => id[i].actions = <<>>
        /\ \A a \in Range(id[i].actions), b \in Range(id[j].actions) :
             /\ a.eos_evm_version <= b.eos_evm_version
             /\ same => a.eos_evm_version = b.eos_evm_version /\ Fee(a) = Fee(b)

Body(slot, payload) ==
  [slot |-> slot, actions |-> payload.actions, new_config |-> payload.new_config]

\* A block on top of the k-th block of the best branch, which it cuts there.
Produce(k, skip, payload) ==
  LET base == Prefix(best, k)
      id   == Append(base, Body(SlotOf(base) + skip, payload))
  IN  /\ produced < MaxProduced
      /\ ForkPoint(k)
      /\ ~IsPrefix(id, best)
      /\ ContractAllows(id)
      /\ best' = id
      /\ produced' = produced + 1
      /\ UNCHANGED <<lib, session_vars>>

AdvanceLib ==
  /\ lib < MaxLib
  /\ lib' = lib + 1
  /\ UNCHANGED <<best, produced, session_vars>>

\* The message for the block of id, as ship_receiver_plugin hands it on.
ToNative(id) ==
  [id         |-> id,
   prev       |-> Front(id),
   block_num  |-> StartBlockNum + Len(id),
   timestamp  |-> SlotOf(id),
   lib        |-> lib,
   new_config |-> Last(id).new_config,
   actions    |-> Last(id).actions]

\* The message for the k-th block up to the start block, which is the first.
OldBlock(k) ==
  [id         |-> IF k = 1 THEN <<>> ELSE Ancestor,
   prev       |-> Ancestor,
   block_num  |-> StartBlockNum + 1 - k,
   timestamp  |-> Max({StartSlot + 1 - k, 0}),
   lib        |-> lib,
   new_config |-> None,
   actions    |-> <<>>]

SendOld(nb) ==
  /\ behind > 0
  /\ nb = OldBlock(behind)
  /\ behind' = behind - 1
  /\ UNCHANGED <<chain_vars, sent>>

SendNext(nb) ==
  /\ behind = 0 /\ CanSend
  /\ sent' = Prefix(best, Common + 1)
  /\ nb = ToNative(sent')
  /\ UNCHANGED <<chain_vars, behind>>

Send(nb) == SendOld(nb) \/ SendNext(nb)

\* A request for the blocks from number start on is served from the best branch.
OpenSession(start) ==
  LET after == start - 1 - StartBlockNum
  IN  /\ sent' = Prefix(best, Min({Max({after, 0}), Len(best)}))
      /\ behind' = Max({-after, 0})
      /\ UNCHANGED chain_vars
=============================================================================
