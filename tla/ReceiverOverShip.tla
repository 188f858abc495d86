--------------------------- MODULE ReceiverOverShip ---------------------------
(***************************************************************************)
(* ship_receiver_plugin alone over the stream: what it publishes on the    *)
(* native_blocks channel, whatever connections break and whatever the      *)
(* chain does meanwhile.                                                   *)
(***************************************************************************)
EXTENDS ShipReceiver

VARIABLE received  \* every block published on the native_blocks channel

shipvars == <<nodeos_vars, receiver_vars, received>>

ShipInit == NodeosInit /\ ReceiverInit /\ received = <<>>

ChainMoves ==
  /\ UNCHANGED <<receiver_vars, received>>
  /\ \/ \E k \in 0 .. Len(best), skip \in Slots, payload \in Payload : Produce(k, skip, payload)
     \/ AdvanceLib

Reconnects ==
  /\ UNCHANGED received
  /\ Connect \/ InitialReadFails \/ NotAvailable

Publishes ==
  \E nb \in {OldBlock(behind)} \cup {ToNative(Prefix(best, k)) : k \in DOMAIN best} :
    /\ ReadBlock(nb)
    /\ received' = Append(received, nb)

ShipNext == ChainMoves \/ Reconnects \/ Publishes

ShipSpec == ShipInit /\ [][ShipNext]_shipvars

-----------------------------------------------------------------------------
\* No reconnection leaves a gap: whatever happened to the chain meanwhile, each block
\* after the start block extends one published earlier, or the start block.
ParentsReceived ==
  \A i \in DOMAIN received :
    received[i].block_num > StartBlockNum =>
      \/ received[i].prev = <<>>
      \/ \E j \in 1 .. i - 1 : received[j].id = received[i].prev

\* A reconnection goes back no further than it must: a block published once and known
\* to be irreversible then, or any below it, is not published again.
NothingIrreversibleTwice ==
  \A j \in DOMAIN received : \A i \in 1 .. j - 1 :
    received[j].block_num > Min({received[i].lib, received[i].block_num})

=============================================================================
