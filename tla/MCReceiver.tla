------------------------------ MODULE MCReceiver ------------------------------
(* Instances of ReceiverOverShip for TLC: blocks without actions *)
EXTENDS ReceiverOverShip

Ids == Seq([slot : Nat, actions : {<<>>}, new_config : {None}]) \cup {Zero, Ancestor}

Empty == {[actions |-> <<>>, new_config |-> None]}
=============================================================================
