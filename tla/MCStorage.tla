------------------------------ MODULE MCStorage ------------------------------
(* Instances of NodeStorage for TLC *)
EXTENDS NodeStorage, MCConversion
=============================================================================
