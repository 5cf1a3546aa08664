------------------------------ MODULE MCPacing ------------------------------
(* Instances of Pacing for TLC: the values are in the .cfg files, except     *)
(* for the sequences, which a .cfg cannot hold.                              *)
EXTENDS Pacing

MCWrites == {<<3>>, <<11, 11>>}
=============================================================================
