----------------------------- MODULE MCTransfer -----------------------------
(* Instances of Transfer for TLC: the values are in the .cfg files. *)
EXTENDS Claims, TransferInv
=============================================================================
