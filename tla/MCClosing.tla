----------------------------- MODULE MCClosing -----------------------------
(* Instances of Closing for TLC: the values are in the .cfg file.            *)
EXTENDS Closing, TLC
=============================================================================
