---------------------------- MODULE MCHandshake ----------------------------
(***************************************************************************)
(* Instances of Handshake for TLC.                                         *)
(***************************************************************************)
EXTENDS Handshake

\* mtuSizes of dial.go.
MCMTUSizes == <<1200, 576>>

\* The first size only.
FirstSize == <<1200>>

\* Every dialer has an IP of its own.
OwnHosts == [a \in Addrs |-> a]
=============================================================================
