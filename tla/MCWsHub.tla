------------------------------- MODULE MCWsHub -------------------------------
(***************************************************************************)
(* Small instances of WsHub for TLC: connections are interchangeable.      *)
(***************************************************************************)
EXTENDS WsHub, TLC

Symmetry == Permutations(Clients)
=============================================================================
