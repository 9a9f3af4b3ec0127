------------------------------ MODULE MCWsHub -------------------------------
(* WsHub for TLC: every set of values is symmetric in the safety runs.       *)
EXTENDS WsHub, TLC

Symmetry == UNION {Permutations(S) : S \in {Users, Conns, Tickets, Messages}}
=============================================================================
