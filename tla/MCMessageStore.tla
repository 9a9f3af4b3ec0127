--------------------------- MODULE MCMessageStore ---------------------------
(* MessageStore for TLC: every set of values is symmetric.                   *)
EXTENDS MessageStore, TLC

Symmetry == UNION {Permutations(S) : S \in {Users, Messages, Senders, Readers, Keys}}
=============================================================================
