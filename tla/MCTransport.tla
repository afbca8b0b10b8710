---------------------------- MODULE MCTransport ----------------------------
(* Model values for Transport. *)
EXTENDS Transport, TLC

CONSTANTS c1, c2, c3, none
Symmetry == Permutations(Client)
=============================================================================
