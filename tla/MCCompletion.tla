---------------------------- MODULE MCCompletion ----------------------------
(***************************************************************************)
(* Completion for TLC: a primary on one processor and a replica on another *)
(***************************************************************************)
EXTENDS Completion, TLC
CONSTANTS p1, p2

MCTwo   == {p1, p2}
MCPerms == Permutations(MCTwo)
=============================================================================
