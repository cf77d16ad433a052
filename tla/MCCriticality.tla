--------------------------- MODULE MCCriticality ---------------------------
(***************************************************************************)
(* Criticality for TLC: two processors of two cores with two levels.       *)
(***************************************************************************)
EXTENDS Criticality
CONSTANTS p1, p2, c1, c2

MCProcs == {p1, p2}
MCCores == {c1, c2}
=============================================================================
