---------------------------- MODULE MCProcessor ----------------------------
(***************************************************************************)
(* Processor for TLC: two processors of two cores.                         *)
(***************************************************************************)
EXTENDS Processor, TLC
CONSTANTS p1, p2, c1, c2

MCTwo   == {p1, p2}
MCCores == {c1, c2}
=============================================================================
