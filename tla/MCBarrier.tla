----------------------------- MODULE MCBarrier -----------------------------
(***************************************************************************)
(* Barrier for TLC: two cores and a timer.                                 *)
(***************************************************************************)
EXTENDS Barrier, TLC
CONSTANTS core1, core2, timer

MCThreads == {core1, core2, timer}
MCPerms   == Permutations(MCThreads)
=============================================================================
