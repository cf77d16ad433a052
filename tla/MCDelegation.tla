---------------------------- MODULE MCDelegation ----------------------------
(***************************************************************************)
(* Delegation for TLC: two cores.  Core 1 has two tasks, core 2 one.       *)
(***************************************************************************)
EXTENDS Delegation, TLC
CONSTANTS c1, c2, a, b, d

MCCores   == {c1, c2}
MCEntries == {a, b, d}
MCHome    == (a :> c1) @@ (b :> c1) @@ (d :> c2)
MCPeriod  == (a :> 2) @@ (b :> 3) @@ (d :> 4)
=============================================================================
