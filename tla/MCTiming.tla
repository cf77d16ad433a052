------------------------------ MODULE MCTiming ------------------------------
(***************************************************************************)
(* Timing for TLC: a core with two tasks, and one task from elsewhere.     *)
(***************************************************************************)
EXTENDS Timing, TLC
CONSTANTS a, b, g

MCLocal    == {a, b}
MCGuests   == {g}
MCPeriod   == (a :> 24) @@ (b :> 8) @@ (g :> 10)
MCDeadline == (a :> 24) @@ (b :> 8) @@ (g :> 6)
MCWcet     == (a :> 3) @@ (b :> 4) @@ (g :> 5)
MCSpeeds   == <<4,3>>
=============================================================================
