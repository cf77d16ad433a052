---------------------------- MODULE MCScheduler ----------------------------
(***************************************************************************)
(* Scheduler for TLC: a processor of two cores.  Core 0 owns two of the    *)
(* three job_structs (a and b, which are interchangeable), core 1 owns d.  *)
(***************************************************************************)
EXTENDS Scheduler, TLC
CONSTANTS a, b, d, NULL

MCCores == {0, 1}

MCJobs  == {a, b, d}
MCOwner == (a :> 0) @@ (b :> 0) @@ (d :> 1)
MCPerms == Permutations({a, b})

\* One job_struct per core, for the runs with temporal properties.
MCJobs2  == {a, d}
MCOwner2 == (a :> 0) @@ (d :> 1)
=============================================================================
