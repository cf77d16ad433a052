---------------------------- MODULE JobLifecycle ----------------------------
(***************************************************************************)
(* What the scheduler of a processor promises about a job, without queues, *)
(* locks, reference counts or threads: it arrives at the core that owns    *)
(* it, waits, may change cores only while it waits, runs on the core where *)
(* it waited, and leaves by finishing, by being removed or by expiring.    *)
(* Scheduler implements this module.                                       *)
(***************************************************************************)
CONSTANTS Cores, Jobs, Owner, None

VARIABLES
    phase,      \* job -> where it is in its life
    core        \* job -> the core that has it, None if none has

lifeVars == <<phase, core>>

Phases == {"free", "future", "pending", "waiting", "running", "done"}

LifeInit ==
    /\ phase = [j \in Jobs |-> "free"]
    /\ core = [j \in Jobs |-> None]

From(j, p, q) == phase[j] = p /\ phase'[j] = q
Stays(j)      == core'[j] = core[j]

Arrives(j)  == From(j, "free", "waiting") /\ core'[j] = Owner[j]
Foreseen(j) == From(j, "free", "future")
Accepted(j) == From(j, "future", "pending") /\ core'[j] # Owner[j]
Refused(j)  == From(j, "future", "free")
Released(j) == From(j, "pending", "waiting") /\ Stays(j)
Expires(j)  == From(j, "pending", "free")
Moves(j)    == From(j, "waiting", "waiting")
Starts(j)   == From(j, "waiting", "running") /\ Stays(j)
Preempts(j) == From(j, "running", "waiting") /\ Stays(j)
Leaves(j)   == /\ phase[j] \in {"waiting", "running", "done"}
               /\ phase'[j] \in {"done", "free"}
Idles(j)    == phase'[j] = phase[j] /\ Stays(j)

JobStep(j) ==
    \/ Arrives(j) \/ Foreseen(j) \/ Accepted(j) \/ Refused(j) \/ Released(j)
    \/ Expires(j) \/ Moves(j) \/ Starts(j) \/ Preempts(j) \/ Leaves(j)
    \/ Idles(j)

\* A core runs one job.
OnePerCore ==
    \A j, k \in Jobs :
        phase[j] = "running" /\ phase[k] = "running" /\ core[j] = core[k]
            => j = k

LifeNext == (\A j \in Jobs : JobStep(j)) /\ OnePerCore'

LifeSpec == LifeInit /\ [][LifeNext]_lifeVars
=============================================================================
