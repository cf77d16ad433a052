------------------------------- MODULE Timing -------------------------------
(***************************************************************************)
(* Whether the jobs of one core are done in time: what the core believes   *)
(* of its slack (sched_util.c), and what it does with it: take on a job of *)
(* another task, run slower, or sleep (power_management.c and the parts of *)
(* sched_core.c that run, release and dispatch).                           *)
(*                                                                         *)
(* The level of criticality is the highest one, where the virtual deadline *)
(* is the actual one; job_structs do not run out and no record says that   *)
(* another core owns an arrival (module Delegation).  Of ready jobs with   *)
(* one deadline any may be first (module Scheduler has their order).  Work *)
(* is counted in units, Unit to a tick of full speed, so that the speeds   *)
(* are whole numbers: the rounding of the floats is left out.              *)
(***************************************************************************)
EXTENDS Integers, Sequences, FiniteSetsExt

CONSTANTS
    Local,      \* tasks of the core, of the highest level
    Guests,     \* tasks of other cores, or of lower levels
    Period, Deadline, Wcet,     \* per task, in ticks
    Unit,       \* units of work in a tick at full speed
    Speeds,     \* dvfs_levels: the units of a tick at each level
    Margin,     \* SLACK_MARGIN_TICKS: slack is a whole number, so this is 1
    Threshold,  \* DPM_IDLE_THRESHOLD_TICKS and the latencies
    Cap,        \* SLACK_CALC_HORIZON_TICKS_CAP
    Unbounded,  \* FLT_MAX: the slack of a core that has no deadlines
    LastTick    \* bound of the model

Tasks  == Local \cup Guests
Levels == 1 .. Len(Speeds)
Lowest == Len(Speeds)

ASSUME TaskAssumption  ==
    /\ Local # {} /\ Local \cap Guests = {}
    /\ \A i \in Tasks : /\ 0 < Wcet[i] /\ Wcet[i] <= Deadline[i]
                       /\ Deadline[i] <= Period[i]
ASSUME SpeedAssumption == Speeds[1] = Unit /\ \A l \in Levels : 0 < Speeds[l]

VARIABLES
    now,        \* system_time
    pc,         \* the part of scheduler_tick the core is in
    wake,       \* dpm_end_time
    level,      \* current_dvfs_level
    running,    \* running_job: no job, or the set of it
    ready,      \* ready_queue and replica_queue
    pending,    \* pending_jobs_queue
    guests,     \* history: the jobs that were taken on
    overlooked  \* history: the test for one of them has missed an arrival

vars == <<now, pc, wake, level, running, ready, pending, guests, overlooked>>

\* A job: its task, its arrival_time and what has been executed of it.
Job(i, t) == [task |-> i, arrival |-> t, done |-> 0]
DeadlineOf(j) == j.arrival + Deadline[j.task]
Active == running \cup ready
Queued == Active \cup pending

At(s)   == pc = s
Goto(s) == pc' = s

Init ==
    /\ now = 0 /\ pc = "begin"
    /\ wake = 0 /\ level = 1
    /\ running = {} /\ ready = {} /\ pending = {}
    /\ guests = {} /\ overlooked = FALSE

-----------------------------------------------------------------------------
(***************************************************************************)
(* __find_slack                                                            *)
(***************************************************************************)
MaxOf(a, b) == IF a >= b THEN a ELSE b
MinOf(a, b) == IF a <= b THEN a ELSE b
Ceil(n, m)  == (n + m - 1) \div m

Arrives(i, t)     == t % Period[i] = 0
NextArrival(i, t) == (t \div Period[i] + 1) * Period[i]

\* calculate_horizon: the lcm of all periods, or the cap
Horizon == Min({h \in 1 .. Cap : \A i \in Local \cup {j.task : j \in Queued} :
                                    h % Period[i] = 0} \cup {Cap})

\* How many jobs of a local task arrive after t and have their deadline by d.
Later(i, t, d) == MaxOf(0, (d - Deadline[i] - NextArrival(i, t)) \div Period[i] + 1)

\* collect_active_and_future_deadlines
DeadlinesAfter(t, J) ==
    {DeadlineOf(j) : j \in {k \in J : DeadlineOf(k) > t}}
    \cup UNION {{a + Deadline[i] : a \in {b \in t + 1 .. t + Horizon - Deadline[i] :
                                            Arrives(i, b)}} : i \in Local}

\* mutant: part of a tick is no tick
JobDemandDown(j, d, s) ==
    IF DeadlineOf(j) <= d THEN (Wcet[j.task] * Unit - j.done) \div s ELSE 0

\* calculate_job_demand
JobDemand(j, d, s) ==
    IF DeadlineOf(j) <= d THEN MaxOf(0, Ceil(Wcet[j.task] * Unit - j.done, s)) ELSE 0

Demand(t, d, s, J) ==
    MapThenSumSet(LAMBDA j : JobDemand(j, d, s), J)
        + MapThenSumSet(LAMBDA i : Later(i, t, d) * Ceil(Wcet[i] * Unit, s), Local)

\* The slack from t on, for speed s and the jobs J.
Slack(t, s, J) ==
    LET D == DeadlinesAfter(t, J)
    IN  IF D = {} THEN Unbounded
        ELSE MaxOf(0, Min({d - t - Demand(t, d, s, J) : d \in D}))

-----------------------------------------------------------------------------
(***************************************************************************)
(* handle_running_job                                                      *)
(***************************************************************************)
StayAsleep ==
    /\ At("begin") /\ now < wake /\ Goto("wait")
    /\ UNCHANGED <<now, wake, level, running, ready, pending, guests, overlooked>>

NothingRan ==
    /\ At("begin") /\ wake <= now /\ running = {} /\ Goto("arrivals")
    /\ UNCHANGED <<now, wake, level, running, ready, pending, guests, overlooked>>

\* The running job with the work of the last tick.
Credited == {[j EXCEPT !.done = @ + Speeds[level]] : j \in running}

Miss ==
    /\ At("begin") /\ \E j \in running : now > DeadlineOf(j)
    /\ running' = {} /\ Goto("halted")
    /\ UNCHANGED <<now, wake, level, ready, pending, guests, overlooked>>

\* acet may be anything up to the wcet.
Complete ==
    /\ At("begin") /\ \E j \in running : now <= DeadlineOf(j)
    /\ running' = {} /\ Goto("arrivals")
    /\ UNCHANGED <<now, wake, level, ready, pending, guests, overlooked>>

\* mutant: no test of the time the job has had
GoOnForever ==
    /\ At("begin") /\ \E j \in running : now <= DeadlineOf(j)
    /\ running' = Credited /\ Goto("arrivals")
    /\ UNCHANGED <<now, wake, level, ready, pending, guests, overlooked>>

GoOn ==
    /\ At("begin") /\ \E j \in running : now <= DeadlineOf(j)
    /\ \A j \in Credited : j.done < Wcet[j.task] * Unit
    /\ running' = Credited /\ Goto("arrivals")
    /\ UNCHANGED <<now, wake, level, ready, pending, guests, overlooked>>

-----------------------------------------------------------------------------
(***************************************************************************)
(* handle_job_arrivals, reclaim_discarded_jobs, process_migration_requests *)
(***************************************************************************)
Arrive ==
    /\ At("arrivals") /\ Goto("guests")
    /\ ready' = ready \cup {Job(i, now) : i \in {k \in Local : Arrives(k, now)}}
                     \cup {j \in pending : j.arrival = now}
    /\ pending' = {j \in pending : j.arrival # now}
    /\ UNCHANGED <<now, wake, level, running, guests, overlooked>>

\* mutant: a test of the deadline alone
AdmissibleInTime(j) == DeadlineOf(j) > now

\* __is_admissible
Admissible(j) ==
    /\ DeadlineOf(j) > now
    /\ Slack(MaxOf(j.arrival, now), Unit, Queued \cup {j}) >= Margin

\* A job is taken on once.
Take(j) ==
    /\ At("guests")
    /\ <<j.task, j.arrival>> \notin guests
    /\ Admissible(j)
    /\ guests' = guests \cup {<<j.task, j.arrival>>}
    /\ UNCHANGED <<now, pc, wake, level, running>>

\* A job that has arrived: it may have been executed for a while elsewhere.
TakeReady(i) ==
    \E done \in 0 .. Wcet[i] * Unit - 1 :
        LET j == [Job(i, (now \div Period[i]) * Period[i]) EXCEPT !.done = done]
        IN  /\ j.arrival = now => done = 0
            /\ Take(j)
            /\ ready' = ready \cup {j}
            /\ UNCHANGED <<pending, overlooked>>

\* A job that is still to arrive.  The test begins at its arrival: the local
\* jobs that arrive by then, to be done after it, are not in the demand.
TakeAhead(i) ==
    LET j == Job(i, NextArrival(i, now))
    IN  /\ Take(j)
        /\ pending' = pending \cup {j}
        /\ overlooked' = (overlooked \/ \E k \in Local : NextArrival(k, now) <= j.arrival)
        /\ UNCHANGED ready

NoMoreGuests ==
    /\ At("guests") /\ Goto("select")
    /\ UNCHANGED <<now, wake, level, running, ready, pending, guests, overlooked>>

-----------------------------------------------------------------------------
(***************************************************************************)
(* select_next_job, dispatch_job                                           *)
(***************************************************************************)
First(j)    == \A k \in ready : DeadlineOf(j) <= DeadlineOf(k)
Preempts(j) == \A k \in running : DeadlineOf(k) > DeadlineOf(j)

Dispatch ==
    /\ At("select") /\ Goto("power")
    /\ \E j \in ready : /\ First(j) /\ Preempts(j)
                       /\ running' = {j}
                       /\ ready' = (ready \cup running) \ {j}
    /\ UNCHANGED <<now, wake, level, pending, guests, overlooked>>

Keep ==
    /\ At("select") /\ Goto("power")
    /\ \A j \in ready : ~Preempts(j)
    /\ UNCHANGED <<now, wake, level, running, ready, pending, guests, overlooked>>

-----------------------------------------------------------------------------
(***************************************************************************)
(* power_management.c                                                      *)
(***************************************************************************)
\* calc_required_dvfs_level
Required == IF running = {} THEN Lowest
    ELSE Max({1} \cup {l \in Levels : \A k \in 1 .. l :
                                       Slack(now, Speeds[k], Queued) >= Margin})

\* find_next_effective_arrival_time
NextEvent == Min({j.arrival : j \in {k \in pending : k.arrival > now}}
                   \cup {NextArrival(i, now) : i \in Local})

\* The time that the core may sleep with work to do.
Deferrable == MinOf(Slack(now, Speeds[Lowest], Queued), NextEvent - now)

\* power_management_try_procrastination
Procrastinate ==
    /\ At("power") /\ Goto("wait")
    /\ running # {} /\ Deferrable >= Threshold
    /\ wake' = now + Deferrable
    /\ ready' = ready \cup running
    /\ running' = {}
    /\ UNCHANGED <<now, level, pending, guests, overlooked>>

\* power_set_dvfs_level, and power_management_set_dpm_interval if it is idle
SetPower ==
    /\ At("power") /\ Goto("wait")
    /\ running = {} \/ Deferrable < Threshold
    /\ level' = Required
    /\ wake' = IF running = {} /\ NextEvent - now >= Threshold THEN NextEvent ELSE wake
    /\ UNCHANGED <<now, running, ready, pending, guests, overlooked>>

Tick ==
    /\ At("wait") /\ now < LastTick
    /\ now' = now + 1 /\ Goto("begin")
    /\ UNCHANGED <<wake, level, running, ready, pending, guests, overlooked>>

Next ==
    \/ StayAsleep \/ NothingRan \/ Miss \/ Complete \/ GoOn \/ Arrive
    \/ \E i \in Guests : TakeReady(i) \/ TakeAhead(i)
    \/ NoMoreGuests \/ Dispatch \/ Keep \/ Procrastinate \/ SetPower \/ Tick

Spec == Init /\ [][Next]_vars

-----------------------------------------------------------------------------
(***************************************************************************)
(* Properties                                                              *)
(***************************************************************************)
JobOK(j) == /\ j.task \in Tasks /\ j.arrival \in Nat /\ Arrives(j.task, j.arrival)
            /\ j.done \in 0 .. Wcet[j.task] * Unit - 1

\* The types; a job is in one place, and what runs has begun.
TypeOK ==
    /\ now \in 0 .. LastTick
    /\ pc \in {"begin", "arrivals", "guests", "select", "power", "wait", "halted"}
    /\ wake \in Nat /\ level \in Levels
    /\ Cardinality(running) <= 1
    /\ \A j \in Queued : JobOK(j)
    /\ running \cap ready = {} /\ Active \cap pending = {}
    /\ guests \in SUBSET (Guests \X Nat) /\ overlooked \in BOOLEAN

\* However the core saves power and whatever it takes on, it halts for no
\* deadline, and none passes unseen in a queue.
NoMiss ==
    ~overlooked => /\ ~At("halted")
                   /\ At("wait") => \A j \in Active : now < DeadlineOf(j)

\* The units of work with a deadline by d, counted job by job.
WorkBy(d) ==
    MapThenSumSet(LAMBDA j : Wcet[j.task] * Unit - j.done,
                  {j \in Queued : DeadlineOf(j) <= d})
    + MapThenSumSet(LAMBDA i : Wcet[i] * Unit *
                        Cardinality({t \in now + 1 .. d - Deadline[i] : Arrives(i, t)}),
                    Local)

\* For every deadline, those beyond the horizon of the code included, the core
\* has time for the work that is due by then: at full speed, from the end of
\* its sleep, with every job that it has promised to do.
HorizonSuffices ==
    ~overlooked /\ At("wait") =>
        \A d \in now + 1 .. now + 2 * Horizon :
            WorkBy(d) <= Unit * MaxOf(0, d - MaxOf(now, wake))
=============================================================================
