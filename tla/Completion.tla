----------------------------- MODULE Completion -----------------------------
(***************************************************************************)
(* Early completion (ECC): the copies of one task's jobs on several        *)
(* processors, and the messages by which the first copy to complete stops  *)
(* the others (ipc.c, remove_completed_jobs).                              *)
(*                                                                         *)
(* Every processor has one core with a copy of the task, released at every *)
(* multiple of the period; job k is the one released at k * Period.  When  *)
(* the core gives a job its time depends on other tasks and is left open,  *)
(* and so is how long the job runs.                                        *)
(***************************************************************************)
EXTENDS Integers

CONSTANTS
    Procs,
    Period, Deadline,   \* of the task, in ticks
    Jobs                \* bound: the task's releases

ASSUME TaskAssumption ==
    /\ Period \in Nat \ {0} /\ Deadline \in 1 .. Period
    /\ Jobs \in Nat

VARIABLES
    time,       \* processor -> system_time
    step,       \* processor -> the part of the tick that is next
    job,        \* processor -> job -> what has become of its copy
    outgoing,   \* processor -> outgoing_completion_msg_queue
    incoming,   \* processor -> incoming_completion_msg_queue
    flight,     \* the packets in the network, as <<destination, job>>
    late        \* history: has a packet missed the first receive after it
                \* was sent?

vars == <<time, step, job, outgoing, incoming, flight, late>>

JobIds == 0 .. Jobs - 1
LastTick == (Jobs + 1) * Period     \* bound: the time of a processor
Release(k) == k * Period            \* the arrival_time of job k
States == {"absent", "waiting", "running", "completed", "removed", "missed"}

Init ==
    /\ time = [p \in Procs |-> 0]
    /\ step = [p \in Procs |-> "remove"]
    /\ job = [p \in Procs |-> [k \in JobIds |-> "absent"]]
    /\ outgoing = [p \in Procs |-> {}]
    /\ incoming = [p \in Procs |-> {}]
    /\ flight = {} /\ late = FALSE

Live(p) == {k \in JobIds : job[p][k] \in {"waiting", "running"}}
Late(p, k) == time[p] > Release(k) + Deadline

At(p, s)   == step[p] = s
Then(p, s) == step' = [step EXCEPT ![p] = s]
Turns(p, k, s) == job' = [job EXCEPT ![p][k] = s]

-----------------------------------------------------------------------------
(***************************************************************************)
(* The tick of the core                                                    *)
(***************************************************************************)
\* remove_completed_jobs: a queued job is recognised by its task and arrival
\* time, the running job by its task alone.
Stopped(p, k) ==
    \/ job[p][k] = "waiting" /\ k \in incoming[p]
    \/ job[p][k] = "running" /\ incoming[p] # {}

Remove(p) ==
    /\ At(p, "remove") /\ Then(p, "run")
    /\ job' = [job EXCEPT ![p] =
                [k \in JobIds |-> IF Stopped(p, k) THEN "removed" ELSE @[k]]]
    /\ UNCHANGED <<time, outgoing, incoming, flight, late>>

\* handle_running_job has nothing to complete, or not yet.
KeepOn(p) ==
    /\ At(p, "run") /\ Then(p, "arrive")
    /\ \A k \in JobIds : job[p][k] = "running" => ~Late(p, k)
    /\ UNCHANGED <<time, job, outgoing, incoming, flight, late>>

\* A job that runs after its deadline is given up: the last tick of p.
Miss(p) ==
    /\ At(p, "run") /\ Then(p, "arrive")
    /\ \E k \in JobIds : /\ job[p][k] = "running" /\ Late(p, k)
                         /\ Turns(p, k, "missed")
    /\ UNCHANGED <<time, outgoing, incoming, flight, late>>

\* handle_job_completion
Complete(p) ==
    /\ At(p, "run") /\ Then(p, "arrive")
    /\ \E k \in JobIds :
         /\ job[p][k] = "running" /\ ~Late(p, k)
         /\ Turns(p, k, "completed")
         /\ outgoing' = [outgoing EXCEPT ![p] = @ \cup {k}]
    /\ UNCHANGED <<time, incoming, flight, late>>

\* handle_job_arrivals
Arrive(p) ==
    /\ At(p, "arrive") /\ Then(p, "select")
    /\ IF time[p] % Period = 0 /\ time[p] \div Period < Jobs
       THEN Turns(p, time[p] \div Period, "waiting") ELSE UNCHANGED job
    /\ UNCHANGED <<time, outgoing, incoming, flight, late>>

\* select_next_job and dispatch_job: the core goes to another task or to the
\* job with the earliest deadline.
First(p) == {k \in Live(p) : \A j \in Live(p) : k <= j}

Select(p) ==
    /\ At(p, "select") /\ Then(p, "timer")
    /\ \E next \in SUBSET First(p) :
         job' = [job EXCEPT ![p] =
           [k \in JobIds |-> IF k \in next THEN "running"
                             ELSE IF k \in Live(p) THEN "waiting" ELSE @[k]]]
    /\ UNCHANGED <<time, outgoing, incoming, flight, late>>

-----------------------------------------------------------------------------
(***************************************************************************)
(* The timer                                                               *)
(***************************************************************************)
Packets(p) == {k \in JobIds : <<p, k>> \in flight}

\* mutant: cleared after the messages were received
ReceiveThenClear(p) ==
    \E received \in SUBSET Packets(p) :
        /\ late' = (late \/ received # Packets(p))
        /\ incoming' = [incoming EXCEPT ![p] = {}]
        /\ flight' = (flight \ ({p} \X received)) \cup (Procs \X outgoing[p])

\* mutant: the queue is not cleared
ReceiveMore(p) ==
    \E received \in SUBSET Packets(p) :
        /\ late' = (late \/ received # Packets(p))
        /\ incoming' = [incoming EXCEPT ![p] = @ \cup received]
        /\ flight' = (flight \ ({p} \X received)) \cup (Procs \X outgoing[p])

\* ring_buffer_clear, ipc_receive_completion_messages and, after the time,
\* ipc_send_completion_messages: the packet goes to all, the sender included.
\* One that is received late or never stays in flight.
Exchange(p) ==
    \E received \in SUBSET Packets(p) :
        /\ late' = (late \/ received # Packets(p))
        /\ incoming' = [incoming EXCEPT ![p] = received]
        /\ flight' = (flight \ ({p} \X received)) \cup (Procs \X outgoing[p])

\* The timers have met at the processor barrier since their last turn, and the
\* cores go on without waiting for it.
Tick(p) ==
    /\ At(p, "timer") /\ time[p] < LastTick
    /\ \A q \in Procs : time[q] >= time[p]
    /\ Exchange(p)
    /\ time' = [time EXCEPT ![p] = @ + 1]
    /\ outgoing' = [outgoing EXCEPT ![p] = {}]
    /\ Then(p, IF \E k \in JobIds : job[p][k] = "missed" THEN "left" ELSE "remove")
    /\ UNCHANGED job

Next == \E p \in Procs :
    \/ Remove(p) \/ KeepOn(p) \/ Miss(p) \/ Complete(p)
    \/ Arrive(p) \/ Select(p) \/ Tick(p)

Spec == Init /\ [][Next]_vars

-----------------------------------------------------------------------------
(***************************************************************************)
(* Properties                                                              *)
(***************************************************************************)
\* The types; one job of the task runs on a core, and messages name jobs.
TypeOK ==
    /\ time \in [Procs -> Nat]
    /\ step \in [Procs -> {"remove", "run", "arrive", "select", "timer", "left"}]
    /\ job \in [Procs -> [JobIds -> States]]
    /\ \A p \in Procs, j, k \in JobIds :
         job[p][j] = "running" /\ job[p][k] = "running" => j = k
    /\ outgoing \in [Procs -> SUBSET JobIds]
    /\ incoming \in [Procs -> SUBSET JobIds]
    /\ flight \in SUBSET (Procs \X JobIds) /\ late \in BOOLEAN

\* Replication is for fault tolerance: a copy is given up only when another
\* copy of the same job has completed, provided that no packet was late.
RemovedDone ==
    ~late => \A p \in Procs, k \in JobIds :
        job[p][k] = "removed" => \E q \in Procs : job[q][k] = "completed"

\* While a copy of a completed job is still alive, the message that stops it is
\* on its way, and is not dropped by the clearing of the queue that every core
\* of the processor reads; only a processor that has stopped leaves it there.
StopOnItsWay ==
    \A p, q \in Procs, k \in JobIds :
        job[q][k] = "completed" /\ k \in Live(p) =>
            \/ k \in outgoing[q] \/ <<p, k>> \in flight
            \/ k \in incoming[p] /\ step[p] \in {"remove", "left"}

(***************************************************************************)
(* The inductive strengthening                                             *)
(***************************************************************************)
\* Copies exist from their arrival on.
Arrived(p, k) ==
    \/ Release(k) < time[p]
    \/ Release(k) = time[p] /\ step[p] \in {"select", "timer"}
ArrivedExact ==
    \A p \in Procs, k \in JobIds : job[p][k] # "absent" <=> Arrived(p, k)

\* No clock is more than a tick ahead of another.
ClocksTogether == \A p, q \in Procs : time[p] <= time[q] + 1

\* A core runs and completes jobs in the order of their deadlines; it has
\* missed none before one that completes, for a miss ends its ticks.
Ordered ==
    \A p \in Procs, j, k \in JobIds :
        k < j /\ job[p][j] \in {"running", "completed"} =>
            /\ job[p][k] \in {"completed", "removed", "missed"}
            /\ job[p][j] = "completed" => job[p][k] # "missed"

MissedLast ==
    \A p \in Procs, k \in JobIds :
        job[p][k] = "missed" => step[p] \in {"arrive", "select", "timer", "left"}

\* A job completes after the tick of its arrival; its message leaves at the end
\* of the tick in which it completed.
CompletedAfter ==
    \A p \in Procs, k \in JobIds : job[p][k] = "completed" =>
        /\ Release(k) < time[p]
        /\ k \notin outgoing[p] => Release(k) + 1 < time[p]

\* Messages are about jobs that have completed, in time; unless it is late a
\* message is received within two ticks of the deadline.
HasCompleted(k) == \E q \in Procs : job[q][k] = "completed"

SentInTime ==
    \A p \in Procs : \A k \in outgoing[p] :
        job[p][k] = "completed" /\ time[p] <= Release(k) + Deadline

FlightInTime ==
    \A p \in Procs, k \in JobIds : <<p, k>> \in flight =>
        HasCompleted(k) /\ (~late => time[p] <= Release(k) + Deadline + 1)

ReceivedInTime ==
    \A p \in Procs : \A k \in incoming[p] :
        /\ HasCompleted(k)
        /\ ~late /\ step[p] = "remove" => time[p] <= Release(k) + Deadline + 2

IInv ==
    /\ TypeOK /\ ArrivedExact /\ ClocksTogether
    /\ Ordered /\ MissedLast /\ CompletedAfter
    /\ SentInTime /\ FlightInTime /\ ReceivedInTime
    /\ StopOnItsWay
=============================================================================
