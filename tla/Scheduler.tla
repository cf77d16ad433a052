----------------------------- MODULE Scheduler -----------------------------
(***************************************************************************)
(* The life of the job_structs of one processor: the queues of the cores,  *)
(* the reference counts, the pools, the run-queue locks and the migration  *)
(* requests, as every core thread runs scheduler_tick and the timer thread *)
(* runs between two ticks.                                                 *)
(*                                                                         *)
(* One action is one critical section of the code (or one step that needs  *)
(* no lock but that another core can see).  What decides BETWEEN outcomes  *)
(* is arithmetic on times, budgets and slacks; here each decision may go   *)
(* either way, so every property holds whatever the timing is.             *)
(* ready_queue and replica_queue of a core are handled alike by every      *)
(* handler and are one place here; their EDF order is left out.            *)
(***************************************************************************)
EXTENDS Integers, Sequences, FiniteSets

CONSTANTS
    Cores,      \* core ids, 0 .. NUM_CORES_PER_PROC-1
    Jobs,       \* the job_structs of all the job pools
    Owner,      \* Owner[j]: the core whose job_pool array holds j
    QCap,       \* MAX_MIGRATION_REQUESTS, slots of a migration_request_queue
    None        \* the NULL pointer

ASSUME CoresAssumption == Cores \subseteq Nat /\ Cores # {}
ASSUME OwnerAssumption == Owner \in [Jobs -> Cores]
ASSUME QCapAssumption  == QCap \in Nat \ {0}
ASSUME NoneAssumption  == None \notin Jobs /\ None \notin Cores

VARIABLES
    link,       \* job -> the list its link field is in
    state,      \* job -> job_state
    refs,       \* job -> refcount
    offered,    \* job -> is_being_offered
    pool,       \* job -> "live", or the free list its next_free is in
    running,    \* core -> running_job
    hand,       \* core -> the job a local variable of its thread owns
    asleep,     \* core -> in_low_power_state
    migq,       \* core -> migration_request_queue
    req,        \* core -> the migration_request it is serving
    lock,       \* core -> holder of its rq_lock, or None
    pc          \* core -> the part of the tick its thread is in

jobVars  == <<link, state, refs, offered, pool>>
coreVars == <<running, hand, asleep>>
migVars  == <<migq, req>>
vars     == <<link, state, refs, offered, pool, running, hand, asleep,
              migq, req, lock, pc>>

(***************************************************************************)
(* Lists.  A job has one link field, hence one list at a time.             *)
(***************************************************************************)
Unlinked   == <<"unlinked">>
Shared     == <<"shared">>            \* proc_state.discard_queue
Ready(c)   == <<"ready", c>>
Discard(c) == <<"discard", c>>
Pending(c) == <<"pending", c>>

Places == {Unlinked, Shared}
            \cup {Ready(c) : c \in Cores}
            \cup {Discard(c) : c \in Cores}
            \cup {Pending(c) : c \in Cores}

In(place)   == {j \in Jobs : link[j] = place}
Current(c)  == {running[c]} \ {None}

States == {"IDLE", "READY", "RUNNING", "COMPLETED", "REMOVED"}

Request   == [job : Jobs \cup {None}, from : Cores \cup {None}, full : BOOLEAN]
NoRequest == [job |-> None, from |-> None, full |-> FALSE]

Steps == {"ecc", "mode", "dpm", "run", "complete", "put", "raise", "pending",
          "arrive", "reclaim", "own", "push", "shed", "offer", "publish",
          "future", "claim", "drain", "lock1", "lock2", "judge", "settle",
          "release", "select", "dispatch", "power", "barrier"}

(***************************************************************************)
(* Locks.  Lock(c, m) is an acquisition that is held over several actions; *)
(* a critical section that is one action only needs Free(m).               *)
(***************************************************************************)
Free(m)      == lock[m] = None
Lock(c, m)   == Free(m) /\ lock' = [lock EXCEPT ![m] = c]
Unlock(M)    == lock' = [m \in Cores |-> IF m \in M THEN None ELSE lock[m]]
Goto(c, s)   == pc' = [pc EXCEPT ![c] = s]
At(c, s)     == pc[c] = s

(***************************************************************************)
(* Reference counts and pools.  put_job_ref by the owner's own thread      *)
(* returns the struct to free_list, by anybody else to remote_free_list;   *)
(* create_job takes the remote list over when its own list is empty.       *)
(***************************************************************************)
PoolFor(j, who) == IF Owner[j] = who THEN "free" ELSE "remote"

PutRefs(S, who) ==
    /\ refs' = [j \in Jobs |-> IF j \in S THEN refs[j] - 1 ELSE refs[j]]
    /\ pool' = [j \in Jobs |-> IF j \in S /\ refs[j] = 1
                               THEN PoolFor(j, who) ELSE pool[j]]

\* get_job_ref
NoRef(j)  == refs' = refs                       \* mutant: the request holds no reference
GetRef(j) == refs' = [refs EXCEPT ![j] = @ + 1]

OwnFree(c)     == {j \in Jobs : Owner[j] = c /\ pool[j] = "free"}
Returned(c)    == {j \in Jobs : Owner[j] = c /\ pool[j] = "remote"}
Allocatable(c) == IF OwnFree(c) # {} THEN OwnFree(c) ELSE Returned(c)

CreateJob(j, c, s) ==
    /\ j \in Allocatable(c)
    /\ pool' = [k \in Jobs |->
                  IF k = j THEN "live"
                  ELSE IF k \in Allocatable(c) THEN "free" ELSE pool[k]]
    /\ refs' = [refs EXCEPT ![j] = 1]
    /\ offered' = [offered EXCEPT ![j] = FALSE]
    /\ state' = [state EXCEPT ![j] = s]

Init ==
    /\ link = [j \in Jobs |-> Unlinked]
    /\ state = [j \in Jobs |-> "IDLE"]
    /\ refs = [j \in Jobs |-> 0]
    /\ offered = [j \in Jobs |-> FALSE]
    /\ pool = [j \in Jobs |-> "free"]
    /\ running = [c \in Cores |-> None]
    /\ hand = [c \in Cores |-> None]
    /\ asleep = [c \in Cores |-> FALSE]
    /\ migq = [c \in Cores |-> <<>>]
    /\ req = [c \in Cores |-> NoRequest]
    /\ lock = [c \in Cores |-> None]
    /\ pc = [c \in Cores |-> "ecc"]

-----------------------------------------------------------------------------
(***************************************************************************)
(* remove_completed_jobs: D are the jobs one completion message matches,   *)
(* in the queues or running.  Discarded and pending jobs are not searched. *)
(***************************************************************************)
RemoveCompleted(c) ==
    /\ At(c, "ecc") /\ Free(c)
    /\ \E D \in SUBSET (In(Ready(c)) \cup Current(c)) \ {{}} :
         /\ link' = [j \in Jobs |-> IF j \in D THEN Unlinked ELSE link[j]]
         /\ state' = [j \in Jobs |-> IF j \in D THEN "REMOVED" ELSE state[j]]
         /\ running' = [running EXCEPT ![c] = IF @ \in D THEN None ELSE @]
         /\ PutRefs(D, c)
    /\ UNCHANGED <<offered, hand, asleep, migVars, lock, pc>>

NoMoreCompletions(c) ==
    /\ At(c, "ecc")
    /\ Goto(c, "mode")
    /\ UNCHANGED <<jobVars, coreVars, migVars, lock>>

(***************************************************************************)
(* handle_mode_change: the running job goes back to its queue, then D, the *)
(* jobs of too low criticality that are not being offered, is discarded.   *)
(***************************************************************************)
DiscardableAny(c) == In(Ready(c)) \cup Current(c)   \* mutant: offered jobs too
Discardable(c)    == {j \in In(Ready(c)) \cup Current(c) : ~offered[j]}

\* The running job is preempted: by a mode change, another job or procrastination.
StillRunning(c) == state                        \* mutant: its state is not reset
Preempted(c)    == [j \in Jobs |-> IF j \in Current(c) THEN "READY" ELSE state[j]]

HandleModeChange(c, next) ==
    /\ Free(c)
    /\ \E D \in SUBSET Discardable(c) :
         link' = [j \in Jobs |-> IF j \in D THEN Discard(c)
                                 ELSE IF j \in Current(c) THEN Ready(c)
                                 ELSE link[j]]
    /\ state' = Preempted(c)
    /\ running' = [running EXCEPT ![c] = None]
    /\ Goto(c, next)
    /\ UNCHANGED <<refs, offered, pool, hand, asleep, migVars, lock>>

ObserveModeChange(c) == At(c, "mode") /\ HandleModeChange(c, "dpm")

SameMode(c) ==
    /\ At(c, "mode")
    /\ Goto(c, "dpm")
    /\ UNCHANGED <<jobVars, coreVars, migVars, lock>>

\* The low-power test of scheduler_tick: a sleeping core ends its tick here.
StayAsleep(c) ==
    /\ At(c, "dpm") /\ asleep[c]
    /\ Goto(c, "barrier")
    /\ UNCHANGED <<jobVars, coreVars, migVars, lock>>

Awake(c) ==
    /\ At(c, "dpm")
    /\ asleep' = [asleep EXCEPT ![c] = FALSE]
    /\ Goto(c, "run")
    /\ UNCHANGED <<jobVars, running, hand, migVars, lock>>

(***************************************************************************)
(* handle_running_job and handle_job_completion                            *)
(***************************************************************************)
KeepRunning(c) ==
    /\ At(c, "run") /\ Free(c)
    /\ Goto(c, "pending")
    /\ UNCHANGED <<jobVars, coreVars, migVars, lock>>

MissDeadline(c) ==
    /\ At(c, "run") /\ Free(c)
    /\ running[c] # None
    /\ state' = [state EXCEPT ![running[c]] = "COMPLETED"]
    /\ running' = [running EXCEPT ![c] = None]
    /\ PutRefs({running[c]}, c)
    /\ Goto(c, "pending")
    /\ UNCHANGED <<link, offered, hand, asleep, migVars, lock>>

\* mutant: an idle core's budget is looked at
BudgetEventIdle(c) ==
    /\ At(c, "run") /\ Free(c)
    /\ \E next \in {"complete", "raise"} : Goto(c, next)
    /\ UNCHANGED <<jobVars, coreVars, migVars, lock>>

BudgetEvent(c) ==
    /\ At(c, "run") /\ Free(c)
    /\ running[c] # None
    /\ \E next \in {"complete", "raise"} : Goto(c, next)
    /\ UNCHANGED <<jobVars, coreVars, migVars, lock>>

\* handle_job_completion up to UNLOCK_RQ
CompleteRunning(c) ==
    /\ At(c, "complete") /\ Free(c)
    /\ running[c] # None
    /\ state' = [state EXCEPT ![running[c]] = "COMPLETED"]
    /\ hand' = [hand EXCEPT ![c] = running[c]]
    /\ running' = [running EXCEPT ![c] = None]
    /\ Goto(c, "put")
    /\ UNCHANGED <<link, refs, offered, pool, asleep, migVars, lock>>

\* its put_job_ref, outside the lock
PutCompleted(c) ==
    /\ At(c, "put")
    /\ PutRefs({hand[c]}, c)
    /\ hand' = [hand EXCEPT ![c] = None]
    /\ Goto(c, "pending")
    /\ UNCHANGED <<link, state, offered, running, asleep, migVars, lock>>

RaiseMode(c) == At(c, "raise") /\ HandleModeChange(c, "pending")

(***************************************************************************)
(* handle_job_arrivals: delegated jobs whose time has come, expired ones   *)
(* of too low criticality, then the periodic arrivals of the core.         *)
(***************************************************************************)
\* Where a job goes that comes to a core: by its criticality.
HomesShared(c) == {Ready(c), Shared}            \* mutant: the shared queue at once
Homes(c)       == {Ready(c), Discard(c)}

ArrivePending(c) ==
    /\ At(c, "pending") /\ Free(c)
    /\ \E j \in In(Pending(c)), place \in Homes(c) :
         /\ link' = [link EXCEPT ![j] = place]
         /\ state' = [state EXCEPT ![j] = "READY"]
    /\ UNCHANGED <<refs, offered, pool, coreVars, migVars, lock, pc>>

ExpirePending(c) ==
    /\ At(c, "pending")
    /\ \E j \in In(Pending(c)) :
         /\ link' = [link EXCEPT ![j] = Unlinked]
         /\ PutRefs({j}, c)
    /\ UNCHANGED <<state, offered, coreVars, migVars, lock, pc>>

NoMorePending(c) ==
    /\ At(c, "pending")
    /\ Goto(c, "arrive")
    /\ UNCHANGED <<jobVars, coreVars, migVars, lock>>

ArriveNew(c) ==
    /\ At(c, "arrive") /\ Free(c)
    /\ \E j \in Jobs, place \in Homes(c) :
         /\ CreateJob(j, c, "READY")
         /\ link' = [link EXCEPT ![j] = place]
    /\ UNCHANGED <<coreVars, migVars, lock, pc>>

NoMoreArrivals(c) ==
    /\ At(c, "arrive")
    /\ Goto(c, "reclaim")
    /\ UNCHANGED <<jobVars, coreVars, migVars, lock>>

(***************************************************************************)
(* reclaim_discarded_jobs, under the core's lock; discard_queue_lock is    *)
(* taken and released inside the steps that touch the shared queue.        *)
(***************************************************************************)
ReclaimBegin(c) ==
    /\ At(c, "reclaim")
    /\ Lock(c, c)
    /\ Goto(c, "own")
    /\ UNCHANGED <<jobVars, coreVars, migVars>>

ReclaimOwn(c) ==
    /\ At(c, "own")
    /\ \E j \in In(Discard(c)), admitted \in BOOLEAN :
         link' = [link EXCEPT ![j] = IF admitted THEN Ready(c)
                                     ELSE IF ~offered[j] THEN Shared
                                     ELSE Unlinked]
    /\ UNCHANGED <<state, refs, offered, pool, coreVars, migVars, lock, pc>>

ReclaimShared(c) ==
    /\ At(c, "own")
    /\ In(Discard(c)) = {}
    /\ \E S \in SUBSET In(Shared) :
         link' = [j \in Jobs |-> IF j \in S THEN Ready(c) ELSE link[j]]
    /\ Unlock({c})
    /\ Goto(c, "push")
    /\ UNCHANGED <<state, refs, offered, pool, coreVars, migVars>>

(***************************************************************************)
(* attempt_migration_push.  ring_buffer_enqueue claims a ticket, then      *)
(* waits for its slot: an entry that is not full yet is a claimed ticket,  *)
(* and it can be filled only while it is among the first QCap.             *)
(***************************************************************************)
SkipPush(c) ==
    /\ At(c, "push")
    /\ Goto(c, "drain")
    /\ UNCHANGED <<jobVars, coreVars, migVars, lock>>

DecidePush(c) ==
    /\ At(c, "push") /\ Free(c)
    /\ running[c] # None
    /\ Goto(c, IF In(Ready(c)) = {} THEN "future" ELSE "shed")
    /\ UNCHANGED <<jobVars, coreVars, migVars, lock>>

ShedBegin(c) ==
    /\ At(c, "shed")
    /\ Lock(c, c)
    /\ Goto(c, "offer")
    /\ UNCHANGED <<jobVars, coreVars, migVars>>

Claim(d, j, c) ==
    migq' = [migq EXCEPT ![d] =
               Append(@, [job |-> j, from |-> c, full |-> FALSE])]

\* The jobs whose is_being_offered flag atomic_exchange finds clear.
OfferableAgain(c) == In(Ready(c))               \* mutant: the old flag is ignored
Offerable(c)      == {j \in In(Ready(c)) : ~offered[j]}

Offer(c) ==
    /\ At(c, "offer")
    /\ \E j \in Offerable(c), d \in Cores \ {c} :
         /\ offered' = [offered EXCEPT ![j] = TRUE]
         /\ GetRef(j)
         /\ Claim(d, j, c)
    /\ Goto(c, "publish")
    /\ UNCHANGED <<link, state, pool, coreVars, req, lock>>

Publish(c, from, next) ==
    /\ At(c, from)
    /\ \E d \in Cores : \E i \in 1..Len(migq[d]) :
         /\ migq[d][i].from = c /\ ~migq[d][i].full
         /\ i <= QCap
         /\ migq' = [migq EXCEPT ![d][i].full = TRUE]
    /\ Goto(c, next)
    /\ UNCHANGED <<jobVars, coreVars, req, lock>>

PublishOffer(c) == Publish(c, "publish", "offer")

ShedEnd(c) ==
    /\ At(c, "offer")
    /\ Unlock({c})
    /\ Goto(c, "drain")
    /\ UNCHANGED <<jobVars, coreVars, migVars>>

\* attempt_future_load_shedding: the request takes over the first reference
OfferFuture(c) ==
    /\ At(c, "future")
    /\ \E j \in Jobs, d \in Cores \ {c} :
         /\ CreateJob(j, c, "IDLE")
         /\ Claim(d, j, c)
    /\ Goto(c, "claim")
    /\ UNCHANGED <<link, coreVars, req, lock>>

PublishFuture(c) == Publish(c, "claim", "future")

\* No core is better, or no delegated_job is free: the struct goes back.
WithdrawFuture(c) ==
    /\ At(c, "future")
    /\ \E j \in Allocatable(c) :
         /\ state' = [state EXCEPT ![j] = "IDLE"]
         /\ offered' = [offered EXCEPT ![j] = FALSE]
    /\ pool' = [k \in Jobs |-> IF k \in Allocatable(c) THEN "free" ELSE pool[k]]
    /\ UNCHANGED <<link, refs, coreVars, migVars, lock, pc>>

FutureEnd(c) ==
    /\ At(c, "future")
    /\ Goto(c, "drain")
    /\ UNCHANGED <<jobVars, coreVars, migVars, lock>>

(***************************************************************************)
(* process_migration_requests.  try_dequeue fails when the queue is empty  *)
(* and when the head ticket is claimed but not full.                       *)
(***************************************************************************)
HeadFull(c) == migq[c] # <<>> /\ Head(migq[c]).full

Dequeue(c) ==
    /\ At(c, "drain") /\ HeadFull(c)
    /\ req' = [req EXCEPT ![c] = Head(migq[c])]
    /\ migq' = [migq EXCEPT ![c] = Tail(@)]
    /\ Goto(c, "lock1")
    /\ UNCHANGED <<jobVars, coreVars, lock>>

DrainEnd(c) ==
    /\ At(c, "drain") /\ ~HeadFull(c)
    /\ Goto(c, "select")
    /\ UNCHANGED <<jobVars, coreVars, migVars, lock>>

\* double_rq_lock: the lower core id first
OwnFirst(c) == c                                \* mutant: the own lock first
First(c)  == IF c < req[c].from THEN c ELSE req[c].from
Second(c) == IF First(c) = c THEN req[c].from ELSE c
OwnOnly(c) == {c}                               \* mutant: the sender's lock is kept
Pair(c)   == {c, req[c].from}

LockFirst(c) ==
    /\ At(c, "lock1")
    /\ Lock(c, First(c))
    /\ Goto(c, "lock2")
    /\ UNCHANGED <<jobVars, coreVars, migVars>>

LockSecond(c) ==
    /\ At(c, "lock2")
    /\ Lock(c, Second(c))
    /\ Goto(c, "judge")
    /\ UNCHANGED <<jobVars, coreVars, migVars>>

\* Not admissible, or an admissible job that cannot be moved any more: the
\* request's reference is dropped under both locks.  (The code's test that
\* link.next is not NULL also passes for a future job, whose list head
\* create_job initialises; that job is IDLE, so the conjunction is this one.)
MovableIfReady(j) == state[j] = "READY"         \* mutant: no test of link
Movable(j) == link[j] # Unlinked /\ state[j] = "READY"

Drop(c) ==
    /\ At(c, "judge")
    /\ offered' = [offered EXCEPT ![req[c].job] = FALSE]
    /\ PutRefs({req[c].job}, c)
    /\ req' = [req EXCEPT ![c] = NoRequest]
    /\ Unlock(Pair(c))
    /\ Goto(c, "drain")
    /\ UNCHANGED <<link, state, coreVars, migq>>

\* A future job: the request's reference becomes the pending queue's.
AcceptFuture(c) ==
    /\ At(c, "judge")
    /\ state[req[c].job] = "IDLE"
    /\ link' = [link EXCEPT ![req[c].job] = Pending(c)]
    /\ offered' = [offered EXCEPT ![req[c].job] = FALSE]
    /\ req' = [req EXCEPT ![c] = NoRequest]
    /\ Unlock(Pair(c))
    /\ Goto(c, "drain")
    /\ UNCHANGED <<state, refs, pool, coreVars, migq>>

\* A waiting job: list_del from wherever it is, then into the core's queues.
AcceptReady(c) ==
    /\ At(c, "judge")
    /\ Movable(req[c].job)
    /\ \E place \in Homes(c) :
         link' = [link EXCEPT ![req[c].job] = place]
    /\ Unlock(Pair(c))
    /\ Goto(c, "settle")
    /\ UNCHANGED <<state, refs, offered, pool, coreVars, migVars>>

\* After the unlock: clear the flag, put the reference, write the cooldown.
\* mutant: the flag stays set
ClearNothing(c) ==
    /\ At(c, "settle")
    /\ Goto(c, "release")
    /\ UNCHANGED <<jobVars, coreVars, migVars, lock>>

ClearOffered(c) ==
    /\ At(c, "settle")
    /\ offered' = [offered EXCEPT ![req[c].job] = FALSE]
    /\ Goto(c, "release")
    /\ UNCHANGED <<link, state, refs, pool, coreVars, migVars, lock>>

PutMigrated(c) ==
    /\ At(c, "release")
    /\ PutRefs({req[c].job}, c)
    /\ req' = [req EXCEPT ![c] = NoRequest]
    /\ Goto(c, "drain")
    /\ UNCHANGED <<link, state, offered, coreVars, migq, lock>>

(***************************************************************************)
(* select_next_job, dispatch_job, power_management_try_procrastination and *)
(* power_management_set_dpm_interval                                       *)
(***************************************************************************)
Select(c) ==
    /\ At(c, "select") /\ Free(c)
    /\ \E j \in In(Ready(c)) :
         /\ link' = [link EXCEPT ![j] = Unlinked]
         /\ hand' = [hand EXCEPT ![c] = j]
    /\ Goto(c, "dispatch")
    /\ UNCHANGED <<state, refs, offered, pool, running, asleep, migVars, lock>>

SelectNone(c) ==
    /\ At(c, "select") /\ Free(c)
    /\ running[c] # None \/ In(Ready(c)) = {}
    /\ Goto(c, "power")
    /\ UNCHANGED <<jobVars, coreVars, migVars, lock>>

Dispatch(c) ==
    /\ At(c, "dispatch") /\ Free(c)
    /\ link' = [j \in Jobs |-> IF j \in Current(c) THEN Ready(c) ELSE link[j]]
    /\ state' = [Preempted(c) EXCEPT ![hand[c]] = "RUNNING"]
    /\ running' = [running EXCEPT ![c] = hand[c]]
    /\ hand' = [hand EXCEPT ![c] = None]
    /\ Goto(c, "power")
    /\ UNCHANGED <<refs, offered, pool, asleep, migVars, lock>>

Procrastinate(c) ==
    /\ At(c, "power") /\ Free(c)
    /\ running[c] # None
    /\ link' = [link EXCEPT ![running[c]] = Ready(c)]
    /\ state' = Preempted(c)
    /\ running' = [running EXCEPT ![c] = None]
    /\ \E b \in BOOLEAN : asleep' = [asleep EXCEPT ![c] = b]
    /\ Goto(c, "barrier")
    /\ UNCHANGED <<refs, offered, pool, hand, migVars, lock>>

\* mutant: without the test of is_idle
SetDpmBusy(c) ==
    /\ At(c, "power")
    /\ \E b \in BOOLEAN : asleep' = [asleep EXCEPT ![c] = b]
    /\ Goto(c, "barrier")
    /\ UNCHANGED <<jobVars, running, hand, migVars, lock>>

SetDpm(c) ==
    /\ At(c, "power")
    /\ \E b \in BOOLEAN : /\ b => running[c] = None
                          /\ asleep' = [asleep EXCEPT ![c] = b]
    /\ Goto(c, "barrier")
    /\ UNCHANGED <<jobVars, running, hand, migVars, lock>>

-----------------------------------------------------------------------------
(***************************************************************************)
(* timer_thread_func between the two barriers: expired discarded jobs are  *)
(* released (by nobody's owner, NUM_CORES_PER_PROC), and the next tick     *)
(* starts on every core.                                                   *)
(***************************************************************************)
Timer ==
    /\ \A c \in Cores : At(c, "barrier")
    /\ \E S \in SUBSET In(Shared) :
         /\ link' = [j \in Jobs |-> IF j \in S THEN Unlinked ELSE link[j]]
         /\ PutRefs(S, None)
    /\ pc' = [c \in Cores |-> "ecc"]
    /\ UNCHANGED <<state, offered, coreVars, migVars, lock>>

Core(c) ==
    \/ RemoveCompleted(c) \/ NoMoreCompletions(c)
    \/ ObserveModeChange(c) \/ SameMode(c)
    \/ StayAsleep(c) \/ Awake(c)
    \/ KeepRunning(c) \/ MissDeadline(c) \/ BudgetEvent(c)
    \/ CompleteRunning(c) \/ PutCompleted(c) \/ RaiseMode(c)
    \/ ArrivePending(c) \/ ExpirePending(c) \/ NoMorePending(c)
    \/ ArriveNew(c) \/ NoMoreArrivals(c)
    \/ ReclaimBegin(c) \/ ReclaimOwn(c) \/ ReclaimShared(c)
    \/ SkipPush(c) \/ DecidePush(c)
    \/ ShedBegin(c) \/ Offer(c) \/ PublishOffer(c) \/ ShedEnd(c)
    \/ OfferFuture(c) \/ PublishFuture(c) \/ WithdrawFuture(c) \/ FutureEnd(c)
    \/ Dequeue(c) \/ DrainEnd(c) \/ LockFirst(c) \/ LockSecond(c)
    \/ Drop(c) \/ AcceptFuture(c) \/ AcceptReady(c)
    \/ ClearOffered(c) \/ PutMigrated(c)
    \/ Select(c) \/ SelectNone(c) \/ Dispatch(c)
    \/ Procrastinate(c) \/ SetDpm(c)

Next == Timer \/ \E c \in Cores : Core(c)

Spec == Init /\ [][Next]_vars

(***************************************************************************)
(* Fairness.  Threads are scheduled, and every loop of a tick walks a      *)
(* finite list or array: it is not repeated for ever when it could end.    *)
(* Nothing is assumed of the order in which waiting threads get a lock.    *)
(***************************************************************************)
LoopEnds(c) ==
    \/ NoMoreCompletions(c) \/ NoMorePending(c) \/ NoMoreArrivals(c)
    \/ ReclaimShared(c) \/ ShedEnd(c) \/ FutureEnd(c)

Fairness ==
    /\ WF_vars(Timer)
    /\ \A c \in Cores : WF_vars(Core(c)) /\ SF_vars(LoopEnds(c))

FairSpec == Spec /\ Fairness

-----------------------------------------------------------------------------
(***************************************************************************)
(* Properties                                                              *)
(***************************************************************************)
Serving(c)  == pc[c] \in {"lock1", "lock2", "judge", "settle", "release"}
Moved(c)    == pc[c] \in {"settle", "release"}
Slots(d)    == 1..Len(migq[d])

Homed(j)     == \/ link[j] # Unlinked
                \/ \E c \in Cores : running[c] = j \/ hand[c] = j
Requested(j) == \/ \E d \in Cores : \E i \in Slots(d) : migq[d][i].job = j
                \/ \E c \in Cores : Serving(c) /\ req[c].job = j

\* The types of the fields; every pc is a part of scheduler_tick.
TypeOK ==
    /\ link \in [Jobs -> Places]
    /\ state \in [Jobs -> States]
    /\ refs \in [Jobs -> Nat]
    /\ offered \in [Jobs -> BOOLEAN]
    /\ pool \in [Jobs -> {"live", "free", "remote"}]
    /\ running \in [Cores -> Jobs \cup {None}]
    /\ hand \in [Cores -> Jobs \cup {None}]
    /\ asleep \in [Cores -> BOOLEAN]
    /\ migq \in [Cores -> Seq(Request)]
    /\ req \in [Cores -> Request]
    /\ lock \in [Cores -> Cores \cup {None}]
    /\ pc \in [Cores -> Steps]

\* A job has at most one home: a job in a list is neither running nor in
\* anybody's hand, and no two cores run or hold the same job.  (list_add of a
\* linked job, or dispatching a job twice, would corrupt the lists.)
UniqueHome ==
    \A j \in Jobs : \A c, d \in Cores :
        /\ running[c] = j => link[j] = Unlinked /\ hand[d] # j
        /\ hand[c] = j => link[j] = Unlinked
        /\ running[c] = j /\ running[d] = j => c = d
        /\ hand[c] = j /\ hand[d] = j => c = d

\* The reference count of a job is exact: one for its home, one for its
\* outstanding migration request.  A count too low is a use after release,
\* one too high leaks a job_struct of the 50 of the pool.
RefcountExact ==
    \A j \in Jobs :
        refs[j] = (IF Homed(j) THEN 1 ELSE 0) + (IF Requested(j) THEN 1 ELSE 0)

\* A job_struct is in a free list exactly when nothing refers to it.
PoolExact == \A j \in Jobs : pool[j] = "live" <=> Homed(j) \/ Requested(j)

\* A job that is offered has exactly one request, and the flag never outlives
\* the request: a stuck flag would bar the job from migrating for ever, and
\* reclaim_discarded_jobs would lose it.
OfferedHasRequest == \A j \in Jobs : offered[j] => Requested(j)

\* reclaim_discarded_jobs pops a discarded job, and if it is neither
\* admissible nor free to be shared it is dropped on the floor with its
\* reference: no job of a discard list, and none of the shared queue, is being
\* offered.
DiscardedNotOffered ==
    \A c \in Cores : pc[c] = "own" =>
        \A j \in In(Discard(c)) \cup In(Shared) : ~offered[j]

\* The two locks of double_rq_lock are the right ones: a job whose request
\* waits or is being judged is at home at the core that offered it, so nobody
\* else touches its queue while list_del takes it out.
RequestedAtHome ==
    \A d \in Cores :
        /\ \A i \in Slots(d) : Homed(migq[d][i].job) =>
             \/ link[migq[d][i].job] = Ready(migq[d][i].from)
             \/ running[migq[d][i].from] = migq[d][i].job
             \/ hand[migq[d][i].from] = migq[d][i].job
        /\ pc[d] = "judge" /\ link[req[d].job] # Unlinked =>
             link[req[d].job] = Ready(req[d].from)

\* The migrated job is still at home at the destination while its thread
\* clears the flag, puts the reference and writes the cooldown, which all
\* happen after the unlock.
SettledAtHome ==
    \A d \in Cores : Moved(d) => link[req[d].job] \in {Ready(d), Discard(d)}

\* state says where the job is.
StateAgrees ==
    /\ \A j \in Jobs : \A c \in Cores :
         /\ link[j] = Pending(c) => state[j] = "IDLE"
         /\ link[j] \in {Ready(c), Discard(c), Shared} => state[j] = "READY"
    /\ \A c \in Cores : running[c] # None => state[running[c]] = "RUNNING"
    /\ \A c \in Cores : pc[c] = "dispatch" => state[hand[c]] = "READY"

\* Not only the jobs' states but those of the cores agree with where the jobs are:
\* from the tick in which a core goes to sleep, by procrastination or because it
\* is idle, to the one in which it wakes, nothing runs on it and its thread has
\* no job in hand, whatever messages, mode changes and other cores do meanwhile.
StatusAgrees ==
    /\ StateAgrees
    /\ \A c \in Cores : asleep[c] => running[c] = None /\ hand[c] = None

\* handle_job_completion finds the job that handle_running_job saw before it
\* released the lock; its error path would return with the lock held.
CompletionHasJob ==
    \A c \in Cores : pc[c] = "complete" => running[c] # None

\* A core that sleeps, or that passes the barrier, runs nothing half-done:
\* no lock is held, no request is half served, no job is in a hand.
QuietAtBarrier ==
    \A c \in Cores : pc[c] = "barrier" =>
        /\ \A m \in Cores : lock[m] # c
        /\ hand[c] = None /\ req[c] = NoRequest
        /\ asleep[c] => running[c] = None

\* The run-queue lock a thread is waiting for at a step that takes one.
Wanted(c) ==
    CASE pc[c] = "lock1" -> {First(c)}
      [] pc[c] = "lock2" -> {Second(c)}
      [] pc[c] \in {"ecc", "mode", "run", "complete", "raise", "pending",
                    "arrive", "reclaim", "push", "shed", "select",
                    "dispatch", "power"} -> {c}
      [] OTHER -> {}

\* No circle of threads that wait for each other's locks, however many cores
\* serve each other's offers at once: whoever waits for a lock holds only
\* locks of lower core ids.
NoCircularWait ==
    \A c, m \in Cores : lock[m] = c => \A n \in Wanted(c) : m < n

\* A thread that has claimed a ticket of a queue has one to fill: it never waits
\* in ring_buffer_enqueue for a slot that is not there.
ClaimsSlot(c)   == pc[c] \in {"publish", "claim"}
OwnSlot(c, d, i) == migq[d][i].from = c /\ ~migq[d][i].full
ClaimHasSlot ==
    \A c \in Cores : ClaimsSlot(c) => \E d \in Cores : \E i \in Slots(d) : OwnSlot(c, d, i)

\* A core stands when its thread waits: at the barrier, for a run-queue lock, or
\* for its slot of a migration queue to become one of the first QCap.
Stands(c) ==
    \/ pc[c] = "barrier"
    \/ \E n \in Wanted(c) : ~Free(n)
    \/ /\ ClaimsSlot(c)
       /\ ~\E d \in Cores : \E i \in Slots(d) : OwnSlot(c, d, i) /\ i <= QCap

\* No deadlock inside a tick: as long as no migration queue is claimed beyond its
\* slots, the cores only all stand when all of them are at the barrier, which
\* the timer thread then passes.  (A queue claimed beyond its slots is drained
\* only by its own core, which may be asleep.)
NobodyStuck ==
    (\A d \in Cores : Len(migq[d]) <= QCap) =>
        \/ \A c \in Cores : At(c, "barrier")
        \/ \E c \in Cores : ~Stands(c)

\* Every core finishes every tick, so the barrier of the timer thread is
\* always passed again: no core waits for ever for a lock, for a slot of a
\* migration queue, or for a sender to fill the slot it has claimed, and
\* process_migration_requests does not serve one request over and over.
TicksEnd == \A c \in Cores : []<>(pc[c] = "barrier") /\ []<>(pc[c] = "ecc")

(***************************************************************************)
(* The inductive strengthening: who holds which lock, what each thread has *)
(* in its hands at each step, and that every job has one request at most.  *)
(***************************************************************************)
\* Each lock is held by the thread whose step says so, and by nobody else.
LockExact ==
    \A c, m \in Cores :
        lock[m] = c <=>
          \/ m = c /\ pc[c] \in {"own", "offer", "publish"}
          \/ pc[c] = "lock2" /\ m = First(c)
          \/ pc[c] = "judge" /\ m \in Pair(c)

HandsExact ==
    \A c \in Cores :
        /\ hand[c] # None <=> pc[c] \in {"put", "dispatch"}
        /\ pc[c] = "put" => state[hand[c]] = "COMPLETED"
        /\ pc[c] = "raise" => running[c] # None
        /\ asleep[c] => /\ running[c] = None
                        /\ pc[c] \in {"ecc", "mode", "dpm", "barrier"}

ValidRequest(r, d) == r.job \in Jobs /\ r.from \in Cores \ {d}

RequestsValid ==
    \A d \in Cores :
        /\ \A i \in Slots(d) : ValidRequest(migq[d][i], d)
        /\ IF Serving(d) THEN ValidRequest(req[d], d) ELSE req[d] = NoRequest

UniqueRequest ==
    \A d, e \in Cores :
        /\ \A i \in Slots(d), k \in Slots(e) :
             migq[d][i].job = migq[e][k].job => d = e /\ i = k
        /\ \A i \in Slots(d) : Serving(e) => req[e].job # migq[d][i].job
        /\ Serving(d) /\ Serving(e) /\ req[d].job = req[e].job => d = e

\* A job that waits to be judged is at home at its sender, and then flagged.
AtHome(j, c) == link[j] = Ready(c) \/ running[c] = j \/ hand[c] = j

WaitsAtHome ==
    \A d \in Cores :
        /\ \A i \in Slots(d) : Homed(migq[d][i].job) =>
             AtHome(migq[d][i].job, migq[d][i].from) /\ offered[migq[d][i].job]
        /\ pc[d] \in {"lock1", "lock2", "judge"} /\ Homed(req[d].job) =>
             AtHome(req[d].job, req[d].from) /\ offered[req[d].job]
        /\ \A i \in Slots(d) : state[migq[d][i].job] = "READY" =>
             Homed(migq[d][i].job)
        /\ pc[d] \in {"lock1", "lock2", "judge"} /\ state[req[d].job] = "READY" =>
             Homed(req[d].job)

\* The flag is set only while the request waits, is judged or settles.
OfferedExact ==
    \A j \in Jobs : offered[j] =>
        \/ \E d \in Cores : \E i \in Slots(d) : migq[d][i].job = j
        \/ \E d \in Cores : /\ Serving(d) /\ pc[d] # "release"
                            /\ req[d].job = j

IInv ==
    /\ TypeOK /\ LockExact /\ HandsExact /\ RequestsValid /\ UniqueRequest
    /\ UniqueHome /\ RefcountExact /\ PoolExact /\ StateAgrees
    /\ WaitsAtHome /\ OfferedExact /\ SettledAtHome /\ CompletionHasJob

(***************************************************************************)
(* The refinement mapping to JobLifecycle                                  *)
(***************************************************************************)
RunningOn(j) == {c \in Cores : running[c] = j}
HeldBy(j)    == {c \in Cores : hand[c] = j /\ pc[c] = "dispatch"}
ListedAt(j)  == {c \in Cores : link[j] \in {Ready(c), Discard(c), Pending(c)}}

Phase(j) ==
    CASE pool[j] # "live"                               -> "free"
      [] pool[j] = "live" /\ RunningOn(j) # {}          -> "running"
      [] pool[j] = "live" /\ RunningOn(j) = {} /\ (link[j] # Unlinked \/ HeldBy(j) # {}) ->
             IF state[j] = "IDLE" THEN "pending" ELSE "waiting"
      [] OTHER ->
             IF state[j] = "IDLE" THEN "future"
             ELSE IF state[j] = "READY" THEN "lost" ELSE "done"

CoreOf(j) ==
    LET at == RunningOn(j) \cup HeldBy(j) \cup ListedAt(j)
    IN  IF pool[j] = "live" /\ at # {} THEN CHOOSE c \in at : TRUE ELSE None

Life == INSTANCE JobLifecycle WITH
          phase <- [j \in Jobs |-> Phase(j)], core <- [j \in Jobs |-> CoreOf(j)]

\* Every run of the scheduler is a run of JobLifecycle: no step of migration,
\* mode change, reclaiming, preemption or dispatch loses a job, runs it on a
\* core that did not have it, or gives a core two jobs to run.
ImplementsLifecycle == Life!LifeSpec

=============================================================================
