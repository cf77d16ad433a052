----------------------------- MODULE Delegation -----------------------------
(***************************************************************************)
(* Who releases the next job of a task: the core it is allocated to, or    *)
(* another core that has taken it over so that the first one can sleep     *)
(* longer (attempt_future_load_shedding, process_migration_requests,       *)
(* update_delegations, handle_job_arrivals and                             *)
(* find_next_effective_arrival_time, with the low power states).           *)
(*                                                                         *)
(* A job is an entry of allocation_map and an arrival time.  The core of   *)
(* the entry keeps a delegated_job record of what it has offered; the      *)
(* other core accepts with an acknowledgement, or says nothing.  Whether a *)
(* core is busy, which core looks best, whether a job is admissible and    *)
(* when it pays to sleep are choices here.  The level of criticality is    *)
(* the lowest, and job_structs do not run out.                             *)
(***************************************************************************)
EXTENDS Integers, FiniteSets

CONSTANTS
    Cores,
    Entries,    \* entries of allocation_map for this processor
    Home,       \* entry -> its core_id
    Period,     \* entry -> the period of its task
    Lookahead,  \* DPM_MIGRATION_LOOKAHEAD_TICKS
    Cooldown,   \* CORE_MIGRATION_COOLDOWN_TICKS
    PoolSize,   \* MAX_FUTURE_DELEGATIONS: records of a core, slots for acks
    Threshold,  \* the least time it pays to sleep
    Forever,    \* UINT32_MAX
    LastTick    \* bound of the model

ASSUME HomeAssumption   == Home \in [Entries -> Cores] /\ IsFiniteSet(Entries)
ASSUME PeriodAssumption == Period \in [Entries -> Nat \ {0}]
ASSUME NumberAssumption == /\ Lookahead \in Nat /\ Cooldown \in Nat
                           /\ PoolSize \in Nat /\ Threshold \in Nat \ {0}
ASSUME TimeAssumption   == Forever \in Nat /\ LastTick \in Nat /\ LastTick < Forever

VARIABLES
    now,        \* system_time
    pc,         \* core -> the part of scheduler_tick it is in
    wake,       \* core -> dpm_end_time: it sleeps while that is to come
    eligible,   \* core -> next_migration_eligible_tick
    recs,       \* the jobs with a record in a delegated_job_queue
    owned,      \* those whose record says owned_by_remote
    reqs,       \* core -> the offers in its migration_request_queue
    acks,       \* the jobs of the acks in the delegation_ack_queues
    pend,       \* core -> its pending_jobs_queue
    released,   \* history: entry -> how often its job of this tick was released
    unread      \* history: the jobs of this tick whose ack was still in the
                \* queue when their home core came to its arrivals

vars == <<now, pc, wake, eligible, recs, owned, reqs, acks, pend, released,
          unread>>

Jobs      == Entries \X Int
Arrival(j) == j[2]
HomeOf(j)  == Home[j[1]]
Of(S, c)   == {j \in S : HomeOf(j) = c}    \* the part of S in the queue of core c

Arrives(i, t)     == t % Period[i] = 0
NextArrival(i, t) == (t \div Period[i] + 1) * Period[i]

At(c, s)   == pc[c] = s
Goto(c, s) == pc' = [pc EXCEPT ![c] = s]
Asleep(c)  == now < wake[c]

Init ==
    /\ now = 0
    /\ pc = [c \in Cores |-> "begin"]
    /\ wake = [c \in Cores |-> 0] /\ eligible = [c \in Cores |-> 0]
    /\ recs = {} /\ owned = {} /\ acks = {}
    /\ reqs = [c \in Cores |-> {}] /\ pend = [c \in Cores |-> {}]
    /\ released = [i \in Entries |-> 0] /\ unread = {}

-----------------------------------------------------------------------------
(***************************************************************************)
(* handle_job_arrivals                                                     *)
(***************************************************************************)
StayAsleep(c) ==
    /\ At(c, "begin") /\ Asleep(c)
    /\ Goto(c, "barrier")
    /\ UNCHANGED <<now, wake, eligible, recs, owned, reqs, acks, pend,
                   released, unread>>

Due(c)    == {j \in pend[c] : Arrival(j) = now}
Local(c)  == {i \in Entries : Home[i] = c /\ Arrives(i, now)}

\* mutant: every record counts as taken over
OfferedIsTaken(i) == \E j \in recs : j[1] = i /\ Arrival(j) >= now

\* The loop over the records finds one that says owned_by_remote.
Taken(i) == \E j \in owned : j[1] = i /\ Arrival(j) >= now

\* release_delegation
Forget(S) == recs' = recs \ S /\ owned' = owned \ S

\* mutant: it frees every record it meets
ExpiredAll(c) == IF Local(c) = {} THEN {} ELSE Of(recs, c)

\* The loop frees the records of the past; the list is sorted by arrival.
Expired(c) == IF Local(c) = {} THEN {}
              ELSE {j \in Of(recs, c) : Arrival(j) < now}

Times(b) == IF b THEN 1 ELSE 0

Arrive(c) ==
    /\ At(c, "begin") /\ ~Asleep(c)
    /\ released' = [i \in Entries |->
         released[i] + Times(<<i, now>> \in Due(c))
                     + Times(i \in Local(c) /\ ~Taken(i))]
    /\ unread' = unread \cup {j \in Of(acks, c) : Arrival(j) = now}
    /\ pend' = [pend EXCEPT ![c] = @ \ Due(c)]
    /\ Forget(Expired(c))
    /\ Goto(c, "acks")
    /\ UNCHANGED <<now, wake, eligible, reqs, acks>>

-----------------------------------------------------------------------------
(***************************************************************************)
(* update_delegations, attempt_future_load_shedding                        *)
(***************************************************************************)
ReadAcks(c) ==
    /\ At(c, "acks") /\ Goto(c, "push")
    /\ owned' = owned \cup (Of(acks, c) \cap recs)
    /\ acks' = acks \ Of(acks, c)
    /\ UNCHANGED <<now, wake, eligible, recs, reqs, pend, released, unread>>

\* The core is idle, or has jobs waiting, or has offered a job not long ago.
SkipPush(c) ==
    /\ At(c, "push") /\ Goto(c, "serve")
    /\ UNCHANGED <<now, wake, eligible, recs, owned, reqs, acks, pend,
                   released, unread>>

Push(c) ==
    /\ At(c, "push") /\ eligible[c] <= now /\ Goto(c, "offer")
    /\ UNCHANGED <<now, wake, eligible, recs, owned, reqs, acks, pend,
                   released, unread>>

\* A new record, and the offer to another core.  That core need not be awake:
\* it was chosen by its summary of the last tick.
Record(c, d, j) ==
    /\ recs' = recs \cup {j}
    /\ reqs' = [reqs EXCEPT ![d] = @ \cup {j}]
    /\ eligible' = [eligible EXCEPT ![c] = now + Cooldown]
    /\ UNCHANGED <<now, pc, wake, owned, acks, pend, released, unread>>

Offerable(c, j) ==
    /\ At(c, "offer") /\ HomeOf(j) = c
    /\ Arrival(j) < now + Lookahead
    /\ j \notin recs

\* mutant: no test for a free delegated_job
OfferUnbounded(c) ==
    \E i \in Entries, d \in Cores \ {c} :
        LET j == <<i, NextArrival(i, now)>>
        IN  Offerable(c, j) /\ Record(c, d, j)

Offer(c) ==
    \E i \in Entries, d \in Cores \ {c} :
        LET j == <<i, NextArrival(i, now)>>
        IN  /\ Offerable(c, j)
            /\ Cardinality(Of(recs, c)) < PoolSize
            /\ Record(c, d, j)

OfferEnd(c) ==
    /\ At(c, "offer") /\ Goto(c, "serve")
    /\ UNCHANGED <<now, wake, eligible, recs, owned, reqs, acks, pend,
                   released, unread>>

-----------------------------------------------------------------------------
(***************************************************************************)
(* process_migration_requests, for jobs that are still to arrive           *)
(***************************************************************************)
\* mutant: the ack is forgotten
AcceptSilently(d, j) ==
    /\ At(d, "serve") /\ j \in reqs[d] /\ Arrival(j) > now
    /\ reqs' = [reqs EXCEPT ![d] = @ \ {j}]
    /\ pend' = [pend EXCEPT ![d] = @ \cup {j}]
    /\ UNCHANGED <<now, pc, wake, eligible, recs, owned, acks,
                   released, unread>>

\* Under both run-queue locks, the ack's blocking enqueue included.
Accept(d, j) ==
    /\ At(d, "serve") /\ j \in reqs[d] /\ Arrival(j) > now
    /\ reqs' = [reqs EXCEPT ![d] = @ \ {j}]
    /\ pend' = [pend EXCEPT ![d] = @ \cup {j}]
    /\ acks' = acks \cup {j}
    /\ UNCHANGED <<now, pc, wake, eligible, recs, owned, released, unread>>

\* Not admissible, or its time has come: the sender is not told.
Refuse(d, j) ==
    /\ At(d, "serve") /\ j \in reqs[d]
    /\ reqs' = [reqs EXCEPT ![d] = @ \ {j}]
    /\ UNCHANGED <<now, pc, wake, eligible, recs, owned, acks, pend,
                   released, unread>>

\* The queue is empty, or begins with a slot that its sender has not filled.
ServeEnd(d) ==
    /\ At(d, "serve") /\ Goto(d, "power")
    /\ reqs[d] = {} \/ \E c \in Cores \ {d} : At(c, "offer")
    /\ UNCHANGED <<now, wake, eligible, recs, owned, reqs, acks, pend,
                   released, unread>>

-----------------------------------------------------------------------------
(***************************************************************************)
(* power_management_set_dpm_interval                                       *)
(***************************************************************************)
\* The arrivals of an entry that its core must be awake for.
Upcoming(i) == {t \in now + 1 .. Forever - 1 : Arrives(i, t) /\ <<i, t>> \notin owned}

\* mutant: those of its own entries only
OwnEvents(c) == UNION {Upcoming(i) : i \in {e \in Entries : Home[e] = c}}

\* The arrivals of a core: of its entries, and of what it has taken over.
Events(c) == (UNION {Upcoming(i) : i \in {e \in Entries : Home[e] = c}})
                 \cup {Arrival(j) : j \in {k \in pend[c] : Arrival(k) > now}}

StayAwake(c) ==
    /\ At(c, "power") /\ Goto(c, "barrier")
    /\ UNCHANGED <<now, wake, eligible, recs, owned, reqs, acks, pend,
                   released, unread>>

\* find_next_effective_arrival_time has found t.  An idle core sleeps until
\* then; a busy one that procrastinates as long as its slack allows, and not
\* at all if there is nothing to wait for.
Sleep(c) ==
    /\ At(c, "power") /\ Goto(c, "barrier")
    /\ \E t \in Events(c) \cup {Forever} :
        /\ \A u \in Events(c) : t <= u
        /\ \E s \in now + Threshold .. t :
            /\ s = t \/ t # Forever
            /\ wake' = [wake EXCEPT ![c] = s]
    /\ UNCHANGED <<now, eligible, recs, owned, reqs, acks, pend,
                   released, unread>>

Timer ==
    /\ now < LastTick /\ \A c \in Cores : At(c, "barrier")
    /\ now' = now + 1
    /\ pc' = [c \in Cores |-> "begin"]
    /\ released' = [i \in Entries |-> 0] /\ unread' = {}
    /\ UNCHANGED <<wake, eligible, recs, owned, reqs, acks, pend>>

Core(c) ==
    \/ StayAsleep(c) \/ Arrive(c) \/ ReadAcks(c)
    \/ SkipPush(c) \/ Push(c) \/ Offer(c) \/ OfferEnd(c)
    \/ \E j \in reqs[c] : Accept(c, j) \/ Refuse(c, j)
    \/ ServeEnd(c) \/ StayAwake(c) \/ Sleep(c)

Next == Timer \/ \E c \in Cores : Core(c)

Spec == Init /\ [][Next]_vars

-----------------------------------------------------------------------------
(***************************************************************************)
(* Properties                                                              *)
(***************************************************************************)
\* The types; a free record is nobody's, and no core has more records than
\* there are.
TypeOK ==
    /\ now \in 0 .. LastTick
    /\ pc \in [Cores -> {"begin", "acks", "push", "offer", "serve", "power",
                         "barrier"}]
    /\ wake \in [Cores -> Nat] /\ eligible \in [Cores -> Nat]
    /\ recs \in SUBSET Jobs /\ owned \in SUBSET recs /\ acks \in SUBSET Jobs
    /\ reqs \in [Cores -> SUBSET Jobs] /\ pend \in [Cores -> SUBSET Jobs]
    /\ released \in [Entries -> Nat] /\ unread \in SUBSET Jobs

\* No job is lost between two cores, and none appears from nowhere: whoever
\* sleeps, refuses or answers late, at the end of a tick the jobs whose period
\* has begun have been released by one core.  Only one that was taken over, and
\* whose core came to its arrivals before it had read the ack, has been released
\* by both.
ReleasedInTick ==
    (\A c \in Cores : At(c, "barrier")) =>
        \A i \in Entries :
            released[i] = IF ~Arrives(i, now) THEN 0
                          ELSE IF <<i, now>> \in unread THEN 2 ELSE 1

\* "Missed Pending Job Arrival!" is never logged: a core that has taken a job
\* over is awake when it arrives.
NeverLate ==
    \A d \in Cores : \A j \in pend[d] :
        /\ now <= Arrival(j)
        /\ At(d, "acks") => now < Arrival(j)

\* A job that was taken over has a record at home that says so, or will when
\* the ack is read: the job is released twice only if it arrives before that.
SenderLearns ==
    \A d \in Cores : \A j \in pend[d] :
        now < Arrival(j) => j \in owned \/ (j \in recs /\ j \in acks)

\* A job is with one core at a time: what a core has taken over is not offered
\* again, to it or to a third one, however long the answer takes.
OneTaker ==
    /\ \A d, e \in Cores : pend[d] \cap reqs[e] = {}
    /\ \A d, e \in Cores : d # e => pend[d] \cap pend[e] = {} /\ reqs[d] \cap reqs[e] = {}

\* The ring buffer of the acks has a slot for every one: the enqueue, which
\* is done with two run-queue locks held, never waits for the sleeping core
\* whose buffer it is.
AcksFit == \A c \in Cores : Cardinality(Of(acks, c)) <= PoolSize
=============================================================================
