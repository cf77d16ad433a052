# A specification of EEFT-Sched

EEFT-Sched simulates a mixed-criticality scheduler: every processor is an
operating-system process, every core of it a thread, and a timer thread per
processor moves simulated time on by one tick when all cores have finished the
last one.  The specification describes the C program under `src/` (threads,
queues, locks, reference counts, messages) in TLA+, checks it with TLC on small
instances, and proves the main invariants with TLAPS for all instances.

## The system

### Components

| Component | State it keeps | Operations |
|---|---|---|
| Scheduler tick (`scheduler/sched_core.c`) | per core: `ready_queue`, `replica_queue`, `discard_list`, `pending_jobs_queue`, `running_job`, `is_idle`, `local_criticality_level`, `rq_lock`; per processor: `discard_queue` | `remove_completed_jobs`, `handle_mode_change`, `handle_running_job`, `handle_job_completion`, `handle_job_arrivals`, `reclaim_discarded_jobs`, `select_next_job`, `dispatch_job`, `update_core_summary`, `scheduler_tick` |
| Migration (`scheduler/sched_migration.c`) | per core: `migration_request_queue`, `delegation_ack_queue`, `delegated_job_queue`, pool of delegation records, cooldowns | `attempt_rq_load_shedding`, `attempt_future_load_shedding`, `update_delegations`, `process_migration_requests`, `double_rq_lock` |
| Job structs (`task_management.c`) | per core: 50 job structs, `free_list`, `remote_free_list`; per job: state, `refcount`, `is_being_offered`, link | `create_job`, `get_job_ref`, `put_job_ref`, `add_to_queue_sorted`, `add_to_queue_sorted_by_arrival` |
| Slack and admission (`scheduler/sched_util.c`) | a cached horizon per core | `find_slack`, `is_admissible`, `find_next_effective_arrival_time`, `get_util` |
| Power (`power_management.c`) | per core: DVFS level, `in_low_power_state`, `dpm_end_time` | `power_set_dvfs_level`, `power_management_set_dpm_interval`, `power_management_try_procrastination` |
| Processor (`processor.c`, `main.c`) | `system_time`, two barriers, a barrier shared by the processes, shutdown flags | timer loop, core loop, signal handlers, `main`'s wait loops |
| Messages (`ipc.c`) | incoming and outgoing completion queues, `system_criticality_level`, a multicast socket | receive, send, broadcast |
| Ring buffer (`lib/ring_buffer.h`) | `head`, `tail`, `seq[]`, `buffer[]` | `enqueue`, `try_enqueue`, `dequeue`, `try_dequeue`, `clear` |
| Barrier (`lib/barrier.c`) | `count`, `cycle`, `target` | `barrier_wait`, `barrier_destroy` |
| Logger (`lib/log.c`) | a queue of 512 lines, `log_wakeup_pending`, a semaphore | `LOG`, logger thread, shutdown |
| Tools (`tools/*.py`) | none at run time | offline allocation, generators, log parser |

### How they interact

* **Shared memory of a processor.**  A core thread writes into another core's
  migration queue (a ring buffer), locks the other core's run queue
  (`double_rq_lock`), takes jobs out of it and drops references to the other
  core's job structs.  `discard_queue` is shared by the cores and the timer.
  `system_criticality_level` is one atomic that cores and timer load and store.
* **Ticks.**  `core_thread_func` calls `scheduler_tick` and then waits at
  `core_completion_barrier`; the timer waits there too, works alone (messages,
  expired discarded jobs, the time), and meets the cores again at
  `time_sync_barrier`.  The timers of all processes then meet at `proc_barrier`,
  which lies in shared memory, while the cores already run the next tick.
* **Messages.**  A core broadcasts a higher criticality level at once; completion
  messages are queued by the cores and sent by the timer.  Both are UDP multicast
  on the loopback interface and come back to the sender.
* **Processes.**  `main` forks the processors, waits for them, and after the first
  failure sends SIGUSR1, which sets the flag at which every loop ends.

### What is hard

Several cores have a job in view at once (offered here, running there, just
completed); reference counts and a flag are updated after the locks are released;
queues are lock-free, with a spinning enqueue *under* a lock; every tick passes
three barriers of which any thread may be asked to leave; a level and a message can
be out of date when used; packets can be late or lost.  The hazards, line by line,
are in `PROJECT.json`.

### What makes each part correct

| Part | Promise | Property |
|---|---|---|
| job structs | one home at a time; counts exact; recycled exactly when unreferenced | `UniqueHome`, `RefcountExact`; `PoolExact` (proved) |
| migration | a request finds its job where the locks protect it; flags never outlive requests; moved jobs are settled at their new home; no circle of locks | `RequestedAtHome`, `OfferedHasRequest`, `SettledAtHome`, `NoCircularWait` |
| scheduler tick | jobs arrive, wait, run and leave in order; no job is dropped; error paths that keep a lock are dead; ticks end | `ImplementsLifecycle`, `StatusAgrees`, `DiscardedNotOffered`, `CompletionHasJob`, `NobodyStuck`, `QuietAtBarrier`, `TicksEnd` |
| delegation | every job is released in its tick, once, or twice exactly if its ack was late; one core at a time has it; an ack has room | `ReleasedInTick`, `NeverLate`, `SenderLearns`, `OneTaker`, `AcksFit` |
| slack, speed, sleep | together they cost no deadline | `NoMiss`, `HorizonSuffices` |
| ring buffer | first in first out by ticket, whole elements, nothing lost | `ImplementsTicketQueue`, `NoTearing`, `NothingLost`, `SlotComes` |
| barrier | nobody early, nobody left asleep | `NobodyEarly`, `NoLostWakeup`, `NeverAllAsleep`, `ImplementsRendezvous`, `EverybodyThrough` |
| processors | one tick of every core at every time; clocks together; room for the messages; orderly end | `InStep`, `LockStep`, `NoHalfTick`, `MissIsLast`, `HandlersInstalled`, `SuccessMeansNoMiss`, `TimerNeverBlocks`, `NeverStopsShort`, `RunsToTheEnd`, `HaltsAfterMiss` |
| completion messages | a copy is stopped only for a copy that completed, and the message is not dropped on the way | `RemovedDone`, `StopOnItsWay` |
| mode changes | levels only rise, and become the same everywhere | `Covered`, `NeverFalls`, `HighestKnown`, `QuietMeansAgreed`, `Agreement` |
| logger | a sleeping logger is woken by the next line, and a shutdown returns | `NextLineWakes`, `OverlookedInGap`, `WakeupsBounded`, `NeverSleepsThrough`, `ShutdownReturns` |

## The modules

    JobLifecycle <-- Scheduler <---- MCScheduler        SchedulerProofs
                     Delegation <--- MCDelegation       DelegationProofs
                     Timing <------- MCTiming
    TicketQueue  <-- RingBuffer <--- MCRingBuffer       RingBufferProofs
    Rendezvous   <-- Barrier <------ MCBarrier          BarrierProofs
                     Processor <---- MCProcessor        ProcessorProofs
                     Completion <--- MCCompletion       CompletionProofs
                     Criticality <-- MCCriticality      CriticalityProofs
                     Logger <------- MCLogger           LoggerProofs

`A <-- B` on the left means that B implements A (a refinement mapping, `INSTANCE
... WITH`, checked as a property).  The modules divide the system by what can be
seen separately, and meet where one relies on what another promises: `Scheduler`
uses the ring buffer as slots that are claimed, then filled (`RingBuffer`), and
lets all cores meet the timer in one step (`Barrier`, and `InStep` of
`Processor`); `Processor` uses barriers as `Rendezvous` describes them; `Completion`
and `Criticality` use the clocks that `LockStep` keeps within one tick.  `Scheduler`
leaves open when a job arrives, whether it is admitted and when a core sleeps;
`Delegation` decides who releases a job and when a core may sleep, and leaves open
whether it pays; `Timing` computes the slack that makes those decisions, for one core.
`Logger` uses the ring buffer as `TicketQueue` describes it.

### Scheduler: the tick of the cores of one processor

One action is one critical section of `rq_lock`, or one lock-free step that another
core can see.  `pc[c]` is the place in `scheduler_tick`.

| Variable | In the code |
|---|---|
| `link` | the list a job's one link field is in: ready (both queues), discard, pending of a core, the shared `discard_queue`, or none |
| `state`, `refs`, `offered` | `state`, `refcount`, `is_being_offered` |
| `pool` | live, in `free_list`, or in `remote_free_list` |
| `running`, `asleep` | `running_job`, `in_low_power_state` |
| `hand` | the job that only a local variable of the thread refers to (`select_next_job` to `dispatch_job`; `handle_job_completion`) |
| `migq`, `req` | the migration queue, with slots that are claimed and not yet written; the request being judged |
| `lock` | the holder of `rq_lock` |

Times, budgets, slack and admission are left open here (`Timing` has them): whatever arithmetic decides,
each outcome that the control flow allows is a disjunct or a choice.  So the safety
properties hold for every taskset and every timing.  The `ready_queue` and
`replica_queue` are one place, since every handler treats them alike.

### Delegation: who releases the next job

A job is an entry of `allocation_map` and an arrival time.

| Variable | In the code |
|---|---|
| `now`, `pc`, `wake` | `system_time`; the place in `scheduler_tick`; `dpm_end_time` |
| `recs`, `owned` | the records in `delegated_job_queue`; those with `owned_by_remote` |
| `reqs`, `acks` | future offers in the migration queues; `delegation_ack_queue` |
| `pend` | `pending_jobs_queue` |
| `eligible` | `next_migration_eligible_tick` of a core |
| `released` | history: how often the job of this tick was released |
| `unread` | history: the jobs of this tick whose ack lay in `delegation_ack_queue` when their home core ran `handle_job_arrivals` |

`Arrive` is the whole of `handle_job_arrivals`, with the release of records that are
past; that happens only when a task of the core arrives, and the model keeps it so.
`Accept` is what `process_migration_requests` does under both locks, the blocking
enqueue of the ack included; that it never waits is `AcksFit`.  `Sleep` is
`find_next_effective_arrival_time` with both power paths: a core sleeps up to the
first arrival that no record says another core owns.  Choices are left open where the
code computes: which jobs are offered and to whom, what is admissible, whether
it pays to sleep.  The level is the lowest, job structs do not run out, and no deadline
enters.  Between a claimed and a written slot a dequeue may find the queue empty
(`ServeEnd`).

### Timing: slack against the exact demand

One core at the highest level of criticality, where the virtual deadline is the actual
one.  Work is counted in units, `Unit` to a tick of full speed, so the levels of
`dvfs_levels` are whole numbers and nothing is rounded but where the code takes
`ceil`.  `Slack`, `Horizon`, `Later`, `JobDemand`, `Admissible`, `Required` and `NextEvent`
are the functions of `sched_util.c` and `power_management.c`; the actions are the parts of
the tick that use them.  A job that runs may complete at any tick (`acet` is drawn at
random).  A guest is a job of another core: `TakeReady` one that has arrived,
`TakeAhead` one that will.  `HorizonSuffices` compares what the core has promised with
a count of the work job by job, for every deadline in two horizons; `NoMiss` says that no
deadline is passed.  `overlooked` is a history variable: `__is_admissible` tests a
future job from its arrival on, and then neither the local jobs that arrive by
then nor their work are in any sum (`sched_util.c:282`).

### RingBuffer and TicketQueue

Every atomic load, store, fetch-and-add and compare-and-swap that matters and every
`memcpy` is an action; a full memory order is assumed between them, which the
acquire and release of `seq` justify for the element.  Loads of `head` and `tail` in
the non-blocking calls are merged with the start of the call.  `ring_buffer_clear`
is one action, enabled when no call is under way: its only caller is the timer
between the barriers.  `TicketQueue` has no slots: tickets are drawn in order, filled
once and taken once.  `MaxTickets` bounds the two counters.

### Barrier and Rendezvous

`count` and `cycle` are touched only under `mut`, so `barrier_wait` is `WaitLast` or
`WaitForOthers` up to the point where the mutex is released, then any number of
wake-ups (asked for or spurious) with `Recheck`.  `CurCycles` stands for 2^32, the
values of `unsigned cur_cycle`; `rounds` is a history variable; `MaxRounds` bounds it.

### Processor

`pc` of each thread is its place in `core_thread_func` or `timer_thread_func`:
`loop` (the test of the flag), `tick`, `completion` / `sync` / `proc` (waiting at a
barrier), `met`, `work`, `synced`, `left`.  A barrier lets its party through when the
last one comes, for `barrier_wait` that is `ImplementsRendezvous`.  `Tick` may record
a deadline miss (`missed` is the time of the first one; the code has only the flag).
SIGUSR1 is asynchronous (`pending`).  It would kill a process that has not yet installed
its handler, and `Deliver` says so, but that never happens: no process can fail before every
timer has passed the barrier between the processors (`HandlersInstalled`).  The build defines `_DEFAULT_SOURCE`, which gives `signal` BSD semantics:
`waitpid` is restarted after Ctrl-C, so SIGINT only sets the flag that decides the
exit status.  The timer's turn between its barriers is `Receive` (everything in the
socket goes into a queue that it has just cleared) and `Advance`, which sends; `mail` counts
the messages that wait for a processor, as many as can be: one of every core in every
tick.

### Completion

One task with a copy on one core of every processor, released at every multiple of
its period.  The copy is one that is neither discarded by a mode change nor delegated to
another core.  When its core gives the job time depends on other tasks (and on
sleep) and is left open; jobs of the same task run in EDF order.  `Exchange` is the
timer's clear, receive and send.  A packet may be late, be overtaken or never come; the
history variable `late` says whether one has missed the first receive after it was sent,
and `RemovedDone` is stated for behaviours in which none has.

### Criticality

The two loads of `system_criticality_level` in `scheduler_tick`, the unconditional
store in `handle_mode_change` and the timer's conditional one are separate actions.
`Broadcast` puts the packet into the sender's own socket at once and into the
network for everybody else.  That the own packet arrives is an assumption: `sendto`
may fail, and nobody looks at its result (`ipc.c:191`, see the observed limits).  In `handle_running_job` the new level is any from the
current one up: which, depends on the task's budgets.

### Logger

`Claim`, `Fill` and `Wake`, `Post` are the steps of the `LOG` macro that another thread can
see: a slot is claimed, then filled, then the flag is exchanged and, if it was clear, the
semaphore posted.  The logger takes lines until it meets a slot that is not full, clears
the flag and tests for shutdown.  `missed` is a history variable: since the logger
woke, a `LOG` ran its exchange after the logger had found the queue empty and before it
cleared the flag (`log.c:43-45`).  Threads leave before `main` shuts the logger down,
as `processor_run` joins them before `processor_cleanup`.

## The runs

| Run | Instance | States | Shows |
|---|---|---|---|
| `scheduler` | 2 cores, 3 jobs (2 + 1), queues of 3 slots | 1 737 772 | safety of `Scheduler`, no circle of locks, never all cores waiting |
| `scheduler_ticks` | 2 cores, 2 jobs, fairness | 119 857 | `Scheduler` implements `JobLifecycle`; every tick ends |
| `ring_buffer` | 3 threads, 3 slots, 5 tickets, 1 value, fairness | 266 687 | whole elements, `TicketQueue`, slots come |
| `barrier` | 3 threads, 6 rounds, fairness | 806 | no wake-up lost, `Rendezvous`, everybody gets through |
| `processor` | 2 processors of 2 cores, 3 ticks, queue of 6, fairness | 113 090 | ticks, clocks, exit status, room for messages; the simulation ends unless a deadline is missed |
| `processor_hang` | the same | | **violation**: it hangs after a deadline miss |
| `completion` | 2 processors, period 3, deadline 1, 3 jobs | 3.3 million | copies stopped only for completed ones, no message dropped |
| `completion_next` | 2 processors, period = deadline = 3, 2 jobs | | **violation**: the next job is removed |
| `criticality` | 2 processors of 2 cores, 2 levels, fairness | 475 528 | levels never fall, are announced, and agree in the end |
| `delegation` | 2 cores; tasks of periods 2 and 3 on one, 4 on the other; 1 record per core, 6 ticks | 1 929 926 | every job released in its tick by a core that is awake, twice exactly if its ack was late |
| `timing` | tasks (period, deadline, wcet) (24, 24, 3) and (8, 8, 4), guests of (10, 6, 5), speeds 4 and 3 of 4, 24 ticks | 42 450 | no deadline is missed, promises fit at all later deadlines |
| `logger` | 2 threads and `main`, 3 slots, fairness | 10 039 | the flag is not left set, a line is overlooked only through the gap, shutdown returns |

`TypeOK` of the modules that have a proof module is proved and not among the runs'
properties, like the invariants that the proofs need or give (`PoolExact`, `ClaimHasSlot`,
`QuietAtBarrier`, `NothingLost`, `NobodyEarly`, `NeverAllAsleep`, `NoHalfTick`, `MissIsLast`,
`HandlersInstalled`, `NeverStopsShort`, `QuietMeansAgreed`, `WakeupsBounded`, `NeverSleepsThrough`); every one of them
was checked in the instance of its run before it was proved.

Why the bounds suffice.  `Scheduler`: two cores are the smallest number with crossing
offers and a locked pair; three jobs let one core run one, have one waiting under
offer and see the other's; pools of different owners make the remote free list used.
Queues have a slot for every job.  That is an assumption about the workload: the code
has 32 slots and 50 job structs per core, and with more outstanding offers than slots a
core spins in `ring_buffer_enqueue` while it holds its run-queue lock (`sched_migration.c:170`,
see the observed limits); `NobodyStuck` has it as a premise.  `RingBuffer`: three slots are the fewest that
`ring_buffer_init` accepts and five tickets go round it; one value tells an element from
no element, and that elements are not exchanged is proved for all values.
`Barrier`: a late waiter of one round, one of the next and the last to come need three
threads.  `Processor`: three ticks have a first, a middle and a last; `Completion`:
a message can meet its own job, the next one and a later one; the bound of the time is
`LastTick`, a period after the last release.  `Processor`'s queue of 6 is what two
processors of two cores need, (2 (P - 1) + 1) C slots, and with one fewer the timer would
block.  `Criticality`: two levels are enough for a store that overwrites; that all levels
are safe is proved.  `Delegation`: with one record and a lookahead of four ticks a record
is freed and used again while an answer is on its way, the cooldown of two ticks
lets several offers follow each other, and the periods give ticks in which a core must
wake for its own task and for another's; the proofs are for any tasks.  `Timing`: the 24
ticks are the hyperperiod of the local tasks; the wcets leave just enough slack for a guest, for the
lower speed or for a sleep, but not for all of them.  `Logger`: the queue fills up while
one thread holds a claimed slot; the proofs are for any size.

`CHECK_DEADLOCK FALSE` is set where the system stops: a simulation that has ended (or
hangs, which is what `processor_hang` is about), releases or ticks that are bounded
(`Completion`, `Delegation`, `Timing`, where the core also halts at a miss), tickets or rounds
used up, and a logger that has been shut down.

### Fairness

* `Scheduler`: weak fairness of each thread (the kernel schedules it), and strong
  fairness of the ends of loops over finite lists: such a loop cannot be repeated
  for ever although it could end.  Nothing is assumed about the order in which
  waiters obtain a mutex.
* `RingBuffer`: weak fairness of operations that have begun.  Nobody need begin one.
* `Barrier`: weak fairness of calls (the loops call again) and of a woken thread's
  second look at `cycle`, that is, a mutex that is not starved; none of spurious wake-ups.
* `Processor`: weak fairness of threads, processes and the parent; none of Ctrl-C.
* `Criticality`: weak fairness of cores, timers and the network, for `Agreement` alone: it asks
  what happens if packets arrive in the end.  The other properties hold whatever packets from
  other processors are lost.
* `Logger`: weak fairness of a `LOG` that has begun, of the logger thread and of a shutdown that has
  begun.  Nobody need log, and nobody need shut down.
* `Delegation` and `Timing` have safety properties only: their time stops at a bound.

## The proofs

All with TLAPS, for every value of the constants under the named assumptions of the
modules.

* **`SchedulerProofs`**: `TypeOK`, the safety properties of `scheduler` and `QuietAtBarrier`, for any
  cores, jobs, owners and capacities.  Reference counts are not inductive alone: that a
  dropped reference was there needs the exact list of who holds the job, hence the
  step-by-step `LockExact` (who holds which lock), `HandsExact` (which thread has a job in
  hand), `UniqueRequest` (a job is under one request, whichever queue or thread it is in)
  and `WaitsAtHome` (a requested job is with its sender, flagged).  `IInv` is their
  conjunction; `PoolsExact` and `LocksOrdered` (a core that waits for its second lock has the
  first of the pair, in one order for all) follow from it.  `NextInv` has a lemma for each action, and lemmas (`CountsPut`,
  `WaitsKept`, `RequestEnds`, ...) for what many actions share.
  The refinement of `JobLifecycle` (`Refinement`) is proved on top of it.  A job's phase is
  computed from its `pool`, `link`, `state` and who runs or holds it (`View`), and `IInv` leaves few
  combinations of these (`Sight`, which follows from `IInv`); one lemma per group of actions
  (`DispatchLife`, `AcceptLife`, ...) maps the step to a step of `JobStep` or to a stutter,
  for every job.  It needs one more invariant: an unclaimed future job is offered by its owner
  (`OwnersOffer`), or the core that accepts it could be the one that gave it away.  From the refinement
  follow two statements that no run checks: no ready job is ever outside of every list, slot
  and hand while its job_struct is in use (`NoneForgotten`), and a job changes cores
  neither while it runs nor between its acceptance ahead of time and its release (`KeepsItsCore`).
  `NeverAllStuck` is the safety half of `TicksEnd`: the cores never all wait for one another.
  A core that stands for the slot it has claimed has that slot in a queue (`ClaimsHaveSlots`), by the
  premise among the first `QCap`; so if all stand, whoever is not at the barrier wants a lock, and the
  holder of a lock wants a higher one, a climb that a finite set of cores ends (`NoEndlessClimb`).
* **`RingBufferProofs`**: `TypeOK`, `NoTearing`, `NothingLost` and the refinement of
  `TicketQueue`, for any ring of at least three slots and any threads.  The argument:
  a slot's number is a put's or a get's ticket of that slot (`TypeOK`), bounded by the
  counters (`SlotBounds`); drawn tickets are unique (`TicketsUnique`) and not yet used
  (`TicketsExact`), so whoever copies owns the slot.  Two tickets of a slot are a
  multiple of `Size` apart, which is the arithmetic of the lemmas.
* **`BarrierProofs`**: `TypeOK`, `NobodyEarly`, `NoLostWakeup` and the refinement of
  `Rendezvous`, for any finite set of threads, under `MaxRounds <= CurCycles`, an
  assumption of each theorem and a necessary one (see the observed limits).  `CountExact`
  ties `count` to the threads that wait in this cycle, `RoundsExact` says how far each is.
  Both together give `SomebodyAwake`: the users of a barrier are never all asleep in it.
* **`CriticalityProofs`**: `TypeOK`, `Covered`, `NeverFalls` and `HighestKnown` for any processors,
  cores and levels and a network between the processors that may lose or delay anything; only the
  packet that a processor sends to itself is sure to arrive.  The invariant says that a level is
  remembered by the processor or in its own socket (`Remembered`), that a store which
  overwrites a higher level has that level coming back (`Restored`), and that a core that has not
  loaded yet is below all that others have adopted (`NotAbove`).  `LevelsKnown` follows every level that is
  anywhere to every processor; with it, when no packet is under way and all cores have looked,
  all of them agree (`QuietAgreement`), which is `Agreement` without the fairness.
* **`ProcessorProofs`**: `TypeOK`, `InStep`, `LockStep`, `NoHalfTick`, `MissIsLast`, `HandlersInstalled` and
  `SuccessMeansNoMiss` for any processors, cores and number of ticks.  The argument is where the
  threads can be: while a core is in its tick the timer waits at the first barrier, while
  the timer works the cores wait at the second, and a timer that waits for the others has
  a clock no further than any of theirs.  A process that has not started holds the third barrier
  shut, and with it all others in their first tick (`HeldBack`).
  `TimerNeverBlocks` (`RoomForMail`) needs numbers as well: what is in a processor's queue is bounded by
  the pairs of a sender and a tick since the receiver last looked, times the cores of a processor
  (`MailCounted`), and the third barrier leaves at most two ticks of every other processor and
  one of its own.  The theorem assumes `RoomForTicks`: finitely many processors, and a queue of
  (2 P - 1) C slots.  The repository's 64 slots (`ipc.h:9`) satisfy it for up to 64 cores on one processor,
  21 on each of two or 12 on each of three; `MCProcessor` has exactly as many as it asks for.
  `NobodyStopsShort`, under the same assumption, is the safety half of `RunsToTheEnd`: unless a
  deadline is missed the barriers never wait for one another.  A barrier never has all its
  parties (`NotFull`), some timer is not at the barrier between the processors (`TimersApart`), and
  where it waits instead one of its own threads does not; who has left did so after the last tick
  (`OnTime`), so on that processor somebody can go on or all have ended.
* **`CompletionProofs`**: `TypeOK`, `StopOnItsWay` and, under `TimeToHear` (`Deadline + 2 <= Period`,
  which `completion_next` shows to be needed in some form), `RemovedDone`, for any processors, period and
  number of jobs.  The invariant bounds by the deadline of its job when a message is sent,
  in flight and received (`SentInTime`, `FlightInTime`, `ReceivedInTime`), so a later job
  is not there yet to be hit; an earlier one that is still running is over where the
  job of the message completed, because cores keep to the order of deadlines (`Ordered`).  A copy that
  arrives after another one completed is one tick behind, and the message has not been sent.
* **`DelegationProofs`**: `TypeOK`, `ReleasedInTick`, `NeverLate`, `SenderLearns`, `OneTaker` and `AcksFit`
  for any tasks, cores, periods, lookahead and pool.  The invariant follows a job from its offer
  (a record and a request) to the answer (an ack and a pending job) and to the record that
  says `owned_by_remote`; a record is freed only when its job is past, and a core that
  sleeps wakes no later than the first arrival that is its own business.  How often a job is
  released is counted on top of that (`Tally`): once by the core that has it pending, if one has, and
  once by its home core unless that has read the ack.  The sum is two exactly for the jobs in `unread`.
* **`LoggerProofs`**: `TypeOK`, `NextLineWakes`, `WakeupsBounded` and `OverlookedInGap` for any
  writers and any queue.  While the logger waits, a set flag has a post under way
  (`FlagAnswered`), a line has one too or was missed (`LineAnswered`), and every post has one
  of three reasons (`WakeupsFrom`).  `EndNotSleptThrough`: after the post of `log_system_shutdown` a
  logger that waits has a wake-up to take, since it goes to wait only after a test that came before the flag.

Every invariant of the runs is also proved, except those of `Timing`, and so are all three refinements.
Only model-checked: everything under fairness (`TicksEnd`, `SlotComes`, `EverybodyThrough`,
`RunsToTheEnd`, `Agreement`, `ShutdownReturns`; liveness is out of the
prover's reach, but what could go wrong in one state is proved for each: `NeverAllStuck`,
`NoneLost`, `SomebodyAwake`, `NobodyStopsShort`, `QuietAgreement`, `EndNotSleptThrough`).  That a thread which
does not stand (`Stands`, `Goes`) has an enabled action is a statement about `ENABLED`, which the prover
cannot reason about either; it is read off the guards, and the liveness runs depend on it.
`Timing` has no proof module.  Its `NoMiss` and `HorizonSuffices` are not
true of all constants (the local tasks must be schedulable, and the horizon is capped), and their
argument compares sums over sets of jobs, which would need induction over data.

## Findings

1. **A deadline miss hangs a system of several processors** (`processor.c:69`, run
   `processor_hang`).  The failing processor leaves; the timers of the others wait at
   `proc_barrier` for it, SIGUSR1 sets a flag that nobody in a barrier looks at, and
   `main` waits for its children for ever.
2. **A completion message can remove the next job** (`sched_core.c:90`, run
   `completion_next`).  The running job is compared by task id only.  The message that a
   core itself caused returns by loopback; if the next job of the task is running by
   then, it is removed and perhaps no copy of it ever completes.  With two ticks or more between
   deadline and period, and no packet late, this does not happen (`RemovalsAreRight`).

### Observed limits

What the code does and no document denies, met while modelling.

* **The barrier** compares `unsigned cur_cycle` with a 64-bit `cycle` (`barrier.c:62`): after
  2^32 rounds they differ for ever and nobody waits any more.  Hence `MaxRounds <= CurCycles`.
* **Logging can stall.**  If lines fill the queue in the gap between the logger's last look
  and the store that clears the flag, every later `LOG` drops its line before the exchange that
  would wake the logger.  And a logger that sees the shutdown flag leaves without another look:
  the last lines, the one of `processor_cleanup` among them, may stay in the queue.
* **A job can be released twice.**  An ack that is put into the queue after the sender has
  read it in the tick before the arrival is read only after the arrival: the sender releases the
  job and the other core does too.  `ReleasedInTick` says that it is then released twice
  (`unread`), and in every other case once.
* **A future job can cost a deadline.**  The admission test for it overlooks local jobs that arrive
  before it and have work left then (`overlooked`; the premise of `NoMiss` excludes exactly that).
* **Levels rest on the loopback.**  A core can overwrite a higher level that another one has just
  stored; what repairs it before the next tick is the processor's own packet.  The result of `sendto`
  is ignored (`ipc.c:191`).  Were the own packet lost, the level would be lost with it and a core
  would fall back: TLC shows it when `Broadcast` is replaced by `ToOthers`.
* **A migration queue** is drained by its own core only, and not while that core sleeps.  A core that
  claims a ticket beyond its slots spins in `ring_buffer_enqueue` (`sched_migration.c:170`) and does not
  come to the barrier: with `QCap = 1` and three jobs TLC finds this deadlock.  The code has 32
  slots for the offers of all other cores' 50 job structs, and nothing but the admission of offers keeps
  them apart.
* **The incoming queue** of 64 slots must have (2 (NUM_PROC - 1) + 1) NUM_CORES_PER_PROC of
  them, or the timer waits for ever in its own blocking enqueue; no build check says so.

## Not modelled

* What chooses a destination: `core_summaries`, `find_best_fit_for_job`,
  `is_migration_profitable`, `get_util`; and `generate_acet`.  Every outcome is possible in the
  modules.  With it stays open whether the 32 slots of a migration queue can ever be exceeded.
* In `Timing`: several levels of criticality and their virtual deadlines, the rounding of floats, the
  cap of `MAX_DEADLINES` deadlines.
* The position at which a job is inserted into a sorted list (`Timing` takes one of the
  earliest deadline).
* Packet parsing, socket errors; failures of `fork`,
  `pthread_create` and `shmget`; `barrier_destroy` and the clean-up after the threads have ended.
* Weak memory beyond the acquire/release pairs named above.
* The offline allocator and the other Python tools, the test framework and the unit tests.

## Plan

The order was chosen by what a test is least likely to reach: job structs between
cores and the migration protocol first, then the primitives they stand on (ring buffer,
barrier), then the processes and the messages, then what decides about jobs
(`Delegation`, `Timing`) and the logger.  What is left:

1. `Summary`: the choice of destinations and the sleep of cores, with the 32 slots of
   the migration queues (`sched_migration.c:170`).
2. `Timing` at several levels, with virtual deadlines and a mode change.
3. Sorted insertion into the lists, against a reference definition.
4. Proofs: the types of `Timing`, and that its jobs are told apart by task and arrival.
5. The allocator's deadline tuning, if its search can be stated in small instances.
