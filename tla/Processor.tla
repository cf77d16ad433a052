----------------------------- MODULE Processor -----------------------------
(***************************************************************************)
(* processor.c and main.c: the processes, their threads, and how time goes *)
(* on and comes to an end.                                                 *)
(*                                                                         *)
(* main forks a process for every processor.  The cores of a processor and *)
(* its timer meet at two barriers in every tick, and the timers of all     *)
(* processors at a third one; a barrier is what module Rendezvous says,    *)
(* which Barrier implements.  What a core does inside scheduler_tick is    *)
(* the subject of module Scheduler: here it may miss a deadline.           *)
(***************************************************************************)
EXTENDS Integers, FiniteSets

CONSTANTS
    Procs, Cores, Timer,
    TotalTicks,     \* TOTAL_TICKS of the build, with a limit
    QueueSize,      \* MESSAGE_QUEUE_SIZE
    Never           \* no miss so far

ASSUME TimerAssumption == Timer \notin Cores
ASSUME TicksAssumption == TotalTicks \in Nat \ {0}
ASSUME MissAssumption  == Never \notin Nat
ASSUME SizeAssumption  == QueueSize \in Nat /\ IsFiniteSet(Cores)

VARIABLES
    pc,             \* thread -> where it is in its loop
    time,           \* processor -> proc_state.system_time
    shutdown,       \* processor -> proc_shutdown_requested
    missed,         \* processor -> core_fatal_shutdown_requested: the time of
                    \* the first store, or Never
    proc,           \* processor -> the state of its process
    main,           \* where the parent process is
    pending,        \* the processors with SIGUSR1 on its way
    interrupted,    \* shutdown_requested of main, set by SIGINT
    ticks,          \* history: core -> calls of scheduler_tick
    mail            \* processor -> completion messages in its socket, at most

vars == <<pc, time, shutdown, missed, proc, main, pending, interrupted, ticks,
          mail>>

TimerOf(p) == <<p, Timer>>
Crew(p)    == {p} \X (Cores \cup {Timer})
Threads    == UNION {Crew(p) : p \in Procs}
Timers     == {TimerOf(p) : p \in Procs}

Init ==
    /\ pc = [t \in Threads |-> "loop"]
    /\ time = [p \in Procs |-> 0]
    /\ shutdown = [p \in Procs |-> FALSE]
    /\ missed = [p \in Procs |-> Never]
    /\ proc = [p \in Procs |-> "starting"]
    /\ main = "waiting" /\ pending = {} /\ interrupted = FALSE
    /\ ticks = [t \in Procs \X Cores |-> 0]
    /\ mail = [p \in Procs |-> 0]

Fatal(p)   == missed[p] # Never
Running(p) == proc[p] = "running"
At(t, s)   == Running(t[1]) /\ pc[t] = s
Goto(t, s) == pc' = [pc EXCEPT ![t] = s]

\* Where the threads of a party go on when a barrier opens.
Behind(t, b) == CASE b = "completion" -> "met"
                  [] b = "sync" /\ t[2] = Timer -> "synced"
                  [] OTHER -> "loop"

\* barrier_wait: the last thread of the party lets the others through.
WaitAt(t, b, party) ==
    pc' = IF \A u \in party \ {t} : pc[u] = b
          THEN [u \in Threads |-> IF u \in party THEN Behind(u, b) ELSE pc[u]]
          ELSE [pc EXCEPT ![t] = b]

-----------------------------------------------------------------------------
(***************************************************************************)
(* core_thread_func                                                        *)
(***************************************************************************)
CoreLoop(p, c) ==
    /\ At(<<p, c>>, "loop")
    /\ Goto(<<p, c>>, IF shutdown[p] THEN "left" ELSE "tick")
    /\ UNCHANGED <<time, shutdown, missed, proc, main, pending, interrupted,
                   ticks, mail>>

\* The end of scheduler_tick, and the first barrier.
Tick(p, c) ==
    /\ At(<<p, c>>, "tick")
    /\ ticks' = [ticks EXCEPT ![<<p, c>>] = @ + 1]
    /\ \/ UNCHANGED missed
       \/ /\ ~Fatal(p)
          /\ missed' = [missed EXCEPT ![p] = time[p]]
    /\ WaitAt(<<p, c>>, "completion", Crew(p))
    /\ UNCHANGED <<time, shutdown, proc, main, pending, interrupted, mail>>

\* mutant: no second barrier
SkipSync(p, c) ==
    /\ At(<<p, c>>, "met") /\ Goto(<<p, c>>, "loop")
    /\ UNCHANGED <<time, shutdown, missed, proc, main, pending, interrupted,
                   ticks, mail>>

CoreSync(p, c) ==
    /\ At(<<p, c>>, "met")
    /\ WaitAt(<<p, c>>, "sync", Crew(p))
    /\ UNCHANGED <<time, shutdown, missed, proc, main, pending, interrupted,
                   ticks, mail>>

(***************************************************************************)
(* timer_thread_func                                                       *)
(***************************************************************************)
TimerLoop(p) ==
    /\ At(TimerOf(p), "loop")
    /\ IF shutdown[p] THEN Goto(TimerOf(p), "left")
                      ELSE WaitAt(TimerOf(p), "completion", Crew(p))
    /\ UNCHANGED <<time, shutdown, missed, proc, main, pending, interrupted,
                   ticks, mail>>

TimerMet(p) ==
    /\ At(TimerOf(p), "met")
    /\ Goto(TimerOf(p), IF shutdown[p] THEN "left" ELSE "work")
    /\ UNCHANGED <<time, shutdown, missed, proc, main, pending, interrupted,
                   ticks, mail>>

\* ring_buffer_clear and ipc_receive_completion_messages, whose enqueue would
\* wait for room for ever: nobody else takes anything out.
Receive(p) ==
    /\ At(TimerOf(p), "work") /\ mail[p] <= QueueSize
    /\ mail' = [mail EXCEPT ![p] = 0]
    /\ Goto(TimerOf(p), "received")
    /\ UNCHANGED <<time, shutdown, missed, proc, main, pending,
                   interrupted, ticks>>

\* ipc_send_completion_messages: every core may have completed a job in the
\* tick, and a multicast reaches every processor, the sender's own too.
Send == mail' = [q \in Procs |-> mail[q] + Cardinality(Cores)]

\* mutant: off by one
AdvanceOnce(p) ==
    /\ At(TimerOf(p), "received")
    /\ time' = [time EXCEPT ![p] = @ + 1]
    /\ shutdown' = [shutdown EXCEPT ![p] = @ \/ Fatal(p) \/ time[p] >= TotalTicks]
    /\ Send
    /\ WaitAt(TimerOf(p), "sync", Crew(p))
    /\ UNCHANGED <<missed, proc, main, pending, interrupted, ticks>>

\* Discarded jobs, the miss, the time, the messages, and the second barrier: no
\* core of the processor looks at any of it before it is through that.
Advance(p) ==
    /\ At(TimerOf(p), "received")
    /\ time' = [time EXCEPT ![p] = @ + 1]
    /\ shutdown' = [shutdown EXCEPT ![p] =
                      @ \/ Fatal(p) \/ time[p] + 1 >= TotalTicks]
    /\ Send
    /\ WaitAt(TimerOf(p), "sync", Crew(p))
    /\ UNCHANGED <<missed, proc, main, pending, interrupted, ticks>>

\* mutant: the processors run free
SkipProc(p) ==
    /\ At(TimerOf(p), "synced") /\ Goto(TimerOf(p), "loop")
    /\ UNCHANGED <<time, shutdown, missed, proc, main, pending, interrupted,
                   ticks, mail>>

TimerProc(p) ==
    /\ At(TimerOf(p), "synced")
    /\ WaitAt(TimerOf(p), "proc", Timers)
    /\ UNCHANGED <<time, shutdown, missed, proc, main, pending, interrupted,
                   ticks, mail>>

-----------------------------------------------------------------------------
(***************************************************************************)
(* The processes and main                                                  *)
(***************************************************************************)
\* processor_init, which installs the handler of SIGUSR1, and the threads.
Start(p) ==
    /\ proc[p] = "starting" /\ proc' = [proc EXCEPT ![p] = "running"]
    /\ UNCHANGED <<pc, time, shutdown, missed, main, pending, interrupted,
                   ticks, mail>>

\* mutant: the miss is not reported
ExitSuccess(p) ==
    /\ Running(p) /\ \A t \in Crew(p) : pc[t] = "left"
    /\ proc' = [proc EXCEPT ![p] = "succeeded"]
    /\ UNCHANGED <<pc, time, shutdown, missed, main, pending, interrupted,
                   ticks, mail>>

\* processor_run has joined all threads.
Exit(p) ==
    /\ Running(p) /\ \A t \in Crew(p) : pc[t] = "left"
    /\ proc' = [proc EXCEPT ![p] = IF Fatal(p) THEN "failed" ELSE "succeeded"]
    /\ UNCHANGED <<pc, time, shutdown, missed, main, pending, interrupted,
                   ticks, mail>>

\* waitpid, in either loop; the first failure ends the first loop.
Reap(p) ==
    /\ main \in {"waiting", "draining"} /\ proc[p] \in {"succeeded", "failed"}
    /\ proc' = [proc EXCEPT ![p] = "reaped"]
    /\ main' = IF main = "waiting" /\ proc[p] = "failed" THEN "killing" ELSE main
    /\ UNCHANGED <<pc, time, shutdown, missed, pending, interrupted,
                   ticks, mail>>

\* The loop of kill; when a process sees the signal is its own affair.
Kill ==
    /\ main = "killing" /\ main' = "draining"
    /\ pending' = {p \in Procs : proc[p] # "reaped"}
    /\ UNCHANGED <<pc, time, shutdown, missed, proc, interrupted, ticks, mail>>

\* processor_sigusr_handler, or death of a process that has not installed it,
\* which HandlersInstalled rules out.
Deliver(p) ==
    /\ p \in pending /\ pending' = pending \ {p}
    /\ shutdown' = [shutdown EXCEPT ![p] = @ \/ Running(p)]
    /\ proc' = [proc EXCEPT ![p] = IF @ = "starting" THEN "failed" ELSE @]
    /\ UNCHANGED <<pc, time, missed, main, interrupted, ticks, mail>>

\* SIGINT restarts waitpid (BSD semantics of signal): only the flag is left.
Interrupt ==
    /\ main = "waiting" /\ interrupted' = TRUE
    /\ UNCHANGED <<pc, time, shutdown, missed, proc, main, pending,
                   ticks, mail>>

\* No child is left: the end of the first loop, or ECHILD.
Finish ==
    /\ main \in {"waiting", "draining"} /\ \A p \in Procs : proc[p] = "reaped"
    /\ main' = IF main = "draining" \/ interrupted THEN "failed" ELSE "succeeded"
    /\ UNCHANGED <<pc, time, shutdown, missed, proc, pending, interrupted,
                   ticks, mail>>

Core(p, c) == CoreLoop(p, c) \/ Tick(p, c) \/ CoreSync(p, c)
Clock(p)   == TimerLoop(p) \/ TimerMet(p) \/ Receive(p) \/ Advance(p) \/ TimerProc(p)
Process(p) == Start(p) \/ Exit(p) \/ Deliver(p)
Parent     == Kill \/ Finish \/ \E p \in Procs : Reap(p)

Next ==
    \/ Parent \/ Interrupt
    \/ \E p \in Procs : \/ Process(p) \/ Clock(p)
                        \/ \E c \in Cores : Core(p, c)

Spec == Init /\ [][Next]_vars

\* Every thread and every process is scheduled; nobody need press Ctrl-C.
FairSpec ==
    /\ Spec /\ WF_vars(Parent)
    /\ \A p \in Procs : /\ WF_vars(Process(p)) /\ WF_vars(Clock(p))
                        /\ \A c \in Cores : WF_vars(Core(p, c))

-----------------------------------------------------------------------------
(***************************************************************************)
(* Properties                                                              *)
(***************************************************************************)
Ended(p) == proc[p] \in {"succeeded", "failed", "reaped"}
Done     == main \in {"succeeded", "failed"}

\* The types; the simulation does not run beyond its last tick.
TypeOK ==
    /\ pc \in [Threads -> {"loop", "tick", "completion", "met", "work", "received",
                           "sync", "synced", "proc", "left"}]
    /\ time \in [Procs -> 0 .. TotalTicks]
    /\ shutdown \in [Procs -> BOOLEAN]
    /\ missed \in [Procs -> {Never} \cup 0 .. TotalTicks - 1]
    /\ proc \in [Procs -> {"starting", "running", "succeeded", "failed", "reaped"}]
    /\ main \in {"waiting", "killing", "draining", "succeeded", "failed"}
    /\ pending \in SUBSET Procs /\ interrupted \in BOOLEAN
    /\ ticks \in [Procs \X Cores -> 0 .. TotalTicks]
    /\ mail \in [Procs -> Nat]

\* Every core runs scheduler_tick once at every value of system_time, and the
\* time stands still while one of them is in it.
InStep ==
    \A p \in Procs, c \in Cores :
        /\ ticks[<<p, c>>] \in {time[p], time[p] + 1}
        /\ pc[<<p, c>>] = "tick" => ticks[<<p, c>>] = time[p]

\* The processors' clocks are never more than a tick apart, whoever is
\* interrupted, signalled or stopped by a deadline miss.
LockStep == \A p, q \in Procs : time[p] <= time[q] + 1

\* A processor that comes to an end has completed its last tick: no core was
\* left out and no core went further than the clock.
NoHalfTick ==
    \A p \in Procs : Ended(p) =>
        \A c \in Cores : ticks[<<p, c>>] = time[p]

\* After the tick in which a deadline was missed no core of the processor runs
\* another one.
MissIsLast ==
    \A p \in Procs, c \in Cores :
        Fatal(p) => ticks[<<p, c>>] <= missed[p] + 1

\* SIGUSR1 finds its handler installed in every process: nobody can fail before
\* all timers have passed the barrier between the processors, so main neither
\* kills a process that is still starting nor does it end without it.
HandlersInstalled ==
    main # "waiting" \/ pending # {} => \A p \in Procs : proc[p] # "starting"

\* The exit status of the simulation tells of every deadline miss.
SuccessMeansNoMiss == main = "succeeded" => \A p \in Procs : ~Fatal(p)

\* The timer never waits for room in the queue that only it empties: the
\* processors are close enough together that what comes between two looks at
\* the socket (two ticks of every other processor, one of its own) fits.
TimerNeverBlocks ==
    \A p \in Procs : mail[p] <= QueueSize

\* A thread that can go on by itself: it is not at a barrier, not done, and, in
\* the timer, has room to receive.
Goes(t) ==
    /\ Running(t[1])
    /\ pc[t] \notin {"completion", "sync", "proc", "left"}
    /\ pc[t] = "work" => mail[t[1]] <= QueueSize

\* The barriers of the processors and the one between them never wait for each
\* other in a circle, and no timer leaves while another one waits for it: unless
\* a deadline is missed, when no thread can go on every processor has done its
\* last tick.  (After a miss that is not so: see HaltsAfterMiss.)
NeverStopsShort ==
    \/ \E p \in Procs : Fatal(p)
    \/ \E p \in Procs : proc[p] = "starting"
    \/ \E t \in Threads : Goes(t)
    \/ \A p \in Procs : time[p] = TotalTicks /\ \A t \in Crew(p) : pc[t] = "left"

\* Unless a deadline is missed every processor runs to the last tick and the
\* simulation ends, Ctrl-C or not.
RunsToTheEnd ==
    \/ <>(\E p \in Procs : Fatal(p))
    \/ <>(Done /\ \A p \in Procs : time[p] = TotalTicks)

\* "System Halted due to Deadline Miss": the simulation comes to an end.
HaltsAfterMiss == (\E p \in Procs : Fatal(p)) ~> Done
=============================================================================
