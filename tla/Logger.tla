------------------------------- MODULE Logger -------------------------------
(***************************************************************************)
(* log.c and the LOG macro: cores, timer and main put lines into a ring    *)
(* buffer and never wait; a thread of its own writes them to the file.     *)
(*                                                                         *)
(* The queue is what module TicketQueue says of a ring buffer: a slot is   *)
(* claimed first and filled later, and a try_dequeue fails at a slot that  *)
(* is not full.  A thread that finds log_wakeup_pending clear sets it and  *)
(* posts the semaphore; the logger clears it when the queue is drained.    *)
(* What a line says does not matter here.                                  *)
(***************************************************************************)
EXTENDS Integers, Sequences, FiniteSets

CONSTANTS
    Threads,        \* core and timer threads, which end before the logger
    Main,           \* the thread that calls log_system_shutdown
    QSize           \* LOG_QUEUE_SIZE

ASSUME MainAssumption  == Main \notin Threads /\ IsFiniteSet(Threads)
ASSUME QSizeAssumption == QSize \in Nat \ {0}

Writers == Threads \cup {Main}
Full    == "full"
ASSUME FullAssumption  == Full \notin Writers

VARIABLES
    queue,      \* the slots in use: the thread that has claimed it, or Full
    pending,    \* log_wakeup_pending
    sem,        \* the value of log_sem
    shutdown,   \* log_shutdown_requested
    wpc,        \* writer -> where it is in LOG, or in log_system_shutdown
    lpc,        \* where the logger thread is
    missed      \* history: since the logger woke, a LOG has found the flag set
                \* after the logger's last look at the queue

vars == <<queue, pending, sem, shutdown, wpc, lpc, missed>>

Init ==
    /\ queue = <<>> /\ pending = FALSE /\ sem = 0 /\ shutdown = FALSE
    /\ wpc = [w \in Writers |-> "run"]
    /\ lpc = "start" /\ missed = FALSE

Goto(w, s) == wpc' = [wpc EXCEPT ![w] = s]

-----------------------------------------------------------------------------
(***************************************************************************)
(* LOG                                                                     *)
(***************************************************************************)
\* ring_buffer_try_enqueue, up to the compare-and-swap of tail
Claim(w) ==
    /\ wpc[w] = "run" /\ Len(queue) < QSize
    /\ queue' = Append(queue, w)
    /\ Goto(w, "fill")
    /\ UNCHANGED <<pending, sem, shutdown, lpc, missed>>

\* It fails: the line is lost, and nobody is woken.
Drop(w) ==
    /\ wpc[w] = "run" /\ Len(queue) = QSize
    /\ UNCHANGED vars

\* its memcpy and the store of seq
Fill(w) ==
    /\ wpc[w] = "fill"
    /\ queue' = [i \in DOMAIN queue |-> IF queue[i] = w THEN Full ELSE queue[i]]
    /\ Goto(w, "wake")
    /\ UNCHANGED <<pending, sem, shutdown, lpc, missed>>

\* mutant: whoever sets the flag does not post
WakeNobody(w) ==
    /\ wpc[w] = "wake"
    /\ pending' = TRUE
    /\ Goto(w, "run")
    /\ missed' = (missed \/ (pending /\ lpc = "clear"))
    /\ UNCHANGED <<queue, sem, shutdown, lpc>>

\* atomic_exchange(&log_wakeup_pending, 1)
Wake(w) ==
    /\ wpc[w] = "wake"
    /\ pending' = TRUE
    /\ Goto(w, IF pending THEN "run" ELSE "post")
    /\ missed' = (missed \/ (pending /\ lpc = "clear"))
    /\ UNCHANGED <<queue, sem, shutdown, lpc>>

Post(w) ==
    /\ wpc[w] = "post"
    /\ sem' = sem + 1
    /\ Goto(w, "run")
    /\ UNCHANGED <<queue, pending, shutdown, lpc, missed>>

(***************************************************************************)
(* The end: processor_run joins the threads, processor_cleanup logs a last *)
(* line and calls log_system_shutdown.                                     *)
(***************************************************************************)
Leave(w) ==
    /\ w \in Threads /\ wpc[w] = "run"
    /\ Goto(w, "left")
    /\ UNCHANGED <<queue, pending, sem, shutdown, lpc, missed>>

RequestShutdown ==
    /\ wpc[Main] = "run" /\ \A w \in Threads : wpc[w] = "left"
    /\ shutdown' = TRUE
    /\ Goto(Main, "flagged")
    /\ UNCHANGED <<queue, pending, sem, lpc, missed>>

\* mutant: the flag is set without waking the logger
FlagOnly ==
    /\ wpc[Main] = "flagged"
    /\ Goto(Main, "joining")
    /\ UNCHANGED <<queue, pending, sem, shutdown, lpc, missed>>

PostShutdown ==
    /\ wpc[Main] = "flagged"
    /\ sem' = sem + 1
    /\ Goto(Main, "joining")
    /\ UNCHANGED <<queue, pending, shutdown, lpc, missed>>

Join ==
    /\ wpc[Main] = "joining" /\ lpc = "exited"
    /\ Goto(Main, "left")
    /\ UNCHANGED <<queue, pending, sem, shutdown, lpc, missed>>

-----------------------------------------------------------------------------
(***************************************************************************)
(* logger_thread_func                                                      *)
(***************************************************************************)
LoggerStart ==
    /\ lpc = "start" /\ lpc' = "test"
    /\ pending' = FALSE
    /\ UNCHANGED <<queue, sem, shutdown, wpc, missed>>

TestShutdown ==
    /\ lpc = "test"
    /\ lpc' = IF shutdown THEN "exited" ELSE "wait"
    /\ UNCHANGED <<queue, pending, sem, shutdown, wpc, missed>>

Wait ==
    /\ lpc = "wait" /\ sem > 0
    /\ sem' = sem - 1
    /\ lpc' = "drain" /\ missed' = FALSE
    /\ UNCHANGED <<queue, pending, shutdown, wpc>>

HeadFull == queue # <<>> /\ Head(queue) = Full

\* mutant: one line for every wake-up
TakeOne ==
    /\ lpc = "drain" /\ HeadFull
    /\ queue' = Tail(queue) /\ lpc' = "clear"
    /\ UNCHANGED <<pending, sem, shutdown, wpc, missed>>

\* ring_buffer_try_dequeue and fwrite
Take ==
    /\ lpc = "drain" /\ HeadFull
    /\ queue' = Tail(queue)
    /\ UNCHANGED <<pending, sem, shutdown, wpc, lpc, missed>>

Drained ==
    /\ lpc = "drain" /\ ~HeadFull
    /\ lpc' = "clear"
    /\ UNCHANGED <<queue, pending, sem, shutdown, wpc, missed>>

ClearPending ==
    /\ lpc = "clear" /\ lpc' = "test"
    /\ pending' = FALSE
    /\ UNCHANGED <<queue, sem, shutdown, wpc, missed>>

-----------------------------------------------------------------------------
Logging(w)   == Claim(w) \/ Drop(w) \/ Fill(w) \/ Wake(w) \/ Post(w)
Closing      == RequestShutdown \/ PostShutdown \/ Join
LoggerThread == LoggerStart \/ TestShutdown \/ Wait \/ Take \/ Drained \/ ClearPending

Next == \/ \E w \in Writers : Logging(w) \/ Leave(w)
        \/ Closing \/ LoggerThread

Spec == Init /\ [][Next]_vars

\* Threads are scheduled: a LOG that has begun is finished, the logger works,
\* a shutdown that has begun goes on.  Nobody need log or shut down.
FairSpec ==
    /\ Spec
    /\ \A w \in Writers : WF_vars(Fill(w) \/ Wake(w) \/ Post(w))
    /\ WF_vars(LoggerThread) /\ WF_vars(PostShutdown \/ Join)

-----------------------------------------------------------------------------
(***************************************************************************)
(* Properties                                                              *)
(***************************************************************************)
\* The types of the variables.
TypeOK ==
    /\ queue \in Seq(Writers \cup {Full}) /\ Len(queue) <= QSize
    /\ pending \in BOOLEAN /\ sem \in Nat /\ shutdown \in BOOLEAN
    /\ wpc \in [Writers -> {"run", "fill", "wake", "post", "flagged",
                            "joining", "left"}]
    /\ lpc \in {"start", "test", "wait", "drain", "clear", "exited"}
    /\ missed \in BOOLEAN

Posting == {w \in Writers : wpc[w] = "post"}

\* A set flag is never left behind: when the logger sleeps and nobody is about
\* to post, log_wakeup_pending is clear, so the next line that gets into the
\* queue wakes it, whatever it has overlooked.
NextLineWakes ==
    lpc = "wait" /\ sem = 0 /\ Posting = {} => ~pending

\* The semaphore counts wake-ups, not lines: it stays small however much is
\* logged (one for the flag, one for a line that slipped in when the logger
\* started or cleared it, one for the shutdown).
WakeupsBounded == sem + Cardinality(Posting) <= 3

\* The only gap: a line is left in the queue of a sleeping logger only if a
\* LOG ran its exchange between the logger's last look and the store that
\* clears the flag.  Everything else in the queue has a wake-up on its way.
OverlookedInGap ==
    lpc = "wait" /\ sem = 0 /\ queue # <<>> /\ ~missed =>
        \E w \in Writers : wpc[w] \in {"fill", "wake", "post"}

\* log_system_shutdown returns: the logger is awake, will be woken by its post,
\* or has seen the flag.
ShutdownReturns == shutdown ~> wpc[Main] = "left"

(***************************************************************************)
(* The inductive strengthening                                             *)
(***************************************************************************)
Busy == {w \in Writers : wpc[w] \in {"fill", "wake", "post"}}

\* A claimed slot belongs to the thread that is about to fill it.
Claimed ==
    \A i \in 1 .. Len(queue) : queue[i] # Full => wpc[queue[i]] = "fill"

\* While the logger waits or is about to, a set flag comes with a wake-up.
FlagAnswered ==
    lpc \in {"start", "test", "wait"} /\ pending => sem > 0 \/ Posting # {}

\* And so does a line, unless it was missed.
LineAnswered ==
    lpc \in {"start", "clear", "test", "wait"} /\ queue # <<>> /\ ~missed =>
        sem > 0 \/ Busy # {}

\* Where each of the three wake-ups that can be under way comes from.
Posted == wpc[Main] \in {"joining", "left"}
Sources ==
    (IF pending THEN 1 ELSE 0) + (IF Posted THEN 1 ELSE 0)
        + (IF lpc \in {"test", "wait", "exited"} THEN 1 ELSE 0)

WakeupsFrom == sem + Cardinality(Posting) <= Sources

IInv == TypeOK /\ Claimed /\ FlagAnswered /\ LineAnswered /\ WakeupsFrom

\* The safety half of ShutdownReturns: the logger does not sleep through the
\* end.  Once log_system_shutdown has posted, a logger that waits has a wake-up
\* to take, since only a test made before the flag was set leads to the wait.
NeverSleepsThrough == Posted /\ lpc = "wait" => sem > 0

\* The flag says where the shutdown is.
FlagFirst == shutdown <=> wpc[Main] \in {"flagged", "joining", "left"}
=============================================================================
