------------------------------ MODULE Barrier ------------------------------
(***************************************************************************)
(* lib/barrier.c: barrier_wait, the barrier of the cores and the timer of  *)
(* a processor, and of the timers of all processors.                       *)
(*                                                                         *)
(* count and cycle are read and written under the mutex mut only, so that  *)
(* a critical section is one action: from the lock to the unlock or to the *)
(* release of the mutex inside pthread_cond_wait.                          *)
(***************************************************************************)
EXTENDS Integers, FiniteSets

CONSTANTS
    Threads,        \* the users of the barrier; target is their number
    CurCycles,      \* 2^width of unsigned cur_cycle; cycle is 64 bits wide
    MaxRounds       \* bound: calls of barrier_wait by one thread

ASSUME ThreadsAssumption == IsFiniteSet(Threads) /\ Threads # {}
ASSUME BoundsAssumption  == CurCycles \in Nat \ {0} /\ MaxRounds \in Nat

VARIABLES
    count, cycle,   \* as in struct barrier
    pc,             \* thread -> outside, asleep in the wait, or awake in it
    cur,            \* thread -> its local cur_cycle
    rounds          \* history: thread -> calls it has returned from

vars == <<count, cycle, pc, cur, rounds>>

target == Cardinality(Threads)

Init ==
    /\ count = 0 /\ cycle = 0
    /\ pc = [t \in Threads |-> "outside"]
    /\ cur = [t \in Threads |-> 0]
    /\ rounds = [t \in Threads |-> 0]

Asleep == {t \in Threads : pc[t] = "asleep"}

\* mutant: pthread_cond_signal
SignalBy(t) ==
    IF Asleep = {} THEN pc' = pc
    ELSE \E u \in Asleep : pc' = [pc EXCEPT ![u] = "awake"]

\* pthread_cond_broadcast, seen from thread t, which returns.
BroadcastBy(t) ==
    pc' = [u \in Threads |-> CASE u = t         -> "outside"
                               [] u \in Asleep  -> "awake"
                               [] OTHER         -> pc[u]]

Returned(t) == rounds' = [rounds EXCEPT ![t] = @ + 1]

\* mutant: the cycle is left alone
LastKeepsCycle(t) ==
    /\ pc[t] = "outside" /\ rounds[t] < MaxRounds
    /\ count + 1 = target /\ count' = 0
    /\ BroadcastBy(t) /\ Returned(t)
    /\ UNCHANGED <<cycle, cur>>

\* The last thread of a round; nothing of cur_cycle outlives the call.
WaitLast(t) ==
    /\ pc[t] = "outside" /\ rounds[t] < MaxRounds
    /\ count + 1 = target
    /\ cycle' = cycle + 1 /\ count' = 0
    /\ BroadcastBy(t) /\ Returned(t)
    /\ UNCHANGED cur

\* Another one: it sleeps while cur_cycle, which is narrower, is the cycle.
WaitForOthers(t) ==
    /\ pc[t] = "outside" /\ rounds[t] < MaxRounds
    /\ count + 1 # target
    /\ count' = count + 1
    /\ cur' = [cur EXCEPT ![t] = cycle % CurCycles]
    /\ IF cycle % CurCycles = cycle
       THEN pc' = [pc EXCEPT ![t] = "asleep"] /\ UNCHANGED rounds
       ELSE Returned(t) /\ UNCHANGED pc
    /\ UNCHANGED cycle

\* pthread_cond_wait may return unasked.
WakeSpuriously(t) ==
    /\ pc[t] = "asleep"
    /\ pc' = [pc EXCEPT ![t] = "awake"]
    /\ UNCHANGED <<count, cycle, cur, rounds>>

Recheck(t) ==
    /\ pc[t] = "awake"
    /\ IF cur[t] = cycle
       THEN pc' = [pc EXCEPT ![t] = "asleep"] /\ UNCHANGED rounds
       ELSE pc' = [pc EXCEPT ![t] = "outside"] /\ Returned(t)
    /\ UNCHANGED <<count, cycle, cur>>

Calls(t) == WaitLast(t) \/ WaitForOthers(t)

Next == \E t \in Threads : Calls(t) \/ WakeSpuriously(t) \/ Recheck(t)

Spec == Init /\ [][Next]_vars

\* Every thread calls barrier_wait again in its loop, and one that is awake
\* gets the mutex; no condition variable need wake it unasked.
FairSpec ==
    /\ Spec
    /\ \A t \in Threads : WF_vars(Calls(t)) /\ WF_vars(Recheck(t))

-----------------------------------------------------------------------------
(***************************************************************************)
(* Properties                                                              *)
(***************************************************************************)
Waits(t)  == pc[t] \in {"asleep", "awake"}
Begun(t)  == rounds[t] + IF Waits(t) THEN 1 ELSE 0
Inside    == {t \in Threads : Waits(t) /\ cur[t] = cycle}

\* The types; count is below the target between two critical sections.
TypeOK ==
    /\ count \in 0 .. target - 1 /\ cycle \in Nat
    /\ pc \in [Threads -> {"outside", "asleep", "awake"}]
    /\ cur \in [Threads -> Nat]
    /\ rounds \in [Threads -> Nat]

\* barrier_wait returns for the n-th time in one thread only when every thread
\* has called it n times, although threads go round the barrier at different
\* speeds and wake without a reason.
NobodyEarly == \A t, u \in Threads : rounds[t] <= Begun(u)

\* A thread that is asleep has been counted in the round that is going on: no
\* broadcast was missed.
NoLostWakeup == \A t \in Asleep : cur[t] = cycle

\* Under fairness everybody comes through every round.
EverybodyThrough == <>[](\A t \in Threads : rounds[t] = MaxRounds)

\* The safety half of EverybodyThrough: the barrier never puts its last user
\* to sleep, so somebody can always come and complete the round.
NeverAllAsleep == Asleep # Threads

(***************************************************************************)
(* The inductive strengthening, for rounds that cur_cycle can number       *)
(***************************************************************************)
\* Who was counted: the threads that wait in this cycle.
CountExact == count = Cardinality(Inside)

\* Who is how far: a thread waits in this cycle or is late out of the last.
RoundsExact ==
    \A t \in Threads :
        IF Waits(t) /\ cur[t] # cycle
        THEN cur[t] + 1 = cycle /\ rounds[t] + 1 = cycle
        ELSE rounds[t] = cycle

IInv == TypeOK /\ NoLostWakeup /\ CountExact /\ RoundsExact

\* barrier_wait is a rendezvous, in every round alike.
Meeting == INSTANCE Rendezvous WITH
             arrived <- Inside,
             released <- {t \in Threads : Waits(t) /\ cur[t] # cycle}
ImplementsRendezvous == Meeting!MeetSpec
=============================================================================
