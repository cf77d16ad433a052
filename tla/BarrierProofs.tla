--------------------------- MODULE BarrierProofs ---------------------------
(***************************************************************************)
(* Barrier for any number of threads, as long as the rounds can be told    *)
(* apart by the narrow cur_cycle.                                          *)
(***************************************************************************)
EXTENDS Barrier, FiniteSetTheorems, TLAPS

\* cur_cycle has a number of its own for every round.
FewRounds == MaxRounds <= CurCycles

LEMMA TargetType == target \in Nat /\ target >= 1
<1>1. target \in Nat
  BY ThreadsAssumption, FS_CardinalityType DEF target
<1>2. target # 0
  BY ThreadsAssumption, FS_EmptySet DEF target
<1> QED BY <1>1, <1>2

\* The threads inside the barrier can be counted, and are all of them when
\* they are as many.
LEMMA InsideFinite ==
    /\ IsFiniteSet(Inside) /\ Cardinality(Inside) \in Nat
    /\ \A t \in Threads : t \notin Inside =>
         /\ Cardinality(Inside \cup {t}) = Cardinality(Inside) + 1
         /\ Cardinality(Inside) + 1 = target => Inside \cup {t} = Threads
<1>1. Inside \in SUBSET Threads
  BY DEF Inside
<1>2. IsFiniteSet(Inside) /\ Cardinality(Inside) \in Nat
  BY <1>1, ThreadsAssumption, FS_Subset, FS_CardinalityType
<1>3. ASSUME NEW t \in Threads, t \notin Inside
      PROVE  /\ Cardinality(Inside \cup {t}) = Cardinality(Inside) + 1
             /\ Cardinality(Inside) + 1 = target => Inside \cup {t} = Threads
  <2>1. Cardinality(Inside \cup {t}) = Cardinality(Inside) + 1
    BY <1>2, <1>3, FS_AddElement
  <2>2. Inside \cup {t} \in SUBSET Threads
    BY <1>1
  <2> QED BY <2>1, <2>2, ThreadsAssumption, FS_Subset DEF target
<1> QED BY <1>2, <1>3

LEMMA InitIInv == Init => IInv
<1> SUFFICES ASSUME Init PROVE IInv
  OBVIOUS
<1>1. Inside = {}
  BY DEF Init, Inside, Waits
<1>2. count = Cardinality(Inside)
  BY <1>1, FS_EmptySet DEF Init
<1> QED BY <1>2, TargetType
        DEF Init, IInv, TypeOK, NoLostWakeup, Asleep, CountExact, RoundsExact, Waits

\* The last thread finds all the others counted in its cycle.
LEMMA OthersInside ==
    ASSUME IInv, NEW t \in Threads, WaitLast(t)
    PROVE  /\ t \notin Inside /\ Inside \cup {t} = Threads
           /\ \A u \in Threads \ {t} : Waits(u) /\ cur[u] = cycle
<1>1. t \notin Inside
  BY DEF WaitLast, Inside, Waits
<1>2. Inside \cup {t} = Threads
  BY <1>1, InsideFinite DEF WaitLast, IInv, CountExact
<1> QED BY <1>1, <1>2 DEF Inside

\* The last thread starts the next cycle, in which nobody is counted.
LEMMA LastKeepsIInv ==
    ASSUME IInv, NEW t \in Threads, WaitLast(t)
    PROVE  IInv' /\ Inside' = {}
<1>1. /\ cycle' = cycle + 1 /\ cycle \in Nat /\ count' = 0 /\ cur' = cur
      /\ rounds' = [rounds EXCEPT ![t] = @ + 1]
  BY DEF WaitLast, Returned, IInv, TypeOK
<1>2. /\ pc' \in [Threads -> {"outside", "asleep", "awake"}]
      /\ pc'[t] = "outside"
      /\ \A u \in Threads \ {t} : pc'[u] = "awake"
  BY OthersInside DEF WaitLast, BroadcastBy, Asleep, Waits, IInv, TypeOK
<1>3. \A u \in Threads \ {t} : cur[u] = cycle /\ rounds[u] = cycle
  BY OthersInside DEF IInv, RoundsExact
<1>4. rounds[t] = cycle
  BY DEF WaitLast, IInv, RoundsExact, Waits
<1>5. Inside' = {}
  BY <1>1, <1>2, <1>3 DEF Inside, Waits
<1>6. TypeOK'
  <2>1. count' \in 0 .. target - 1
    BY <1>1, TargetType
  <2>2. cur' \in [Threads -> Nat] /\ rounds' \in [Threads -> Nat]
    BY <1>1 DEF IInv, TypeOK
  <2> QED BY <1>1, <1>2, <2>1, <2>2 DEF TypeOK, target
<1>7. NoLostWakeup'
  BY <1>2 DEF NoLostWakeup, Asleep
<1>8. CountExact'
  BY <1>1, <1>5, FS_EmptySet DEF CountExact
<1>9. RoundsExact'
  BY <1>1, <1>2, <1>3, <1>4 DEF RoundsExact, Waits, IInv, TypeOK
<1> QED BY <1>5, <1>6, <1>7, <1>8, <1>9 DEF IInv

\* Any other thread is counted and sleeps: the truncation changes nothing.
LEMMA WaitKeepsIInv ==
    ASSUME FewRounds, IInv, NEW t \in Threads, WaitForOthers(t)
    PROVE  IInv' /\ t \notin Inside /\ Inside' = Inside \cup {t}
<1>1. rounds[t] = cycle /\ t \notin Inside
  BY DEF WaitForOthers, IInv, RoundsExact, Waits, Inside
<1>2. cycle % CurCycles = cycle
  <2>1. cycle \in Nat /\ cycle < CurCycles
    BY <1>1, BoundsAssumption DEF FewRounds, WaitForOthers, IInv, TypeOK
  <2> QED BY <2>1, BoundsAssumption
<1>3. /\ count' = count + 1 /\ count + 1 # target
      /\ cur' = [cur EXCEPT ![t] = cycle]
      /\ pc' = [pc EXCEPT ![t] = "asleep"]
      /\ UNCHANGED <<cycle, rounds>>
  BY <1>2 DEF WaitForOthers
<1>4. Inside' = Inside \cup {t}
  BY <1>3 DEF Inside, Waits, IInv, TypeOK
<1>5. TypeOK'
  BY <1>3, TargetType DEF IInv, TypeOK, target
<1>6. NoLostWakeup'
  BY <1>3 DEF IInv, TypeOK, NoLostWakeup, Asleep
<1>7. CountExact'
  BY <1>1, <1>3, <1>4, InsideFinite DEF IInv, CountExact
<1>8. RoundsExact'
  BY <1>1, <1>3 DEF IInv, TypeOK, RoundsExact, Waits
<1> QED BY <1>1, <1>4, <1>5, <1>6, <1>7, <1>8 DEF IInv

\* Whoever wakes up, and for whatever reason, is counted as before.
LEMMA WakeKeepsIInv ==
    ASSUME IInv, NEW t \in Threads, WakeSpuriously(t) \/ Recheck(t)
    PROVE  IInv' /\ Inside' = Inside
<1>1. UNCHANGED <<count, cycle, cur>>
  BY DEF WakeSpuriously, Recheck
<1>2. Inside' = Inside
  BY <1>1 DEF WakeSpuriously, Recheck, Returned, Inside, Waits, IInv, TypeOK
<1>3. TypeOK'
  BY <1>1 DEF WakeSpuriously, Recheck, Returned, IInv, TypeOK, target
<1>4. NoLostWakeup'
  BY <1>1 DEF WakeSpuriously, Recheck, IInv, TypeOK, NoLostWakeup, Asleep
<1>5. CountExact'
  BY <1>1, <1>2 DEF IInv, CountExact
<1>6. RoundsExact'
  BY <1>1 DEF WakeSpuriously, Recheck, Returned, IInv, TypeOK, RoundsExact, Waits
<1> QED BY <1>2, <1>3, <1>4, <1>5, <1>6 DEF IInv

LEMMA StutterKeepsIInv == IInv /\ UNCHANGED vars => IInv' /\ Inside' = Inside
<1> SUFFICES ASSUME IInv, UNCHANGED vars PROVE IInv' /\ Inside' = Inside
  OBVIOUS
<1>1. Inside' = Inside
  BY DEF vars, Inside, Waits
<1> QED BY <1>1 DEF vars, IInv, TypeOK, target, NoLostWakeup, Asleep,
                    CountExact, RoundsExact, Waits

\* The invariant of barrier_wait.
THEOREM Invariance == ASSUME FewRounds PROVE Spec => []IInv
<1>1. Init => IInv
  BY InitIInv
<1>2. IInv /\ [Next]_vars => IInv'
  <2> SUFFICES ASSUME IInv, [Next]_vars PROVE IInv'
    OBVIOUS
  <2>1. ASSUME NEW t \in Threads, WaitLast(t) PROVE IInv'
    BY <2>1, LastKeepsIInv
  <2>2. ASSUME NEW t \in Threads, WaitForOthers(t) PROVE IInv'
    BY <2>2, WaitKeepsIInv
  <2>3. ASSUME NEW t \in Threads, WakeSpuriously(t) \/ Recheck(t) PROVE IInv'
    BY <2>3, WakeKeepsIInv
  <2>4. CASE UNCHANGED vars
    BY <2>4, StutterKeepsIInv
  <2> QED BY <2>1, <2>2, <2>3, <2>4 DEF Next, Calls
<1> QED BY <1>1, <1>2, PTL DEF Spec

\* The types of count, cycle and the threads' locals.
THEOREM TypeCorrect == ASSUME FewRounds PROVE Spec => []TypeOK
<1>1. IInv => TypeOK
  BY DEF IInv
<1> QED BY <1>1, Invariance, PTL

\* barrier_wait returns for the n-th time only after everybody's n-th call.
THEOREM Meets == ASSUME FewRounds PROVE Spec => []NobodyEarly
<1>1. IInv => NobodyEarly
  <2> SUFFICES ASSUME IInv, NEW t \in Threads, NEW u \in Threads
               PROVE  rounds[t] <= Begun(u)
    BY DEF NobodyEarly
  <2>1. rounds[t] \in Nat /\ rounds[u] \in Nat /\ cycle \in Nat
    BY DEF IInv, TypeOK
  <2>2. rounds[t] <= cycle
    BY <2>1 DEF IInv, TypeOK, RoundsExact
  <2>3. cycle <= Begun(u)
    BY <2>1 DEF IInv, TypeOK, RoundsExact, Begun
  <2> QED BY <2>1, <2>2, <2>3 DEF Begun
<1> QED BY <1>1, Invariance, PTL

\* pthread_cond_broadcast reaches everybody who sleeps in the old cycle.
THEOREM NoneOverslept == ASSUME FewRounds PROVE Spec => []NoLostWakeup
<1>1. IInv => NoLostWakeup
  BY DEF IInv
<1> QED BY <1>1, Invariance, PTL

-----------------------------------------------------------------------------
(***************************************************************************)
(* The refinement of Rendezvous                                            *)
(***************************************************************************)
Late == {t \in Threads : Waits(t) /\ cur[t] # cycle}

LEMMA LastMaps ==
    ASSUME IInv, NEW t \in Threads, WaitLast(t)
    PROVE  Meeting!Complete(t)
<1>1. t \notin Inside \cup Late /\ Inside \cup {t} = Threads
  BY OthersInside DEF Late, WaitLast, Waits
<1>2. Inside' = {}
  BY LastKeepsIInv
<1>3. Late' = Inside
  <2>1. cycle' = cycle + 1 /\ cur' = cur /\ cycle \in Nat
    BY DEF WaitLast, IInv, TypeOK
  <2>2. pc'[t] = "outside"
    BY DEF WaitLast, BroadcastBy, Asleep
  <2>3. \A u \in Threads \ {t} : pc'[u] = "awake" /\ cur[u] = cycle
    BY OthersInside DEF WaitLast, BroadcastBy, Asleep, Waits
  <2> QED BY <2>1, <2>2, <2>3, <1>1 DEF Late, Waits
<1> QED BY <1>1, <1>2, <1>3 DEF Meeting!Complete, Late

LEMMA WaitMaps ==
    ASSUME FewRounds, IInv, NEW t \in Threads, WaitForOthers(t)
    PROVE  Meeting!Arrive(t)
<1>1. t \notin Inside \cup Late
  BY DEF WaitForOthers, Inside, Late, Waits
<1>2. Inside' = Inside \cup {t}
  BY WaitKeepsIInv
<1>3. Inside \cup {t} # Threads
  BY <1>1, InsideFinite DEF WaitForOthers, IInv, CountExact, target
<1>4. Late' = Late
  <2>1. UNCHANGED cycle /\ pc[t] = "outside"
    BY DEF WaitForOthers
  <2>2. \A u \in Threads \ {t} : pc'[u] = pc[u] /\ cur'[u] = cur[u]
    BY DEF WaitForOthers, IInv, TypeOK
  <2>3. t \in Inside'
    BY <1>2
  <2> QED BY <2>1, <2>2, <2>3 DEF Late, Inside, Waits
<1> QED BY <1>1, <1>2, <1>3, <1>4 DEF Meeting!Arrive, Late

LEMMA WakeMaps ==
    ASSUME IInv, NEW t \in Threads, WakeSpuriously(t) \/ Recheck(t)
    PROVE  Meeting!Return(t) \/ UNCHANGED Meeting!meetVars
<1>1. Inside' = Inside
  BY WakeKeepsIInv
<1>2. UNCHANGED <<cycle, cur>> /\ pc[t] \in {"asleep", "awake"}
  BY DEF WakeSpuriously, Recheck
<1>3. \A u \in Threads \ {t} : pc'[u] = pc[u]
  BY DEF WakeSpuriously, Recheck, IInv, TypeOK
<1>4. CASE pc'[t] = "outside"
  <2>1. cur[t] # cycle
    BY <1>4 DEF WakeSpuriously, Recheck, IInv, TypeOK
  <2>2. t \in Late /\ Late' = Late \ {t}
    BY <1>2, <1>3, <1>4, <2>1 DEF Late, Waits
  <2> QED BY <1>1, <2>2 DEF Meeting!Return, Late
<1>5. CASE pc'[t] # "outside"
  <2>1. pc'[t] \in {"asleep", "awake"}
    BY <1>5 DEF WakeSpuriously, Recheck, Returned, IInv, TypeOK
  <2>2. Late' = Late
    BY <1>2, <1>3, <2>1 DEF Late, Waits
  <2> QED BY <1>1, <2>2 DEF Meeting!meetVars, Late
<1> QED BY <1>4, <1>5

\* barrier.c implements the rendezvous.
THEOREM Refinement == ASSUME FewRounds PROVE Spec => ImplementsRendezvous
<1>1. Init => Meeting!MeetInit
  BY DEF Init, Meeting!MeetInit, Inside, Waits
<1>2. IInv /\ [Next]_vars => [Meeting!MeetNext]_(Meeting!meetVars)
  <2> SUFFICES ASSUME IInv, [Next]_vars
               PROVE  Meeting!MeetNext \/ UNCHANGED Meeting!meetVars
    OBVIOUS
  <2>1. ASSUME NEW t \in Threads, WaitLast(t) PROVE Meeting!MeetNext
    BY <2>1, LastMaps DEF Meeting!MeetNext
  <2>2. ASSUME NEW t \in Threads, WaitForOthers(t) PROVE Meeting!MeetNext
    BY <2>2, WaitMaps DEF Meeting!MeetNext
  <2>3. ASSUME NEW t \in Threads, WakeSpuriously(t) \/ Recheck(t)
        PROVE  Meeting!MeetNext \/ UNCHANGED Meeting!meetVars
    BY <2>3, WakeMaps DEF Meeting!MeetNext
  <2>4. CASE UNCHANGED vars
    BY <2>4 DEF vars, Meeting!meetVars, Inside, Waits
  <2> QED BY <2>1, <2>2, <2>3, <2>4 DEF Next, Calls
<1> QED BY <1>1, <1>2, Invariance, PTL DEF Spec, ImplementsRendezvous, Meeting!MeetSpec

-----------------------------------------------------------------------------
\* Whoever sleeps has been counted, and count never reaches the target, so
\* that some user of the barrier is awake, inside it or outside.
THEOREM SomebodyAwake == ASSUME FewRounds PROVE Spec => []NeverAllAsleep
<1>1. IInv => NeverAllAsleep
  <2> SUFFICES ASSUME IInv, Asleep = Threads PROVE FALSE
    BY DEF NeverAllAsleep
  <2>1. Inside = Threads
    BY DEF IInv, NoLostWakeup, Asleep, Inside, Waits
  <2>2. count = target
    BY <2>1 DEF IInv, CountExact, target
  <2> QED BY <2>2, TargetType DEF IInv, TypeOK
<1> QED BY <1>1, Invariance, PTL
=============================================================================
