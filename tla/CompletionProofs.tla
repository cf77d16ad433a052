-------------------------- MODULE CompletionProofs --------------------------
(***************************************************************************)
(* Completion for any processors, period and number of jobs: the messages  *)
(* that stop the copies of a completed job are not lost inside a processor *)
(* and, if no packet is late, stop nothing else.                           *)
(***************************************************************************)
EXTENDS Completion, TLAPS

(***************************************************************************)
(* Releases                                                                *)
(***************************************************************************)
LEMMA Releases ==
    /\ \A k \in JobIds : k \in Nat /\ Release(k) \in Nat
    /\ \A j, k \in JobIds : k < j => Release(k) + Period <= Release(j)
  BY TaskAssumption DEF JobIds, Release

LEMMA FirstRelease == \A k \in JobIds : 0 <= Release(k)
  BY Releases

\* current time % period == 0: the job that arrives is the one of this time.
LEMMA ReleaseAt ==
    \A t \in Nat, k \in JobIds :
        Release(k) = t <=> t % Period = 0 /\ t \div Period = k
<1> TAKE t \in Nat, k \in JobIds
<1>1. /\ t = (t \div Period) * Period + (t % Period)
      /\ t % Period \in 0 .. Period - 1 /\ t \div Period \in Int
  BY TaskAssumption
<1>2. ASSUME Release(k) = t PROVE t % Period = 0 /\ t \div Period = k
  <2>1. k \in Int /\ t = k * Period
    BY <1>2 DEF JobIds, Release
  <2>2. \A d \in Int : (d > 0 => d * Period >= Period) /\ (d < 0 => d * Period <= - Period)
    BY TaskAssumption
  <2>3. (k - t \div Period) * Period = t % Period
    BY <1>1, <2>1, TaskAssumption
  <2>4. k - t \div Period = 0
    BY <1>1, <2>1, <2>2, <2>3, TaskAssumption
  <2> QED BY <1>1, <2>1, <2>3, <2>4, TaskAssumption
<1> QED BY <1>1, <1>2, TaskAssumption DEF Release

\* The job that handle_job_arrivals creates, if it creates one.
LEMMA Created ==
    ASSUME NEW t \in Nat
    PROVE  t % Period = 0 /\ t \div Period < Jobs => t \div Period \in JobIds
  BY TaskAssumption DEF JobIds

LEMMA InitIInv == Init => IInv
<1> SUFFICES ASSUME Init PROVE IInv
  OBVIOUS
<1>1. TypeOK
  BY DEF Init, TypeOK, States
<1>2. ArrivedExact
  BY FirstRelease, Releases DEF Init, ArrivedExact, Arrived
<1> QED
  BY <1>1, <1>2 DEF Init, IInv, ClocksTogether, Ordered, MissedLast, CompletedAfter,
     SentInTime, FlightInTime, ReceivedInTime, StopOnItsWay, Live

-----------------------------------------------------------------------------
(***************************************************************************)
(* What the cores do                                                       *)
(***************************************************************************)

\* A step of the core of p, which leaves the network and the clocks alone and
\* what has completed completed.
CoreStep(p) ==
    /\ UNCHANGED <<time, incoming, flight, late>>
    /\ step' \in [Procs -> {"remove", "run", "arrive", "select", "timer", "left"}]
    /\ job' \in [Procs -> [JobIds -> States]]
    /\ outgoing' \in [Procs -> SUBSET JobIds]
    /\ step[p] \in {"remove", "run", "arrive", "select"}
    /\ step'[p] \in {"run", "arrive", "select", "timer"}
    /\ \A q \in Procs \ {p} : /\ job'[q] = job[q] /\ step'[q] = step[q]
                              /\ outgoing'[q] = outgoing[q]
    /\ \A k \in JobIds : job[p][k] = "completed" => job'[p][k] = "completed"

LEMMA StillCompleted ==
    ASSUME NEW p \in Procs, CoreStep(p), NEW k, k \in JobIds, HasCompleted(k)
    PROVE  HasCompleted(k)'
<1>1. PICK q \in Procs : job[q][k] = "completed"
  BY DEF HasCompleted
<1>2. job'[q][k] = "completed"
  BY <1>1 DEF CoreStep
<1> QED BY <1>2 DEF HasCompleted

LEMMA NetworkKept ==
    ASSUME IInv, NEW p \in Procs, CoreStep(p)
    PROVE  ClocksTogether' /\ FlightInTime' /\ ReceivedInTime'
<1>1. ClocksTogether'
  BY DEF CoreStep, IInv, ClocksTogether
<1>2. FlightInTime'
  <2> SUFFICES ASSUME NEW r \in Procs, NEW k \in JobIds, <<r, k>> \in flight
               PROVE  HasCompleted(k)' /\ (~late => time[r] <= Release(k) + Deadline + 1)
    BY DEF CoreStep, FlightInTime
  <2> QED BY StillCompleted DEF IInv, FlightInTime
<1>3. ReceivedInTime'
  <2> SUFFICES ASSUME NEW r \in Procs, NEW k \in incoming[r]
               PROVE  /\ HasCompleted(k)'
                      /\ ~late /\ step'[r] = "remove" =>
                            time[r] <= Release(k) + Deadline + 2
    BY DEF CoreStep, ReceivedInTime
  <2>1. k \in JobIds
    BY DEF IInv, TypeOK
  <2>2. step'[r] = "remove" => step[r] = "remove"
    BY DEF CoreStep
  <2> QED BY <2>1, <2>2, StillCompleted DEF IInv, ReceivedInTime
<1> QED BY <1>1, <1>2, <1>3

\* What the jobs of a core that has moved must still satisfy.
LEMMA TypeKept ==
    ASSUME IInv, NEW p \in Procs, CoreStep(p), Ordered'
    PROVE  TypeOK'
<1>1. \A q \in Procs, j, k \in JobIds :
         job'[q][j] = "running" /\ job'[q][k] = "running" => j = k
  <2> SUFFICES ASSUME NEW q \in Procs, NEW j \in JobIds, NEW k \in JobIds,
                      job'[q][j] = "running", job'[q][k] = "running"
               PROVE  j = k
    OBVIOUS
  <2>1. j \in Int /\ k \in Int
    BY Releases
  <2>2. ~(k < j) /\ ~(j < k)
    BY DEF Ordered
  <2> QED BY <2>1, <2>2
<1> QED BY <1>1 DEF CoreStep, IInv, TypeOK

LEMMA SentKept ==
    ASSUME IInv, NEW p \in Procs, CoreStep(p), outgoing' = outgoing
    PROVE  SentInTime'
<1> SUFFICES ASSUME NEW q \in Procs, NEW k \in outgoing[q]
             PROVE  job'[q][k] = "completed" /\ time[q] <= Release(k) + Deadline
  BY DEF SentInTime, CoreStep
<1>1. job[q][k] = "completed" /\ time[q] <= Release(k) + Deadline /\ k \in JobIds
  BY DEF IInv, SentInTime, TypeOK
<1> QED BY <1>1 DEF CoreStep

\* No new copy is alive, and what has just completed is announced.
LEMMA StopKept ==
    ASSUME IInv, NEW p \in Procs, CoreStep(p),
           \A k \in JobIds : k \in Live(p)' =>
                /\ k \in Live(p)
                /\ k \in incoming[p] => step[p] # "remove",
           \A k \in JobIds : job'[p][k] = "completed" =>
                job[p][k] = "completed" \/ k \in outgoing'[p],
           outgoing[p] \subseteq outgoing'[p]
    PROVE  StopOnItsWay'
<1> SUFFICES ASSUME NEW r \in Procs, NEW q \in Procs, NEW k \in JobIds,
                    job'[q][k] = "completed", k \in Live(r)'
             PROVE  \/ k \in outgoing'[q] \/ <<r, k>> \in flight'
                    \/ k \in incoming'[r] /\ step'[r] \in {"remove", "left"}
  BY DEF StopOnItsWay
<1>1. k \in Live(r)
  BY DEF Live, CoreStep
<1>2. CASE job[q][k] # "completed"
  BY <1>2 DEF CoreStep
<1>3. CASE job[q][k] = "completed"
  <2>1. \/ k \in outgoing[q] \/ <<r, k>> \in flight
        \/ k \in incoming[r] /\ step[r] \in {"remove", "left"}
    BY <1>1, <1>3 DEF IInv, StopOnItsWay
  <2>2. outgoing[q] \subseteq outgoing'[q]
    BY DEF CoreStep
  <2>3. k \in incoming[r] /\ step[r] \in {"remove", "left"} => step'[r] = step[r]
    BY DEF CoreStep
  <2> QED BY <2>1, <2>2, <2>3 DEF CoreStep
<1> QED BY <1>2, <1>3

LEMMA RemoveKeeps == ASSUME IInv, NEW p \in Procs, Remove(p) PROVE IInv'
<1> USE DEF IInv
<1>1. /\ step[p] = "remove" /\ step'[p] = "run" /\ outgoing' = outgoing
      /\ \A k \in JobIds :
            job'[p][k] = IF Stopped(p, k) THEN "removed" ELSE job[p][k]
      /\ \A k \in JobIds : Stopped(p, k) => job[p][k] \in {"waiting", "running"}
  BY DEF TypeOK, Remove, At, Then, Stopped
<1>2. CoreStep(p)
  <2>1. job' \in [Procs -> [JobIds -> States]]
    BY DEF TypeOK, Remove, States
  <2> QED BY <1>1, <2>1 DEF TypeOK, Remove, Then, CoreStep
<1>3. Ordered'
  BY <1>1, <1>2 DEF Ordered, CoreStep
<1>4. TypeOK'
  BY <1>2, <1>3, TypeKept
<1>5. ArrivedExact'
  BY <1>1, <1>2 DEF ArrivedExact, Arrived, CoreStep
<1>6. MissedLast'
  BY <1>1, <1>2 DEF MissedLast, CoreStep
<1>7. CompletedAfter'
  BY <1>1, <1>2 DEF CompletedAfter, CoreStep
<1>8. SentInTime'
  BY <1>1, <1>2, SentKept
<1>9. StopOnItsWay'
  <2>1. \A k \in JobIds : k \in Live(p)' =>
            k \in Live(p) /\ k \notin incoming[p]
    BY <1>1 DEF Live, Stopped
  <2> QED BY <1>1, <1>2, <2>1, StopKept
<1> QED BY <1>2, <1>3, <1>4, <1>5, <1>6, <1>7, <1>8, <1>9, NetworkKept

LEMMA KeepOnKeeps == ASSUME IInv, NEW p \in Procs, KeepOn(p) PROVE IInv'
<1> USE DEF IInv
<1>1. /\ step[p] = "run" /\ step'[p] = "arrive" /\ UNCHANGED <<outgoing, job>>
  BY DEF TypeOK, KeepOn, At, Then
<1>2. CoreStep(p)
  BY <1>1 DEF TypeOK, KeepOn, Then, CoreStep
<1>3. Ordered'
  BY <1>1 DEF Ordered
<1>4. TypeOK'
  BY <1>2, <1>3, TypeKept
<1>5. ArrivedExact'
  BY <1>1, <1>2 DEF ArrivedExact, Arrived, CoreStep
<1>6. MissedLast'
  BY <1>1, <1>2 DEF MissedLast, CoreStep
<1>7. CompletedAfter' /\ SentInTime'
  BY <1>1, <1>2 DEF CompletedAfter, SentInTime, CoreStep
<1>8. StopOnItsWay'
  BY <1>1, <1>2, StopKept DEF Live
<1> QED BY <1>2, <1>3, <1>4, <1>5, <1>6, <1>7, <1>8, NetworkKept

\* The job of a core that is done with it: it completes or is given up.
LEMMA DoneWith ==
    ASSUME IInv, NEW p \in Procs, NEW k \in JobIds, job[p][k] = "running",
           step[p] = "run", NEW s \in {"completed", "missed"}, Turns(p, k, s)
    PROVE  /\ job' \in [Procs -> [JobIds -> States]]
           /\ \A q \in Procs \ {p} : job'[q] = job[q]
           /\ job'[p][k] = s
           /\ \A j \in JobIds \ {k} : job'[p][j] = job[p][j]
           /\ \A j \in JobIds : job[p][j] # "missed"
           /\ Release(k) < time[p]
           /\ Ordered'
           /\ \A j \in JobIds : j \in Live(p)' => j \in Live(p)
<1> USE DEF IInv
<1>1. job' \in [Procs -> [JobIds -> States]]
  BY DEF TypeOK, Turns, States
<1>2. /\ \A q \in Procs \ {p} : job'[q] = job[q]
      /\ job'[p][k] = s
      /\ \A j \in JobIds \ {k} : job'[p][j] = job[p][j]
  BY DEF TypeOK, Turns
<1>3. \A j \in JobIds : job[p][j] # "missed"
  BY DEF MissedLast
<1>4. Release(k) < time[p]
  BY DEF ArrivedExact, Arrived
<1>5. Ordered'
  <2> SUFFICES ASSUME NEW q \in Procs, NEW j \in JobIds, NEW i \in JobIds,
                      i < j, job'[q][j] \in {"running", "completed"}
               PROVE  /\ job'[q][i] \in {"completed", "removed", "missed"}
                      /\ job'[q][j] = "completed" => job'[q][i] # "missed"
    BY DEF Ordered
  <2>1. CASE q # p
    BY <1>2, <2>1 DEF Ordered
  <2>2. CASE q = p /\ j = k
    BY <1>2, <1>3, <2>2, Releases DEF Ordered
  <2>3. CASE q = p /\ j # k
    <3>1. job[p][i] \in {"completed", "removed", "missed"}
      BY <1>2, <2>3 DEF Ordered
    <3> QED BY <1>2, <2>3, <3>1 DEF Ordered
  <2> QED BY <2>1, <2>2, <2>3
<1>6. \A j \in JobIds : j \in Live(p)' => j \in Live(p)
  BY <1>2 DEF Live
<1> QED BY <1>1, <1>2, <1>3, <1>4, <1>5, <1>6

LEMMA MissKeeps == ASSUME IInv, NEW p \in Procs, Miss(p) PROVE IInv'
<1> USE DEF IInv
<1>1. PICK k \in JobIds : job[p][k] = "running" /\ Turns(p, k, "missed")
  BY DEF Miss
<1>2. /\ step[p] = "run" /\ step'[p] = "arrive" /\ outgoing' = outgoing
  BY DEF TypeOK, Miss, At, Then
<1>3. /\ job' \in [Procs -> [JobIds -> States]]
      /\ \A q \in Procs \ {p} : job'[q] = job[q]
      /\ job'[p][k] = "missed"
      /\ \A j \in JobIds \ {k} : job'[p][j] = job[p][j]
      /\ Ordered'
      /\ \A j \in JobIds : j \in Live(p)' => j \in Live(p)
  BY <1>1, <1>2, DoneWith
<1>4. CoreStep(p)
  BY <1>1, <1>2, <1>3 DEF TypeOK, Miss, Then, CoreStep
<1>5. TypeOK'
  BY <1>3, <1>4, TypeKept
<1>6. ArrivedExact'
  BY <1>1, <1>2, <1>3, <1>4 DEF ArrivedExact, Arrived, CoreStep
<1>7. MissedLast'
  BY <1>2, <1>4 DEF MissedLast, CoreStep
<1>8. CompletedAfter'
  BY <1>2, <1>3, <1>4 DEF CompletedAfter, CoreStep
<1>9. SentInTime'
  BY <1>2, <1>4, SentKept
<1>10. StopOnItsWay'
  BY <1>2, <1>3, <1>4, StopKept
<1> QED BY <1>3, <1>4, <1>5, <1>6, <1>7, <1>8, <1>9, <1>10, NetworkKept

LEMMA CompleteKeeps == ASSUME IInv, NEW p \in Procs, Complete(p) PROVE IInv'
<1> USE DEF IInv
<1>1. PICK k \in JobIds :
         /\ job[p][k] = "running" /\ ~Late(p, k) /\ Turns(p, k, "completed")
         /\ outgoing' = [outgoing EXCEPT ![p] = @ \cup {k}]
  BY DEF Complete
<1>2. /\ step[p] = "run" /\ step'[p] = "arrive"
      /\ outgoing'[p] = outgoing[p] \cup {k}
  BY <1>1 DEF TypeOK, Complete, At, Then
<1>3. /\ job' \in [Procs -> [JobIds -> States]]
      /\ \A q \in Procs \ {p} : job'[q] = job[q]
      /\ job'[p][k] = "completed"
      /\ \A j \in JobIds \ {k} : job'[p][j] = job[p][j]
      /\ \A j \in JobIds : job[p][j] # "missed"
      /\ Release(k) < time[p]
      /\ Ordered'
      /\ \A j \in JobIds : j \in Live(p)' => j \in Live(p)
  BY <1>1, <1>2, DoneWith
<1>4. CoreStep(p)
  BY <1>1, <1>2, <1>3 DEF TypeOK, Complete, Then, CoreStep
<1>5. TypeOK'
  BY <1>3, <1>4, TypeKept
<1>6. ArrivedExact'
  BY <1>1, <1>2, <1>3, <1>4 DEF ArrivedExact, Arrived, CoreStep
<1>7. MissedLast'
  BY <1>2, <1>3, <1>4 DEF MissedLast, CoreStep
<1>8. CompletedAfter'
  BY <1>2, <1>3, <1>4 DEF CompletedAfter, CoreStep
<1>9. SentInTime'
  <2>1. time[p] <= Release(k) + Deadline
    BY <1>1, Releases, TaskAssumption DEF Late, TypeOK
  <2> QED BY <1>2, <1>3, <1>4, <2>1 DEF SentInTime, CoreStep
<1>10. StopOnItsWay'
  BY <1>2, <1>3, <1>4, StopKept
<1> QED BY <1>3, <1>4, <1>5, <1>6, <1>7, <1>8, <1>9, <1>10, NetworkKept

LEMMA SelectKeeps == ASSUME IInv, NEW p \in Procs, Select(p) PROVE IInv'
<1> USE DEF IInv
<1>1. PICK next \in SUBSET First(p) :
         job' = [job EXCEPT ![p] =
           [k \in JobIds |-> IF k \in next THEN "running"
                             ELSE IF k \in Live(p) THEN "waiting" ELSE @[k]]]
  BY DEF Select
<1>2. /\ step[p] = "select" /\ step'[p] = "timer" /\ outgoing' = outgoing
  BY DEF TypeOK, Select, At, Then
<1>3. /\ \A q \in Procs \ {p} : job'[q] = job[q]
      /\ \A k \in JobIds : k \notin Live(p) => job'[p][k] = job[p][k]
      /\ \A k \in Live(p) : job'[p][k] \in {"running", "waiting"}
      /\ \A k \in Live(p) : job'[p][k] = "running" => \A j \in Live(p) : k <= j
  <2>1. /\ \A q \in Procs \ {p} : job'[q] = job[q]
        /\ job'[p] = [k \in JobIds |->
                        IF k \in next THEN "running"
                        ELSE IF k \in Live(p) THEN "waiting" ELSE job[p][k]]
    BY <1>1 DEF TypeOK
  <2>2. Live(p) \subseteq JobIds /\ next \subseteq Live(p)
    BY DEF Live, First
  <2>3. \A k \in next : \A j \in Live(p) : k <= j
    BY DEF First
  <2> QED BY <2>1, <2>2, <2>3
<1>4. job' \in [Procs -> [JobIds -> States]]
  BY <1>1 DEF TypeOK, States
<1>5. CoreStep(p)
  BY <1>2, <1>3, <1>4 DEF TypeOK, Select, Then, CoreStep, Live
<1>6. Ordered'
  <2> SUFFICES ASSUME NEW q \in Procs, NEW j \in JobIds, NEW i \in JobIds,
                      i < j, job'[q][j] \in {"running", "completed"}
               PROVE  /\ job'[q][i] \in {"completed", "removed", "missed"}
                      /\ job'[q][j] = "completed" => job'[q][i] # "missed"
    BY DEF Ordered
  <2>1. CASE q # p
    BY <1>3, <2>1 DEF Ordered
  <2>2. CASE q = p /\ j \notin Live(p)
    <3>1. job[p][j] = "completed"
      BY <1>3, <2>2 DEF Live
    <3>2. job[p][i] \in {"completed", "removed"}
      BY <3>1 DEF Ordered
    <3> QED BY <1>3, <2>2, <3>2 DEF Live
  <2>3. CASE q = p /\ j \in Live(p)
    <3>1. job'[p][j] = "running"
      BY <1>3, <2>3
    <3>2. i \in Int /\ j \in Int /\ i \notin Live(p)
      BY <1>3, <2>3, <3>1, Releases
    <3>3. Arrived(p, i)
      <4>1. Arrived(p, j)
        BY <2>3 DEF Live, ArrivedExact
      <4>2. Release(i) < Release(j) /\ Release(i) \in Nat /\ Release(j) \in Nat
        BY Releases, TaskAssumption
      <4> QED BY <4>1, <4>2 DEF Arrived, TypeOK
    <3>4. job[p][i] \in {"completed", "removed", "missed"}
      BY <3>2, <3>3 DEF ArrivedExact, Live, TypeOK, States
    <3> QED BY <1>3, <2>3, <3>1, <3>2, <3>4
  <2> QED BY <2>1, <2>2, <2>3
<1>7. TypeOK'
  BY <1>5, <1>6, TypeKept
<1>8. ArrivedExact'
  BY <1>2, <1>3, <1>5 DEF ArrivedExact, Arrived, CoreStep, Live
<1>9. MissedLast'
  BY <1>2, <1>3, <1>5 DEF MissedLast, CoreStep
<1>10. CompletedAfter'
  BY <1>2, <1>3, <1>5 DEF CompletedAfter, CoreStep
<1>11. SentInTime'
  BY <1>2, <1>5, SentKept
<1>12. StopOnItsWay'
  <2>1. \A k \in JobIds : k \in Live(p)' => k \in Live(p)
    BY <1>3 DEF Live
  <2>2. \A k \in JobIds : job'[p][k] = "completed" => job[p][k] = "completed"
    BY <1>3
  <2> QED BY <1>2, <1>5, <2>1, <2>2, StopKept
<1> QED BY <1>5, <1>6, <1>7, <1>8, <1>9, <1>10, <1>11, <1>12, NetworkKept

LEMMA ArriveKeeps == ASSUME IInv, NEW p \in Procs, Arrive(p) PROVE IInv'
<1> USE DEF IInv
<1>1. /\ step[p] = "arrive" /\ step'[p] = "select" /\ outgoing' = outgoing
      /\ UNCHANGED <<time, incoming, flight, late>>
      /\ time[p] \in Nat
  BY DEF TypeOK, Arrive, At, Then
<1>2. /\ \A q \in Procs \ {p} : job'[q] = job[q]
      /\ \A k \in JobIds : job'[p][k] = IF Release(k) = time[p] THEN "waiting"
                                                                ELSE job[p][k]
      /\ job' \in [Procs -> [JobIds -> States]]
  <2>1. CASE time[p] % Period = 0 /\ time[p] \div Period < Jobs
    <3>1. Turns(p, time[p] \div Period, "waiting")
      BY <2>1 DEF Arrive
    <3> QED BY <1>1, <2>1, <3>1, ReleaseAt DEF Turns, TypeOK, States
  <2>2. CASE ~(time[p] % Period = 0 /\ time[p] \div Period < Jobs)
    <3>1. job' = job
      BY <2>2 DEF Arrive
    <3>2. \A k \in JobIds : Release(k) # time[p]
      BY <1>1, <2>2, ReleaseAt, TaskAssumption DEF JobIds
    <3> QED BY <3>1, <3>2 DEF TypeOK
  <2> QED BY <2>1, <2>2
\* The copy that arrives was not there, and no later one is.
<1>3. \A k \in JobIds : Release(k) = time[p] => job[p][k] = "absent"
  BY <1>1 DEF ArrivedExact, Arrived
<1>4. CoreStep(p)
  BY <1>1, <1>2, <1>3 DEF TypeOK, Arrive, Then, CoreStep
<1>5. Ordered'
  <2> SUFFICES ASSUME NEW q \in Procs, NEW j \in JobIds, NEW i \in JobIds,
                      i < j, job'[q][j] \in {"running", "completed"}
               PROVE  /\ job'[q][i] \in {"completed", "removed", "missed"}
                      /\ job'[q][j] = "completed" => job'[q][i] # "missed"
    BY DEF Ordered
  <2>1. CASE q # p
    BY <1>2, <2>1 DEF Ordered
  <2>2. CASE q = p
    <3>1. job[p][j] = job'[p][j]
      BY <1>2, <2>2
    <3>2. /\ job[p][i] \in {"completed", "removed", "missed"}
          /\ job[p][j] = "completed" => job[p][i] # "missed"
      BY <2>2, <3>1 DEF Ordered
    <3>3. job'[p][i] = job[p][i]
      BY <1>2, <1>3, <3>2
    <3> QED BY <2>2, <3>1, <3>2, <3>3
  <2> QED BY <2>1, <2>2
<1>6. TypeOK'
  BY <1>4, <1>5, TypeKept
<1>7. ArrivedExact'
  <2> SUFFICES ASSUME NEW q \in Procs, NEW k \in JobIds
               PROVE  job'[q][k] # "absent" <=> Arrived(q, k)'
    BY DEF ArrivedExact
  <2>1. CASE q # p
    BY <1>1, <1>4, <2>1 DEF ArrivedExact, Arrived, CoreStep
  <2>2. CASE q = p
    BY <1>1, <1>2, <2>2 DEF ArrivedExact, Arrived
  <2> QED BY <2>1, <2>2
<1>8. MissedLast'
  BY <1>1, <1>2, <1>4 DEF MissedLast, CoreStep
<1>9. CompletedAfter'
  BY <1>1, <1>2, <1>4 DEF CompletedAfter, CoreStep
<1>10. SentInTime'
  BY <1>1, <1>4, SentKept
\* A copy that arrives after another has completed: the other processor is in
\* the next tick, and has not sent the message yet.
<1>11. StopOnItsWay'
  <2> SUFFICES ASSUME NEW r \in Procs, NEW q \in Procs, NEW k \in JobIds,
                      job'[q][k] = "completed", k \in Live(r)'
               PROVE  \/ k \in outgoing[q] \/ <<r, k>> \in flight
                      \/ k \in incoming[r] /\ step'[r] \in {"remove", "left"}
    BY <1>1 DEF StopOnItsWay
  <2>1. job[q][k] = "completed"
    BY <1>2
  <2>2. CASE k \in Live(r)
    <3>1. \/ k \in outgoing[q] \/ <<r, k>> \in flight
          \/ k \in incoming[r] /\ step[r] \in {"remove", "left"}
      BY <2>1, <2>2 DEF StopOnItsWay
    <3>2. step[r] \in {"remove", "left"} => step'[r] = step[r]
      BY <1>1, <1>4 DEF CoreStep
    <3> QED BY <3>1, <3>2
  <2>3. CASE k \notin Live(r)
    <3>1. r = p /\ Release(k) = time[p]
      BY <1>2, <2>3 DEF Live
    <3>2. time[q] <= time[p] + 1
      BY DEF ClocksTogether
    <3>3. k \notin outgoing[q] => Release(k) + 1 < time[q]
      BY <2>1 DEF CompletedAfter
    <3> QED BY <1>1, <3>1, <3>2, <3>3 DEF TypeOK
  <2> QED BY <2>2, <2>3
<1> QED BY <1>4, <1>5, <1>6, <1>7, <1>8, <1>9, <1>10, <1>11, NetworkKept

-----------------------------------------------------------------------------
(***************************************************************************)
(* What the timer does                                                     *)
(***************************************************************************)
LEMMA TickKeeps == ASSUME IInv, NEW p \in Procs, Tick(p) PROVE IInv'
<1> USE DEF IInv
<1>1. PICK received \in SUBSET Packets(p) :
         /\ late' = (late \/ received # Packets(p))
         /\ incoming' = [incoming EXCEPT ![p] = received]
         /\ flight' = (flight \ ({p} \X received)) \cup (Procs \X outgoing[p])
  BY DEF Tick, Exchange
<1>2. /\ step[p] = "timer" /\ step'[p] \in {"remove", "left"}
      /\ (\E k \in JobIds : job[p][k] = "missed") => step'[p] = "left"
      /\ time'[p] = time[p] + 1 /\ outgoing'[p] = {} /\ incoming'[p] = received
      /\ job' = job
      /\ \A q \in Procs : time[p] <= time[q]
  BY <1>1 DEF TypeOK, Tick, At, Then
<1>3. \A q \in Procs \ {p} : /\ step'[q] = step[q] /\ time'[q] = time[q]
                             /\ outgoing'[q] = outgoing[q]
                             /\ incoming'[q] = incoming[q]
  BY <1>1 DEF TypeOK, Tick, Then
<1>4. /\ received \subseteq JobIds
      /\ \A k \in received : <<p, k>> \in flight
      /\ late \in BOOLEAN
      /\ \A q \in Procs : time[q] \in Nat
  BY DEF Packets, TypeOK
<1>5. TypeOK'
  <2>1. /\ time' \in [Procs -> Nat]
        /\ step' \in [Procs -> {"remove", "run", "arrive", "select", "timer", "left"}]
    BY DEF TypeOK, Tick, Then
  <2>2. outgoing' \in [Procs -> SUBSET JobIds] /\ incoming' \in [Procs -> SUBSET JobIds]
    BY <1>1, <1>4 DEF TypeOK, Tick
  <2>3. flight' \in SUBSET (Procs \X JobIds)
    BY <1>1 DEF TypeOK
  <2> QED BY <1>1, <1>2, <1>4, <2>1, <2>2, <2>3 DEF TypeOK
<1>6. ArrivedExact'
  <2> SUFFICES ASSUME NEW q \in Procs, NEW k \in JobIds
               PROVE  job[q][k] # "absent" <=> Arrived(q, k)'
    BY <1>2 DEF ArrivedExact
  <2>1. CASE q # p
    BY <1>3, <2>1 DEF ArrivedExact, Arrived
  <2>2. CASE q = p
    BY <1>2, <1>4, <2>2, Releases DEF ArrivedExact, Arrived
  <2> QED BY <2>1, <2>2
<1>7. ClocksTogether'
  BY <1>2, <1>3, <1>4 DEF ClocksTogether
<1>8. Ordered'
  BY <1>2 DEF Ordered
<1>9. MissedLast'
  BY <1>2, <1>3 DEF MissedLast
<1>10. CompletedAfter'
  BY <1>2, <1>3, <1>4, Releases DEF CompletedAfter
<1>11. SentInTime'
  BY <1>2, <1>3 DEF SentInTime
<1>12. \A k \in JobIds : HasCompleted(k)' <=> HasCompleted(k)
  BY <1>2 DEF HasCompleted
<1>13. FlightInTime'
  <2> SUFFICES ASSUME NEW r \in Procs, NEW k \in JobIds, <<r, k>> \in flight'
               PROVE  /\ HasCompleted(k)
                      /\ ~late' => time'[r] <= Release(k) + Deadline + 1
    BY <1>12 DEF FlightInTime
  <2>1. CASE k \in outgoing[p]
    <3>1. job[p][k] = "completed" /\ time[p] <= Release(k) + Deadline
      BY <2>1 DEF SentInTime
    <3>2. time'[r] <= time[p] + 1
      BY <1>2, <1>3, <1>4 DEF ClocksTogether
    <3>3. Release(k) \in Nat /\ Deadline \in Nat /\ time'[r] \in Nat
      BY <1>5, Releases, TaskAssumption DEF TypeOK
    <3> QED BY <1>4, <3>1, <3>2, <3>3 DEF HasCompleted
  <2>2. CASE k \notin outgoing[p]
    <3>1. <<r, k>> \in flight /\ ~(r = p /\ k \in received)
      BY <1>1, <2>2
    <3>2. r = p => late'
      BY <1>1, <3>1 DEF Packets
    <3>3. HasCompleted(k) /\ (~late => time[r] <= Release(k) + Deadline + 1)
      BY <3>1 DEF FlightInTime
    <3> QED BY <1>1, <1>3, <3>2, <3>3
  <2> QED BY <2>1, <2>2
<1>14. ReceivedInTime'
  <2> SUFFICES ASSUME NEW r \in Procs, NEW k \in JobIds, k \in incoming'[r]
               PROVE  /\ HasCompleted(k)
                      /\ ~late' /\ step'[r] = "remove" =>
                            time'[r] <= Release(k) + Deadline + 2
    BY <1>5, <1>12 DEF ReceivedInTime, TypeOK
  <2>1. CASE r # p
    BY <1>1, <1>3, <2>1 DEF ReceivedInTime
  <2>2. CASE r = p
    <3>1. k \in JobIds /\ <<p, k>> \in flight
      BY <1>2, <1>4, <2>2
    <3>2. HasCompleted(k) /\ (~late => time[p] <= Release(k) + Deadline + 1)
      BY <3>1 DEF FlightInTime
    <3>3. Release(k) \in Nat /\ Deadline \in Nat
      BY <3>1, Releases, TaskAssumption
    <3> QED BY <1>1, <1>2, <1>4, <2>2, <3>2, <3>3
  <2> QED BY <2>1, <2>2
<1>15. StopOnItsWay'
  <2> SUFFICES ASSUME NEW r \in Procs, NEW q \in Procs, NEW k \in JobIds,
                      job[q][k] = "completed", k \in Live(r)
               PROVE  \/ k \in outgoing'[q] \/ <<r, k>> \in flight'
                      \/ k \in incoming'[r] /\ step'[r] \in {"remove", "left"}
    BY <1>2 DEF StopOnItsWay, Live
  <2>1. \/ k \in outgoing[q] \/ <<r, k>> \in flight
        \/ k \in incoming[r] /\ step[r] \in {"remove", "left"}
    BY DEF StopOnItsWay
  <2>2. CASE k \in outgoing[q]
    BY <1>1, <1>3, <2>2
  <2>3. CASE <<r, k>> \in flight
    BY <1>1, <1>2, <2>3
  <2>4. CASE k \in incoming[r] /\ step[r] \in {"remove", "left"}
    BY <1>2, <1>3, <2>4
  <2> QED BY <2>1, <2>2, <2>3, <2>4
<1> QED BY <1>5, <1>6, <1>7, <1>8, <1>9, <1>10, <1>11, <1>13, <1>14, <1>15

-----------------------------------------------------------------------------
LEMMA NextKeeps == IInv /\ [Next]_vars => IInv'
<1> SUFFICES ASSUME IInv, [Next]_vars PROVE IInv'
  OBVIOUS
<1>1. ASSUME NEW p \in Procs, Remove(p) PROVE IInv'
  BY <1>1, RemoveKeeps
<1>2. ASSUME NEW p \in Procs, KeepOn(p) PROVE IInv'
  BY <1>2, KeepOnKeeps
<1>3. ASSUME NEW p \in Procs, Miss(p) PROVE IInv'
  BY <1>3, MissKeeps
<1>4. ASSUME NEW p \in Procs, Complete(p) PROVE IInv'
  BY <1>4, CompleteKeeps
<1>5. ASSUME NEW p \in Procs, Arrive(p) PROVE IInv'
  BY <1>5, ArriveKeeps
<1>6. ASSUME NEW p \in Procs, Select(p) PROVE IInv'
  BY <1>6, SelectKeeps
<1>7. ASSUME NEW p \in Procs, Tick(p) PROVE IInv'
  BY <1>7, TickKeeps
<1>8. CASE UNCHANGED vars
  BY <1>8 DEF vars, IInv, TypeOK, ArrivedExact, Arrived, ClocksTogether, Ordered,
     MissedLast, CompletedAfter, SentInTime, FlightInTime, ReceivedInTime,
     HasCompleted, StopOnItsWay, Live
<1> QED BY <1>1, <1>2, <1>3, <1>4, <1>5, <1>6, <1>7, <1>8 DEF Next

\* The conjunction of all that follows, for every behaviour of the tasks, the
\* processors and the network.
THEOREM Invariance == Spec => []IInv
  BY InitIInv, NextKeeps, PTL DEF Spec

\* The types, and one running copy of the task on each core.
THEOREM TypeCorrect == Spec => []TypeOK
<1>1. IInv => TypeOK
  BY DEF IInv
<1> QED BY <1>1, Invariance, PTL

\* The message of a completed copy is on its way to every copy that is alive,
\* and ring_buffer_clear does not drop it, whatever the network does.
THEOREM MessageReachesCopies == Spec => []StopOnItsWay
<1>1. IInv => StopOnItsWay
  BY DEF IInv
<1> QED BY <1>1, Invariance, PTL

-----------------------------------------------------------------------------
(***************************************************************************)
(* What is removed had completed elsewhere.  That needs time between the   *)
(* deadline and the next release: two ticks, in which the message travels. *)
(***************************************************************************)
TimeToHear == Deadline + 2 <= Period

LEMMA RemoveIsRight ==
    ASSUME TimeToHear, IInv, RemovedDone, NEW p \in Procs, Remove(p)
    PROVE  RemovedDone'
<1> SUFFICES ASSUME ~late, NEW r \in Procs, NEW k \in JobIds, job'[r][k] = "removed"
             PROVE  \E q \in Procs : job'[q][k] = "completed"
  BY DEF RemovedDone, Remove
<1>1. /\ step[p] = "remove"
      /\ \A q \in Procs \ {p} : job'[q] = job[q]
      /\ \A i \in JobIds :
            job'[p][i] = IF Stopped(p, i) THEN "removed" ELSE job[p][i]
  BY DEF IInv, TypeOK, Remove, At
<1>2. \A q \in Procs : job[q][k] = "completed" => job'[q][k] = "completed"
  BY <1>1 DEF Stopped
<1>3. CASE job[r][k] = "removed"
  BY <1>2, <1>3 DEF RemovedDone
<1>4. CASE job[r][k] # "removed"
  <2>1. r = p /\ Stopped(p, k)
    BY <1>1, <1>4
  <2>2. CASE k \in incoming[p]
    BY <1>2, <2>2 DEF IInv, ReceivedInTime, HasCompleted
  <2>3. CASE k \notin incoming[p]
    <3>1. job[p][k] = "running"
      BY <2>1, <2>3 DEF Stopped
    <3>2. PICK j \in incoming[p] : TRUE
      BY <2>1, <2>3 DEF Stopped
    <3>3. j \in JobIds /\ j # k /\ j \in Int /\ k \in Int
      BY <2>3, Releases DEF IInv, TypeOK
    \* A later job runs only after its release, when the message is gone.
    <3>4. ~(j < k)
      <4>1. time[p] <= Release(j) + Deadline + 2
        BY <1>1 DEF IInv, ReceivedInTime
      <4>2. Release(k) < time[p]
        BY <1>1, <3>1 DEF IInv, ArrivedExact, Arrived
      <4>3. j < k => Release(j) + Period <= Release(k)
        BY <3>3, Releases
      <4>4. /\ time[p] \in Nat /\ Release(j) \in Nat /\ Release(k) \in Nat
            /\ Deadline \in Nat /\ Period \in Nat
        BY <3>3, Releases, TaskAssumption DEF IInv, TypeOK
      <4> QED BY <4>1, <4>2, <4>3, <4>4 DEF TimeToHear
    \* An earlier one is over where the job of the message has completed.
    <3>5. PICK q \in Procs : job[q][j] = "completed"
      BY DEF IInv, ReceivedInTime, HasCompleted
    <3>6. job[q][k] \in {"completed", "removed"}
      BY <3>3, <3>4, <3>5 DEF IInv, Ordered
    <3> QED BY <1>2, <3>6 DEF RemovedDone
  <2> QED BY <2>2, <2>3
<1> QED BY <1>3, <1>4

\* Every other step removes nothing, and what has completed stays so.
LEMMA NothingRemoved ==
    ASSUME RemovedDone, late \in BOOLEAN, late => late',
           \A p \in Procs, k \in JobIds :
               /\ job'[p][k] = "removed" => job[p][k] = "removed"
               /\ job[p][k] = "completed" => job'[p][k] = "completed"
    PROVE  RemovedDone'
  BY DEF RemovedDone

LEMMA NextIsRight ==
    ASSUME TimeToHear, IInv, RemovedDone, [Next]_vars PROVE RemovedDone'
<1>1. ASSUME NEW p \in Procs, Remove(p) PROVE RemovedDone'
  BY <1>1, RemoveIsRight
<1>2. ASSUME NEW p \in Procs, KeepOn(p) \/ Miss(p) \/ Complete(p)
      PROVE  RemovedDone'
  <2>1. late' = late /\ late \in BOOLEAN
    BY <1>2 DEF KeepOn, Miss, Complete, IInv, TypeOK
  <2>2. \A q \in Procs, k \in JobIds :
           /\ job'[q][k] = "removed" => job[q][k] = "removed"
           /\ job[q][k] = "completed" => job'[q][k] = "completed"
    BY <1>2 DEF KeepOn, Miss, Complete, Turns, IInv, TypeOK
  <2> QED BY <2>1, <2>2, NothingRemoved
<1>3. ASSUME NEW p \in Procs, Arrive(p) PROVE RemovedDone'
  <2>1. late' = late /\ late \in BOOLEAN
    BY <1>3 DEF Arrive, IInv, TypeOK
  <2>2. \A q \in Procs, k \in JobIds :
           /\ job'[q][k] = "removed" => job[q][k] = "removed"
           /\ job[q][k] = "completed" => job'[q][k] = "completed"
    <3> SUFFICES ASSUME NEW q \in Procs, NEW k \in JobIds
                 PROVE  /\ job'[q][k] = "removed" => job[q][k] = "removed"
                        /\ job[q][k] = "completed" => job'[q][k] = "completed"
      OBVIOUS
    <3>1. CASE job' = job
      BY <3>1
    <3>2. CASE /\ time[p] % Period = 0 /\ time[p] \div Period < Jobs
               /\ Turns(p, time[p] \div Period, "waiting")
      <4>1. q = p /\ k = time[p] \div Period => job[q][k] = "absent"
        <5>1. time[p] \in Nat /\ step[p] = "arrive"
          BY <1>3 DEF Arrive, At, IInv, TypeOK
        <5>2. k = time[p] \div Period => Release(k) = time[p]
          BY <3>2, <5>1, ReleaseAt
        <5>3. k = time[p] \div Period => ~Arrived(p, k)
          BY <5>1, <5>2 DEF Arrived
        <5> QED BY <5>3 DEF IInv, ArrivedExact
      <4> QED BY <3>2, <4>1 DEF Turns, IInv, TypeOK
    <3> QED BY <1>3, <3>1, <3>2 DEF Arrive
  <2> QED BY <2>1, <2>2, NothingRemoved
<1>4. ASSUME NEW p \in Procs, Select(p) PROVE RemovedDone'
  <2>1. late' = late /\ late \in BOOLEAN
    BY <1>4 DEF Select, IInv, TypeOK
  <2>2. \A q \in Procs, k \in JobIds :
           /\ job'[q][k] = "removed" => job[q][k] = "removed"
           /\ job[q][k] = "completed" => job'[q][k] = "completed"
    BY <1>4 DEF Select, First, Live, IInv, TypeOK
  <2> QED BY <2>1, <2>2, NothingRemoved
<1>5. ASSUME NEW p \in Procs, Tick(p) PROVE RemovedDone'
  <2>1. late \in BOOLEAN /\ (late => late') /\ job' = job
    BY <1>5 DEF Tick, Exchange, IInv, TypeOK
  <2> QED BY <2>1, NothingRemoved
<1>6. CASE UNCHANGED vars
  BY <1>6 DEF vars, RemovedDone
<1> QED BY <1>1, <1>2, <1>3, <1>4, <1>5, <1>6 DEF Next

\* If two ticks lie between a deadline and the next release and no packet is
\* late, a copy is given up only when another copy of the same job is done.
THEOREM RemovalsAreRight == ASSUME TimeToHear PROVE Spec => []RemovedDone
<1>1. Init => RemovedDone
  BY DEF Init, RemovedDone
<1>2. IInv /\ RemovedDone /\ [Next]_vars => RemovedDone'
  BY NextIsRight
<1> QED BY <1>1, <1>2, Invariance, PTL DEF Spec
=============================================================================
