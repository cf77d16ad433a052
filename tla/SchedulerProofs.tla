-------------------------- MODULE SchedulerProofs --------------------------
(***************************************************************************)
(* Proofs about Scheduler: IInv is an inductive invariant, whatever the    *)
(* cores, the jobs, their owners and the capacity of the queues.  One      *)
(* lemma per action (or per group of actions that only move a thread on),  *)
(* one step per conjunct of IInv.                                          *)
(***************************************************************************)
EXTENDS Scheduler, FiniteSetTheorems, TLAPS

-----------------------------------------------------------------------------
(* Facts about the data                                                    *)

\* The lists are different places.
LEMMA PlacesDistinct ==
    /\ Unlinked # Shared
    /\ \A c, d \in Cores :
         /\ Ready(c) # Unlinked /\ Ready(c) # Shared
         /\ Discard(c) # Unlinked /\ Discard(c) # Shared
         /\ Pending(c) # Unlinked /\ Pending(c) # Shared
         /\ Ready(c) # Discard(d) /\ Ready(c) # Pending(d)
         /\ Discard(c) # Pending(d)
         /\ Ready(c) = Ready(d) => c = d
         /\ Discard(c) = Discard(d) => c = d
         /\ Pending(c) = Pending(d) => c = d
BY DEF Unlinked, Shared, Ready, Discard, Pending

\* Every list is a place.
LEMMA PlacesAre ==
    /\ Unlinked \in Places /\ Shared \in Places
    /\ \A c \in Cores : /\ Ready(c) \in Places /\ Discard(c) \in Places
                        /\ Pending(c) \in Places
BY DEF Places

\* What claiming a ticket does to a queue of requests.
LEMMA AppendSlots ==
    ASSUME NEW q \in Seq(Request), NEW r \in Request
    PROVE  /\ Append(q, r) \in Seq(Request)
           /\ Len(q) \in Nat /\ Len(Append(q, r)) = Len(q) + 1
           /\ \A i \in 1..Len(q) : Append(q, r)[i] = q[i]
           /\ Append(q, r)[Len(q) + 1] = r
OBVIOUS

\* What taking the head out does to a queue of requests.
LEMMA TailSlots ==
    ASSUME NEW q \in Seq(Request), q # <<>>
    PROVE  /\ Tail(q) \in Seq(Request) /\ Head(q) \in Request
           /\ Len(q) \in Nat \ {0} /\ Len(Tail(q)) = Len(q) - 1
           /\ Head(q) = q[1]
           /\ \A i \in 1..Len(Tail(q)) : Tail(q)[i] = q[i + 1] /\ i + 1 \in 1..Len(q)
OBVIOUS

-----------------------------------------------------------------------------
\* The initial state satisfies the inductive invariant.
THEOREM InitInv == Init => IInv
<1> SUFFICES ASSUME Init PROVE IInv
  OBVIOUS
<1> USE NoneAssumption, PlacesDistinct DEF Init
<1>1. TypeOK
  BY PlacesAre DEF TypeOK, States, Steps, Request, NoRequest
<1>2. \A j \in Jobs : ~Homed(j) /\ ~Requested(j)
  BY DEF Homed, Requested, Slots, Serving
<1>3. LockExact /\ HandsExact /\ CompletionHasJob /\ SettledAtHome
  BY DEF LockExact, HandsExact, CompletionHasJob, SettledAtHome, Moved
<1>4. RequestsValid /\ UniqueRequest /\ WaitsAtHome /\ OfferedExact
  BY DEF RequestsValid, UniqueRequest, WaitsAtHome, OfferedExact, Slots, Serving
<1>5. UniqueHome /\ StateAgrees
  BY DEF UniqueHome, StateAgrees
<1>6. RefcountExact /\ PoolExact
  BY <1>2 DEF RefcountExact, PoolExact
<1> QED
  BY <1>1, <1>3, <1>4, <1>5, <1>6 DEF IInv

-----------------------------------------------------------------------------
(* Steps that only move a thread on                                        *)

JudgeSteps   == {"lock1", "lock2", "judge"}
SettleSteps  == {"settle", "release"}
ServingSteps == {"lock1", "lock2", "judge", "settle", "release"}

\* Requests that no step touches keep their part of the invariant.
LEMMA RequestsKept ==
    ASSUME IInv, TypeOK', UNCHANGED <<migq, req>>,
           \A e \in Cores : /\ pc'[e] \in ServingSteps <=> pc[e] \in ServingSteps
                            /\ pc'[e] = "release" <=> pc[e] = "release",
           \A k \in Jobs : offered'[k] => offered[k]
    PROVE  /\ RequestsValid' /\ UniqueRequest' /\ OfferedExact'
           /\ \A k \in Jobs : Requested(k)' <=> Requested(k)
<1>1. \A e \in Cores : Serving(e)' <=> Serving(e)
  BY DEF Serving, ServingSteps
<1>2. RequestsValid'
  BY <1>1 DEF IInv, RequestsValid, Slots, ValidRequest
<1>3. UniqueRequest'
  BY <1>1 DEF IInv, UniqueRequest, Slots
<1>4. OfferedExact'
  BY <1>1 DEF IInv, OfferedExact, Slots
<1>5. \A k \in Jobs : Requested(k)' <=> Requested(k)
  BY <1>1 DEF Requested, Slots
<1> QED
  BY <1>2, <1>3, <1>4, <1>5

\* A step that changes no job, no request and no hand.
LEMMA QuietStep ==
    ASSUME IInv, TypeOK', LockExact', HandsExact',
           NEW c \in Cores, NEW s \in Steps,
           UNCHANGED <<link, state, refs, offered, pool, running, hand, migq, req>>,
           pc' = [pc EXCEPT ![c] = s],
           s = "complete" => running[c] # None, s # "dispatch",
           s \in JudgeSteps <=> pc[c] \in JudgeSteps,
           s \notin SettleSteps, pc[c] \notin SettleSteps
    PROVE  IInv'
<1>t. TypeOK
  BY DEF IInv
<1>1. \A e \in Cores : /\ pc'[e] \in ServingSteps <=> pc[e] \in ServingSteps
                       /\ pc'[e] = "release" <=> pc[e] = "release"
                       /\ pc'[e] \in JudgeSteps <=> pc[e] \in JudgeSteps
                       /\ pc'[e] \in SettleSteps <=> pc[e] \in SettleSteps
  BY <1>t DEF TypeOK, ServingSteps, JudgeSteps, SettleSteps
<1>2. /\ RequestsValid' /\ UniqueRequest' /\ OfferedExact'
      /\ \A k \in Jobs : Requested(k)' <=> Requested(k)
  BY <1>1, RequestsKept
<1>3. \A k \in Jobs : Homed(k)' <=> Homed(k)
  BY DEF Homed
<1>4. UniqueHome' /\ CompletionHasJob'
  BY <1>t DEF IInv, UniqueHome, CompletionHasJob, TypeOK
<1>5. StateAgrees'
  BY <1>t DEF IInv, StateAgrees, HandsExact, TypeOK
<1>6. RefcountExact' /\ PoolExact'
  BY <1>2, <1>3 DEF IInv, RefcountExact, PoolExact
<1>7. WaitsAtHome'
  BY <1>1, <1>3 DEF IInv, WaitsAtHome, RequestsValid, ValidRequest, Serving, ServingSteps, JudgeSteps, Slots, AtHome, Homed
<1>8. SettledAtHome'
  BY <1>1 DEF IInv, SettledAtHome, Moved, SettleSteps
<1> QED
  BY <1>2, <1>4, <1>5, <1>6, <1>7, <1>8 DEF IInv

PlainSteps == Steps \ {"own", "offer", "publish", "lock1", "lock2", "judge",
                       "settle", "release", "put", "dispatch"}

\* Quiet steps that touch no lock.
LEMMA PlainStep ==
    ASSUME IInv, NEW c \in Cores, NEW s \in PlainSteps, pc[c] \in PlainSteps,
           UNCHANGED <<link, state, refs, offered, pool, running, hand, migq, req, lock>>,
           pc' = [pc EXCEPT ![c] = s],
           s \in {"complete", "raise"} => running[c] # None,
           \/ asleep' = asleep /\ (asleep[c] => s \in {"ecc", "mode", "dpm", "barrier"})
           \/ \E b \in BOOLEAN : /\ b => running[c] = None /\ s = "barrier"
                                 /\ asleep' = [asleep EXCEPT ![c] = b]
    PROVE  IInv'
<1>t. TypeOK
  BY DEF IInv
<1>1. TypeOK'
  BY <1>t DEF TypeOK, PlainSteps
<1>2. LockExact'
  BY <1>t DEF IInv, LockExact, TypeOK, First, Pair, PlainSteps
<1>3. HandsExact'
  BY <1>t DEF IInv, HandsExact, TypeOK, PlainSteps
<1> QED
  BY <1>1, <1>2, <1>3, QuietStep DEF PlainSteps, JudgeSteps, SettleSteps

\* The plain steps of a core.
LEMMA PlainActions ==
    ASSUME IInv, NEW c \in Cores,
           \/ NoMoreCompletions(c) \/ SameMode(c) \/ StayAsleep(c) \/ Awake(c)
           \/ KeepRunning(c) \/ BudgetEvent(c) \/ NoMorePending(c)
           \/ NoMoreArrivals(c) \/ SkipPush(c) \/ DecidePush(c) \/ FutureEnd(c)
           \/ DrainEnd(c) \/ SelectNone(c) \/ SetDpm(c)
    PROVE  IInv'
<1> USE DEF At, Goto, jobVars, coreVars, migVars, PlainSteps, Steps
<1>h. asleep[c] => pc[c] \in {"ecc", "mode", "dpm", "barrier"}
  BY DEF IInv, HandsExact
<1>t. TypeOK
  BY DEF IInv
<1>1. CASE NoMoreCompletions(c)
  BY <1>1, PlainStep DEF NoMoreCompletions
<1>2. CASE SameMode(c)
  BY <1>2, PlainStep DEF SameMode
<1>3. CASE StayAsleep(c)
  BY <1>3, PlainStep DEF StayAsleep
<1>4. CASE Awake(c)
  <2>1. UNCHANGED <<link, state, refs, offered, pool, running, hand, migq, req, lock>>
    BY <1>4 DEF Awake
  <2>2. pc[c] = "dpm" /\ pc' = [pc EXCEPT ![c] = "run"]
    BY <1>4 DEF Awake
  <2>3. asleep' = [asleep EXCEPT ![c] = FALSE]
    BY <1>4 DEF Awake
  <2> QED
    BY <2>1, <2>2, <2>3, PlainStep
<1>5. CASE KeepRunning(c)
  BY <1>5, <1>h, PlainStep DEF KeepRunning
<1>6. CASE BudgetEvent(c)
  BY <1>6, <1>h, PlainStep DEF BudgetEvent
<1>7. CASE NoMorePending(c)
  BY <1>7, <1>h, PlainStep DEF NoMorePending
<1>8. CASE NoMoreArrivals(c)
  BY <1>8, <1>h, PlainStep DEF NoMoreArrivals
<1>9. CASE SkipPush(c)
  BY <1>9, <1>h, PlainStep DEF SkipPush
<1>10. CASE DecidePush(c)
  BY <1>10, <1>h, PlainStep DEF DecidePush
<1>11. CASE FutureEnd(c)
  BY <1>11, <1>h, PlainStep DEF FutureEnd
<1>12. CASE DrainEnd(c)
  BY <1>12, <1>h, PlainStep DEF DrainEnd
<1>13. CASE SelectNone(c)
  BY <1>13, <1>h, PlainStep DEF SelectNone
<1>14. CASE SetDpm(c)
  <2> PICK b \in BOOLEAN : (b => running[c] = None) /\ asleep' = [asleep EXCEPT ![c] = b]
    BY <1>14 DEF SetDpm
  <2>1. pc[c] = "power" /\ pc' = [pc EXCEPT ![c] = "barrier"]
    BY <1>14 DEF SetDpm
  <2>2. UNCHANGED <<link, state, refs, offered, pool, running, hand, migq, req, lock>>
    BY <1>14 DEF SetDpm
  <2> QED
    BY <2>1, <2>2, PlainStep
<1> QED
  BY <1>1, <1>2, <1>3, <1>4, <1>5, <1>6, <1>7, <1>8, <1>9, <1>10, <1>11, <1>12, <1>13, <1>14

\* Taking and releasing run-queue locks.
LEMMA LockActions ==
    ASSUME IInv, NEW c \in Cores,
           \/ ReclaimBegin(c) \/ ShedBegin(c) \/ ShedEnd(c)
           \/ LockFirst(c) \/ LockSecond(c)
    PROVE  IInv'
<1> USE DEF At, Goto, jobVars, coreVars, migVars
<1>t. TypeOK
  BY DEF IInv
<1>v. Serving(c) => ValidRequest(req[c], c)
  BY DEF IInv, RequestsValid
<1>1. CASE ReclaimBegin(c)
  <2> USE <1>1 DEF ReclaimBegin, Lock, Free
  <2>1. TypeOK'
    BY <1>t DEF TypeOK, Steps
  <2>2. LockExact'
    BY <1>t, NoneAssumption DEF IInv, LockExact, TypeOK, First, Pair
  <2>3. HandsExact'
    BY <1>t DEF IInv, HandsExact, TypeOK
  <2> QED
    BY <2>1, <2>2, <2>3, QuietStep DEF Steps, JudgeSteps, SettleSteps
<1>2. CASE ShedBegin(c)
  <2> USE <1>2 DEF ShedBegin, Lock, Free
  <2>1. TypeOK'
    BY <1>t DEF TypeOK, Steps
  <2>2. LockExact'
    BY <1>t, NoneAssumption DEF IInv, LockExact, TypeOK, First, Pair
  <2>3. HandsExact'
    BY <1>t DEF IInv, HandsExact, TypeOK
  <2> QED
    BY <2>1, <2>2, <2>3, QuietStep DEF Steps, JudgeSteps, SettleSteps
<1>3. CASE ShedEnd(c)
  <2> USE <1>3 DEF ShedEnd, Unlock
  <2>1. TypeOK'
    BY <1>t DEF TypeOK, Steps
  <2>2. LockExact'
    BY <1>t, NoneAssumption DEF IInv, LockExact, TypeOK, First, Pair
  <2>3. HandsExact'
    BY <1>t DEF IInv, HandsExact, TypeOK
  <2> QED
    BY <2>1, <2>2, <2>3, QuietStep DEF Steps, JudgeSteps, SettleSteps
<1>4. CASE LockFirst(c)
  <2> USE <1>4 DEF LockFirst, Lock, Free
  <2>f. First(c) \in Cores
    BY <1>v DEF First, Serving, ValidRequest
  <2>1. TypeOK'
    BY <1>t, <2>f DEF TypeOK, Steps
  <2>2. LockExact'
    BY <1>t, <2>f, NoneAssumption DEF IInv, LockExact, TypeOK, First, Pair
  <2>3. HandsExact'
    BY <1>t DEF IInv, HandsExact, TypeOK
  <2> QED
    BY <2>1, <2>2, <2>3, QuietStep DEF Steps, JudgeSteps, SettleSteps
<1>5. CASE LockSecond(c)
  <2> USE <1>5 DEF LockSecond, Lock, Free
  <2>f. /\ First(c) \in Cores /\ Second(c) \in Cores
        /\ Pair(c) = {First(c), Second(c)} /\ First(c) # Second(c)
    BY <1>v DEF First, Second, Pair, Serving, ValidRequest
  <2>1. TypeOK'
    BY <1>t, <2>f DEF TypeOK, Steps
  <2>g. UNCHANGED req /\ \A e \in Cores : First(e)' = First(e) /\ Pair(e)' = Pair(e)
    BY DEF First, Pair
  <2>2. LockExact'
    BY <1>t, <2>f, <2>g, NoneAssumption DEF IInv, LockExact, TypeOK
  <2>3. HandsExact'
    BY <1>t DEF IInv, HandsExact, TypeOK
  <2> QED
    BY <2>1, <2>2, <2>3, QuietStep DEF Steps, JudgeSteps, SettleSteps
<1> QED
  BY <1>1, <1>2, <1>3, <1>4, <1>5

-----------------------------------------------------------------------------
(* Steps that move jobs between lists, the running slot and a hand         *)

\* Counts stay exact when every job keeps a home or stays without one.
LEMMA CountsKept ==
    ASSUME IInv, UNCHANGED <<refs, pool>>,
           \A k \in Jobs : /\ Homed(k)' <=> Homed(k)
                           /\ Requested(k)' <=> Requested(k)
    PROVE  RefcountExact' /\ PoolExact'
BY DEF IInv, RefcountExact, PoolExact

\* Counts stay exact when the jobs of S lose their home and one reference.
LEMMA CountsPut ==
    ASSUME IInv, NEW S \in SUBSET Jobs, NEW who \in Cores \cup {None}, PutRefs(S, who),
           \A k \in Jobs : /\ Homed(k)' <=> Homed(k) /\ k \notin S
                           /\ k \in S => Homed(k)
                           /\ Requested(k)' <=> Requested(k)
    PROVE  /\ refs' \in [Jobs -> Nat]
           /\ pool' \in [Jobs -> {"live", "free", "remote"}]
           /\ RefcountExact' /\ PoolExact'
<1>t. TypeOK
  BY DEF IInv
<1>1. \A k \in Jobs : refs[k] = (IF Homed(k) THEN 1 ELSE 0) + (IF Requested(k) THEN 1 ELSE 0)
  BY DEF IInv, RefcountExact
<1>2. \A k \in Jobs : refs'[k] = (IF Homed(k)' THEN 1 ELSE 0) + (IF Requested(k)' THEN 1 ELSE 0)
  BY <1>1, <1>t DEF PutRefs, TypeOK
<1>3. refs' \in [Jobs -> Nat]
  <2>1. DOMAIN refs' = Jobs /\ refs' = [k \in Jobs |-> refs'[k]]
    BY DEF PutRefs
  <2> QED
    BY <1>2, <2>1
<1>4. \A k \in Jobs : pool'[k] = "live" <=> Homed(k)' \/ Requested(k)'
  BY <1>1, <1>t DEF IInv, PutRefs, PoolFor, PoolExact
<1>5. pool' \in [Jobs -> {"live", "free", "remote"}]
  BY <1>t DEF PutRefs, PoolFor, TypeOK
<1> QED
  BY <1>2, <1>3, <1>4, <1>5 DEF RefcountExact, PoolExact

\* Waiting requests stay valid when no offered job is taken from its sender.
LEMMA WaitsKept ==
    ASSUME IInv, UNCHANGED <<migq, req>>,
           \A e \in Cores : pc'[e] \in JudgeSteps <=> pc[e] \in JudgeSteps,
           \A k \in Jobs, f \in Cores : Requested(k) =>
             /\ offered[k] => offered'[k]
             /\ Homed(k)' => Homed(k)
             /\ offered[k] /\ Homed(k)' /\ AtHome(k, f) => AtHome(k, f)'
             /\ /\ state'[k] = "READY"
                /\ state[k] = "READY" => Homed(k)
                /\ Homed(k) => AtHome(k, f)
                => Homed(k)'
    PROVE  WaitsAtHome'
<1>1. \A d \in Cores : \A i \in Slots(d) :
         /\ migq[d][i].job \in Jobs /\ migq[d][i].from \in Cores
         /\ Requested(migq[d][i].job)
         /\ Homed(migq[d][i].job) => AtHome(migq[d][i].job, migq[d][i].from) /\ offered[migq[d][i].job]
         /\ state[migq[d][i].job] = "READY" => Homed(migq[d][i].job)
  BY DEF IInv, RequestsValid, ValidRequest, WaitsAtHome, Requested
<1>2. \A d \in Cores : pc[d] \in JudgeSteps =>
         /\ req[d].job \in Jobs /\ req[d].from \in Cores
         /\ Requested(req[d].job)
         /\ Homed(req[d].job) => AtHome(req[d].job, req[d].from) /\ offered[req[d].job]
         /\ state[req[d].job] = "READY" => Homed(req[d].job)
  BY DEF IInv, RequestsValid, ValidRequest, WaitsAtHome, Requested, Serving, JudgeSteps
<1>3. \A k \in Jobs, f \in Cores :
         /\ Requested(k)
         /\ Homed(k) => AtHome(k, f) /\ offered[k]
         /\ state[k] = "READY" => Homed(k)
         => /\ Homed(k)' => AtHome(k, f)' /\ offered'[k]
            /\ state'[k] = "READY" => Homed(k)'
  OBVIOUS
<1>4. \A d \in Cores : Slots(d)' = Slots(d)
  BY DEF Slots
<1>5. \A d \in Cores : \A i \in Slots(d) :
         /\ Homed(migq[d][i].job)' => AtHome(migq[d][i].job, migq[d][i].from)' /\ offered'[migq[d][i].job]
         /\ state'[migq[d][i].job] = "READY" => Homed(migq[d][i].job)'
  BY <1>1, <1>3 DEF AtHome, Homed
<1>6. \A d \in Cores : pc[d] \in JudgeSteps =>
         /\ Homed(req[d].job)' => AtHome(req[d].job, req[d].from)' /\ offered'[req[d].job]
         /\ state'[req[d].job] = "READY" => Homed(req[d].job)'
  BY <1>2, <1>3 DEF AtHome, Homed
<1> QED
  BY <1>4, <1>5, <1>6 DEF WaitsAtHome, JudgeSteps

\* Settling requests stay valid when no job leaves a core that settles.
LEMMA SettledKept ==
    ASSUME IInv, UNCHANGED req,
           \A e \in Cores : pc'[e] \in SettleSteps <=> pc[e] \in SettleSteps,
           \A e \in Cores, k \in Jobs :
               pc[e] \in SettleSteps /\ link[k] \in {Ready(e), Discard(e)}
                   => link'[k] \in {Ready(e), Discard(e)}
    PROVE  SettledAtHome'
BY DEF IInv, SettledAtHome, Moved, SettleSteps, RequestsValid, ValidRequest, Serving

\* remove_completed_jobs keeps the invariant: whatever a message matches loses
\* its home and one reference.
LEMMA RemoveCompletedStep ==
    ASSUME IInv, NEW c \in Cores, RemoveCompleted(c) PROVE IInv'
<1> PICK D \in SUBSET (In(Ready(c)) \cup Current(c)) \ {{}} :
       /\ link' = [j \in Jobs |-> IF j \in D THEN Unlinked ELSE link[j]]
       /\ state' = [j \in Jobs |-> IF j \in D THEN "REMOVED" ELSE state[j]]
       /\ running' = [running EXCEPT ![c] = IF @ \in D THEN None ELSE @]
       /\ PutRefs(D, c)
  BY DEF RemoveCompleted
<1> USE NoneAssumption, PlacesDistinct
<1>t. TypeOK
  BY DEF IInv
<1>a. /\ pc[c] = "ecc" /\ lock[c] = None
      /\ UNCHANGED <<offered, hand, asleep, migq, req, lock, pc>>
  BY DEF RemoveCompleted, At, Free, migVars
<1>d. \A j \in D : /\ j \in Jobs
                   /\ link[j] = Ready(c) \/ running[c] = j
                   /\ Homed(j)
  BY <1>t DEF In, Current, Homed, TypeOK
<1>s. D \in SUBSET Jobs
  BY <1>d
<1>u. UniqueHome
  BY DEF IInv
<1>1. \A k \in Jobs : /\ Homed(k)' <=> Homed(k) /\ k \notin D
                      /\ k \in D => Homed(k)
  BY <1>a, <1>d, <1>t, <1>u DEF Homed, UniqueHome, TypeOK
<1>2. \A k \in Jobs : Requested(k)' <=> Requested(k)
  BY <1>a DEF Requested, Slots, Serving
<1>3. /\ refs' \in [Jobs -> Nat] /\ pool' \in [Jobs -> {"live", "free", "remote"}]
      /\ RefcountExact' /\ PoolExact'
  BY <1>1, <1>2, <1>s, CountsPut
<1>4. TypeOK'
  BY <1>t, <1>a, <1>3, PlacesAre DEF TypeOK, States
<1>5. LockExact'
  BY <1>t, <1>a DEF IInv, LockExact, First, Pair
<1>9. HandsExact'
  BY <1>t, <1>a, <1>d, <1>u DEF IInv, HandsExact, UniqueHome, TypeOK
<1>10. CompletionHasJob'
  BY <1>t, <1>a DEF IInv, CompletionHasJob, TypeOK
<1>11. SettledAtHome'
  BY <1>t, <1>a, <1>d, <1>u, SettledKept DEF UniqueHome, TypeOK, SettleSteps
<1>6. RequestsValid' /\ UniqueRequest' /\ OfferedExact'
  BY <1>4, <1>a, RequestsKept
<1>7. UniqueHome' /\ StateAgrees'
  BY <1>t, <1>a, <1>d, <1>u DEF IInv, UniqueHome, StateAgrees, HandsExact, TypeOK
<1>8. WaitsAtHome'
  BY <1>t, <1>a, <1>d, <1>u, <1>1, WaitsKept DEF AtHome, TypeOK, Homed
<1> QED
  BY <1>3, <1>4, <1>5, <1>6, <1>7, <1>8, <1>9, <1>10, <1>11 DEF IInv

\* handle_mode_change keeps the invariant: offered jobs stay in their queue.
LEMMA ModeChangeStep ==
    ASSUME IInv, NEW c \in Cores, NEW next \in {"dpm", "pending"},
           \/ pc[c] = "mode" /\ next = "dpm"
           \/ pc[c] = "raise" /\ next = "pending",
           HandleModeChange(c, next)
    PROVE  IInv'
<1> PICK D \in SUBSET {j \in In(Ready(c)) \cup Current(c) : ~offered[j]} :
         link' = [j \in Jobs |-> IF j \in D THEN Discard(c)
                                 ELSE IF j \in Current(c) THEN Ready(c)
                                 ELSE link[j]]
  BY DEF HandleModeChange, Discardable
<1> USE NoneAssumption, PlacesDistinct
<1>t. TypeOK
  BY DEF IInv
<1>a. /\ pc' = [pc EXCEPT ![c] = next] /\ lock[c] = None
      /\ state' = [j \in Jobs |-> IF j \in Current(c) THEN "READY" ELSE state[j]]
      /\ running' = [running EXCEPT ![c] = None]
      /\ UNCHANGED <<refs, offered, pool, hand, asleep, migq, req, lock>>
  BY DEF HandleModeChange, Preempted, Goto, Free, migVars
<1>d. \A j \in D : /\ j \in Jobs /\ ~offered[j]
                   /\ link[j] = Ready(c) \/ running[c] = j
                   /\ Homed(j)
  BY <1>t DEF In, Current, Homed, TypeOK
<1>r. \A j \in Jobs : j \in Current(c) <=> running[c] = j
  BY DEF Current
<1>u. UniqueHome
  BY DEF IInv
<1>1. \A k \in Jobs : Homed(k)' <=> Homed(k)
  BY <1>a, <1>d, <1>t, <1>u, <1>r DEF Homed, UniqueHome, TypeOK
<1>4. TypeOK'
  BY <1>t, <1>a, PlacesAre DEF TypeOK, States, Steps
<1>p. \A e \in Cores : /\ pc'[e] \in ServingSteps <=> pc[e] \in ServingSteps
                       /\ pc'[e] = "release" <=> pc[e] = "release"
                       /\ pc'[e] \in JudgeSteps <=> pc[e] \in JudgeSteps
                       /\ pc'[e] \in SettleSteps <=> pc[e] \in SettleSteps
  BY <1>t, <1>a DEF TypeOK, ServingSteps, JudgeSteps, SettleSteps
<1>6. /\ RequestsValid' /\ UniqueRequest' /\ OfferedExact'
      /\ \A k \in Jobs : Requested(k)' <=> Requested(k)
  BY <1>4, <1>a, <1>p, RequestsKept
<1>3. RefcountExact' /\ PoolExact'
  BY <1>1, <1>6, <1>a, CountsKept
<1>5. LockExact'
  BY <1>t, <1>a DEF IInv, LockExact, First, Pair, TypeOK
<1>10. CompletionHasJob'
  BY <1>t, <1>a DEF IInv, CompletionHasJob, TypeOK
<1>11. HandsExact'
  BY <1>t, <1>a, <1>u, <1>r DEF IInv, HandsExact, TypeOK, UniqueHome
<1>9. SettledAtHome'
  BY <1>t, <1>a, <1>d, <1>u, <1>r, <1>p, SettledKept DEF TypeOK, UniqueHome, SettleSteps
<1>7. UniqueHome' /\ StateAgrees'
  BY <1>t, <1>a, <1>d, <1>u, <1>r DEF IInv, UniqueHome, StateAgrees, HandsExact, TypeOK
<1>8. WaitsAtHome'
  BY <1>t, <1>a, <1>d, <1>u, <1>1, <1>p, <1>r, WaitsKept DEF AtHome, TypeOK, UniqueHome, Homed
<1> QED
  BY <1>3, <1>4, <1>5, <1>6, <1>7, <1>8, <1>9, <1>10, <1>11 DEF IInv

\* Stopping a job that missed its deadline keeps the invariant.
LEMMA MissDeadlineStep ==
    ASSUME IInv, NEW c \in Cores, MissDeadline(c)
    PROVE  IInv'
<1> USE NoneAssumption, PlacesDistinct
<1>t. TypeOK
  BY DEF IInv
<1>u. UniqueHome
  BY DEF IInv
<1>a. /\ pc[c] = "run" /\ pc' = [pc EXCEPT ![c] = "pending"] /\ lock[c] = None
      /\ running[c] # None /\ PutRefs({running[c]}, c)
      /\ state' = [state EXCEPT ![running[c]] = "COMPLETED"]
      /\ running' = [running EXCEPT ![c] = None]
      /\ UNCHANGED <<link, offered, hand, asleep, migq, req, lock>>
  BY DEF MissDeadline, At, Free, Goto, migVars
<1>d. running[c] \in Jobs /\ link[running[c]] = Unlinked /\ Homed(running[c])
  BY <1>t, <1>a, <1>u DEF TypeOK, UniqueHome, Homed
<1>p. \A e \in Cores : /\ pc'[e] \in ServingSteps <=> pc[e] \in ServingSteps
                       /\ pc'[e] = "release" <=> pc[e] = "release"
                       /\ pc'[e] \in JudgeSteps <=> pc[e] \in JudgeSteps
                       /\ pc'[e] \in SettleSteps <=> pc[e] \in SettleSteps
  BY <1>t, <1>a DEF TypeOK, ServingSteps, JudgeSteps, SettleSteps
<1>1. \A k \in Jobs : /\ Homed(k)' <=> Homed(k) /\ k \notin {running[c]}
                      /\ k \in {running[c]} => Homed(k)
  BY <1>t, <1>a, <1>d, <1>u DEF Homed, UniqueHome, TypeOK
<1>2. \A k \in Jobs : Requested(k)' <=> Requested(k)
  BY <1>a, <1>p DEF Requested, Slots, Serving, ServingSteps
<1>3. /\ refs' \in [Jobs -> Nat] /\ pool' \in [Jobs -> {"live", "free", "remote"}]
      /\ RefcountExact' /\ PoolExact'
  BY <1>1, <1>2, <1>a, <1>d, CountsPut
<1>4. TypeOK'
  BY <1>t, <1>d, <1>3, <1>a, PlacesAre DEF TypeOK, States, Steps
<1>6. RequestsValid' /\ UniqueRequest' /\ OfferedExact'
  BY <1>4, <1>a, <1>p, RequestsKept
<1>5. LockExact'
  BY <1>t, <1>a DEF IInv, LockExact, First, Pair, TypeOK
<1>9. HandsExact'
  BY <1>t, <1>a, <1>d, <1>u DEF IInv, HandsExact, UniqueHome, TypeOK
<1>10. CompletionHasJob'
  BY <1>t, <1>a DEF IInv, CompletionHasJob, TypeOK
<1>11. SettledAtHome'
  BY <1>t, <1>a, <1>d, <1>u, <1>p, SettledKept DEF UniqueHome, TypeOK, SettleSteps
<1>7. UniqueHome'
  BY <1>t, <1>a, <1>d, <1>u DEF UniqueHome, TypeOK
<1>12. StateAgrees'
  BY <1>t, <1>a, <1>d, <1>u DEF IInv, UniqueHome, StateAgrees, HandsExact, TypeOK
<1>8. WaitsAtHome'
  BY <1>t, <1>a, <1>d, <1>u, <1>1, <1>p, WaitsKept DEF IInv, AtHome, TypeOK, UniqueHome, HandsExact, StateAgrees, Homed
<1> QED
  BY <1>3, <1>4, <1>5, <1>6, <1>7, <1>8, <1>9, <1>10, <1>11, <1>12 DEF IInv

\* handle_job_completion keeps the invariant up to the unlock: the job is in
\* the thread's hand.
LEMMA CompleteRunningStep ==
    ASSUME IInv, NEW c \in Cores, CompleteRunning(c)
    PROVE  IInv'
<1> USE NoneAssumption, PlacesDistinct
<1>t. TypeOK
  BY DEF IInv
<1>u. UniqueHome
  BY DEF IInv
<1>a. /\ pc[c] = "complete" /\ pc' = [pc EXCEPT ![c] = "put"] /\ lock[c] = None
      /\ running[c] # None
      /\ state' = [state EXCEPT ![running[c]] = "COMPLETED"]
      /\ hand' = [hand EXCEPT ![c] = running[c]]
      /\ running' = [running EXCEPT ![c] = None]
      /\ UNCHANGED <<link, refs, offered, pool, asleep, migq, req, lock>>
  BY DEF CompleteRunning, At, Free, Goto, migVars
<1>d. running[c] \in Jobs /\ link[running[c]] = Unlinked
  BY <1>t, <1>a, <1>u DEF TypeOK, UniqueHome
<1>h. hand[c] = None
  BY <1>a DEF IInv, HandsExact
<1>p. \A e \in Cores : /\ pc'[e] \in ServingSteps <=> pc[e] \in ServingSteps
                       /\ pc'[e] = "release" <=> pc[e] = "release"
                       /\ pc'[e] \in JudgeSteps <=> pc[e] \in JudgeSteps
                       /\ pc'[e] \in SettleSteps <=> pc[e] \in SettleSteps
  BY <1>t, <1>a DEF TypeOK, ServingSteps, JudgeSteps, SettleSteps
<1>1. \A k \in Jobs : Homed(k)' <=> Homed(k)
  BY <1>t, <1>a, <1>d, <1>h, <1>u DEF Homed, UniqueHome, TypeOK
<1>4. TypeOK'
  BY <1>t, <1>d, <1>a, PlacesAre DEF TypeOK, States, Steps
<1>6. /\ RequestsValid' /\ UniqueRequest' /\ OfferedExact'
      /\ \A k \in Jobs : Requested(k)' <=> Requested(k)
  BY <1>4, <1>a, <1>p, RequestsKept
<1>3. RefcountExact' /\ PoolExact'
  BY <1>1, <1>6, <1>a, CountsKept
<1>5. LockExact'
  BY <1>t, <1>a DEF IInv, LockExact, First, Pair, TypeOK
<1>9. HandsExact'
  BY <1>t, <1>a, <1>d, <1>h, <1>u DEF IInv, HandsExact, UniqueHome, TypeOK
<1>10. CompletionHasJob'
  BY <1>t, <1>a DEF IInv, CompletionHasJob, TypeOK
<1>11. SettledAtHome'
  BY <1>t, <1>a, <1>d, <1>h, <1>u, <1>p, SettledKept DEF UniqueHome, TypeOK, SettleSteps
<1>7. UniqueHome'
  BY <1>t, <1>a, <1>d, <1>h, <1>u DEF UniqueHome, TypeOK
<1>12. StateAgrees'
  BY <1>t, <1>a, <1>d, <1>h, <1>u DEF IInv, UniqueHome, StateAgrees, HandsExact, TypeOK
<1>8. WaitsAtHome'
  BY <1>t, <1>a, <1>d, <1>h, <1>u, <1>1, <1>p, WaitsKept DEF IInv, AtHome, TypeOK, UniqueHome, HandsExact, StateAgrees, Homed
<1> QED
  BY <1>3, <1>4, <1>5, <1>6, <1>7, <1>8, <1>9, <1>10, <1>11, <1>12 DEF IInv

\* put_job_ref of the completed job keeps the invariant.
LEMMA PutCompletedStep ==
    ASSUME IInv, NEW c \in Cores, PutCompleted(c)
    PROVE  IInv'
<1> USE NoneAssumption, PlacesDistinct
<1>t. TypeOK
  BY DEF IInv
<1>u. UniqueHome
  BY DEF IInv
<1>a. /\ pc[c] = "put" /\ pc' = [pc EXCEPT ![c] = "pending"]
      /\ PutRefs({hand[c]}, c)
      /\ hand' = [hand EXCEPT ![c] = None]
      /\ UNCHANGED <<link, state, offered, running, asleep, migq, req, lock>>
  BY DEF PutCompleted, At, Goto, migVars
<1>d. hand[c] \in Jobs /\ link[hand[c]] = Unlinked /\ Homed(hand[c])
  BY <1>t, <1>a, <1>u DEF IInv, TypeOK, UniqueHome, HandsExact, Homed
<1>p. \A e \in Cores : /\ pc'[e] \in ServingSteps <=> pc[e] \in ServingSteps
                       /\ pc'[e] = "release" <=> pc[e] = "release"
                       /\ pc'[e] \in JudgeSteps <=> pc[e] \in JudgeSteps
                       /\ pc'[e] \in SettleSteps <=> pc[e] \in SettleSteps
  BY <1>t, <1>a DEF TypeOK, ServingSteps, JudgeSteps, SettleSteps
<1>1. \A k \in Jobs : /\ Homed(k)' <=> Homed(k) /\ k \notin {hand[c]}
                      /\ k \in {hand[c]} => Homed(k)
  BY <1>t, <1>a, <1>d, <1>u DEF Homed, UniqueHome, TypeOK
<1>2. \A k \in Jobs : Requested(k)' <=> Requested(k)
  BY <1>a, <1>p DEF Requested, Slots, Serving, ServingSteps
<1>3. /\ refs' \in [Jobs -> Nat] /\ pool' \in [Jobs -> {"live", "free", "remote"}]
      /\ RefcountExact' /\ PoolExact'
  BY <1>1, <1>2, <1>a, <1>d, CountsPut
<1>4. TypeOK'
  BY <1>t, <1>d, <1>3, <1>a, PlacesAre DEF TypeOK, States, Steps
<1>6. RequestsValid' /\ UniqueRequest' /\ OfferedExact'
  BY <1>4, <1>a, <1>p, RequestsKept
<1>5. LockExact'
  BY <1>t, <1>a DEF IInv, LockExact, First, Pair, TypeOK
<1>9. HandsExact'
  BY <1>t, <1>a, <1>d, <1>u DEF IInv, HandsExact, UniqueHome, TypeOK
<1>10. CompletionHasJob'
  BY <1>t, <1>a DEF IInv, CompletionHasJob, TypeOK
<1>11. SettledAtHome'
  BY <1>t, <1>a, <1>d, <1>u, <1>p, SettledKept DEF UniqueHome, TypeOK, SettleSteps
<1>7. UniqueHome'
  BY <1>t, <1>a, <1>d, <1>u DEF UniqueHome, TypeOK
<1>12. StateAgrees'
  BY <1>t, <1>a, <1>d, <1>u DEF IInv, UniqueHome, StateAgrees, HandsExact, TypeOK
<1>8. WaitsAtHome'
  BY <1>t, <1>a, <1>d, <1>u, <1>1, <1>p, WaitsKept DEF IInv, AtHome, TypeOK, UniqueHome, HandsExact, StateAgrees, Homed
<1> QED
  BY <1>3, <1>4, <1>5, <1>6, <1>7, <1>8, <1>9, <1>10, <1>11, <1>12 DEF IInv

\* The arrival of a delegated job keeps the invariant.
LEMMA ArrivePendingStep ==
    ASSUME IInv, NEW c \in Cores, ArrivePending(c)
    PROVE  IInv'
<1> PICK j \in In(Pending(c)), place \in {Ready(c), Discard(c)} :
         /\ link' = [link EXCEPT ![j] = place]
         /\ state' = [state EXCEPT ![j] = "READY"]
  BY DEF ArrivePending, Homes
<1> USE NoneAssumption, PlacesDistinct
<1>t. TypeOK
  BY DEF IInv
<1>u. UniqueHome
  BY DEF IInv
<1>a. /\ pc[c] = "pending" /\ lock[c] = None
      /\ UNCHANGED <<refs, offered, pool, running, hand, asleep, migq, req, lock, pc>>
  BY DEF ArrivePending, At, Free, migVars, coreVars
<1>d. j \in Jobs /\ link[j] = Pending(c)
  BY <1>t, <1>a, <1>u DEF In
<1>p. \A e \in Cores : /\ pc'[e] \in ServingSteps <=> pc[e] \in ServingSteps
                       /\ pc'[e] = "release" <=> pc[e] = "release"
                       /\ pc'[e] \in JudgeSteps <=> pc[e] \in JudgeSteps
                       /\ pc'[e] \in SettleSteps <=> pc[e] \in SettleSteps
  BY <1>t, <1>a DEF TypeOK, ServingSteps, JudgeSteps, SettleSteps
<1>1. \A k \in Jobs : Homed(k)' <=> Homed(k)
  BY <1>t, <1>a, <1>d, <1>u DEF Homed, UniqueHome, TypeOK
<1>4. TypeOK'
  BY <1>t, <1>d, <1>a, PlacesAre DEF TypeOK, States, Steps
<1>6. /\ RequestsValid' /\ UniqueRequest' /\ OfferedExact'
      /\ \A k \in Jobs : Requested(k)' <=> Requested(k)
  BY <1>4, <1>a, <1>p, RequestsKept
<1>3. RefcountExact' /\ PoolExact'
  BY <1>1, <1>6, <1>a, CountsKept
<1>5. LockExact'
  BY <1>t, <1>a DEF IInv, LockExact, First, Pair, TypeOK
<1>9. HandsExact'
  BY <1>t, <1>a, <1>d, <1>u DEF IInv, HandsExact, UniqueHome, TypeOK
<1>10. CompletionHasJob'
  BY <1>t, <1>a DEF IInv, CompletionHasJob, TypeOK
<1>11. SettledAtHome'
  BY <1>t, <1>a, <1>d, <1>u, <1>p, SettledKept DEF UniqueHome, TypeOK, SettleSteps
<1>7. UniqueHome'
  BY <1>t, <1>a, <1>d, <1>u DEF UniqueHome, TypeOK
<1>12. StateAgrees'
  BY <1>t, <1>a, <1>d, <1>u DEF IInv, UniqueHome, StateAgrees, HandsExact, TypeOK
<1>8. WaitsAtHome'
  BY <1>t, <1>a, <1>d, <1>u, <1>1, <1>p, WaitsKept DEF IInv, AtHome, TypeOK, UniqueHome, HandsExact, StateAgrees, Homed
<1> QED
  BY <1>3, <1>4, <1>5, <1>6, <1>7, <1>8, <1>9, <1>10, <1>11, <1>12 DEF IInv

\* The expiry of a delegated job keeps the invariant.
LEMMA ExpirePendingStep ==
    ASSUME IInv, NEW c \in Cores, ExpirePending(c)
    PROVE  IInv'
<1> PICK j \in In(Pending(c)) :
         /\ link' = [link EXCEPT ![j] = Unlinked]
         /\ PutRefs({j}, c)
  BY DEF ExpirePending
<1> USE NoneAssumption, PlacesDistinct
<1>t. TypeOK
  BY DEF IInv
<1>u. UniqueHome
  BY DEF IInv
<1>a. /\ pc[c] = "pending"
      /\ UNCHANGED <<state, offered, running, hand, asleep, migq, req, lock, pc>>
  BY DEF ExpirePending, At, migVars, coreVars
<1>d. j \in Jobs /\ link[j] = Pending(c) /\ Homed(j)
  BY <1>t, <1>a, <1>u DEF In, Homed
<1>p. \A e \in Cores : /\ pc'[e] \in ServingSteps <=> pc[e] \in ServingSteps
                       /\ pc'[e] = "release" <=> pc[e] = "release"
                       /\ pc'[e] \in JudgeSteps <=> pc[e] \in JudgeSteps
                       /\ pc'[e] \in SettleSteps <=> pc[e] \in SettleSteps
  BY <1>t, <1>a DEF TypeOK, ServingSteps, JudgeSteps, SettleSteps
<1>1. \A k \in Jobs : /\ Homed(k)' <=> Homed(k) /\ k \notin {j}
                      /\ k \in {j} => Homed(k)
  BY <1>t, <1>a, <1>d, <1>u DEF Homed, UniqueHome, TypeOK
<1>2. \A k \in Jobs : Requested(k)' <=> Requested(k)
  BY <1>a, <1>p DEF Requested, Slots, Serving, ServingSteps
<1>3. /\ refs' \in [Jobs -> Nat] /\ pool' \in [Jobs -> {"live", "free", "remote"}]
      /\ RefcountExact' /\ PoolExact'
  BY <1>1, <1>2, <1>a, <1>d, CountsPut
<1>4. TypeOK'
  BY <1>t, <1>d, <1>3, <1>a, PlacesAre DEF TypeOK, States, Steps
<1>6. RequestsValid' /\ UniqueRequest' /\ OfferedExact'
  BY <1>4, <1>a, <1>p, RequestsKept
<1>5. LockExact'
  BY <1>t, <1>a DEF IInv, LockExact, First, Pair, TypeOK
<1>9. HandsExact'
  BY <1>t, <1>a, <1>d, <1>u DEF IInv, HandsExact, UniqueHome, TypeOK
<1>10. CompletionHasJob'
  BY <1>t, <1>a DEF IInv, CompletionHasJob, TypeOK
<1>11. SettledAtHome'
  BY <1>t, <1>a, <1>d, <1>u, <1>p, SettledKept DEF UniqueHome, TypeOK, SettleSteps
<1>7. UniqueHome'
  BY <1>t, <1>a, <1>d, <1>u DEF UniqueHome, TypeOK
<1>12. StateAgrees'
  BY <1>t, <1>a, <1>d, <1>u DEF IInv, UniqueHome, StateAgrees, HandsExact, TypeOK
<1>8. WaitsAtHome'
  BY <1>t, <1>a, <1>d, <1>u, <1>1, <1>p, WaitsKept DEF IInv, AtHome, TypeOK, UniqueHome, HandsExact, StateAgrees, Homed
<1> QED
  BY <1>3, <1>4, <1>5, <1>6, <1>7, <1>8, <1>9, <1>10, <1>11, <1>12 DEF IInv

\* No job that a core is about to reclaim is being offered: an offered job
\* is in a ready queue, runs, or has just been moved by its own destination.
LEMMA DiscardedFree ==
    ASSUME IInv PROVE DiscardedNotOffered
<1> SUFFICES ASSUME NEW c \in Cores, pc[c] = "own",
                    NEW j \in Jobs, link[j] \in {Discard(c), Shared}, offered[j]
             PROVE  FALSE
  BY DEF DiscardedNotOffered, In
<1>1. Homed(j) /\ \A e \in Cores : ~AtHome(j, e)
  <2>1. \A e \in Cores : link[j] # Unlinked /\ link[j] # Ready(e)
    BY PlacesDistinct
  <2>2. \A e \in Cores : running[e] # j /\ hand[e] # j
    BY <2>1 DEF IInv, UniqueHome
  <2> QED
    BY <2>1, <2>2 DEF Homed, AtHome
<1>2. ASSUME NEW d \in Cores, NEW i \in Slots(d), migq[d][i].job = j PROVE FALSE
  BY <1>1, <1>2 DEF IInv, WaitsAtHome, RequestsValid, ValidRequest
<1>3. ASSUME NEW d \in Cores, pc[d] \in JudgeSteps, req[d].job = j PROVE FALSE
  <2>1. Serving(d)
    BY <1>3 DEF Serving, JudgeSteps
  <2> QED
    BY <1>1, <1>3, <2>1 DEF IInv, WaitsAtHome, RequestsValid, ValidRequest, JudgeSteps
<1>4. ASSUME NEW d \in Cores, pc[d] = "settle", req[d].job = j PROVE FALSE
  <2>1. link[j] \in {Ready(d), Discard(d)} /\ d # c
    BY <1>4 DEF IInv, SettledAtHome, Moved
  <2> QED
    BY <2>1, PlacesDistinct
<1> QED
  BY <1>2, <1>3, <1>4 DEF IInv, OfferedExact, Serving, JudgeSteps

\* Reclaiming the core's own discarded jobs keeps the invariant.
LEMMA ReclaimOwnStep ==
    ASSUME IInv, NEW c \in Cores, ReclaimOwn(c)
    PROVE  IInv'
<1> PICK j \in In(Discard(c)) : \E admitted \in BOOLEAN :
         link' = [link EXCEPT ![j] = IF admitted THEN Ready(c)
                                     ELSE IF ~offered[j] THEN Shared
                                     ELSE Unlinked]
  BY DEF ReclaimOwn
<1>f. pc[c] = "own" /\ ~offered[j]
  BY DiscardedFree DEF ReclaimOwn, At, DiscardedNotOffered
<1> PICK place \in {Ready(c), Shared} : link' = [link EXCEPT ![j] = place]
  BY <1>f
<1> USE NoneAssumption, PlacesDistinct
<1>t. TypeOK
  BY DEF IInv
<1>u. UniqueHome
  BY DEF IInv
<1>a. /\ pc[c] = "own"
      /\ UNCHANGED <<state, refs, offered, pool, running, hand, asleep, migq, req, lock, pc>>
  BY DEF ReclaimOwn, At, migVars, coreVars
<1>d. j \in Jobs /\ link[j] = Discard(c)
  BY <1>t, <1>a, <1>u DEF In
<1>p. \A e \in Cores : /\ pc'[e] \in ServingSteps <=> pc[e] \in ServingSteps
                       /\ pc'[e] = "release" <=> pc[e] = "release"
                       /\ pc'[e] \in JudgeSteps <=> pc[e] \in JudgeSteps
                       /\ pc'[e] \in SettleSteps <=> pc[e] \in SettleSteps
  BY <1>t, <1>a DEF TypeOK, ServingSteps, JudgeSteps, SettleSteps
<1>1. \A k \in Jobs : Homed(k)' <=> Homed(k)
  BY <1>t, <1>a, <1>d, <1>u DEF Homed, UniqueHome, TypeOK
<1>4. TypeOK'
  BY <1>t, <1>d, <1>a, PlacesAre DEF TypeOK, States, Steps
<1>6. /\ RequestsValid' /\ UniqueRequest' /\ OfferedExact'
      /\ \A k \in Jobs : Requested(k)' <=> Requested(k)
  BY <1>4, <1>a, <1>p, RequestsKept
<1>3. RefcountExact' /\ PoolExact'
  BY <1>1, <1>6, <1>a, CountsKept
<1>5. LockExact'
  BY <1>t, <1>a DEF IInv, LockExact, First, Pair, TypeOK
<1>9. HandsExact'
  BY <1>t, <1>a, <1>d, <1>u DEF IInv, HandsExact, UniqueHome, TypeOK
<1>10. CompletionHasJob'
  BY <1>t, <1>a DEF IInv, CompletionHasJob, TypeOK
<1>11. SettledAtHome'
  BY <1>t, <1>a, <1>d, <1>u, <1>p, SettledKept DEF UniqueHome, TypeOK, SettleSteps
<1>7. UniqueHome'
  BY <1>t, <1>a, <1>d, <1>u DEF UniqueHome, TypeOK
<1>12. StateAgrees'
  BY <1>t, <1>a, <1>d, <1>u DEF IInv, UniqueHome, StateAgrees, HandsExact, TypeOK
<1>8. WaitsAtHome'
  BY <1>t, <1>a, <1>d, <1>u, <1>1, <1>p, WaitsKept DEF IInv, AtHome, TypeOK, UniqueHome, HandsExact, StateAgrees, Homed
<1> QED
  BY <1>3, <1>4, <1>5, <1>6, <1>7, <1>8, <1>9, <1>10, <1>11, <1>12 DEF IInv

\* Reclaiming from the shared queue keeps the invariant.
LEMMA ReclaimSharedStep ==
    ASSUME IInv, NEW c \in Cores, ReclaimShared(c)
    PROVE  IInv'
<1> PICK S \in SUBSET In(Shared) :
         link' = [j \in Jobs |-> IF j \in S THEN Ready(c) ELSE link[j]]
  BY DEF ReclaimShared
<1> USE NoneAssumption, PlacesDistinct
<1>t. TypeOK
  BY DEF IInv
<1>u. UniqueHome
  BY DEF IInv
<1>a. /\ pc[c] = "own" /\ pc' = [pc EXCEPT ![c] = "push"]
      /\ lock' = [m \in Cores |-> IF m \in {c} THEN None ELSE lock[m]]
      /\ UNCHANGED <<state, refs, offered, pool, running, hand, asleep, migq, req>>
  BY DEF ReclaimShared, At, Goto, Unlock, migVars, coreVars
<1>d. \A j \in S : j \in Jobs /\ link[j] = Shared
  BY <1>t, <1>a, <1>u DEF In
<1>p. \A e \in Cores : /\ pc'[e] \in ServingSteps <=> pc[e] \in ServingSteps
                       /\ pc'[e] = "release" <=> pc[e] = "release"
                       /\ pc'[e] \in JudgeSteps <=> pc[e] \in JudgeSteps
                       /\ pc'[e] \in SettleSteps <=> pc[e] \in SettleSteps
  BY <1>t, <1>a DEF TypeOK, ServingSteps, JudgeSteps, SettleSteps
<1>1. \A k \in Jobs : Homed(k)' <=> Homed(k)
  BY <1>t, <1>a, <1>d, <1>u DEF Homed, UniqueHome, TypeOK
<1>4. TypeOK'
  BY <1>t, <1>d, <1>a, PlacesAre DEF TypeOK, States, Steps
<1>6. /\ RequestsValid' /\ UniqueRequest' /\ OfferedExact'
      /\ \A k \in Jobs : Requested(k)' <=> Requested(k)
  BY <1>4, <1>a, <1>p, RequestsKept
<1>3. RefcountExact' /\ PoolExact'
  BY <1>1, <1>6, <1>a, CountsKept
<1>5. LockExact'
  BY <1>t, <1>a DEF IInv, LockExact, First, Pair, TypeOK
<1>9. HandsExact'
  BY <1>t, <1>a, <1>d, <1>u DEF IInv, HandsExact, UniqueHome, TypeOK
<1>10. CompletionHasJob'
  BY <1>t, <1>a DEF IInv, CompletionHasJob, TypeOK
<1>11. SettledAtHome'
  BY <1>t, <1>a, <1>d, <1>u, <1>p, SettledKept DEF UniqueHome, TypeOK, SettleSteps
<1>7. UniqueHome'
  BY <1>t, <1>a, <1>d, <1>u DEF UniqueHome, TypeOK
<1>12. StateAgrees'
  BY <1>t, <1>a, <1>d, <1>u DEF IInv, UniqueHome, StateAgrees, HandsExact, TypeOK
<1>8. WaitsAtHome'
  BY <1>t, <1>a, <1>d, <1>u, <1>1, <1>p, WaitsKept DEF IInv, AtHome, TypeOK, UniqueHome, HandsExact, StateAgrees, Homed
<1> QED
  BY <1>3, <1>4, <1>5, <1>6, <1>7, <1>8, <1>9, <1>10, <1>11, <1>12 DEF IInv

\* select_next_job keeps the invariant: the job is in the thread's hand.
LEMMA SelectStep ==
    ASSUME IInv, NEW c \in Cores, Select(c)
    PROVE  IInv'
<1> PICK j \in In(Ready(c)) :
         /\ link' = [link EXCEPT ![j] = Unlinked]
         /\ hand' = [hand EXCEPT ![c] = j]
  BY DEF Select
<1> USE NoneAssumption, PlacesDistinct
<1>t. TypeOK
  BY DEF IInv
<1>u. UniqueHome
  BY DEF IInv
<1>a. /\ pc[c] = "select" /\ pc' = [pc EXCEPT ![c] = "dispatch"] /\ lock[c] = None
      /\ UNCHANGED <<state, refs, offered, pool, running, asleep, migq, req, lock>>
  BY DEF Select, At, Free, Goto, migVars
<1>d. j \in Jobs /\ link[j] = Ready(c) /\ hand[c] = None /\ state[j] = "READY"
  BY <1>t, <1>a, <1>u DEF IInv, In, HandsExact, StateAgrees
<1>p. \A e \in Cores : /\ pc'[e] \in ServingSteps <=> pc[e] \in ServingSteps
                       /\ pc'[e] = "release" <=> pc[e] = "release"
                       /\ pc'[e] \in JudgeSteps <=> pc[e] \in JudgeSteps
                       /\ pc'[e] \in SettleSteps <=> pc[e] \in SettleSteps
  BY <1>t, <1>a DEF TypeOK, ServingSteps, JudgeSteps, SettleSteps
<1>1. \A k \in Jobs : Homed(k)' <=> Homed(k)
  BY <1>t, <1>a, <1>d, <1>u DEF Homed, UniqueHome, TypeOK
<1>4. TypeOK'
  BY <1>t, <1>d, <1>a, PlacesAre DEF TypeOK, States, Steps
<1>6. /\ RequestsValid' /\ UniqueRequest' /\ OfferedExact'
      /\ \A k \in Jobs : Requested(k)' <=> Requested(k)
  BY <1>4, <1>a, <1>p, RequestsKept
<1>3. RefcountExact' /\ PoolExact'
  BY <1>1, <1>6, <1>a, CountsKept
<1>5. LockExact'
  BY <1>t, <1>a DEF IInv, LockExact, First, Pair, TypeOK
<1>9. HandsExact'
  BY <1>t, <1>a, <1>d, <1>u DEF IInv, HandsExact, UniqueHome, TypeOK
<1>10. CompletionHasJob'
  BY <1>t, <1>a DEF IInv, CompletionHasJob, TypeOK
<1>11. SettledAtHome'
  BY <1>t, <1>a, <1>d, <1>u, <1>p, SettledKept DEF UniqueHome, TypeOK, SettleSteps
<1>7. UniqueHome'
  BY <1>t, <1>a, <1>d, <1>u DEF UniqueHome, TypeOK
<1>12. StateAgrees'
  BY <1>t, <1>a, <1>d, <1>u DEF IInv, UniqueHome, StateAgrees, HandsExact, TypeOK
<1>8. WaitsAtHome'
  BY <1>t, <1>a, <1>d, <1>u, <1>1, <1>p, WaitsKept DEF IInv, AtHome, TypeOK, UniqueHome, HandsExact, StateAgrees, Homed
<1> QED
  BY <1>3, <1>4, <1>5, <1>6, <1>7, <1>8, <1>9, <1>10, <1>11, <1>12 DEF IInv

\* dispatch_job keeps the invariant: hand and running job change places.
LEMMA DispatchStep ==
    ASSUME IInv, NEW c \in Cores, Dispatch(c)
    PROVE  IInv'
<1> USE NoneAssumption, PlacesDistinct
<1>t. TypeOK
  BY DEF IInv
<1>u. UniqueHome
  BY DEF IInv
<1>a. /\ pc[c] = "dispatch" /\ pc' = [pc EXCEPT ![c] = "power"] /\ lock[c] = None
      /\ link' = [j \in Jobs |-> IF running[c] = j THEN Ready(c) ELSE link[j]]
      /\ state' = [j \in Jobs |-> IF j = hand[c] THEN "RUNNING"
                                  ELSE IF running[c] = j THEN "READY"
                                  ELSE state[j]]
      /\ running' = [running EXCEPT ![c] = hand[c]]
      /\ hand' = [hand EXCEPT ![c] = None]
      /\ UNCHANGED <<refs, offered, pool, asleep, migq, req, lock>>
  BY DEF Dispatch, Preempted, Current, At, Free, Goto, migVars
<1>d. /\ hand[c] \in Jobs /\ link[hand[c]] = Unlinked /\ hand[c] # running[c]
      /\ running[c] # None => link[running[c]] = Unlinked /\ running[c] \in Jobs
  BY <1>t, <1>a, <1>u DEF IInv, TypeOK, UniqueHome, HandsExact
<1>p. \A e \in Cores : /\ pc'[e] \in ServingSteps <=> pc[e] \in ServingSteps
                       /\ pc'[e] = "release" <=> pc[e] = "release"
                       /\ pc'[e] \in JudgeSteps <=> pc[e] \in JudgeSteps
                       /\ pc'[e] \in SettleSteps <=> pc[e] \in SettleSteps
  BY <1>t, <1>a DEF TypeOK, ServingSteps, JudgeSteps, SettleSteps
<1>1. \A k \in Jobs : Homed(k)' <=> Homed(k)
  BY <1>t, <1>a, <1>d, <1>u DEF Homed, UniqueHome, TypeOK
<1>4. TypeOK'
  BY <1>t, <1>d, <1>a, PlacesAre DEF TypeOK, States, Steps
<1>6. /\ RequestsValid' /\ UniqueRequest' /\ OfferedExact'
      /\ \A k \in Jobs : Requested(k)' <=> Requested(k)
  BY <1>4, <1>a, <1>p, RequestsKept
<1>3. RefcountExact' /\ PoolExact'
  BY <1>1, <1>6, <1>a, CountsKept
<1>5. LockExact'
  BY <1>t, <1>a DEF IInv, LockExact, First, Pair, TypeOK
<1>9. HandsExact'
  BY <1>t, <1>a, <1>d, <1>u DEF IInv, HandsExact, UniqueHome, TypeOK
<1>10. CompletionHasJob'
  BY <1>t, <1>a DEF IInv, CompletionHasJob, TypeOK
<1>11. SettledAtHome'
  BY <1>t, <1>a, <1>d, <1>u, <1>p, SettledKept DEF UniqueHome, TypeOK, SettleSteps
<1>7. UniqueHome'
  BY <1>t, <1>a, <1>d, <1>u DEF UniqueHome, TypeOK
<1>12. StateAgrees'
  BY <1>t, <1>a, <1>d, <1>u DEF IInv, UniqueHome, StateAgrees, HandsExact, TypeOK
<1>8. WaitsAtHome'
  BY <1>t, <1>a, <1>d, <1>u, <1>1, <1>p, WaitsKept DEF IInv, AtHome, TypeOK, UniqueHome, HandsExact, StateAgrees, Homed
<1> QED
  BY <1>3, <1>4, <1>5, <1>6, <1>7, <1>8, <1>9, <1>10, <1>11, <1>12 DEF IInv

\* Procrastination keeps the invariant: the running job waits again.
LEMMA ProcrastinateStep ==
    ASSUME IInv, NEW c \in Cores, Procrastinate(c)
    PROVE  IInv'
<1> PICK b \in BOOLEAN : asleep' = [asleep EXCEPT ![c] = b]
  BY DEF Procrastinate
<1> USE NoneAssumption, PlacesDistinct
<1>t. TypeOK
  BY DEF IInv
<1>u. UniqueHome
  BY DEF IInv
<1>a. /\ pc[c] = "power" /\ pc' = [pc EXCEPT ![c] = "barrier"] /\ lock[c] = None
      /\ running[c] # None
      /\ link' = [link EXCEPT ![running[c]] = Ready(c)]
      /\ state' = Preempted(c)
      /\ running' = [running EXCEPT ![c] = None]
      /\ UNCHANGED <<refs, offered, pool, hand, migq, req, lock>>
  BY DEF Procrastinate, At, Free, Goto, migVars
<1>d. running[c] \in Jobs /\ link[running[c]] = Unlinked
  BY <1>t, <1>a, <1>u DEF TypeOK, UniqueHome
<1>s. state' = [state EXCEPT ![running[c]] = "READY"]
  BY <1>a, <1>d, <1>t DEF Preempted, Current, TypeOK
<1>p. \A e \in Cores : /\ pc'[e] \in ServingSteps <=> pc[e] \in ServingSteps
                       /\ pc'[e] = "release" <=> pc[e] = "release"
                       /\ pc'[e] \in JudgeSteps <=> pc[e] \in JudgeSteps
                       /\ pc'[e] \in SettleSteps <=> pc[e] \in SettleSteps
  BY <1>t, <1>a, <1>s DEF TypeOK, ServingSteps, JudgeSteps, SettleSteps
<1>1. \A k \in Jobs : Homed(k)' <=> Homed(k)
  BY <1>t, <1>a, <1>s, <1>d, <1>u DEF Homed, UniqueHome, TypeOK
<1>4. TypeOK'
  BY <1>t, <1>d, <1>a, <1>s, PlacesAre DEF TypeOK, States, Steps
<1>6. /\ RequestsValid' /\ UniqueRequest' /\ OfferedExact'
      /\ \A k \in Jobs : Requested(k)' <=> Requested(k)
  BY <1>4, <1>a, <1>s, <1>p, RequestsKept
<1>3. RefcountExact' /\ PoolExact'
  BY <1>1, <1>6, <1>a, <1>s, CountsKept
<1>5. LockExact'
  BY <1>t, <1>a, <1>s DEF IInv, LockExact, First, Pair, TypeOK
<1>9. HandsExact'
  BY <1>t, <1>a, <1>s, <1>d, <1>u DEF IInv, HandsExact, UniqueHome, TypeOK
<1>10. CompletionHasJob'
  BY <1>t, <1>a, <1>s DEF IInv, CompletionHasJob, TypeOK
<1>11. SettledAtHome'
  BY <1>t, <1>a, <1>s, <1>d, <1>u, <1>p, SettledKept DEF UniqueHome, TypeOK, SettleSteps
<1>7. UniqueHome'
  BY <1>t, <1>a, <1>s, <1>d, <1>u DEF UniqueHome, TypeOK
<1>12. StateAgrees'
  BY <1>t, <1>a, <1>s, <1>d, <1>u DEF IInv, UniqueHome, StateAgrees, HandsExact, TypeOK
<1>8. WaitsAtHome'
  BY <1>t, <1>a, <1>s, <1>d, <1>u, <1>1, <1>p, WaitsKept DEF IInv, AtHome, TypeOK, UniqueHome, HandsExact, StateAgrees, Homed
<1> QED
  BY <1>3, <1>4, <1>5, <1>6, <1>7, <1>8, <1>9, <1>10, <1>11, <1>12 DEF IInv

\* The timer thread's purge of the shared queue keeps the invariant.
LEMMA TimerStep ==
    ASSUME IInv, Timer
    PROVE  IInv'
<1> PICK S \in SUBSET In(Shared) :
         /\ link' = [j \in Jobs |-> IF j \in S THEN Unlinked ELSE link[j]]
         /\ PutRefs(S, None)
  BY DEF Timer
<1> USE NoneAssumption, PlacesDistinct
<1>t. TypeOK
  BY DEF IInv
<1>u. UniqueHome
  BY DEF IInv
<1>a. /\ \A c \in Cores : pc[c] = "barrier"
      /\ pc' = [c \in Cores |-> "ecc"]
      /\ UNCHANGED <<state, offered, running, hand, asleep, migq, req, lock>>
  BY DEF Timer, At, migVars, coreVars
<1>d. S \in SUBSET Jobs /\ \A j \in S : j \in Jobs /\ link[j] = Shared /\ Homed(j)
  BY <1>t, <1>a, <1>u DEF In, Homed
<1>p. \A e \in Cores : /\ pc'[e] \in ServingSteps <=> pc[e] \in ServingSteps
                       /\ pc'[e] = "release" <=> pc[e] = "release"
                       /\ pc'[e] \in JudgeSteps <=> pc[e] \in JudgeSteps
                       /\ pc'[e] \in SettleSteps <=> pc[e] \in SettleSteps
  BY <1>t, <1>a DEF TypeOK, ServingSteps, JudgeSteps, SettleSteps
<1>1. \A k \in Jobs : /\ Homed(k)' <=> Homed(k) /\ k \notin S
                      /\ k \in S => Homed(k)
  BY <1>t, <1>a, <1>d, <1>u DEF Homed, UniqueHome, TypeOK
<1>2. \A k \in Jobs : Requested(k)' <=> Requested(k)
  BY <1>a, <1>p DEF Requested, Slots, Serving, ServingSteps
<1>3. /\ refs' \in [Jobs -> Nat] /\ pool' \in [Jobs -> {"live", "free", "remote"}]
      /\ RefcountExact' /\ PoolExact'
  BY <1>1, <1>2, <1>a, <1>d, CountsPut
<1>4. TypeOK'
  BY <1>t, <1>d, <1>3, <1>a, PlacesAre DEF TypeOK, States, Steps
<1>6. RequestsValid' /\ UniqueRequest' /\ OfferedExact'
  BY <1>4, <1>a, <1>p, RequestsKept
<1>5. LockExact'
  BY <1>t, <1>a DEF IInv, LockExact, First, Pair, TypeOK
<1>9. HandsExact'
  BY <1>t, <1>a, <1>d, <1>u DEF IInv, HandsExact, UniqueHome, TypeOK
<1>10. CompletionHasJob'
  BY <1>t, <1>a DEF IInv, CompletionHasJob, TypeOK
<1>11. SettledAtHome'
  BY <1>t, <1>a, <1>d, <1>u, <1>p, SettledKept DEF UniqueHome, TypeOK, SettleSteps
<1>7. UniqueHome'
  BY <1>t, <1>a, <1>d, <1>u DEF UniqueHome, TypeOK
<1>12. StateAgrees'
  BY <1>t, <1>a, <1>d, <1>u DEF IInv, UniqueHome, StateAgrees, HandsExact, TypeOK
<1>w. \A k \in Jobs, f \in Cores : AtHome(k, f) => AtHome(k, f)' /\ k \notin S
  BY <1>t, <1>a, <1>d, <1>u DEF AtHome, UniqueHome
<1>8. WaitsAtHome'
  BY <1>a, <1>1, <1>p, <1>w, WaitsKept
<1> QED
  BY <1>3, <1>4, <1>5, <1>6, <1>7, <1>8, <1>9, <1>10, <1>11, <1>12 DEF IInv

-----------------------------------------------------------------------------
(* Steps that create a job                                                 *)

\* Nothing refers to a job_struct of a free list.
LEMMA FreeJob ==
    ASSUME IInv, NEW j \in Jobs, pool[j] # "live"
    PROVE  /\ ~Homed(j) /\ ~Requested(j) /\ ~offered[j]
           /\ link[j] = Unlinked
           /\ \A e \in Cores : running[e] # j /\ hand[e] # j
<1>1. ~Homed(j) /\ ~Requested(j)
  BY DEF IInv, PoolExact
<1>2. ~offered[j]
  BY <1>1 DEF IInv, OfferedExact, Requested
<1> QED
  BY <1>1, <1>2 DEF Homed

\* create_job hands out a free job_struct with one reference.
LEMMA CountsCreate ==
    ASSUME IInv, NEW j \in Jobs, NEW c \in Cores, NEW s \in States, CreateJob(j, c, s),
           NEW h \in BOOLEAN,
           \A k \in Jobs : /\ Homed(k)' <=> Homed(k) \/ (k = j /\ h)
                           /\ Requested(k)' <=> Requested(k) \/ (k = j /\ ~h)
    PROVE  RefcountExact' /\ PoolExact'
<1>t. TypeOK
  BY DEF IInv
<1>1. pool[j] # "live"
  BY DEF CreateJob, Allocatable, OwnFree, Returned
<1>2. ~Homed(j) /\ ~Requested(j)
  BY <1>1, FreeJob
<1>3. RefcountExact'
  BY <1>2, <1>t DEF IInv, RefcountExact, CreateJob, TypeOK
<1>4. \A k \in Jobs : k # j => (pool'[k] = "live" <=> pool[k] = "live")
  BY DEF CreateJob, Allocatable, OwnFree, Returned
<1>5. PoolExact'
  BY <1>2, <1>4 DEF IInv, PoolExact, CreateJob
<1> QED
  BY <1>3, <1>5

\* What create_job leaves in the fields, and that it took a free job_struct.
LEMMA CreateFields ==
    ASSUME TypeOK, NEW j \in Jobs, NEW c \in Cores, NEW s \in States, CreateJob(j, c, s)
    PROVE  /\ pool[j] # "live"
           /\ refs' \in [Jobs -> Nat] /\ offered' \in [Jobs -> BOOLEAN]
           /\ state' \in [Jobs -> States] /\ state'[j] = s /\ ~offered'[j]
           /\ pool' \in [Jobs -> {"live", "free", "remote"}]
           /\ \A k \in Jobs \ {j} : offered'[k] = offered[k] /\ state'[k] = state[k]
BY DEF CreateJob, Allocatable, OwnFree, Returned, TypeOK

\* A periodic arrival keeps the invariant.
LEMMA ArriveNewStep ==
    ASSUME IInv, NEW c \in Cores, ArriveNew(c)
    PROVE  IInv'
<1> PICK j \in Jobs, place \in {Ready(c), Discard(c)} :
         /\ CreateJob(j, c, "READY")
         /\ link' = [link EXCEPT ![j] = place]
  BY DEF ArriveNew, Homes
<1> USE NoneAssumption, PlacesDistinct
<1>t. TypeOK
  BY DEF IInv
<1>u. UniqueHome
  BY DEF IInv
<1>a. /\ pc[c] = "arrive" /\ lock[c] = None
      /\ UNCHANGED <<running, hand, asleep, migq, req, lock, pc>>
  BY DEF ArriveNew, At, Free, migVars, coreVars
<1>c. /\ pool[j] # "live"
      /\ refs' \in [Jobs -> Nat] /\ offered' \in [Jobs -> BOOLEAN]
      /\ state' \in [Jobs -> States] /\ state'[j] = "READY" /\ ~offered'[j]
      /\ pool' \in [Jobs -> {"live", "free", "remote"}]
      /\ \A k \in Jobs \ {j} : offered'[k] = offered[k] /\ state'[k] = state[k]
  BY <1>t, CreateFields DEF States
<1>d. /\ ~Homed(j) /\ ~Requested(j) /\ ~offered[j] /\ link[j] = Unlinked
      /\ \A e \in Cores : running[e] # j /\ hand[e] # j
  BY <1>c, FreeJob
<1>1. \A k \in Jobs : Homed(k)' <=> Homed(k) \/ (k = j /\ TRUE)
  BY <1>t, <1>a DEF Homed, TypeOK
<1>4. TypeOK'
  BY <1>t, <1>c, <1>a, PlacesAre DEF TypeOK
<1>6. /\ RequestsValid' /\ UniqueRequest' /\ OfferedExact'
      /\ \A k \in Jobs : Requested(k)' <=> Requested(k)
  BY <1>4, <1>a, <1>c, <1>d, RequestsKept
<1>3. RefcountExact' /\ PoolExact'
  BY <1>1, <1>6, CountsCreate DEF States
<1>5. LockExact'
  BY <1>a DEF IInv, LockExact, First, Pair
<1>9. HandsExact'
  BY <1>t, <1>a, <1>c, <1>d DEF IInv, HandsExact, TypeOK
<1>10. CompletionHasJob'
  BY <1>a DEF IInv, CompletionHasJob
<1>11. SettledAtHome'
  BY <1>t, <1>a, <1>d, SettledKept DEF TypeOK, SettleSteps
<1>7. UniqueHome'
  BY <1>t, <1>a, <1>d, <1>u DEF UniqueHome, TypeOK
<1>12. StateAgrees'
  BY <1>t, <1>a, <1>c, <1>d DEF IInv, StateAgrees, TypeOK, HandsExact
<1>8. WaitsAtHome'
  <2>1. \A k \in Jobs, f \in Cores : Requested(k) =>
           /\ k # j
           /\ offered'[k] = offered[k] /\ state'[k] = state[k]
           /\ AtHome(k, f) => AtHome(k, f)'
    BY <1>t, <1>a, <1>c, <1>d DEF AtHome, TypeOK
  <2> QED
    BY <1>1, <1>a, <2>1, WaitsKept
<1> QED
  BY <1>3, <1>4, <1>5, <1>6, <1>7, <1>8, <1>9, <1>10, <1>11, <1>12 DEF IInv

\* A future job that cannot be offered goes back to its pool untouched.
LEMMA WithdrawFutureStep ==
    ASSUME IInv, NEW c \in Cores, WithdrawFuture(c)
    PROVE  IInv'
<1> PICK j \in Allocatable(c) :
         /\ state' = [state EXCEPT ![j] = "IDLE"]
         /\ offered' = [offered EXCEPT ![j] = FALSE]
  BY DEF WithdrawFuture
<1> USE NoneAssumption, PlacesDistinct
<1>t. TypeOK
  BY DEF IInv
<1>a. /\ pool' = [k \in Jobs |-> IF k \in Allocatable(c) THEN "free" ELSE pool[k]]
      /\ UNCHANGED <<link, refs, running, hand, asleep, migq, req, lock, pc>>
  BY DEF WithdrawFuture, migVars, coreVars
<1>b. /\ j \in Jobs /\ pool[j] # "live"
      /\ \A k \in Allocatable(c) : pool[k] # "live"
  BY DEF Allocatable, OwnFree, Returned
<1>d. /\ ~Homed(j) /\ ~Requested(j) /\ ~offered[j] /\ link[j] = Unlinked
      /\ \A e \in Cores : running[e] # j /\ hand[e] # j
  BY <1>b, FreeJob
<1>c. /\ state' \in [Jobs -> States] /\ offered' = offered
      /\ pool' \in [Jobs -> {"live", "free", "remote"}]
      /\ \A k \in Jobs : pool'[k] = "live" <=> pool[k] = "live"
      /\ \A k \in Jobs \ {j} : state'[k] = state[k]
  BY <1>t, <1>a, <1>b, <1>d DEF TypeOK, States
<1>1. \A k \in Jobs : Homed(k)' <=> Homed(k)
  BY <1>a DEF Homed
<1>4. TypeOK'
  BY <1>t, <1>a, <1>c DEF TypeOK
<1>6. /\ RequestsValid' /\ UniqueRequest' /\ OfferedExact'
      /\ \A k \in Jobs : Requested(k)' <=> Requested(k)
  BY <1>4, <1>a, <1>c, RequestsKept
<1>3. RefcountExact' /\ PoolExact'
  BY <1>1, <1>6, <1>a, <1>c DEF IInv, RefcountExact, PoolExact
<1>5. LockExact'
  BY <1>a DEF IInv, LockExact, First, Pair
<1>9. HandsExact'
  BY <1>a, <1>c, <1>d, <1>t DEF IInv, HandsExact, TypeOK
<1>10. CompletionHasJob' /\ UniqueHome'
  BY <1>a DEF IInv, CompletionHasJob, UniqueHome
<1>11. SettledAtHome'
  BY <1>a DEF IInv, SettledAtHome, Moved
<1>12. StateAgrees'
  BY <1>a, <1>c, <1>d, <1>t DEF IInv, StateAgrees, HandsExact, TypeOK
<1>8. WaitsAtHome'
  <2>1. \A k \in Jobs, f \in Cores : Requested(k) =>
           k # j /\ state'[k] = state[k] /\ (AtHome(k, f) => AtHome(k, f)')
    BY <1>a, <1>c, <1>d DEF AtHome
  <2> QED
    BY <1>1, <1>a, <1>c, <2>1, WaitsKept
<1> QED
  BY <1>3, <1>4, <1>5, <1>6, <1>8, <1>9, <1>10, <1>11, <1>12 DEF IInv

-----------------------------------------------------------------------------
(* Steps of the migration protocol                                         *)

\* What claiming a ticket does to the queues.
LEMMA ClaimSlots ==
    ASSUME TypeOK, NEW c \in Cores, NEW d \in Cores, NEW j \in Jobs, Claim(d, j, c)
    PROVE  /\ migq' \in [Cores -> Seq(Request)]
           /\ Len(migq[d]) \in Nat /\ Len(migq'[d]) = Len(migq[d]) + 1
           /\ \A i \in Slots(d) : migq'[d][i] = migq[d][i]
           /\ migq'[d][Len(migq[d]) + 1] = [job |-> j, from |-> c, full |-> FALSE]
           /\ \A e \in Cores \ {d} : migq'[e] = migq[e]
<1> DEFINE new == [job |-> j, from |-> c, full |-> FALSE]
<1>1. new \in Request
  BY DEF Request
<1>2. migq[d] \in Seq(Request) /\ migq \in [Cores -> Seq(Request)]
  BY DEF TypeOK
<1>3. migq' = [migq EXCEPT ![d] = Append(migq[d], new)]
  BY DEF Claim
<1> HIDE DEF new
<1>4. migq'[d] = Append(migq[d], new) /\ \A e \in Cores \ {d} : migq'[e] = migq[e]
  BY <1>2, <1>3
<1>5. migq' \in [Cores -> Seq(Request)]
  BY <1>1, <1>2, <1>3, AppendSlots
<1> QED
  BY <1>1, <1>2, <1>4, <1>5, AppendSlots DEF Slots, new

\* A ticket for a job without a request keeps requests valid and unique.
LEMMA ClaimRequests ==
    ASSUME IInv, NEW c \in Cores, NEW d \in Cores \ {c}, NEW j \in Jobs, ~Requested(j),
           Claim(d, j, c), UNCHANGED req,
           \A e \in Cores : pc'[e] \in ServingSteps <=> pc[e] \in ServingSteps
    PROVE  /\ RequestsValid' /\ UniqueRequest'
           /\ \A k \in Jobs : Requested(k)' <=> Requested(k) \/ k = j
<1>t. TypeOK
  BY DEF IInv
<1>0. /\ Len(migq[d]) \in Nat /\ Len(migq'[d]) = Len(migq[d]) + 1
      /\ \A i \in Slots(d) : migq'[d][i] = migq[d][i]
      /\ migq'[d][Len(migq[d]) + 1] = [job |-> j, from |-> c, full |-> FALSE]
      /\ \A e \in Cores \ {d} : migq'[e] = migq[e]
  BY <1>t, ClaimSlots
<1>1. /\ Len(migq[d]) \in Nat /\ Len(migq'[d]) = Len(migq[d]) + 1
      /\ \A i \in Slots(d) : migq'[d][i] = migq[d][i]
      /\ migq'[d][Len(migq[d]) + 1].job = j /\ migq'[d][Len(migq[d]) + 1].from = c
      /\ \A e \in Cores \ {d} : migq'[e] = migq[e]
  BY <1>0
<1>2. \A e \in Cores : Serving(e)' <=> Serving(e)
  BY DEF Serving, ServingSteps
<1>3. \A i \in Slots(d)' : i \in Slots(d) \/ i = Len(migq[d]) + 1
  BY <1>1 DEF Slots
<1>4. \A e \in Cores \ {d} : Slots(e)' = Slots(e)
  BY <1>1 DEF Slots
<1>5. RequestsValid'
  BY <1>1, <1>2, <1>3, <1>4 DEF IInv, RequestsValid, ValidRequest
<1>6. UniqueRequest'
  <2>1. \A e \in Cores : /\ \A i \in Slots(e) : migq[e][i].job # j
                         /\ Serving(e) => req[e].job # j
    BY DEF Requested
  <2>2. UniqueRequest /\ Len(migq[d]) + 1 \notin Slots(d)
    BY <1>1 DEF IInv, Slots
  <2>3. \A e \in Cores : \A i \in Slots(e)' :
          \/ i \in Slots(e) /\ migq'[e][i] = migq[e][i]
          \/ e = d /\ i = Len(migq[d]) + 1 /\ migq'[e][i].job = j
    BY <1>1, <1>3, <1>4
  <2>4. \A e, f \in Cores : \A i \in Slots(e)', k \in Slots(f)' :
          migq'[e][i].job = migq'[f][k].job => e = f /\ i = k
    BY <2>1, <2>2, <2>3 DEF UniqueRequest
  <2>5. \A e, f \in Cores : \A i \in Slots(e)' : Serving(f)' => req'[f].job # migq'[e][i].job
    BY <1>2, <2>1, <2>2, <2>3 DEF UniqueRequest
  <2> QED
    BY <1>2, <2>2, <2>4, <2>5 DEF UniqueRequest
<1>7. \A k \in Jobs : Requested(k)' <=> Requested(k) \/ k = j
  <2>1. Len(migq[d]) + 1 \in Slots(d)'
    BY <1>1 DEF Slots
  <2>2. \A e \in Cores : \A i \in Slots(e) : i \in Slots(e)' /\ migq'[e][i] = migq[e][i]
    BY <1>1, <1>4 DEF Slots
  <2>3. \A e \in Cores : \A i \in Slots(e)' :
          \/ i \in Slots(e) /\ migq'[e][i] = migq[e][i]
          \/ e = d /\ i = Len(migq[d]) + 1 /\ migq'[e][i].job = j
    BY <1>1, <1>3, <1>4
  <2> QED
    BY <1>1, <1>2, <2>1, <2>2, <2>3 DEF Requested
<1> QED
  BY <1>5, <1>6, <1>7

\* A new ticket keeps the waiting requests valid if its job is at home at the
\* sender and flagged, or has no home and is not ready.
LEMMA ClaimWaits ==
    ASSUME IInv, NEW c \in Cores, NEW d \in Cores \ {c}, NEW j \in Jobs,
           Claim(d, j, c), UNCHANGED req,
           \A e \in Cores : pc'[e] \in JudgeSteps <=> pc[e] \in JudgeSteps,
           \A k \in Jobs, f \in Cores : Requested(k) =>
             /\ Homed(k)' <=> Homed(k)
             /\ AtHome(k, f) => AtHome(k, f)'
             /\ offered[k] => offered'[k]
             /\ state'[k] = state[k],
           Homed(j)' => AtHome(j, c)' /\ offered'[j],
           state'[j] = "READY" => Homed(j)'
    PROVE  WaitsAtHome'
<1>t. TypeOK
  BY DEF IInv
<1>1. /\ Len(migq[d]) \in Nat /\ Len(migq'[d]) = Len(migq[d]) + 1
      /\ \A i \in Slots(d) : migq'[d][i] = migq[d][i]
      /\ migq'[d][Len(migq[d]) + 1] = [job |-> j, from |-> c, full |-> FALSE]
      /\ \A e \in Cores \ {d} : migq'[e] = migq[e]
  BY <1>t, ClaimSlots
<1>2. \A e \in Cores : \A i \in Slots(e)' :
        \/ i \in Slots(e) /\ migq'[e][i] = migq[e][i]
        \/ migq'[e][i].job = j /\ migq'[e][i].from = c
  BY <1>1 DEF Slots
<1>3. \A e \in Cores : \A i \in Slots(e)' :
        /\ Homed(migq[e][i].job)' =>
             AtHome(migq[e][i].job, migq[e][i].from)' /\ offered'[migq'[e][i].job]
        /\ state'[migq'[e][i].job] = "READY" => Homed(migq[e][i].job)'
  <2> SUFFICES ASSUME NEW e \in Cores, NEW i \in Slots(e)'
               PROVE  /\ Homed(migq[e][i].job)' =>
                           AtHome(migq[e][i].job, migq[e][i].from)' /\ offered'[migq'[e][i].job]
                      /\ state'[migq'[e][i].job] = "READY" => Homed(migq[e][i].job)'
    OBVIOUS
  <2>1. CASE i \in Slots(e) /\ migq'[e][i] = migq[e][i]
    <3>1. /\ migq[e][i].job \in Jobs /\ migq[e][i].from \in Cores
          /\ Requested(migq[e][i].job)
          /\ Homed(migq[e][i].job) =>
                AtHome(migq[e][i].job, migq[e][i].from) /\ offered[migq[e][i].job]
          /\ state[migq[e][i].job] = "READY" => Homed(migq[e][i].job)
      BY <2>1 DEF IInv, RequestsValid, ValidRequest, WaitsAtHome, Requested
    <3> QED
      BY <2>1, <3>1 DEF Homed, AtHome
  <2>2. CASE migq'[e][i].job = j /\ migq'[e][i].from = c
    BY <2>2 DEF Homed, AtHome
  <2> QED
    BY <2>1, <2>2, <1>2
<1>4. \A e \in Cores : pc[e] \in JudgeSteps =>
        /\ Homed(req[e].job)' => AtHome(req[e].job, req[e].from)' /\ offered'[req[e].job]
        /\ state'[req[e].job] = "READY" => Homed(req[e].job)'
  <2> SUFFICES ASSUME NEW e \in Cores, pc[e] \in JudgeSteps
               PROVE  /\ Homed(req[e].job)' => AtHome(req[e].job, req[e].from)' /\ offered'[req[e].job]
                      /\ state'[req[e].job] = "READY" => Homed(req[e].job)'
    OBVIOUS
  <2>1. /\ req[e].job \in Jobs /\ req[e].from \in Cores /\ Requested(req[e].job)
        /\ Homed(req[e].job) => AtHome(req[e].job, req[e].from) /\ offered[req[e].job]
        /\ state[req[e].job] = "READY" => Homed(req[e].job)
    BY DEF IInv, RequestsValid, ValidRequest, WaitsAtHome, Requested, Serving, JudgeSteps
  <2> QED
    BY <2>1 DEF Homed, AtHome
<1> QED
  BY <1>3, <1>4 DEF WaitsAtHome, JudgeSteps

\* A new ticket lets its job's flag be set.
LEMMA ClaimOffered ==
    ASSUME IInv, NEW c \in Cores, NEW d \in Cores \ {c}, NEW j \in Jobs,
           Claim(d, j, c), UNCHANGED req,
           \A e \in Cores : /\ pc'[e] \in ServingSteps <=> pc[e] \in ServingSteps
                            /\ pc'[e] = "release" <=> pc[e] = "release",
           \A k \in Jobs : offered'[k] => offered[k] \/ k = j
    PROVE  OfferedExact'
<1>t. TypeOK
  BY DEF IInv
<1>1. /\ Len(migq[d]) \in Nat /\ Len(migq'[d]) = Len(migq[d]) + 1
      /\ \A i \in Slots(d) : migq'[d][i] = migq[d][i]
      /\ migq'[d][Len(migq[d]) + 1] = [job |-> j, from |-> c, full |-> FALSE]
      /\ \A e \in Cores \ {d} : migq'[e] = migq[e]
  BY <1>t, ClaimSlots
<1> SUFFICES ASSUME NEW k \in Jobs, offered'[k]
             PROVE  \/ \E e \in Cores : \E i \in Slots(e)' : migq'[e][i].job = k
                    \/ \E e \in Cores : /\ Serving(e)' /\ pc'[e] # "release"
                                        /\ req'[e].job = k
  BY DEF OfferedExact
<1>2. CASE k = j
  <2>1. Len(migq[d]) + 1 \in Slots(d)'
    BY <1>1 DEF Slots
  <2> QED
    BY <1>2, <2>1, <1>1
<1>3. CASE k # j
  <2>1. offered[k]
    BY <1>3
  <2>2. \A e \in Cores : \A i \in Slots(e) : i \in Slots(e)' /\ migq'[e][i] = migq[e][i]
    BY <1>1 DEF Slots
  <2>3. CASE \E e \in Cores : \E i \in Slots(e) : migq[e][i].job = k
    BY <2>2, <2>3
  <2>4. CASE \E e \in Cores : Serving(e) /\ pc[e] # "release" /\ req[e].job = k
    BY <2>4 DEF Serving, ServingSteps
  <2> QED
    BY <2>1, <2>3, <2>4 DEF IInv, OfferedExact
<1> QED
  BY <1>2, <1>3

\* Offering a waiting job keeps the invariant: flag, reference and ticket come
\* together.
LEMMA OfferStep == ASSUME IInv, NEW c \in Cores, Offer(c) PROVE IInv'
<1> PICK j \in In(Ready(c)), d \in Cores \ {c} :
         /\ ~offered[j]
         /\ offered' = [offered EXCEPT ![j] = TRUE]
         /\ refs' = [refs EXCEPT ![j] = @ + 1]
         /\ Claim(d, j, c)
  BY DEF Offer, Offerable, GetRef
<1> USE NoneAssumption, PlacesDistinct
<1>t. TypeOK
  BY DEF IInv
<1>a. /\ pc[c] = "offer" /\ pc' = [pc EXCEPT ![c] = "publish"]
      /\ UNCHANGED <<link, state, pool, running, hand, asleep, req, lock>>
  BY DEF Offer, At, Goto, coreVars
<1>j. j \in Jobs /\ link[j] = Ready(c) /\ d \in Cores /\ d # c
  BY DEF In
<1>1. migq' \in [Cores -> Seq(Request)]
  BY <1>t, <1>j, ClaimSlots
<1>p. \A e \in Cores : /\ pc'[e] \in ServingSteps <=> pc[e] \in ServingSteps
                       /\ pc'[e] = "release" <=> pc[e] = "release"
                       /\ pc'[e] \in JudgeSteps <=> pc[e] \in JudgeSteps
                       /\ pc'[e] \in SettleSteps <=> pc[e] \in SettleSteps
  BY <1>t, <1>a DEF TypeOK, ServingSteps, JudgeSteps, SettleSteps
<1>n. ~Requested(j)
  BY <1>a, <1>j, <1>t DEF IInv, WaitsAtHome, Requested, SettledAtHome, Serving, Moved, Homed
<1>3. TypeOK'
  BY <1>1, <1>a, <1>j, <1>t DEF TypeOK, Steps
<1>4. LockExact'
  BY <1>a, <1>t DEF IInv, LockExact, TypeOK, First, Pair
<1>5. HandsExact'
  BY <1>a, <1>t DEF IInv, HandsExact, TypeOK
<1>6. /\ RequestsValid' /\ UniqueRequest'
      /\ \A k \in Jobs : Requested(k)' <=> Requested(k) \/ k = j
  BY <1>a, <1>j, <1>n, <1>p, ClaimRequests
<1>7. \A k \in Jobs : Homed(k)' <=> Homed(k)
  BY <1>a DEF Homed
<1>8. Homed(j)
  BY <1>j DEF Homed
<1>9. RefcountExact' /\ PoolExact'
  BY <1>6, <1>7, <1>8, <1>n, <1>a, <1>t, <1>j DEF IInv, RefcountExact, PoolExact, TypeOK
<1>10. UniqueHome' /\ CompletionHasJob'
  BY <1>a, <1>t DEF IInv, UniqueHome, CompletionHasJob, TypeOK
<1>11. StateAgrees'
  BY <1>a, <1>t DEF IInv, StateAgrees, TypeOK
<1>12. SettledAtHome'
  BY <1>a, <1>p, SettledKept
<1>13. WaitsAtHome'
  <2>1. \A k \in Jobs : offered[k] => offered'[k]
    BY <1>t, <1>j DEF TypeOK
  <2>2. \A k \in Jobs, f \in Cores : AtHome(k, f)' <=> AtHome(k, f)
    BY <1>a DEF AtHome
  <2>3. AtHome(j, c) /\ offered'[j]
    BY <1>t, <1>j DEF AtHome, TypeOK
  <2> QED
    BY <1>a, <1>j, <1>p, <1>7, <1>8, <2>1, <2>2, <2>3, ClaimWaits
<1>14. OfferedExact'
  BY <1>a, <1>j, <1>p, <1>t, ClaimOffered DEF TypeOK
<1> QED
  BY <1>3, <1>4, <1>5, <1>6, <1>9, <1>10, <1>11, <1>12, <1>13, <1>14 DEF IInv

\* Offering a future job keeps the invariant: the ticket takes the reference.
LEMMA OfferFutureStep == ASSUME IInv, NEW c \in Cores, OfferFuture(c) PROVE IInv'
<1> PICK j \in Jobs, d \in Cores \ {c} :
         /\ CreateJob(j, c, "IDLE")
         /\ Claim(d, j, c)
  BY DEF OfferFuture
<1> USE NoneAssumption, PlacesDistinct
<1>t. TypeOK
  BY DEF IInv
<1>a. /\ pc[c] = "future" /\ pc' = [pc EXCEPT ![c] = "claim"]
      /\ UNCHANGED <<link, running, hand, asleep, req, lock>>
  BY DEF OfferFuture, At, Goto, coreVars
<1>c. /\ pool[j] # "live"
      /\ refs' \in [Jobs -> Nat] /\ offered' \in [Jobs -> BOOLEAN]
      /\ state' \in [Jobs -> States] /\ state'[j] = "IDLE" /\ ~offered'[j]
      /\ pool' \in [Jobs -> {"live", "free", "remote"}]
      /\ \A k \in Jobs \ {j} : offered'[k] = offered[k] /\ state'[k] = state[k]
  BY <1>t, CreateFields DEF States
<1>d. /\ ~Homed(j) /\ ~Requested(j) /\ ~offered[j] /\ link[j] = Unlinked
      /\ \A e \in Cores : running[e] # j /\ hand[e] # j
  BY <1>c, FreeJob
<1>1. migq' \in [Cores -> Seq(Request)]
  BY <1>t, ClaimSlots
<1>p. \A e \in Cores : /\ pc'[e] \in ServingSteps <=> pc[e] \in ServingSteps
                       /\ pc'[e] = "release" <=> pc[e] = "release"
                       /\ pc'[e] \in JudgeSteps <=> pc[e] \in JudgeSteps
                       /\ pc'[e] \in SettleSteps <=> pc[e] \in SettleSteps
  BY <1>t, <1>a DEF TypeOK, ServingSteps, JudgeSteps, SettleSteps
<1>3. TypeOK'
  BY <1>1, <1>a, <1>c, <1>t DEF TypeOK, Steps
<1>4. LockExact'
  BY <1>a, <1>t DEF IInv, LockExact, TypeOK, First, Pair
<1>5. HandsExact'
  BY <1>a, <1>c, <1>d, <1>t DEF IInv, HandsExact, TypeOK
<1>6. /\ RequestsValid' /\ UniqueRequest'
      /\ \A k \in Jobs : Requested(k)' <=> Requested(k) \/ k = j
  BY <1>a, <1>d, <1>p, ClaimRequests
<1>7. \A k \in Jobs : Homed(k)' <=> Homed(k)
  BY <1>a DEF Homed
<1>9. RefcountExact' /\ PoolExact'
  BY <1>6, <1>7, CountsCreate DEF States
<1>10. UniqueHome' /\ CompletionHasJob'
  BY <1>a, <1>t DEF IInv, UniqueHome, CompletionHasJob, TypeOK
<1>11. StateAgrees'
  BY <1>a, <1>c, <1>d, <1>t DEF IInv, StateAgrees, HandsExact, TypeOK
<1>12. SettledAtHome'
  BY <1>a, <1>p, SettledKept
<1>13. WaitsAtHome'
  <2>1. \A k \in Jobs, f \in Cores : Requested(k) =>
          /\ k # j /\ offered'[k] = offered[k] /\ state'[k] = state[k]
    BY <1>c, <1>d
  <2>2. \A k \in Jobs, f \in Cores : AtHome(k, f)' <=> AtHome(k, f)
    BY <1>a DEF AtHome
  <2> QED
    BY <1>a, <1>c, <1>d, <1>p, <1>7, <2>1, <2>2, ClaimWaits
<1>14. OfferedExact'
  BY <1>a, <1>c, <1>p, ClaimOffered
<1> QED
  BY <1>3, <1>4, <1>5, <1>6, <1>9, <1>10, <1>11, <1>12, <1>13, <1>14 DEF IInv

\* Filling a claimed slot keeps the invariant.
LEMMA PublishStep ==
    ASSUME IInv, NEW c \in Cores, PublishOffer(c) \/ PublishFuture(c)
    PROVE  IInv'
<1> USE NoneAssumption, PlacesDistinct
<1>t. TypeOK
  BY DEF IInv
<1>a. /\ \/ pc[c] = "publish" /\ pc' = [pc EXCEPT ![c] = "offer"]
         \/ pc[c] = "claim" /\ pc' = [pc EXCEPT ![c] = "future"]
      /\ UNCHANGED <<link, state, refs, offered, pool, running, hand, asleep, req, lock>>
  BY DEF PublishOffer, PublishFuture, Publish, At, Goto, jobVars, coreVars
<1> PICK d \in Cores : \E i \in 1..Len(migq[d]) :
         migq' = [migq EXCEPT ![d][i].full = TRUE]
  BY DEF PublishOffer, PublishFuture, Publish
<1> PICK i \in 1..Len(migq[d]) :
         migq' = [migq EXCEPT ![d][i].full = TRUE]
  OBVIOUS
<1>1. /\ migq \in [Cores -> Seq(Request)] /\ migq[d] \in Seq(Request)
      /\ Len(migq[d]) \in Nat /\ migq[d][i] \in Request
  BY <1>t DEF TypeOK
<1> DEFINE r == [migq[d][i] EXCEPT !.full = TRUE]
<1>2. r \in Request /\ r.job = migq[d][i].job /\ r.from = migq[d][i].from
  BY <1>1 DEF Request
<1>3. migq' = [migq EXCEPT ![d] = [migq[d] EXCEPT ![i] = r]]
  BY <1>1
<1> HIDE DEF r
<1>4. /\ [migq[d] EXCEPT ![i] = r] \in Seq(Request)
      /\ Len([migq[d] EXCEPT ![i] = r]) = Len(migq[d])
  BY <1>1, <1>2
<1>5. migq' \in [Cores -> Seq(Request)]
  BY <1>1, <1>3, <1>4
<1>6. \A e \in Cores : Slots(e)' = Slots(e)
  BY <1>1, <1>3, <1>4 DEF Slots
<1>7. \A e \in Cores : \A k \in Slots(e) :
         /\ migq'[e][k].job = migq[e][k].job
         /\ migq'[e][k].from = migq[e][k].from
  BY <1>1, <1>2, <1>3 DEF Slots
<1>p. \A e \in Cores : /\ pc'[e] \in ServingSteps <=> pc[e] \in ServingSteps
                       /\ pc'[e] = "release" <=> pc[e] = "release"
                       /\ pc'[e] \in JudgeSteps <=> pc[e] \in JudgeSteps
                       /\ pc'[e] \in SettleSteps <=> pc[e] \in SettleSteps
  BY <1>t, <1>a DEF TypeOK, ServingSteps, JudgeSteps, SettleSteps
<1>s. \A e \in Cores : Serving(e)' <=> Serving(e)
  BY <1>p DEF Serving, ServingSteps
<1>8. TypeOK'
  BY <1>t, <1>a, <1>5 DEF TypeOK, Steps
<1>9. LockExact'
  BY <1>a, <1>t DEF IInv, LockExact, TypeOK, First, Pair
<1>q. \A e \in Cores : pc'[e] = pc[e] \/ (pc[e] \in {"publish", "claim"} /\ pc'[e] \in {"offer", "future"})
  BY <1>a, <1>t DEF TypeOK
<1>10. HandsExact' /\ CompletionHasJob'
  <2>1. HandsExact'
    BY <1>a, <1>q DEF IInv, HandsExact
  <2>2. CompletionHasJob'
    BY <1>a, <1>q DEF IInv, CompletionHasJob
  <2> QED
    BY <2>1, <2>2
<1>11. RequestsValid'
  BY <1>a, <1>6, <1>7, <1>s DEF IInv, RequestsValid, ValidRequest
<1>12. UniqueRequest'
  BY <1>a, <1>6, <1>7, <1>s DEF IInv, UniqueRequest
<1>13. \A k \in Jobs : Requested(k)' <=> Requested(k)
  BY <1>a, <1>6, <1>7, <1>s DEF Requested
<1>14. \A k \in Jobs : Homed(k)' <=> Homed(k)
  BY <1>a DEF Homed
<1>15. RefcountExact' /\ PoolExact'
  BY <1>13, <1>14, <1>a, CountsKept
<1>16. UniqueHome' /\ StateAgrees'
  BY <1>a, <1>t DEF IInv, UniqueHome, StateAgrees, TypeOK
<1>17. WaitsAtHome'
  <2>1. /\ \A k \in Jobs, e \in Cores : AtHome(k, e)' <=> AtHome(k, e)
        /\ \A e \in Cores : req'[e] = req[e] /\ Slots(e)' = Slots(e)
        /\ \A k \in Jobs : state'[k] = state[k] /\ offered'[k] = offered[k]
    BY <1>a, <1>6 DEF AtHome
  <2>2. /\ \A e \in Cores : \A k \in Slots(e) : ValidRequest(migq[e][k], e)
        /\ \A e \in Cores : pc[e] \in JudgeSteps => ValidRequest(req[e], e)
    BY DEF IInv, RequestsValid, Serving, JudgeSteps
  <2> QED
    BY <1>p, <1>7, <1>14, <2>1, <2>2 DEF IInv, WaitsAtHome, JudgeSteps, ValidRequest
<1>18. OfferedExact'
  BY <1>a, <1>p, <1>6, <1>7, <1>s DEF IInv, OfferedExact
<1>19. SettledAtHome'
  BY <1>a, <1>p, SettledKept
<1> QED
  BY <1>8, <1>9, <1>10, <1>11, <1>12, <1>15, <1>16, <1>17, <1>18, <1>19 DEF IInv

\* Taking a request out of the queue keeps the invariant.
LEMMA DequeueStep == ASSUME IInv, NEW c \in Cores, Dequeue(c) PROVE IInv'
<1> USE NoneAssumption, PlacesDistinct
<1>t. TypeOK
  BY DEF IInv
<1>a. /\ pc[c] = "drain" /\ pc' = [pc EXCEPT ![c] = "lock1"]
      /\ migq[c] # <<>>
      /\ req' = [req EXCEPT ![c] = Head(migq[c])]
      /\ migq' = [migq EXCEPT ![c] = Tail(migq[c])]
      /\ UNCHANGED <<link, state, refs, offered, pool, running, hand, asleep, lock>>
  BY DEF Dequeue, HeadFull, At, Goto, jobVars, coreVars
<1>1. /\ Tail(migq[c]) \in Seq(Request) /\ Head(migq[c]) \in Request
      /\ Len(migq[c]) \in Nat \ {0} /\ Len(Tail(migq[c])) = Len(migq[c]) - 1
      /\ Head(migq[c]) = migq[c][1]
      /\ \A i \in 1..Len(Tail(migq[c])) : Tail(migq[c])[i] = migq[c][i + 1] /\ i + 1 \in 1..Len(migq[c])
  BY <1>t, <1>a, TailSlots DEF TypeOK
<1>2. migq'[c] = Tail(migq[c]) /\ req'[c] = migq[c][1] /\ 1 \in Slots(c)
  BY <1>t, <1>a, <1>1 DEF TypeOK, Slots
<1>3. \A e \in Cores \ {c} : migq'[e] = migq[e] /\ req'[e] = req[e] /\ Slots(e)' = Slots(e)
  BY <1>t, <1>a DEF TypeOK, Slots
<1>4. \A i \in Slots(c)' : i + 1 \in Slots(c) /\ i + 1 # 1 /\ migq'[c][i] = migq[c][i + 1]
  BY <1>1, <1>2 DEF Slots
<1>5. \A i \in Slots(c) : i = 1 \/ (i - 1 \in Slots(c)' /\ migq'[c][i - 1] = migq[c][i])
  BY <1>1, <1>2 DEF Slots
<1>6. \A e \in Cores : /\ Serving(e)' <=> Serving(e) \/ e = c
                       /\ ~Serving(c)
                       /\ pc'[e] \in JudgeSteps <=> pc[e] \in JudgeSteps \/ e = c
                       /\ pc'[e] \in SettleSteps <=> pc[e] \in SettleSteps
  BY <1>t, <1>a DEF TypeOK, Serving, JudgeSteps, SettleSteps
<1> DEFINE h == migq[c][1].job
<1>7. TypeOK'
  BY <1>t, <1>a, <1>1 DEF TypeOK, Steps
<1>8. LockExact'
  <2>1. \A e \in Cores \ {c} : First(e)' = First(e) /\ Pair(e)' = Pair(e) /\ pc'[e] = pc[e]
    BY <1>t, <1>a, <1>3 DEF First, Pair, TypeOK
  <2>2. pc'[c] = "lock1"
    BY <1>t, <1>a DEF TypeOK
  <2> QED
    BY <2>1, <2>2, <1>a DEF IInv, LockExact
<1>9. HandsExact' /\ CompletionHasJob'
  BY <1>a, <1>t DEF IInv, HandsExact, CompletionHasJob, TypeOK
<1>10. RequestsValid'
  <2>1. \A e \in Cores : \A i \in Slots(e) : migq[e][i].job \in Jobs /\ migq[e][i].from \in Cores \ {e}
    BY DEF IInv, RequestsValid, ValidRequest
  <2>2. \A e \in Cores : \A i \in Slots(e)' : migq'[e][i].job \in Jobs /\ migq'[e][i].from \in Cores \ {e}
    BY <2>1, <1>3, <1>4
  <2>3. req'[c].job \in Jobs /\ req'[c].from \in Cores \ {c}
    BY <2>1, <1>2
  <2>4. \A e \in Cores : IF Serving(e)' THEN req'[e].job \in Jobs /\ req'[e].from \in Cores \ {e}
                                        ELSE req'[e] = NoRequest
    <3> SUFFICES ASSUME NEW e \in Cores
                 PROVE  IF Serving(e)' THEN req'[e].job \in Jobs /\ req'[e].from \in Cores \ {e}
                                       ELSE req'[e] = NoRequest
      OBVIOUS
    <3>1. CASE e = c
      BY <3>1, <2>3, <1>6
    <3>2. CASE e # c
      BY <3>2, <1>3, <1>6 DEF IInv, RequestsValid, ValidRequest
    <3> QED
      BY <3>1, <3>2
  <2> QED
    BY <2>2, <2>4 DEF RequestsValid, ValidRequest
<1>u. UniqueRequest
  BY DEF IInv
<1>11. UniqueRequest'
  <2>1. \A d, e \in Cores : \A i \in Slots(d)', k \in Slots(e)' :
          migq'[d][i].job = migq'[e][k].job => d = e /\ i = k
    <3> SUFFICES ASSUME NEW d \in Cores, NEW e \in Cores,
                        NEW i \in Slots(d)', NEW k \in Slots(e)',
                        migq'[d][i].job = migq'[e][k].job
                 PROVE  d = e /\ i = k
      OBVIOUS
    <3>0. i \in Int /\ k \in Int
      BY DEF Slots
    <3>1. CASE d = c /\ e = c
      BY <3>0, <3>1, <1>4, <1>u DEF UniqueRequest
    <3>2. CASE d = c /\ e # c
      BY <3>2, <1>3, <1>4, <1>u DEF UniqueRequest
    <3>3. CASE d # c /\ e = c
      BY <3>3, <1>3, <1>4, <1>u DEF UniqueRequest
    <3>4. CASE d # c /\ e # c
      BY <3>4, <1>3, <1>u DEF UniqueRequest
    <3> QED
      BY <3>1, <3>2, <3>3, <3>4
  <2>2. \A d, e \in Cores : \A i \in Slots(d)' : Serving(e)' => req'[e].job # migq'[d][i].job
    <3> SUFFICES ASSUME NEW d \in Cores, NEW e \in Cores, NEW i \in Slots(d)', Serving(e)'
                 PROVE  req'[e].job # migq'[d][i].job
      OBVIOUS
    <3>0. i \in Int
      BY DEF Slots
    <3>1. CASE e = c /\ d = c
      <4>1. i + 1 \in Slots(c) /\ 1 \in Slots(c) /\ i + 1 # 1 /\ migq'[d][i] = migq[c][i + 1]
        BY <3>1, <1>2, <1>4
      <4>2. migq[c][1].job # migq[c][i + 1].job
        BY <4>1, <1>u DEF UniqueRequest
      <4> QED
        BY <3>1, <4>1, <4>2, <1>2
    <3>3. CASE e = c /\ d # c
      BY <3>3, <1>2, <1>3, <1>u DEF UniqueRequest
    <3>2. CASE e # c
      BY <3>2, <1>3, <1>4, <1>6, <1>u DEF UniqueRequest
    <3> QED
      BY <3>1, <3>2, <3>3
  <2>3. \A d, e \in Cores :
          Serving(d)' /\ Serving(e)' /\ req'[d].job = req'[e].job => d = e
    BY <1>2, <1>3, <1>6, <1>u DEF UniqueRequest
  <2> QED
    BY <2>1, <2>2, <2>3 DEF UniqueRequest
<1>12. \A k \in Jobs : Requested(k)' <=> Requested(k)
  <2> SUFFICES ASSUME NEW k \in Jobs PROVE Requested(k)' <=> Requested(k)
    OBVIOUS
  <2>1. ASSUME Requested(k) PROVE Requested(k)'
    <3>1. CASE \E e \in Cores : Serving(e) /\ req[e].job = k
      BY <3>1, <1>3, <1>6 DEF Requested
    <3>2. ASSUME NEW e \in Cores, NEW i \in Slots(e), migq[e][i].job = k PROVE Requested(k)'
      <4>1. CASE e = c /\ i = 1
        BY <3>2, <4>1, <1>2, <1>6 DEF Requested
      <4>2. CASE e = c /\ i # 1
        BY <3>2, <4>2, <1>5 DEF Requested
      <4>3. CASE e # c
        BY <3>2, <4>3, <1>3 DEF Requested
      <4> QED
        BY <4>1, <4>2, <4>3
    <3> QED
      BY <2>1, <3>1, <3>2 DEF Requested
  <2>2. ASSUME Requested(k)' PROVE Requested(k)
    <3>1. CASE \E e \in Cores : Serving(e)' /\ req'[e].job = k
      BY <3>1, <1>2, <1>3, <1>6 DEF Requested
    <3>2. CASE \E e \in Cores : \E i \in Slots(e)' : migq'[e][i].job = k
      BY <3>2, <1>3, <1>4 DEF Requested
    <3> QED
      BY <2>2, <3>1, <3>2 DEF Requested
  <2> QED
    BY <2>1, <2>2
<1>13. \A k \in Jobs : Homed(k)' <=> Homed(k)
  BY <1>a DEF Homed
<1>14. RefcountExact' /\ PoolExact'
  BY <1>12, <1>13, <1>a, CountsKept
<1>15. UniqueHome' /\ StateAgrees'
  BY <1>a, <1>t DEF IInv, UniqueHome, StateAgrees, TypeOK
<1>16. WaitsAtHome'
  <2>1. \A e \in Cores : \A i \in Slots(e)' :
          /\ Homed(migq[e][i].job)' => AtHome(migq[e][i].job, migq[e][i].from)' /\ offered'[migq'[e][i].job]
          /\ state'[migq'[e][i].job] = "READY" => Homed(migq[e][i].job)'
    <3> SUFFICES ASSUME NEW e \in Cores, NEW i \in Slots(e)'
                 PROVE  /\ Homed(migq[e][i].job)' => AtHome(migq[e][i].job, migq[e][i].from)' /\ offered'[migq'[e][i].job]
                        /\ state'[migq'[e][i].job] = "READY" => Homed(migq[e][i].job)'
      OBVIOUS
    <3>1. CASE e = c
      <4>1. /\ Homed(migq[c][i + 1].job) => AtHome(migq[c][i + 1].job, migq[c][i + 1].from) /\ offered[migq[c][i + 1].job]
            /\ state[migq[c][i + 1].job] = "READY" => Homed(migq[c][i + 1].job)
        BY <3>1, <1>4 DEF IInv, WaitsAtHome
      <4>2. migq'[c][i] = migq[c][i + 1]
        BY <3>1, <1>4
      <4> QED
        BY <3>1, <1>a, <4>1, <4>2 DEF Homed, AtHome
    <3>2. CASE e # c
      BY <3>2, <1>a, <1>3 DEF IInv, WaitsAtHome, Homed, AtHome
    <3> QED
      BY <3>1, <3>2
  <2>2. \A e \in Cores : pc'[e] \in JudgeSteps =>
          /\ Homed(req[e].job)' => AtHome(req[e].job, req[e].from)' /\ offered'[req'[e].job]
          /\ state'[req'[e].job] = "READY" => Homed(req[e].job)'
    <3> SUFFICES ASSUME NEW e \in Cores, pc'[e] \in JudgeSteps
                 PROVE  /\ Homed(req[e].job)' => AtHome(req[e].job, req[e].from)' /\ offered'[req'[e].job]
                        /\ state'[req'[e].job] = "READY" => Homed(req[e].job)'
      OBVIOUS
    <3>1. CASE e = c
      BY <3>1, <1>a, <1>2 DEF IInv, WaitsAtHome, Homed, AtHome
    <3>2. CASE e # c
      BY <3>2, <1>a, <1>3, <1>6 DEF IInv, WaitsAtHome, Homed, AtHome, JudgeSteps
    <3> QED
      BY <3>1, <3>2
  <2> QED
    BY <2>1, <2>2 DEF WaitsAtHome, JudgeSteps
<1>17. OfferedExact'
  <2> SUFFICES ASSUME NEW k \in Jobs, offered[k]
               PROVE  \/ \E e \in Cores : \E i \in Slots(e)' : migq'[e][i].job = k
                      \/ \E e \in Cores : /\ Serving(e)' /\ pc'[e] # "release"
                                          /\ req'[e].job = k
    BY <1>a DEF OfferedExact
  <2>0. pc'[c] = "lock1" /\ \A e \in Cores \ {c} : pc'[e] = pc[e]
    BY <1>t, <1>a DEF TypeOK
  <2>1. ASSUME NEW e \in Cores, NEW i \in Slots(e), migq[e][i].job = k
        PROVE  \/ \E f \in Cores : \E m \in Slots(f)' : migq'[f][m].job = k
               \/ Serving(c)' /\ req'[c].job = k
    <3>1. CASE e = c /\ i = 1
      BY <2>1, <3>1, <1>2, <1>6
    <3>2. CASE e = c /\ i # 1
      BY <2>1, <3>2, <1>5
    <3>3. CASE e # c
      BY <2>1, <3>3, <1>3
    <3> QED
      BY <3>1, <3>2, <3>3
  <2>2. CASE \E e \in Cores : Serving(e) /\ pc[e] # "release" /\ req[e].job = k
    BY <2>2, <2>0, <1>3, <1>6
  <2> QED
    BY <2>0, <2>1, <2>2 DEF IInv, OfferedExact
<1>18. SettledAtHome'
  BY <1>a, <1>3, <1>6 DEF IInv, SettledAtHome, Moved, SettleSteps, Serving
<1> QED
  BY <1>7, <1>8, <1>9, <1>10, <1>11, <1>14, <1>15, <1>16, <1>17, <1>18 DEF IInv


-----------------------------------------------------------------------------
(* Serving a request                                                       *)

\* What a core that serves a request knows of it: the job and the sender are
\* real, and no other request is about the same job.
LEMMA ServedRequest ==
    ASSUME IInv, NEW c \in Cores, Serving(c)
    PROVE  /\ req[c].job \in Jobs /\ req[c].from \in Cores /\ req[c].from # c
           /\ Requested(req[c].job)
           /\ \A e \in Cores : \A i \in Slots(e) : migq[e][i].job # req[c].job
           /\ \A e \in Cores \ {c} : Serving(e) => req[e].job # req[c].job
<1>1. /\ req[c].job \in Jobs /\ req[c].from \in Cores /\ req[c].from # c
  BY DEF IInv, RequestsValid, ValidRequest
<1>2. Requested(req[c].job)
  BY DEF Requested
<1>3. /\ \A e \in Cores : \A i \in Slots(e) : migq[e][i].job # req[c].job
      /\ \A e \in Cores \ {c} : Serving(e) => req[e].job # req[c].job
  BY DEF IInv, UniqueRequest
<1> QED
  BY <1>1, <1>2, <1>3

\* The job that waits to be judged is flagged and at home at its sender, or
\* has no home, and then it is not ready.
LEMMA JudgedRequest ==
    ASSUME IInv, NEW c \in Cores, pc[c] = "judge"
    PROVE  /\ Homed(req[c].job) => AtHome(req[c].job, req[c].from) /\ offered[req[c].job]
           /\ state[req[c].job] = "READY" => Homed(req[c].job)
BY DEF IInv, WaitsAtHome

\* Ending a request leaves the others alone.
LEMMA RequestEnds ==
    ASSUME IInv, NEW c \in Cores, Serving(c), UNCHANGED migq,
           req' = [req EXCEPT ![c] = NoRequest],
           pc' = [pc EXCEPT ![c] = "drain"],
           \A k \in Jobs : offered'[k] => offered[k],
           ~offered'[req[c].job]
    PROVE  /\ req' \in [Cores -> Request] /\ pc' \in [Cores -> Steps]
           /\ RequestsValid' /\ UniqueRequest' /\ OfferedExact'
           /\ \A k \in Jobs : Requested(k)' <=> Requested(k) /\ k # req[c].job
<1>t. TypeOK
  BY DEF IInv
<1>1. /\ req'[c] = NoRequest /\ pc'[c] = "drain"
      /\ \A e \in Cores \ {c} : req'[e] = req[e] /\ pc'[e] = pc[e]
      /\ \A e \in Cores : Slots(e)' = Slots(e)
  BY <1>t DEF TypeOK, Slots
<1>2. ~Serving(c)' /\ \A e \in Cores \ {c} : Serving(e)' <=> Serving(e)
  BY <1>1 DEF Serving
<1>3. req' \in [Cores -> Request] /\ pc' \in [Cores -> Steps]
  BY <1>t DEF TypeOK, NoRequest, Request, Steps
<1>4. RequestsValid'
  BY <1>1, <1>2 DEF IInv, RequestsValid, ValidRequest
<1>5. UniqueRequest'
  BY <1>1, <1>2 DEF IInv, UniqueRequest
<1>6. \A k \in Jobs : Requested(k)' <=> Requested(k) /\ k # req[c].job
  BY <1>1, <1>2, ServedRequest DEF Requested
<1>7. OfferedExact'
  BY <1>1, <1>2 DEF IInv, OfferedExact
<1> QED
  BY <1>3, <1>4, <1>5, <1>6, <1>7

\* When a request ends, the other waiting requests stay at their senders if
\* no other job is touched.
LEMMA EndWaits ==
    ASSUME IInv, NEW c \in Cores, Serving(c), UNCHANGED <<migq, running, hand>>,
           \A e \in Cores \ {c} : req'[e] = req[e] /\ pc'[e] = pc[e],
           pc'[c] \notin JudgeSteps,
           \A k \in Jobs \ {req[c].job} :
              link'[k] = link[k] /\ offered'[k] = offered[k] /\ state'[k] = state[k]
    PROVE  WaitsAtHome'
<1> DEFINE g == req[c].job
<1>1. \A e \in Cores : \A i \in Slots(e) : migq[e][i].job \in Jobs \ {g}
  BY ServedRequest DEF IInv, RequestsValid, ValidRequest
<1>2. \A e \in Cores \ {c} : Serving(e) => req[e].job \in Jobs \ {g}
  BY ServedRequest DEF IInv, RequestsValid, ValidRequest
<1>3. \A e \in Cores : Slots(e)' = Slots(e)
  BY DEF Slots
<1>4. \A e \in Cores : \A i \in Slots(e) :
         /\ Homed(migq[e][i].job)' => AtHome(migq[e][i].job, migq[e][i].from)' /\ offered'[migq'[e][i].job]
         /\ state'[migq'[e][i].job] = "READY" => Homed(migq[e][i].job)'
  BY <1>1 DEF IInv, WaitsAtHome, AtHome, Homed
<1>5. \A e \in Cores : pc'[e] \in JudgeSteps =>
         /\ Homed(req[e].job)' => AtHome(req[e].job, req[e].from)' /\ offered'[req'[e].job]
         /\ state'[req'[e].job] = "READY" => Homed(req[e].job)'
  <2> SUFFICES ASSUME NEW e \in Cores, pc'[e] \in JudgeSteps
               PROVE  /\ Homed(req[e].job)' => AtHome(req[e].job, req[e].from)' /\ offered'[req'[e].job]
                      /\ state'[req'[e].job] = "READY" => Homed(req[e].job)'
    OBVIOUS
  <2>1. e # c /\ req'[e] = req[e] /\ pc[e] \in JudgeSteps
    OBVIOUS
  <2>2. req[e].job \in Jobs \ {g}
    BY <1>2, <2>1 DEF Serving, JudgeSteps
  <2>3. /\ Homed(req[e].job) => AtHome(req[e].job, req[e].from) /\ offered[req[e].job]
        /\ state[req[e].job] = "READY" => Homed(req[e].job)
    BY <2>1 DEF IInv, WaitsAtHome, JudgeSteps
  <2> QED
    BY <2>1, <2>2, <2>3 DEF AtHome, Homed
<1> QED
  BY <1>3, <1>4, <1>5 DEF WaitsAtHome, JudgeSteps

\* When a request ends, the jobs that settle elsewhere stay where they are.
LEMMA EndSettled ==
    ASSUME IInv, NEW c \in Cores, Serving(c),
           \A e \in Cores \ {c} : req'[e] = req[e] /\ pc'[e] = pc[e],
           \A k \in Jobs \ {req[c].job} : link'[k] = link[k],
           pc'[c] \in SettleSteps =>
               link'[req'[c].job] \in {Ready(c), Discard(c)}
    PROVE  SettledAtHome'
<1>1. \A e \in Cores \ {c} : Serving(e) => req[e].job \in Jobs \ {req[c].job}
  BY ServedRequest DEF IInv, RequestsValid, ValidRequest
<1> SUFFICES ASSUME NEW e \in Cores, pc'[e] \in SettleSteps
             PROVE  link'[req'[e].job] \in {Ready(e), Discard(e)}
  BY DEF SettledAtHome, Moved, SettleSteps
<1>2. CASE e = c
  BY <1>2
<1>3. CASE e # c
  BY <1>1, <1>3 DEF IInv, SettledAtHome, Moved, Serving, SettleSteps
<1> QED
  BY <1>2, <1>3

\* Dropping the request's reference keeps the counts exact.
LEMMA CountsEnd ==
    ASSUME IInv, NEW j \in Jobs, NEW who \in Cores, PutRefs({j}, who), Requested(j),
           \A k \in Jobs : /\ Homed(k)' <=> Homed(k)
                           /\ Requested(k)' <=> Requested(k) /\ k # j
    PROVE  /\ refs' \in [Jobs -> Nat]
           /\ pool' \in [Jobs -> {"live", "free", "remote"}]
           /\ RefcountExact' /\ PoolExact'
<1>t. TypeOK
  BY DEF IInv
<1>1. \A k \in Jobs : refs[k] = (IF Homed(k) THEN 1 ELSE 0) + (IF Requested(k) THEN 1 ELSE 0)
  BY DEF IInv, RefcountExact
<1>2. \A k \in Jobs : refs'[k] = (IF Homed(k)' THEN 1 ELSE 0) + (IF Requested(k)' THEN 1 ELSE 0)
  BY <1>1, <1>t DEF PutRefs, TypeOK
<1>3. refs' \in [Jobs -> Nat]
  <2>1. DOMAIN refs' = Jobs /\ refs' = [k \in Jobs |-> refs'[k]]
    BY DEF PutRefs
  <2> QED
    BY <1>2, <2>1
<1>4. \A k \in Jobs : pool'[k] = "live" <=> Homed(k)' \/ Requested(k)'
  BY <1>1, <1>t DEF IInv, PutRefs, PoolFor, PoolExact
<1>5. pool' \in [Jobs -> {"live", "free", "remote"}]
  BY <1>t DEF PutRefs, PoolFor, TypeOK
<1> QED
  BY <1>2, <1>3, <1>4, <1>5 DEF RefcountExact, PoolExact

\* double_rq_unlock releases exactly the two locks that the judging core holds.
LEMMA PairUnlocked ==
    ASSUME IInv, NEW c \in Cores, pc[c] = "judge", Unlock(Pair(c)),
           pc'[c] \in {"drain", "settle"},
           \A e \in Cores \ {c} : req'[e] = req[e] /\ pc'[e] = pc[e]
    PROVE  /\ lock' \in [Cores -> Cores \cup {None}]
           /\ LockExact'
<1>t. TypeOK
  BY DEF IInv
<1>1. lock' \in [Cores -> Cores \cup {None}]
  BY <1>t DEF Unlock, TypeOK
<1>2. \A m \in Cores : lock[m] = c <=> m \in Pair(c)
  BY DEF IInv, LockExact
<1>3. \A m \in Cores : lock'[m] = IF m \in Pair(c) THEN None ELSE lock[m]
  BY DEF Unlock
<1>4. \A e \in Cores \ {c} : First(e)' = First(e) /\ Pair(e)' = Pair(e)
  BY DEF First, Pair
<1>5. \A e \in Cores \ {c}, m \in Cores : lock'[m] = e <=> lock[m] = e
  BY <1>2, <1>3, NoneAssumption
<1>6. \A m \in Cores : lock'[m] # c
  BY <1>2, <1>3, NoneAssumption
<1> QED
  BY <1>1, <1>4, <1>5, <1>6 DEF IInv, LockExact

\* Drop keeps the invariant: the request's reference and its flag go together.
LEMMA DropStep == ASSUME IInv, NEW c \in Cores, Drop(c) PROVE IInv'
<1> DEFINE j == req[c].job
<1> USE NoneAssumption, PlacesDistinct
<1>t. TypeOK
  BY DEF IInv
<1>a. /\ pc[c] = "judge" /\ pc' = [pc EXCEPT ![c] = "drain"]
      /\ offered' = [offered EXCEPT ![j] = FALSE]
      /\ PutRefs({j}, c)
      /\ req' = [req EXCEPT ![c] = NoRequest]
      /\ Unlock(Pair(c))
      /\ UNCHANGED <<link, state, running, hand, asleep, migq>>
  BY DEF Drop, At, Goto, coreVars
<1>s. Serving(c)
  BY <1>a DEF Serving
<1>j. j \in Jobs /\ Requested(j)
  BY <1>s, ServedRequest
<1>o. /\ offered' \in [Jobs -> BOOLEAN] /\ ~offered'[j]
      /\ \A k \in Jobs \ {j} : offered'[k] = offered[k]
      /\ \A k \in Jobs : offered'[k] => offered[k]
  BY <1>a, <1>j, <1>t DEF TypeOK
<1>p. /\ pc'[c] = "drain" /\ req'[c] = NoRequest
      /\ \A e \in Cores \ {c} : req'[e] = req[e] /\ pc'[e] = pc[e]
  BY <1>a, <1>t DEF TypeOK
<1> HIDE DEF j
<1>1. /\ req' \in [Cores -> Request] /\ pc' \in [Cores -> Steps]
      /\ RequestsValid' /\ UniqueRequest' /\ OfferedExact'
      /\ \A k \in Jobs : Requested(k)' <=> Requested(k) /\ k # j
  BY <1>a, <1>o, <1>s, RequestEnds DEF j
<1>2. \A k \in Jobs : Homed(k)' <=> Homed(k)
  BY <1>a DEF Homed
<1>3. /\ refs' \in [Jobs -> Nat] /\ pool' \in [Jobs -> {"live", "free", "remote"}]
      /\ RefcountExact' /\ PoolExact'
  BY <1>1, <1>2, <1>a, <1>j, CountsEnd
<1>4. lock' \in [Cores -> Cores \cup {None}] /\ LockExact'
  BY <1>a, <1>p, PairUnlocked
<1>5. TypeOK'
  BY <1>1, <1>3, <1>4, <1>a, <1>o, <1>t DEF TypeOK
<1>6. HandsExact'
  BY <1>a, <1>p DEF IInv, HandsExact
<1>7. UniqueHome' /\ CompletionHasJob'
  BY <1>a, <1>p DEF IInv, UniqueHome, CompletionHasJob
<1>8. StateAgrees'
  BY <1>a, <1>p DEF IInv, StateAgrees
<1>9. WaitsAtHome'
  BY <1>a, <1>o, <1>p, <1>s, EndWaits DEF j, JudgeSteps
<1>10. SettledAtHome'
  BY <1>a, <1>p, <1>s, EndSettled DEF SettleSteps
<1> QED
  BY <1>1, <1>3, <1>4, <1>5, <1>6, <1>7, <1>8, <1>9, <1>10 DEF IInv

\* AcceptFuture keeps the invariant: the request's reference becomes the one
\* of the pending queue.
LEMMA AcceptFutureStep == ASSUME IInv, NEW c \in Cores, AcceptFuture(c) PROVE IInv'
<1> DEFINE j == req[c].job
<1> USE NoneAssumption, PlacesDistinct
<1>t. TypeOK
  BY DEF IInv
<1>a. /\ pc[c] = "judge" /\ pc' = [pc EXCEPT ![c] = "drain"]
      /\ state[j] = "IDLE"
      /\ link' = [link EXCEPT ![j] = Pending(c)]
      /\ offered' = [offered EXCEPT ![j] = FALSE]
      /\ req' = [req EXCEPT ![c] = NoRequest]
      /\ Unlock(Pair(c))
      /\ UNCHANGED <<state, refs, pool, running, hand, asleep, migq>>
  BY DEF AcceptFuture, At, Goto, coreVars
<1>s. Serving(c)
  BY <1>a DEF Serving
<1>j. j \in Jobs /\ req[c].from \in Cores /\ Requested(j)
  BY <1>s, ServedRequest
<1>h. ~Homed(j)
  <2> DEFINE d == req[c].from
  <2>0. d \in Cores /\ state[j] = "IDLE" /\ j \in Jobs /\ j # None
    BY <1>a, <1>j
  <2>1. Homed(j) => AtHome(j, d)
    BY <1>a, JudgedRequest
  <2> HIDE DEF d, j
  <2>2. link[j] # Ready(d)
    BY <2>0 DEF IInv, StateAgrees
  <2>3. running[d] # j
    BY <2>0 DEF IInv, StateAgrees
  <2>4. hand[d] # j
    BY <2>0 DEF IInv, StateAgrees, HandsExact
  <2> QED
    BY <2>1, <2>2, <2>3, <2>4 DEF AtHome
<1>l. /\ link' \in [Jobs -> Places] /\ link'[j] = Pending(c)
      /\ \A k \in Jobs \ {j} : link'[k] = link[k]
  BY <1>a, <1>j, <1>t, PlacesAre DEF TypeOK
<1>o. /\ offered' \in [Jobs -> BOOLEAN] /\ ~offered'[j]
      /\ \A k \in Jobs \ {j} : offered'[k] = offered[k]
      /\ \A k \in Jobs : offered'[k] => offered[k]
  BY <1>a, <1>j, <1>t DEF TypeOK
<1>p. /\ pc'[c] = "drain" /\ req'[c] = NoRequest
      /\ \A e \in Cores \ {c} : req'[e] = req[e] /\ pc'[e] = pc[e]
  BY <1>a, <1>t DEF TypeOK
<1>k. state[j] = "IDLE"
  BY <1>a
<1> HIDE DEF j
<1>1. /\ req' \in [Cores -> Request] /\ pc' \in [Cores -> Steps]
      /\ RequestsValid' /\ UniqueRequest' /\ OfferedExact'
      /\ \A k \in Jobs : Requested(k)' <=> Requested(k) /\ k # j
  BY <1>a, <1>o, <1>s, RequestEnds DEF j
<1>2. \A k \in Jobs : Homed(k)' <=> Homed(k) \/ k = j
  BY <1>a, <1>l DEF Homed
<1>3. RefcountExact' /\ PoolExact'
  BY <1>1, <1>2, <1>a, <1>h, <1>j DEF IInv, RefcountExact, PoolExact
<1>4. lock' \in [Cores -> Cores \cup {None}] /\ LockExact'
  BY <1>a, <1>p, PairUnlocked
<1>5. TypeOK'
  BY <1>1, <1>4, <1>a, <1>l, <1>o, <1>t DEF TypeOK
<1>6. HandsExact'
  BY <1>a, <1>p DEF IInv, HandsExact
<1>7. UniqueHome'
  BY <1>a, <1>h, <1>l DEF IInv, UniqueHome, Homed
<1>8. CompletionHasJob'
  BY <1>a, <1>p DEF IInv, CompletionHasJob
<1>9. StateAgrees'
  <2>1. \A k \in Jobs : \A e \in Cores :
          /\ link'[k] = Pending(e) => state[k] = "IDLE"
          /\ link'[k] \in {Ready(e), Discard(e), Shared} => state[k] = "READY"
    BY <1>k, <1>l DEF IInv, StateAgrees
  <2> QED
    BY <2>1, <1>a, <1>p DEF IInv, StateAgrees
<1>10. WaitsAtHome'
  BY <1>a, <1>l, <1>o, <1>p, <1>s, EndWaits DEF j, JudgeSteps
<1>11. SettledAtHome'
  BY <1>a, <1>l, <1>p, <1>s, EndSettled DEF j, SettleSteps
<1> QED
  BY <1>1, <1>3, <1>4, <1>5, <1>6, <1>7, <1>8, <1>9, <1>10, <1>11 DEF IInv

\* AcceptReady keeps the invariant: the job leaves the sender's queue for one
\* of the destination under both locks.
LEMMA AcceptReadyStep == ASSUME IInv, NEW c \in Cores, AcceptReady(c) PROVE IInv'
<1> DEFINE j == req[c].job
<1> PICK place \in {Ready(c), Discard(c)} : link' = [link EXCEPT ![j] = place]
  BY DEF AcceptReady, Homes
<1> USE NoneAssumption, PlacesDistinct
<1>t. TypeOK
  BY DEF IInv
<1>a. /\ pc[c] = "judge" /\ pc' = [pc EXCEPT ![c] = "settle"]
      /\ link[j] # Unlinked /\ state[j] = "READY"
      /\ Unlock(Pair(c))
      /\ UNCHANGED <<state, refs, offered, pool, running, hand, asleep, migq, req>>
  BY DEF AcceptReady, Movable, At, Goto, coreVars, migVars
<1>s. Serving(c)
  BY <1>a DEF Serving
<1>j. j \in Jobs /\ Requested(j)
  BY <1>s, ServedRequest
<1>l. /\ link' \in [Jobs -> Places] /\ link'[j] = place /\ place # Unlinked
      /\ \A k \in Jobs \ {j} : link'[k] = link[k]
  BY <1>j, <1>t, PlacesAre DEF TypeOK
<1>p. /\ pc'[c] = "settle" /\ pc' \in [Cores -> Steps]
      /\ \A e \in Cores \ {c} : pc'[e] = pc[e]
  BY <1>a, <1>t DEF TypeOK, Steps
<1>q. \A e \in Cores : /\ pc'[e] \in ServingSteps <=> pc[e] \in ServingSteps
                       /\ pc'[e] = "release" <=> pc[e] = "release"
  BY <1>a, <1>p DEF ServingSteps
<1>k. link[j] # Unlinked /\ state[j] = "READY"
  BY <1>a
<1> HIDE DEF j
<1>4. lock' \in [Cores -> Cores \cup {None}] /\ LockExact'
  BY <1>a, <1>p, PairUnlocked
<1>5. TypeOK'
  BY <1>4, <1>a, <1>l, <1>p, <1>t DEF TypeOK
<1>1. /\ RequestsValid' /\ UniqueRequest' /\ OfferedExact'
      /\ \A k \in Jobs : Requested(k)' <=> Requested(k)
  BY <1>5, <1>a, <1>q, RequestsKept
<1>2. \A k \in Jobs : Homed(k)' <=> Homed(k)
  BY <1>a, <1>k, <1>l DEF Homed
<1>3. RefcountExact' /\ PoolExact'
  BY <1>1, <1>2, <1>a, CountsKept
<1>6. HandsExact'
  BY <1>a, <1>p DEF IInv, HandsExact
<1>7. UniqueHome'
  BY <1>a, <1>k, <1>l DEF IInv, UniqueHome
<1>8. CompletionHasJob'
  BY <1>a, <1>p DEF IInv, CompletionHasJob
<1>9. StateAgrees'
  <2>1. \A k \in Jobs : \A e \in Cores :
          /\ link'[k] = Pending(e) => state[k] = "IDLE"
          /\ link'[k] \in {Ready(e), Discard(e), Shared} => state[k] = "READY"
    BY <1>k, <1>l DEF IInv, StateAgrees
  <2> QED
    BY <2>1, <1>a, <1>p DEF IInv, StateAgrees
<1>10. WaitsAtHome'
  BY <1>a, <1>l, <1>p, <1>s, EndWaits DEF j, JudgeSteps
<1>11. SettledAtHome'
  BY <1>a, <1>l, <1>p, <1>s, EndSettled DEF j
<1> QED
  BY <1>1, <1>3, <1>4, <1>5, <1>6, <1>7, <1>8, <1>9, <1>10, <1>11 DEF IInv

\* ClearOffered keeps the invariant: the flag falls before the reference does.
LEMMA ClearOfferedStep == ASSUME IInv, NEW c \in Cores, ClearOffered(c) PROVE IInv'
<1> DEFINE j == req[c].job
<1> USE NoneAssumption, PlacesDistinct
<1>t. TypeOK
  BY DEF IInv
<1>a. /\ pc[c] = "settle" /\ pc' = [pc EXCEPT ![c] = "release"]
      /\ offered' = [offered EXCEPT ![j] = FALSE]
      /\ UNCHANGED <<link, state, refs, pool, running, hand, asleep, migq, req, lock>>
  BY DEF ClearOffered, At, Goto, coreVars, migVars
<1>s. Serving(c)
  BY <1>a DEF Serving
<1>j. j \in Jobs
  BY <1>s, ServedRequest
<1>o. /\ offered' \in [Jobs -> BOOLEAN] /\ ~offered'[j]
      /\ \A k \in Jobs \ {j} : offered'[k] = offered[k]
  BY <1>a, <1>j, <1>t DEF TypeOK
<1>p. /\ pc'[c] = "release" /\ pc' \in [Cores -> Steps]
      /\ \A e \in Cores \ {c} : pc'[e] = pc[e]
      /\ \A e \in Cores : Serving(e)' <=> Serving(e)
      /\ \A e \in Cores : Slots(e)' = Slots(e)
  BY <1>a, <1>t DEF TypeOK, Steps, Serving, Slots
<1> HIDE DEF j
<1>1. RequestsValid' /\ UniqueRequest'
  <2>1. RequestsValid'
    BY <1>a, <1>p DEF IInv, RequestsValid, ValidRequest
  <2>2. UniqueRequest'
    BY <1>a, <1>p DEF IInv, UniqueRequest
  <2> QED
    BY <2>1, <2>2
<1>2. \A k \in Jobs : /\ Homed(k)' <=> Homed(k)
                      /\ Requested(k)' <=> Requested(k)
  <2>1. \A k \in Jobs : Homed(k)' <=> Homed(k)
    BY <1>a DEF Homed
  <2>2. \A k \in Jobs : Requested(k)' <=> Requested(k)
    BY <1>a, <1>p DEF Requested
  <2> QED
    BY <2>1, <2>2
<1>3. RefcountExact' /\ PoolExact'
  BY <1>2, <1>a, CountsKept
<1>4. LockExact'
  BY <1>a, <1>p DEF IInv, LockExact, First, Pair
<1>5. TypeOK'
  BY <1>a, <1>o, <1>p, <1>t DEF TypeOK
<1>6. HandsExact'
  BY <1>a, <1>p DEF IInv, HandsExact
<1>7. UniqueHome' /\ CompletionHasJob'
  BY <1>a, <1>p DEF IInv, UniqueHome, CompletionHasJob
<1>8. StateAgrees'
  BY <1>a, <1>p DEF IInv, StateAgrees
<1>9. OfferedExact'
  <2> SUFFICES ASSUME NEW k \in Jobs, offered'[k]
               PROVE  \/ \E d \in Cores : \E i \in Slots(d)' : migq'[d][i].job = k
                      \/ \E d \in Cores : Serving(d)' /\ pc'[d] # "release" /\ req'[d].job = k
    BY DEF OfferedExact
  <2>1. k # j /\ offered[k]
    BY <1>o
  <2>2. \/ \E d \in Cores : \E i \in Slots(d) : migq[d][i].job = k
        \/ \E d \in Cores : Serving(d) /\ pc[d] # "release" /\ req[d].job = k
    BY <2>1 DEF IInv, OfferedExact
  <2> QED
    BY <1>a, <1>p, <2>1, <2>2 DEF j
<1>10. WaitsAtHome'
  BY <1>a, <1>o, <1>p, <1>s, EndWaits DEF j, JudgeSteps
<1>11. SettledAtHome'
  BY <1>a, <1>p DEF IInv, SettledAtHome, Moved
<1> QED
  BY <1>1, <1>3, <1>4, <1>5, <1>6, <1>7, <1>8, <1>9, <1>10, <1>11 DEF IInv

\* PutMigrated keeps the invariant: the reference goes with the request, the
\* one of the new home stays.
LEMMA PutMigratedStep == ASSUME IInv, NEW c \in Cores, PutMigrated(c) PROVE IInv'
<1> DEFINE j == req[c].job
<1> USE NoneAssumption, PlacesDistinct
<1>t. TypeOK
  BY DEF IInv
<1>a. /\ pc[c] = "release" /\ pc' = [pc EXCEPT ![c] = "drain"]
      /\ PutRefs({j}, c)
      /\ req' = [req EXCEPT ![c] = NoRequest]
      /\ UNCHANGED <<link, state, offered, running, hand, asleep, migq, lock>>
  BY DEF PutMigrated, At, Goto, coreVars
<1>s. Serving(c)
  BY <1>a DEF Serving
<1>j. j \in Jobs /\ Requested(j)
  BY <1>s, ServedRequest
<1>p. /\ pc'[c] = "drain" /\ req'[c] = NoRequest
      /\ \A e \in Cores \ {c} : req'[e] = req[e] /\ pc'[e] = pc[e]
  BY <1>a, <1>t DEF TypeOK
<1>o. ~offered[j]
  <2>1. \A e \in Cores : \A i \in Slots(e) : migq[e][i].job # j
    BY <1>s, ServedRequest
  <2>2. \A e \in Cores \ {c} : Serving(e) => req[e].job # j
    BY <1>s, ServedRequest
  <2> QED
    BY <2>1, <2>2, <1>a, <1>j DEF IInv, OfferedExact
<1> HIDE DEF j
<1>1. /\ req' \in [Cores -> Request] /\ pc' \in [Cores -> Steps]
      /\ RequestsValid' /\ UniqueRequest' /\ OfferedExact'
      /\ \A k \in Jobs : Requested(k)' <=> Requested(k) /\ k # j
  BY <1>a, <1>o, <1>s, RequestEnds DEF j
<1>2. \A k \in Jobs : Homed(k)' <=> Homed(k)
  BY <1>a DEF Homed
<1>3. /\ refs' \in [Jobs -> Nat] /\ pool' \in [Jobs -> {"live", "free", "remote"}]
      /\ RefcountExact' /\ PoolExact'
  BY <1>1, <1>2, <1>a, <1>j, CountsEnd
<1>4. LockExact'
  BY <1>a, <1>p DEF IInv, LockExact, First, Pair
<1>5. TypeOK'
  BY <1>1, <1>3, <1>a, <1>t DEF TypeOK
<1>6. HandsExact'
  BY <1>a, <1>p DEF IInv, HandsExact
<1>7. UniqueHome' /\ CompletionHasJob'
  BY <1>a, <1>p DEF IInv, UniqueHome, CompletionHasJob
<1>8. StateAgrees'
  BY <1>a, <1>p DEF IInv, StateAgrees
<1>9. WaitsAtHome'
  BY <1>a, <1>p, <1>s, EndWaits DEF JudgeSteps
<1>10. SettledAtHome'
  BY <1>a, <1>p, <1>s, EndSettled DEF SettleSteps
<1> QED
  BY <1>1, <1>3, <1>4, <1>5, <1>6, <1>7, <1>8, <1>9, <1>10 DEF IInv

-----------------------------------------------------------------------------
(* The invariant and what follows from it                                  *)

\* Every step of every core, and of the timer thread, keeps the invariant.
THEOREM NextInv == IInv /\ [Next]_vars => IInv'
<1> SUFFICES ASSUME IInv, [Next]_vars PROVE IInv'
  OBVIOUS
<1>1. CASE Timer
  BY <1>1, TimerStep
<1>2. ASSUME NEW c \in Cores, Core(c) PROVE IInv'
  <2>1. CASE \/ NoMoreCompletions(c) \/ SameMode(c) \/ StayAsleep(c) \/ Awake(c)
             \/ KeepRunning(c) \/ BudgetEvent(c) \/ NoMorePending(c)
             \/ NoMoreArrivals(c) \/ SkipPush(c) \/ DecidePush(c) \/ FutureEnd(c)
             \/ DrainEnd(c) \/ SelectNone(c) \/ SetDpm(c)
    BY <2>1, PlainActions
  <2>2. CASE \/ ReclaimBegin(c) \/ ShedBegin(c) \/ ShedEnd(c)
             \/ LockFirst(c) \/ LockSecond(c)
    BY <2>2, LockActions
  <2>3. CASE ObserveModeChange(c) \/ RaiseMode(c)
    BY <2>3, ModeChangeStep DEF ObserveModeChange, RaiseMode, At
  <2>4. CASE \/ RemoveCompleted(c) \/ MissDeadline(c) \/ CompleteRunning(c)
             \/ PutCompleted(c) \/ ArrivePending(c) \/ ExpirePending(c)
             \/ ArriveNew(c) \/ WithdrawFuture(c) \/ ReclaimOwn(c) \/ ReclaimShared(c)
    BY <2>4, RemoveCompletedStep, MissDeadlineStep, CompleteRunningStep,
       PutCompletedStep, ArrivePendingStep, ExpirePendingStep,
       ArriveNewStep, WithdrawFutureStep, ReclaimOwnStep, ReclaimSharedStep
  <2>5. CASE \/ Offer(c) \/ PublishOffer(c) \/ OfferFuture(c) \/ PublishFuture(c)
             \/ Dequeue(c) \/ Drop(c) \/ AcceptFuture(c) \/ AcceptReady(c)
             \/ ClearOffered(c) \/ PutMigrated(c)
    BY <2>5, OfferStep, PublishStep, OfferFutureStep, DequeueStep, DropStep,
       AcceptFutureStep, AcceptReadyStep, ClearOfferedStep, PutMigratedStep
  <2>6. CASE Select(c) \/ Dispatch(c) \/ Procrastinate(c)
    BY <2>6, SelectStep, DispatchStep, ProcrastinateStep
  <2> QED
    BY <1>2, <2>1, <2>2, <2>3, <2>4, <2>5, <2>6 DEF Core
<1>3. CASE UNCHANGED vars
  <2>1. TypeOK' /\ LockExact' /\ HandsExact' /\ StateAgrees' /\ UniqueHome'
    BY <1>3 DEF vars, IInv, TypeOK, LockExact, HandsExact, StateAgrees, UniqueHome,
       First, Pair
  <2>2. RequestsValid' /\ UniqueRequest' /\ SettledAtHome' /\ CompletionHasJob'
    BY <1>3 DEF vars, IInv, RequestsValid, ValidRequest, UniqueRequest,
       SettledAtHome, CompletionHasJob, Slots, Serving, Moved
  <2>3. RefcountExact'
    BY <1>3 DEF vars, IInv, RefcountExact, Homed, Requested, Slots, Serving
  <2>4. PoolExact'
    BY <1>3 DEF vars, IInv, PoolExact, Homed, Requested, Slots, Serving
  <2>5. WaitsAtHome'
    BY <1>3 DEF vars, IInv, WaitsAtHome, Homed, AtHome, Slots
  <2>6. OfferedExact'
    BY <1>3 DEF vars, IInv, OfferedExact, Slots, Serving
  <2> QED
    BY <2>1, <2>2, <2>3, <2>4, <2>5, <2>6 DEF IInv
<1> QED
  BY <1>1, <1>2, <1>3 DEF Next

\* The inductive invariant holds in every reachable state of every scheduler.
THEOREM Invariance == Spec => []IInv
<1> QED
  BY InitInv, NextInv, PTL DEF Spec

\* Every variable keeps its type.
THEOREM TypeCorrect == Spec => []TypeOK
<1>1. IInv => TypeOK
  BY DEF IInv
<1> QED
  BY <1>1, Invariance, PTL

\* No job is ever in two lists, or in a list and running, or run twice.
THEOREM OneHome == Spec => []UniqueHome
<1>1. IInv => UniqueHome
  BY DEF IInv
<1> QED
  BY <1>1, Invariance, PTL

\* A job's reference count is the number of its homes and requests, and its
\* struct is free exactly when there are none.
THEOREM CountsExact == Spec => [](RefcountExact /\ PoolExact)
<1>1. IInv => RefcountExact /\ PoolExact
  BY DEF IInv
<1> QED
  BY <1>1, Invariance, PTL

\* is_being_offered never outlives the migration request.
THEOREM FlagHasRequest == Spec => []OfferedHasRequest
<1>1. IInv => OfferedHasRequest
  BY DEF IInv, OfferedExact, OfferedHasRequest, Requested
<1> QED
  BY <1>1, Invariance, PTL

\* Whatever the senders and destinations do, reclaim_discarded_jobs never pops
\* a job that is being offered, the one it would neither keep nor share.
THEOREM NothingDropped == Spec => []DiscardedNotOffered
<1>1. IInv => DiscardedNotOffered
  BY DiscardedFree
<1> QED
  BY <1>1, Invariance, PTL

\* The two locks that double_rq_lock takes are those of the queue the job is
\* in and of the queue it goes to.
THEOREM LocksSuffice == Spec => []RequestedAtHome
<1>1. IInv => RequestedAtHome
  <2> SUFFICES ASSUME IInv, NEW d \in Cores
               PROVE  /\ \A i \in Slots(d) : Homed(migq[d][i].job) =>
                           AtHome(migq[d][i].job, migq[d][i].from)
                      /\ pc[d] = "judge" /\ link[req[d].job] # Unlinked =>
                           link[req[d].job] = Ready(req[d].from)
    BY DEF RequestedAtHome, AtHome
  <2>1. \A i \in Slots(d) : Homed(migq[d][i].job) =>
           AtHome(migq[d][i].job, migq[d][i].from)
    BY DEF IInv, WaitsAtHome
  <2>2. ASSUME pc[d] = "judge", link[req[d].job] # Unlinked
        PROVE  link[req[d].job] = Ready(req[d].from)
    <3>1. AtHome(req[d].job, req[d].from)
      BY <2>2, JudgedRequest DEF Homed
    <3>2. req[d].job \in Jobs /\ req[d].from \in Cores
      BY <2>2, ServedRequest DEF Serving
    <3>3. running[req[d].from] # req[d].job /\ hand[req[d].from] # req[d].job
      BY <2>2, <3>2 DEF IInv, UniqueHome
    <3> QED
      BY <3>1, <3>3 DEF AtHome
  <2> QED
    BY <2>1, <2>2
<1> QED
  BY <1>1, Invariance, PTL

\* A migrated job stays at its new core until the destination is done with it.
THEOREM Settles == Spec => []SettledAtHome
<1>1. IInv => SettledAtHome
  BY DEF IInv
<1> QED
  BY <1>1, Invariance, PTL

\* state agrees with the list a job is in, and a core that sleeps runs nothing
\* and has nothing in hand.
THEOREM StatesAgree == Spec => []StatusAgrees
<1>1. IInv => StatusAgrees
  BY NoneAssumption DEF IInv, HandsExact, StatusAgrees
<1> QED
  BY <1>1, Invariance, PTL

\* handle_job_completion never takes its error path, which keeps the lock.
THEOREM CompletionFindsJob == Spec => []CompletionHasJob
<1>1. IInv => CompletionHasJob
  BY DEF IInv
<1> QED
  BY <1>1, Invariance, PTL

\* A core reaches the barrier with nothing in its hands.
THEOREM BarrierQuiet == Spec => []QuietAtBarrier
<1>1. IInv => QuietAtBarrier
  BY NoneAssumption DEF IInv, LockExact, HandsExact, RequestsValid, Serving, QuietAtBarrier
<1> QED
  BY <1>1, Invariance, PTL

\* A struct is in a free list exactly when nothing refers to it.
THEOREM PoolsExact == Spec => []PoolExact
<1>1. IInv => PoolExact
  BY DEF IInv
<1> QED
  BY <1>1, Invariance, PTL

\* Locks are taken in the order of the core ids: no circle of waiting threads.
THEOREM LocksOrdered == Spec => []NoCircularWait
<1>1. IInv => NoCircularWait
  <2> SUFFICES ASSUME IInv, NEW c \in Cores, NEW m \in Cores, lock[m] = c,
                      NEW n \in Wanted(c)
               PROVE  m < n
    BY DEF NoCircularWait
  <2>1. \/ m = c /\ pc[c] \in {"own", "offer", "publish"}
        \/ pc[c] = "lock2" /\ m = First(c)
        \/ pc[c] = "judge"
    BY DEF IInv, LockExact
  <2>2. pc[c] = "lock2" /\ m = First(c) /\ n = Second(c)
    BY <2>1 DEF Wanted
  <2>3. req[c].from \in Cores \ {c}
    BY <2>2 DEF IInv, RequestsValid, Serving, ValidRequest
  <2> QED
    BY <2>2, <2>3, CoresAssumption DEF First, Second
<1> QED
  BY <1>1, Invariance, PTL

-----------------------------------------------------------------------------
(***************************************************************************)
(* The refinement of JobLifecycle.  Sight is what the mapping shows of a   *)
(* job in each of its places; with it before and after a step the phase    *)
(* and the core of the job that the step moves are known, and every other  *)
(* job idles.                                                              *)
(***************************************************************************)
PhaseFrom(p, l, s, R, H) ==
    CASE p # "live"                                          -> "free"
      [] p = "live" /\ R # {}                                -> "running"
      [] p = "live" /\ R = {} /\ (l # Unlinked \/ H # {}) ->
             IF s = "IDLE" THEN "pending" ELSE "waiting"
      [] OTHER ->
             IF s = "IDLE" THEN "future"
             ELSE IF s = "READY" THEN "lost" ELSE "done"

CoreFrom(p, at) == IF p = "live" /\ at # {} THEN CHOOSE c \in at : TRUE ELSE None

\* The mapping in terms of the fields of one job, before and after a step.
LEMMA View ==
    ASSUME NEW j \in Jobs
    PROVE  /\ Phase(j) = PhaseFrom(pool[j], link[j], state[j], RunningOn(j), HeldBy(j))
           /\ Phase(j)' = PhaseFrom(pool'[j], link'[j], state'[j], RunningOn(j)', HeldBy(j)')
           /\ CoreOf(j) = CoreFrom(pool[j], RunningOn(j) \cup HeldBy(j) \cup ListedAt(j))
           /\ CoreOf(j)' = CoreFrom(pool'[j], RunningOn(j)' \cup HeldBy(j)' \cup ListedAt(j)')
BY DEF Phase, PhaseFrom, CoreOf, CoreFrom

Seen(j, p, c) == Phase(j) = p /\ CoreOf(j) = c

Sight ==
    \A j \in Jobs :
        /\ \A c \in Cores :
             /\ link[j] \in {Ready(c), Discard(c)} => Seen(j, "waiting", c)
             /\ link[j] = Pending(c) => Seen(j, "pending", c)
             /\ running[c] = j => Seen(j, "running", c)
             /\ hand[c] = j /\ pc[c] = "dispatch" => Seen(j, "waiting", c)
             /\ hand[c] = j /\ pc[c] = "put" => Phase(j) = "done"
        /\ link[j] = Shared => Phase(j) = "waiting"
        /\ pool[j] # "live" => Phase(j) = "free"
        /\ ~Homed(j) /\ pool[j] = "live" =>
             Phase(j) = IF state[j] = "IDLE" THEN "future" ELSE "done"

LEMMA Shown == IInv => Sight
<1> SUFFICES ASSUME IInv, NEW j \in Jobs
             PROVE  /\ \A c \in Cores :
                         /\ link[j] \in {Ready(c), Discard(c)} => Seen(j, "waiting", c)
                         /\ link[j] = Pending(c) => Seen(j, "pending", c)
                         /\ running[c] = j => Seen(j, "running", c)
                         /\ hand[c] = j /\ pc[c] = "dispatch" => Seen(j, "waiting", c)
                         /\ hand[c] = j /\ pc[c] = "put" => Phase(j) = "done"
                    /\ link[j] = Shared => Phase(j) = "waiting"
                    /\ pool[j] # "live" => Phase(j) = "free"
                    /\ ~Homed(j) /\ pool[j] = "live" =>
                         Phase(j) = IF state[j] = "IDLE" THEN "future" ELSE "done"
  BY DEF Sight
<1> USE PlacesDistinct
<1>1. pool[j] = "live" <=> Homed(j) \/ Requested(j)
  BY DEF IInv, PoolExact
<1>2. ASSUME NEW c \in Cores, link[j] \in {Ready(c), Discard(c), Pending(c)}
      PROVE  /\ pool[j] = "live" /\ RunningOn(j) = {} /\ HeldBy(j) = {}
             /\ ListedAt(j) = {c}
  <2>1. pool[j] = "live" /\ link[j] # Unlinked
    BY <1>1, <1>2 DEF Homed
  <2>2. RunningOn(j) = {} /\ HeldBy(j) = {}
    BY <2>1 DEF RunningOn, HeldBy, IInv, UniqueHome
  <2>3. ListedAt(j) = {c}
    BY <1>2 DEF ListedAt
  <2> QED
    BY <2>1, <2>2, <2>3
<1>3. ASSUME NEW c \in Cores, link[j] \in {Ready(c), Discard(c)}
      PROVE  Seen(j, "waiting", c)
  <2>1. state[j] = "READY" /\ link[j] # Unlinked
    BY <1>3 DEF IInv, StateAgrees
  <2> QED
    BY <1>2, <1>3, <2>1, View DEF Seen, PhaseFrom, CoreFrom
<1>4. ASSUME NEW c \in Cores, link[j] = Pending(c)
      PROVE  Seen(j, "pending", c)
  <2>1. state[j] = "IDLE" /\ link[j] # Unlinked
    BY <1>4 DEF IInv, StateAgrees
  <2> QED
    BY <1>2, <1>4, <2>1, View DEF Seen, PhaseFrom, CoreFrom
<1>5. ASSUME NEW c \in Cores, running[c] = j
      PROVE  Seen(j, "running", c)
  <2>1. pool[j] = "live"
    BY <1>1, <1>5 DEF Homed
  <2>2. RunningOn(j) = {c} /\ HeldBy(j) = {} /\ link[j] = Unlinked
    BY <1>5 DEF RunningOn, HeldBy, IInv, UniqueHome
  <2>3. ListedAt(j) = {}
    BY <2>2 DEF ListedAt
  <2> QED
    BY <2>1, <2>2, <2>3, View DEF Seen, PhaseFrom, CoreFrom
<1>6. ASSUME NEW c \in Cores, hand[c] = j, pc[c] = "dispatch"
      PROVE  Seen(j, "waiting", c)
  <2>1. pool[j] = "live" /\ state[j] = "READY"
    BY <1>1, <1>6 DEF Homed, IInv, StateAgrees
  <2>2. RunningOn(j) = {} /\ HeldBy(j) = {c} /\ link[j] = Unlinked
    BY <1>6 DEF RunningOn, HeldBy, IInv, UniqueHome
  <2>3. ListedAt(j) = {}
    BY <2>2 DEF ListedAt
  <2> QED
    BY <2>1, <2>2, <2>3, View DEF Seen, PhaseFrom, CoreFrom
<1>7. ASSUME NEW c \in Cores, hand[c] = j, pc[c] = "put"
      PROVE  Phase(j) = "done"
  <2>1. pool[j] = "live" /\ state[j] = "COMPLETED"
    BY <1>1, <1>7 DEF Homed, IInv, HandsExact
  <2>2. RunningOn(j) = {} /\ HeldBy(j) = {} /\ link[j] = Unlinked
    BY <1>7 DEF RunningOn, HeldBy, IInv, UniqueHome
  <2> QED
    BY <2>1, <2>2, View DEF PhaseFrom
<1>8. ASSUME link[j] = Shared
      PROVE  Phase(j) = "waiting"
  <2>1. pool[j] = "live" /\ link[j] # Unlinked
    BY <1>1, <1>8 DEF Homed
  <2>2. RunningOn(j) = {}
    BY <2>1 DEF RunningOn, IInv, UniqueHome
  <2>3. state[j] = "READY"
    BY <1>8, CoresAssumption DEF IInv, StateAgrees
  <2> QED
    BY <2>1, <2>2, <2>3, View DEF PhaseFrom
<1>9. pool[j] # "live" => Phase(j) = "free"
  BY View DEF PhaseFrom
<1>10. ASSUME ~Homed(j), pool[j] = "live"
       PROVE  Phase(j) = IF state[j] = "IDLE" THEN "future" ELSE "done"
  <2>1. RunningOn(j) = {} /\ HeldBy(j) = {} /\ link[j] = Unlinked
    BY <1>10 DEF Homed, RunningOn, HeldBy
  <2>2. state[j] # "READY"
    <3>1. CASE \E d \in Cores : \E i \in Slots(d) : migq[d][i].job = j
      BY <1>10, <3>1 DEF IInv, WaitsAtHome
    <3>2. CASE \E d \in Cores : Serving(d) /\ req[d].job = j
      <4> PICK d \in Cores : Serving(d) /\ req[d].job = j
        BY <3>2
      <4>1. ~Moved(d)
        BY <2>1 DEF IInv, SettledAtHome
      <4>2. pc[d] \in {"lock1", "lock2", "judge"}
        BY <4>1 DEF Serving, Moved
      <4> QED
        BY <1>10, <4>2 DEF IInv, WaitsAtHome
    <3> QED
      BY <1>1, <1>10, <3>1, <3>2 DEF Requested
  <2> QED
    BY <1>10, <2>1, <2>2, View DEF PhaseFrom
<1> QED
  BY <1>3, <1>4, <1>5, <1>6, <1>7, <1>8, <1>9, <1>10

\* A job that a step does not touch idles.
LEMMA Idling ==
    ASSUME NEW j \in Jobs,
           \/ pool[j] # "live" /\ pool'[j] # "live"
           \/ /\ pool'[j] = pool[j] /\ link'[j] = link[j] /\ state'[j] = state[j]
              /\ \A c \in Cores :
                   /\ running'[c] = j <=> running[c] = j
                   /\ hand'[c] = j /\ pc'[c] = "dispatch" <=>
                        hand[c] = j /\ pc[c] = "dispatch"
    PROVE  Life!JobStep(j)
<1>1. Phase(j)' = Phase(j) /\ CoreOf(j)' = CoreOf(j)
  <2>1. CASE pool[j] # "live" /\ pool'[j] # "live"
    BY <2>1, View DEF PhaseFrom, CoreFrom
  <2>2. CASE ~(pool[j] # "live" /\ pool'[j] # "live")
    <3>1. RunningOn(j)' = RunningOn(j) /\ HeldBy(j)' = HeldBy(j) /\ ListedAt(j)' = ListedAt(j)
      BY <2>2 DEF RunningOn, HeldBy, ListedAt
    <3>2. pool'[j] = pool[j] /\ link'[j] = link[j] /\ state'[j] = state[j]
      BY <2>2
    <3> QED
      BY <3>1, <3>2, View
  <2> QED
    BY <2>1, <2>2
<1> QED
  BY <1>1 DEF Life!JobStep, Life!Idles, Life!Stays

\* The other steps of a job, in terms of the mapping.
Turns(j, p, q) == Phase(j) = p /\ Phase(j)' = q
Keeps(j)       == CoreOf(j)' = CoreOf(j)

LEMMA Moving ==
    ASSUME NEW j \in Jobs,
           \/ Turns(j, "free", "waiting") /\ CoreOf(j)' = Owner[j]
           \/ Turns(j, "free", "future") \/ Turns(j, "future", "free")
           \/ Turns(j, "future", "pending") /\ CoreOf(j)' # Owner[j]
           \/ Turns(j, "pending", "waiting") /\ Keeps(j)
           \/ Turns(j, "pending", "free")
           \/ Turns(j, "waiting", "waiting")
           \/ Turns(j, "waiting", "running") /\ Keeps(j)
           \/ Turns(j, "running", "waiting") /\ Keeps(j)
           \/ /\ Phase(j) \in {"waiting", "running", "done"}
              /\ Phase(j)' \in {"done", "free"}
    PROVE  Life!JobStep(j)
BY DEF Turns, Keeps, Life!JobStep, Life!From, Life!Stays, Life!Arrives, Life!Foreseen,
   Life!Accepted, Life!Refused, Life!Released, Life!Expires, Life!Moves, Life!Starts,
   Life!Preempts, Life!Leaves

\* What is known of the states before and after a step.
Known == IInv /\ IInv' /\ Sight /\ Sight'

\* A job that has left its places is done, or its struct is free.
LEMMA Gone ==
    ASSUME Sight', NEW j \in Jobs, link'[j] = Unlinked, state'[j] # "IDLE",
           \A d \in Cores : running'[d] # j /\ hand'[d] # j
    PROVE  Phase(j)' \in {"free", "done"}
BY DEF Sight, Homed

\* A job in the shared or a pending queue has no request, so its reference is
\* the last one.
LEMMA LastRef ==
    ASSUME IInv, NEW j \in Jobs, link[j] = Shared \/ \E c \in Cores : link[j] = Pending(c),
           NEW S, j \in S, NEW who, PutRefs(S, who)
    PROVE  pool'[j] # "live"
<1>1. Homed(j) /\ \A e \in Cores : ~AtHome(j, e) /\ link[j] \notin {Ready(e), Discard(e)}
  <2>1. \A e \in Cores : link[j] # Unlinked /\ link[j] \notin {Ready(e), Discard(e)}
    BY PlacesDistinct
  <2>2. \A e \in Cores : running[e] # j /\ hand[e] # j
    BY <2>1 DEF IInv, UniqueHome
  <2> QED
    BY <2>1, <2>2, CoresAssumption DEF Homed, AtHome
<1>2. ASSUME NEW d \in Cores, NEW i \in Slots(d), migq[d][i].job = j PROVE FALSE
  BY <1>1, <1>2 DEF IInv, WaitsAtHome, RequestsValid, ValidRequest
<1>3. ASSUME NEW d \in Cores, Serving(d), req[d].job = j PROVE FALSE
  <2>1. req[d].from \in Cores
    BY <1>3, ServedRequest
  <2>2. ~Moved(d)
    BY <1>1, <1>3 DEF IInv, SettledAtHome
  <2>3. pc[d] \in {"lock1", "lock2", "judge"}
    BY <1>3, <2>2 DEF Serving, Moved
  <2> QED
    BY <1>1, <1>3, <2>1, <2>3 DEF IInv, WaitsAtHome
<1>4. refs[j] = 1
  BY <1>1, <1>2, <1>3 DEF IInv, RefcountExact, Requested
<1> QED
  BY <1>4 DEF PutRefs, PoolFor

\* Steps that leave the places of the jobs alone.
LEMMA QuietLife ==
    ASSUME Known, NEW c \in Cores, NEW j \in Jobs,
           \/ NoMoreCompletions(c) \/ SameMode(c) \/ StayAsleep(c) \/ Awake(c)
           \/ KeepRunning(c) \/ BudgetEvent(c) \/ NoMorePending(c)
           \/ NoMoreArrivals(c) \/ ReclaimBegin(c) \/ SkipPush(c) \/ DecidePush(c)
           \/ ShedBegin(c) \/ Offer(c) \/ PublishOffer(c) \/ ShedEnd(c)
           \/ PublishFuture(c) \/ FutureEnd(c) \/ Dequeue(c) \/ DrainEnd(c)
           \/ LockFirst(c) \/ LockSecond(c) \/ ClearOffered(c)
           \/ SelectNone(c) \/ SetDpm(c)
    PROVE  Life!JobStep(j)
<1>1. UNCHANGED <<link, state, pool, running, hand>>
  BY DEF NoMoreCompletions, SameMode, StayAsleep, Awake, KeepRunning, BudgetEvent,
     NoMorePending, NoMoreArrivals, ReclaimBegin, SkipPush, DecidePush, ShedBegin,
     Offer, PublishOffer, ShedEnd, PublishFuture, Publish, FutureEnd, Dequeue,
     DrainEnd, LockFirst, LockSecond, ClearOffered, SelectNone, SetDpm,
     jobVars, coreVars
<1>2. \E s \in Steps \ {"dispatch"} : pc' = [pc EXCEPT ![c] = s]
  BY DEF NoMoreCompletions, SameMode, StayAsleep, Awake, KeepRunning, BudgetEvent,
     NoMorePending, NoMoreArrivals, ReclaimBegin, SkipPush, DecidePush, ShedBegin,
     Offer, PublishOffer, ShedEnd, PublishFuture, Publish, FutureEnd, Dequeue,
     DrainEnd, LockFirst, LockSecond, ClearOffered, SelectNone, SetDpm, Goto, Steps
<1>3. pc[c] # "dispatch"
  BY DEF NoMoreCompletions, SameMode, StayAsleep, Awake, KeepRunning, BudgetEvent,
     NoMorePending, NoMoreArrivals, ReclaimBegin, SkipPush, DecidePush, ShedBegin,
     Offer, PublishOffer, ShedEnd, PublishFuture, Publish, FutureEnd, Dequeue,
     DrainEnd, LockFirst, LockSecond, ClearOffered, SelectNone, SetDpm, At
<1>4. \A d \in Cores : pc'[d] = "dispatch" <=> pc[d] = "dispatch"
  BY <1>2, <1>3 DEF Known, IInv, TypeOK
<1> QED
  BY <1>1, <1>4, Idling

\* A job that a completion message names is done, or free.
LEMMA RemoveCompletedLife ==
    ASSUME Known, NEW c \in Cores, NEW j \in Jobs, RemoveCompleted(c)
    PROVE  Life!JobStep(j)
<1> PICK D \in SUBSET (In(Ready(c)) \cup Current(c)) \ {{}} :
       /\ link' = [k \in Jobs |-> IF k \in D THEN Unlinked ELSE link[k]]
       /\ state' = [k \in Jobs |-> IF k \in D THEN "REMOVED" ELSE state[k]]
       /\ running' = [running EXCEPT ![c] = IF @ \in D THEN None ELSE @]
       /\ PutRefs(D, c)
  BY DEF RemoveCompleted
<1> USE NoneAssumption, PlacesDistinct
<1>1. TypeOK /\ UniqueHome /\ UNCHANGED <<hand, pc>>
  BY DEF RemoveCompleted, Known, IInv
<1>2. CASE j \in D
  <2>1. link[j] = Ready(c) \/ running[c] = j
    BY <1>2 DEF In, Current
  <2>2. Phase(j) \in {"waiting", "running"}
    BY <2>1 DEF Known, Sight, Seen
  <2>3. \A d \in Cores : running'[d] # j /\ hand'[d] # j
    BY <1>1, <1>2, <2>1 DEF UniqueHome, TypeOK
  <2>4. Phase(j)' \in {"free", "done"}
    BY <1>2, <2>3, Gone DEF Known
  <2> QED
    BY <2>2, <2>4, Moving
<1>3. CASE j \notin D
  <2>1. /\ pool'[j] = pool[j] /\ link'[j] = link[j] /\ state'[j] = state[j]
        /\ \A d \in Cores : running'[d] = j <=> running[d] = j
    BY <1>1, <1>3 DEF PutRefs, TypeOK
  <2> QED
    BY <1>1, <2>1, Idling
<1> QED
  BY <1>2, <1>3

\* handle_mode_change: the running job waits again, where it ran.
LEMMA ModeChangeLife ==
    ASSUME Known, NEW c \in Cores, NEW j \in Jobs, ObserveModeChange(c) \/ RaiseMode(c)
    PROVE  Life!JobStep(j)
<1> PICK next \in {"dpm", "pending"} : HandleModeChange(c, next)
  BY DEF ObserveModeChange, RaiseMode
<1> PICK D \in SUBSET Discardable(c) :
         link' = [k \in Jobs |-> IF k \in D THEN Discard(c)
                                 ELSE IF k \in Current(c) THEN Ready(c)
                                 ELSE link[k]]
  BY DEF HandleModeChange
<1> USE NoneAssumption
<1>1. /\ TypeOK /\ pc[c] # "dispatch"
      /\ UNCHANGED <<hand, pool>>
      /\ state' = Preempted(c) /\ running' = [running EXCEPT ![c] = None]
      /\ pc' = [pc EXCEPT ![c] = next]
  BY DEF ObserveModeChange, RaiseMode, HandleModeChange, Known, IInv, At, Goto
<1>2. CASE running[c] = j
  <2>1. Seen(j, "running", c)
    BY <1>2 DEF Known, Sight
  <2>2. link'[j] \in {Ready(c), Discard(c)}
    BY <1>2 DEF Current
  <2>3. Seen(j, "waiting", c)'
    BY <2>2 DEF Known, Sight
  <2> QED
    BY <2>1, <2>3, Moving DEF Seen, Turns, Keeps
<1>3. CASE running[c] # j /\ j \in D
  <2>1. Phase(j) = "waiting"
    BY <1>3 DEF Known, Sight, Seen, Discardable, In, Current
  <2>2. Phase(j)' = "waiting"
    BY <1>3 DEF Known, Sight, Seen
  <2> QED
    BY <2>1, <2>2, Moving DEF Turns
<1>4. CASE running[c] # j /\ j \notin D
  <2>1. link'[j] = link[j] /\ state'[j] = state[j]
    BY <1>1, <1>4 DEF Current, Preempted
  <2>2. \A d \in Cores : /\ running'[d] = j <=> running[d] = j
                         /\ pc'[d] = "dispatch" <=> pc[d] = "dispatch"
    BY <1>1, <1>4 DEF TypeOK
  <2> QED
    BY <1>1, <2>1, <2>2, Idling
<1> QED
  BY <1>2, <1>3, <1>4

\* A deadline miss and the end of a job take it from the core that ran it.
LEMMA EndsLife ==
    ASSUME Known, NEW c \in Cores, NEW j \in Jobs,
           MissDeadline(c) \/ CompleteRunning(c)
    PROVE  Life!JobStep(j)
<1> USE NoneAssumption
<1>1. /\ TypeOK /\ UniqueHome /\ running[c] # None
      /\ pc[c] \in {"run", "complete"} /\ link' = link
      /\ state' = [state EXCEPT ![running[c]] = "COMPLETED"]
      /\ running' = [running EXCEPT ![c] = None]
      /\ \/ pc' = [pc EXCEPT ![c] = "pending"] /\ hand' = hand
         \/ pc' = [pc EXCEPT ![c] = "put"] /\ hand' = [hand EXCEPT ![c] = running[c]]
      /\ PutRefs({running[c]}, c) \/ pool' = pool
  BY DEF MissDeadline, CompleteRunning, Known, IInv, At, Goto
<1>2. CASE running[c] = j
  <2>1. Phase(j) = "running"
    BY <1>2 DEF Known, Sight, Seen
  <2>2. Phase(j)' \in {"free", "done"}
    <3>1. CASE hand' = hand
      <4>1. \A d \in Cores : running'[d] # j /\ hand'[d] # j
        BY <1>1, <1>2, <3>1 DEF UniqueHome, TypeOK
      <4>2. link'[j] = Unlinked /\ state'[j] # "IDLE"
        BY <1>1, <1>2 DEF UniqueHome, TypeOK
      <4> QED
        BY <4>1, <4>2, Gone DEF Known
    <3>2. CASE hand'[c] = j /\ pc'[c] = "put"
      BY <3>2 DEF Known, Sight
    <3> QED
      BY <1>1, <1>2, <3>1, <3>2 DEF TypeOK
  <2> QED
    BY <2>1, <2>2, Moving
<1>3. CASE running[c] # j
  <2>1. /\ pool'[j] = pool[j] /\ link'[j] = link[j] /\ state'[j] = state[j]
        /\ \A d \in Cores : running'[d] = j <=> running[d] = j
    BY <1>1, <1>3 DEF PutRefs, TypeOK
  <2>2. \A d \in Cores : hand'[d] = j /\ pc'[d] = "dispatch" <=>
                           hand[d] = j /\ pc[d] = "dispatch"
    BY <1>1, <1>3 DEF TypeOK
  <2> QED
    BY <2>1, <2>2, Idling
<1> QED
  BY <1>2, <1>3

\* The completed job is put, and stays done when a request still refers to it.
LEMMA PutCompletedLife ==
    ASSUME Known, NEW c \in Cores, NEW j \in Jobs, PutCompleted(c)
    PROVE  Life!JobStep(j)
<1> USE NoneAssumption
<1>1. /\ TypeOK /\ UniqueHome /\ HandsExact
      /\ pc[c] = "put" /\ pc' = [pc EXCEPT ![c] = "pending"]
      /\ hand' = [hand EXCEPT ![c] = None]
      /\ PutRefs({hand[c]}, c) /\ UNCHANGED <<link, state, running>>
  BY DEF PutCompleted, Known, IInv, At, Goto
<1>2. CASE hand[c] = j
  <2>1. Phase(j) = "done"
    BY <1>1, <1>2 DEF Known, Sight
  <2>2. \A d \in Cores : running'[d] # j /\ hand'[d] # j
    BY <1>1, <1>2 DEF UniqueHome, TypeOK
  <2>3. link'[j] = Unlinked /\ state'[j] # "IDLE"
    BY <1>1, <1>2 DEF UniqueHome, HandsExact
  <2>4. Phase(j)' \in {"free", "done"}
    BY <2>2, <2>3, Gone DEF Known
  <2> QED
    BY <2>1, <2>4, Moving
<1>3. CASE hand[c] # j
  <2>1. pool'[j] = pool[j]
    BY <1>1, <1>3 DEF PutRefs
  <2>2. \A d \in Cores : hand'[d] = j /\ pc'[d] = "dispatch" <=>
                           hand[d] = j /\ pc[d] = "dispatch"
    BY <1>1, <1>3 DEF TypeOK
  <2> QED
    BY <1>1, <2>1, <2>2, Idling
<1> QED
  BY <1>2, <1>3

\* A delegated job arrives where it was pending, or expires there.
LEMMA PendingLife ==
    ASSUME Known, NEW c \in Cores, NEW j \in Jobs, ArrivePending(c) \/ ExpirePending(c)
    PROVE  Life!JobStep(j)
<1> USE PlacesDistinct
<1>1. TypeOK /\ UNCHANGED <<running, hand, pc>>
  BY DEF ArrivePending, ExpirePending, coreVars, Known, IInv
<1>2. CASE ArrivePending(c)
  <2> PICK k \in In(Pending(c)), place \in Homes(c) :
           /\ link' = [link EXCEPT ![k] = place]
           /\ state' = [state EXCEPT ![k] = "READY"]
    BY <1>2 DEF ArrivePending
  <2>1. pool' = pool
    BY <1>2 DEF ArrivePending
  <2>2. CASE k = j
    <3>1. Seen(j, "pending", c)
      BY <2>2 DEF Known, Sight, In
    <3>2. link'[j] \in {Ready(c), Discard(c)}
      BY <1>1, <2>2 DEF TypeOK, Homes
    <3>3. Seen(j, "waiting", c)'
      BY <3>2 DEF Known, Sight
    <3> QED
      BY <3>1, <3>3, Moving DEF Seen, Turns, Keeps
  <2>3. CASE k # j
    <3>1. link'[j] = link[j] /\ state'[j] = state[j]
      BY <1>1, <2>3 DEF TypeOK
    <3> QED
      BY <1>1, <2>1, <3>1, Idling
  <2> QED
    BY <2>2, <2>3
<1>3. CASE ExpirePending(c)
  <2> PICK k \in In(Pending(c)) :
           /\ link' = [link EXCEPT ![k] = Unlinked]
           /\ PutRefs({k}, c)
    BY <1>3 DEF ExpirePending
  <2>1. state' = state
    BY <1>3 DEF ExpirePending
  <2>2. CASE k = j
    <3>1. Phase(j) = "pending"
      BY <2>2 DEF Known, Sight, Seen, In
    <3>2. pool'[j] # "live"
      BY <2>2, LastRef DEF Known, In
    <3>3. Phase(j)' = "free"
      BY <3>2 DEF Known, Sight
    <3> QED
      BY <3>1, <3>3, Moving DEF Turns
  <2>3. CASE k # j
    <3>1. link'[j] = link[j] /\ pool'[j] = pool[j]
      BY <1>1, <2>3 DEF TypeOK, PutRefs
    <3> QED
      BY <1>1, <2>1, <3>1, Idling
  <2> QED
    BY <2>2, <2>3
<1> QED
  BY <1>2, <1>3

\* create_job: the owner's thread takes a struct out of its own pool.
LEMMA CreateLife ==
    ASSUME Known, NEW c \in Cores, NEW j \in Jobs, ArriveNew(c) \/ OfferFuture(c)
    PROVE  Life!JobStep(j)
<1> USE PlacesDistinct
<1>1. /\ TypeOK /\ pc[c] # "dispatch" /\ UNCHANGED <<running, hand>>
      /\ \A d \in Cores : pc'[d] = "dispatch" <=> pc[d] = "dispatch"
  <2>1. /\ pc[c] # "dispatch" /\ UNCHANGED <<running, hand>>
        /\ pc' = pc \/ pc' = [pc EXCEPT ![c] = "claim"]
    BY DEF ArriveNew, OfferFuture, At, Goto, coreVars
  <2> QED
    BY <2>1 DEF Known, IInv, TypeOK
<1>2. PICK k \in Jobs, s \in {"READY", "IDLE"} :
        /\ CreateJob(k, c, s)
        /\ \/ s = "READY" /\ \E place \in Homes(c) : link' = [link EXCEPT ![k] = place]
           \/ s = "IDLE" /\ link' = link
  BY DEF ArriveNew, OfferFuture
<1>3. /\ k \in Allocatable(c) /\ Owner[k] = c /\ pool[k] # "live"
      /\ pool'[k] = "live" /\ state'[k] = s
      /\ ~Homed(k) /\ link[k] = Unlinked
      /\ \A e \in Cores : running[e] # k /\ hand[e] # k
  <2>1. k \in Allocatable(c) /\ Owner[k] = c /\ pool[k] # "live"
    BY <1>2 DEF CreateJob, Allocatable, OwnFree, Returned
  <2>2. pool'[k] = "live" /\ state'[k] = s
    BY <1>1, <1>2 DEF CreateJob, TypeOK
  <2> QED
    BY <2>1, <2>2, FreeJob DEF Known
<1>4. CASE k = j
  <2>1. Phase(j) = "free"
    BY <1>3, <1>4 DEF Known, Sight
  <2>2. CASE s = "READY"
    <3>1. link'[j] \in {Ready(c), Discard(c)}
      BY <1>1, <1>2, <1>4, <2>2 DEF TypeOK, Homes
    <3>2. Seen(j, "waiting", c)'
      BY <3>1 DEF Known, Sight
    <3> QED
      BY <1>3, <1>4, <2>1, <3>2, Moving DEF Seen, Turns
  <2>3. CASE s = "IDLE"
    <3>1. Homed(j)' = FALSE
      BY <1>1, <1>2, <1>3, <1>4, <2>3 DEF Homed
    <3>2. Phase(j)' = "future"
      BY <1>3, <1>4, <2>3, <3>1 DEF Known, Sight
    <3> QED
      BY <2>1, <3>2, Moving DEF Turns
  <2> QED
    BY <2>2, <2>3
<1>5. CASE k # j
  <2>1. link'[j] = link[j] /\ state'[j] = state[j]
    BY <1>1, <1>2, <1>5 DEF TypeOK, CreateJob
  <2>2. \/ pool'[j] = pool[j]
        \/ pool[j] # "live" /\ pool'[j] # "live"
    BY <1>2, <1>5 DEF CreateJob, Allocatable, OwnFree, Returned
  <2> QED
    BY <1>1, <2>1, <2>2, Idling
<1> QED
  BY <1>4, <1>5

\* The struct of a future job that nobody takes was never seen.
LEMMA WithdrawLife ==
    ASSUME Known, NEW c \in Cores, NEW j \in Jobs, WithdrawFuture(c)
    PROVE  Life!JobStep(j)
<1> PICK k \in Allocatable(c) : state' = [state EXCEPT ![k] = "IDLE"]
  BY DEF WithdrawFuture
<1>1. /\ TypeOK /\ UNCHANGED <<link, running, hand, pc>>
      /\ pool' = [i \in Jobs |-> IF i \in Allocatable(c) THEN "free" ELSE pool[i]]
  BY DEF WithdrawFuture, coreVars, Known, IInv
<1>2. CASE j \in Allocatable(c)
  BY <1>1, <1>2, Idling DEF Allocatable, OwnFree, Returned
<1>3. CASE j \notin Allocatable(c)
  BY <1>1, <1>3, Idling DEF TypeOK
<1> QED
  BY <1>2, <1>3

\* A discarded job that is admitted, or shared, still waits.
LEMMA ReclaimLife ==
    ASSUME Known, NEW c \in Cores, NEW j \in Jobs, ReclaimOwn(c) \/ ReclaimShared(c)
    PROVE  Life!JobStep(j)
<1> USE PlacesDistinct
<1>1. /\ TypeOK /\ pc[c] = "own" /\ UNCHANGED <<state, pool, running, hand>>
      /\ \A d \in Cores : pc'[d] = "dispatch" <=> pc[d] = "dispatch"
  <2>1. /\ pc[c] = "own" /\ UNCHANGED <<state, pool, running, hand>>
        /\ pc' = pc \/ pc' = [pc EXCEPT ![c] = "push"]
    BY DEF ReclaimOwn, ReclaimShared, At, Goto, coreVars
  <2> QED
    BY <2>1 DEF Known, IInv, TypeOK
<1>2. link'[j] # link[j] => /\ link[j] \in {Discard(c), Shared}
                            /\ link'[j] \in {Ready(c), Shared}
  <2>1. CASE ReclaimOwn(c)
    <3> PICK k \in In(Discard(c)), admitted \in BOOLEAN :
          link' = [link EXCEPT ![k] = IF admitted THEN Ready(c)
                                      ELSE IF ~offered[k] THEN Shared
                                      ELSE Unlinked]
      BY <2>1 DEF ReclaimOwn
    <3>1. ~offered[k]
      BY <1>1, DiscardedFree DEF Known, DiscardedNotOffered
    <3> QED
      BY <1>1, <3>1 DEF TypeOK, In
  <2>2. CASE ReclaimShared(c)
    BY <1>1, <2>2 DEF ReclaimShared, TypeOK, In
  <2> QED
    BY <2>1, <2>2
<1>3. CASE link'[j] # link[j]
  BY <1>2, <1>3, Moving DEF Known, Sight, Seen, Turns
<1>4. CASE link'[j] = link[j]
  BY <1>1, <1>4, Idling
<1> QED
  BY <1>3, <1>4

\* A request that is turned down takes the struct of a future job, or of one
\* that is done, with it.
LEMMA DropLife ==
    ASSUME Known, NEW c \in Cores, NEW j \in Jobs, Drop(c)
    PROVE  Life!JobStep(j)
<1>1. /\ TypeOK /\ pc[c] = "judge" /\ pc' = [pc EXCEPT ![c] = "drain"]
      /\ UNCHANGED <<link, state, running, hand>>
      /\ PutRefs({req[c].job}, c)
  BY DEF Drop, At, Goto, coreVars, Known, IInv
<1>2. \A d \in Cores : pc'[d] = "dispatch" <=> pc[d] = "dispatch"
  BY <1>1 DEF TypeOK
<1>3. CASE pool'[j] = pool[j]
  BY <1>1, <1>2, <1>3, Idling
<1>4. CASE pool'[j] # pool[j]
  <2>1. req[c].job = j /\ refs[j] = 1 /\ pool'[j] # "live"
    BY <1>1, <1>4 DEF PutRefs, PoolFor
  <2>2. Requested(j)
    BY <1>1, <2>1 DEF Requested, Serving
  <2>3. ~Homed(j) /\ pool[j] = "live"
    BY <2>1, <2>2 DEF Known, IInv, RefcountExact, PoolExact
  <2>4. Phase(j) \in {"future", "done"} /\ Phase(j)' = "free"
    BY <2>1, <2>3 DEF Known, Sight
  <2> QED
    BY <2>4, Moving DEF Turns
<1> QED
  BY <1>3, <1>4

\* A future job that nobody has taken belongs to the sender of its request.
FutureFromOwner ==
    \A d \in Cores :
        /\ \A i \in Slots(d) : state[migq[d][i].job] = "IDLE" =>
             migq[d][i].from = Owner[migq[d][i].job]
        /\ pc[d] \in JudgeSteps /\ state[req[d].job] = "IDLE" =>
             req[d].from = Owner[req[d].job]

\* An accepted job waits at the core that took it, which is not its owner.
LEMMA AcceptLife ==
    ASSUME Known, FutureFromOwner, NEW c \in Cores, NEW j \in Jobs,
           AcceptFuture(c) \/ AcceptReady(c)
    PROVE  Life!JobStep(j)
<1> USE PlacesDistinct
<1> DEFINE k == req[c].job
<1>1. /\ TypeOK /\ pc[c] = "judge"
      /\ UNCHANGED <<state, pool, running, hand>>
      /\ \A d \in Cores : pc'[d] = "dispatch" <=> pc[d] = "dispatch"
  <2>1. /\ pc[c] = "judge" /\ UNCHANGED <<state, pool, running, hand>>
        /\ \E s \in {"drain", "settle"} : pc' = [pc EXCEPT ![c] = s]
    BY DEF AcceptFuture, AcceptReady, At, Goto, coreVars
  <2> QED
    BY <2>1 DEF Known, IInv, TypeOK
<1>2. /\ k \in Jobs /\ req[c].from \in Cores \ {c} /\ Requested(k)
  BY <1>1, ServedRequest DEF Known, Serving
<1>3. /\ \/ /\ AcceptFuture(c) /\ state[k] = "IDLE"
            /\ link' = [link EXCEPT ![k] = Pending(c)]
         \/ /\ AcceptReady(c) /\ state[k] = "READY" /\ link[k] # Unlinked
            /\ \E place \in Homes(c) : link' = [link EXCEPT ![k] = place]
  BY DEF AcceptFuture, AcceptReady, Movable
<1>4. CASE j # k
  <2>1. link'[j] = link[j]
    BY <1>1, <1>3, <1>4 DEF TypeOK
  <2> QED
    BY <1>1, <2>1, Idling
<1>5. CASE j = k /\ state[k] = "IDLE"
  <2>1. ~Homed(k)
    <3> SUFFICES ASSUME Homed(k) PROVE FALSE
      OBVIOUS
    <3>1. AtHome(k, req[c].from)
      BY <1>1, JudgedRequest DEF Known
    <3>2. link[k] # Ready(req[c].from) /\ running[req[c].from] # k
      BY <1>2, <1>5, NoneAssumption DEF Known, IInv, StateAgrees
    <3>3. hand[req[c].from] = k
      BY <3>1, <3>2 DEF AtHome
    <3>4. pc[req[c].from] \in {"put", "dispatch"}
      BY <1>2, <3>3, NoneAssumption DEF Known, IInv, HandsExact
    <3> QED
      BY <1>2, <1>5, <3>3, <3>4 DEF Known, IInv, HandsExact, StateAgrees
  <2>2. pool[k] = "live"
    BY <1>2 DEF Known, IInv, PoolExact
  <2>3. Phase(j) = "future"
    BY <1>2, <1>5, <2>1, <2>2 DEF Known, Sight
  <2>4. link'[j] = Pending(c)
    BY <1>1, <1>2, <1>3, <1>5 DEF TypeOK
  <2>5. Seen(j, "pending", c)'
    BY <2>4 DEF Known, Sight
  <2>6. Owner[j] # c
    BY <1>1, <1>2, <1>5 DEF FutureFromOwner, JudgeSteps
  <2> QED
    BY <2>3, <2>5, <2>6, Moving DEF Seen, Turns
<1>6. CASE j = k /\ state[k] # "IDLE"
  <2>1. link[j] # Unlinked
    BY <1>3, <1>6
  <2>2. link[j] = Ready(req[c].from)
    <3>1. AtHome(k, req[c].from)
      BY <1>1, <1>6, <2>1, JudgedRequest DEF Known, Homed
    <3> QED
      BY <1>2, <1>6, <2>1, <3>1 DEF AtHome, Known, IInv, UniqueHome
  <2>3. Phase(j) = "waiting"
    BY <1>2, <2>2 DEF Known, Sight, Seen
  <2>4. link'[j] \in {Ready(c), Discard(c)}
    BY <1>1, <1>2, <1>3, <1>6 DEF TypeOK, Homes
  <2>5. Phase(j)' = "waiting"
    BY <2>4 DEF Known, Sight, Seen
  <2> QED
    BY <2>3, <2>5, Moving DEF Turns
<1> QED
  BY <1>4, <1>5, <1>6

\* The reference of an accepted request was not the last one.
LEMMA PutMigratedLife ==
    ASSUME Known, NEW c \in Cores, NEW j \in Jobs, PutMigrated(c)
    PROVE  Life!JobStep(j)
<1>1. /\ TypeOK /\ pc[c] = "release" /\ pc' = [pc EXCEPT ![c] = "drain"]
      /\ UNCHANGED <<link, state, running, hand>>
      /\ PutRefs({req[c].job}, c)
  BY DEF PutMigrated, At, Goto, coreVars, Known, IInv
<1>2. \A d \in Cores : pc'[d] = "dispatch" <=> pc[d] = "dispatch"
  BY <1>1 DEF TypeOK
<1>3. pool'[j] = pool[j]
  <2>1. CASE req[c].job = j
    <3>1. Requested(j) /\ Homed(j)
      BY <1>1, <2>1, PlacesDistinct
         DEF Known, IInv, SettledAtHome, Moved, Requested, Serving, Homed
    <3>2. refs[j] = 2
      BY <3>1 DEF Known, IInv, RefcountExact
    <3> QED
      BY <1>1, <2>1, <3>2 DEF PutRefs
  <2>2. CASE req[c].job # j
    BY <1>1, <2>2 DEF PutRefs
  <2> QED
    BY <2>1, <2>2
<1> QED
  BY <1>1, <1>2, <1>3, Idling

\* The selected job waits in a hand, and starts where it was; the job that it
\* preempts waits where it ran.
LEMMA DispatchLife ==
    ASSUME Known, NEW c \in Cores, NEW j \in Jobs, Select(c) \/ Dispatch(c)
    PROVE  Life!JobStep(j)
<1> USE NoneAssumption
<1>t. TypeOK /\ UniqueHome /\ HandsExact
  BY DEF Known, IInv
<1>1. CASE Select(c)
  <2> PICK k \in In(Ready(c)) :
           /\ link' = [link EXCEPT ![k] = Unlinked]
           /\ hand' = [hand EXCEPT ![c] = k]
    BY <1>1 DEF Select
  <2>1. /\ pc[c] = "select" /\ pc' = [pc EXCEPT ![c] = "dispatch"]
        /\ UNCHANGED <<state, pool, running>>
    BY <1>1 DEF Select, At, Goto
  <2>2. CASE k = j
    <3>1. Phase(j) = "waiting"
      BY <2>2 DEF Known, Sight, Seen, In
    <3>2. hand'[c] = j /\ pc'[c] = "dispatch"
      BY <1>t, <2>1, <2>2 DEF TypeOK
    <3>3. Phase(j)' = "waiting"
      BY <3>2 DEF Known, Sight, Seen
    <3> QED
      BY <3>1, <3>3, Moving DEF Turns
  <2>3. CASE k # j
    <3>1. link'[j] = link[j] /\ hand[c] = None
      BY <1>t, <2>1, <2>3 DEF TypeOK, HandsExact
    <3>2. \A d \in Cores : hand'[d] = j /\ pc'[d] = "dispatch" <=>
                             hand[d] = j /\ pc[d] = "dispatch"
      BY <1>t, <2>1, <2>3, <3>1 DEF TypeOK
    <3> QED
      BY <2>1, <3>1, <3>2, Idling
  <2> QED
    BY <2>2, <2>3
<1>2. CASE Dispatch(c)
  <2>1. /\ pc[c] = "dispatch" /\ pc' = [pc EXCEPT ![c] = "power"]
        /\ link' = [i \in Jobs |-> IF i \in Current(c) THEN Ready(c) ELSE link[i]]
        /\ state' = [Preempted(c) EXCEPT ![hand[c]] = "RUNNING"]
        /\ running' = [running EXCEPT ![c] = hand[c]]
        /\ hand' = [hand EXCEPT ![c] = None]
        /\ pool' = pool
    BY <1>2 DEF Dispatch, At, Goto
  <2>2. CASE hand[c] = j
    <3>1. Seen(j, "waiting", c)
      BY <2>1, <2>2 DEF Known, Sight
    <3>2. running'[c] = j
      BY <1>t, <2>1, <2>2 DEF TypeOK
    <3>3. Seen(j, "running", c)'
      BY <3>2 DEF Known, Sight
    <3> QED
      BY <3>1, <3>3, Moving DEF Seen, Turns, Keeps
  <2>3. CASE running[c] = j
    <3>1. Seen(j, "running", c)
      BY <2>3 DEF Known, Sight
    <3>2. link'[j] = Ready(c)
      BY <2>1, <2>3 DEF Current
    <3>3. Seen(j, "waiting", c)'
      BY <3>2 DEF Known, Sight
    <3> QED
      BY <3>1, <3>3, Moving DEF Seen, Turns, Keeps
  <2>4. CASE hand[c] # j /\ running[c] # j
    <3>1. link'[j] = link[j] /\ state'[j] = state[j]
      BY <1>t, <2>1, <2>4 DEF TypeOK, Current, Preempted
    <3>2. \A d \in Cores : /\ running'[d] = j <=> running[d] = j
                           /\ hand'[d] = j /\ pc'[d] = "dispatch" <=>
                                hand[d] = j /\ pc[d] = "dispatch"
      BY <1>t, <2>1, <2>4 DEF TypeOK
    <3> QED
      BY <2>1, <3>1, <3>2, Idling
  <2> QED
    BY <2>2, <2>3, <2>4
<1> QED
  BY <1>1, <1>2

\* Procrastination puts the running job back where it ran.
LEMMA ProcrastinateLife ==
    ASSUME Known, NEW c \in Cores, NEW j \in Jobs, Procrastinate(c)
    PROVE  Life!JobStep(j)
<1> USE NoneAssumption
<1>1. /\ TypeOK /\ running[c] # None
      /\ pc[c] = "power" /\ pc' = [pc EXCEPT ![c] = "barrier"]
      /\ link' = [link EXCEPT ![running[c]] = Ready(c)]
      /\ state' = Preempted(c) /\ running' = [running EXCEPT ![c] = None]
      /\ UNCHANGED <<pool, hand>>
  BY DEF Procrastinate, At, Goto, Known, IInv
<1>2. CASE running[c] = j
  <2>1. Seen(j, "running", c)
    BY <1>2 DEF Known, Sight
  <2>2. link'[j] = Ready(c)
    BY <1>1, <1>2 DEF TypeOK
  <2>3. Seen(j, "waiting", c)'
    BY <2>2 DEF Known, Sight
  <2> QED
    BY <2>1, <2>3, Moving DEF Seen, Turns, Keeps
<1>3. CASE running[c] # j
  <2>1. link'[j] = link[j] /\ state'[j] = state[j]
    BY <1>1, <1>3 DEF TypeOK, Current, Preempted
  <2>2. \A d \in Cores : /\ running'[d] = j <=> running[d] = j
                         /\ pc'[d] = "dispatch" <=> pc[d] = "dispatch"
    BY <1>1, <1>3 DEF TypeOK
  <2> QED
    BY <1>1, <2>1, <2>2, Idling
<1> QED
  BY <1>2, <1>3

\* The timer releases expired jobs of the shared queue.
LEMMA TimerLife ==
    ASSUME Known, NEW j \in Jobs, Timer
    PROVE  Life!JobStep(j)
<1> PICK S \in SUBSET In(Shared) :
         /\ link' = [k \in Jobs |-> IF k \in S THEN Unlinked ELSE link[k]]
         /\ PutRefs(S, None)
  BY DEF Timer
<1>1. /\ \A d \in Cores : pc[d] = "barrier" /\ pc'[d] = "ecc"
      /\ UNCHANGED <<state, running, hand>>
  BY DEF Timer, At, coreVars
<1>2. CASE j \in S
  <2>1. Phase(j) = "waiting"
    BY <1>2 DEF Known, Sight, In
  <2>2. pool'[j] # "live"
    BY <1>2, LastRef DEF Known, In
  <2>3. Phase(j)' = "free"
    BY <2>2 DEF Known, Sight
  <2> QED
    BY <2>1, <2>3, Moving
<1>3. CASE j \notin S
  <2>1. link'[j] = link[j] /\ pool'[j] = pool[j]
    BY <1>3 DEF PutRefs
  <2> QED
    BY <1>1, <2>1, Idling
<1> QED
  BY <1>2, <1>3

\* A future job stays the sender's while its request waits: no step makes a
\* requested job idle.
LEMMA FutureKept ==
    ASSUME IInv, FutureFromOwner, UNCHANGED migq,
           \A e \in Cores : pc'[e] \in JudgeSteps =>
                              pc[e] \in JudgeSteps /\ req'[e] = req[e],
           \A k \in Jobs : Requested(k) /\ state'[k] = "IDLE" => state[k] = "IDLE"
    PROVE  FutureFromOwner'
<1>1. /\ \A d \in Cores : \A i \in Slots(d) :
           migq[d][i].job \in Jobs /\ Requested(migq[d][i].job)
      /\ \A d \in Cores : pc[d] \in JudgeSteps =>
           req[d].job \in Jobs /\ Requested(req[d].job)
  BY DEF IInv, RequestsValid, ValidRequest, Requested, Serving, JudgeSteps
<1>2. \A d \in Cores : Slots(d)' = Slots(d) /\ migq'[d] = migq[d]
  BY DEF Slots
<1> QED
  BY <1>1, <1>2 DEF FutureFromOwner

\* Steps of a core that leave the states of the jobs alone.
LEMMA FutureQuiet ==
    ASSUME IInv, FutureFromOwner, NEW c \in Cores, UNCHANGED <<state, migq>>,
           \/ pc' = pc /\ req' = req
           \/ \E s \in Steps \ JudgeSteps :
                /\ pc' = [pc EXCEPT ![c] = s]
                /\ req' \in {req, [req EXCEPT ![c] = NoRequest]}
           \/ \E s \in JudgeSteps : /\ pc[c] \in JudgeSteps /\ req' = req
                                    /\ pc' = [pc EXCEPT ![c] = s]
    PROVE  FutureFromOwner'
<1>1. \A e \in Cores : pc'[e] \in JudgeSteps => pc[e] \in JudgeSteps /\ req'[e] = req[e]
  BY DEF IInv, TypeOK
<1> QED
  BY <1>1, FutureKept

\* Steps that move jobs on: none becomes idle.
LEMMA FutureMoves ==
    ASSUME IInv, FutureFromOwner, NEW c \in Cores,
           \/ RemoveCompleted(c) \/ ObserveModeChange(c) \/ RaiseMode(c)
           \/ MissDeadline(c) \/ CompleteRunning(c) \/ ArrivePending(c)
           \/ Dispatch(c) \/ Procrastinate(c)
    PROVE  FutureFromOwner'
<1>1. UNCHANGED <<migq, req>>
  BY DEF RemoveCompleted, ObserveModeChange, RaiseMode, HandleModeChange, MissDeadline,
     CompleteRunning, ArrivePending, Dispatch, Procrastinate, migVars
<1>2. \/ pc' = pc
      \/ \E s \in Steps \ JudgeSteps : pc' = [pc EXCEPT ![c] = s]
  BY DEF RemoveCompleted, ObserveModeChange, RaiseMode, HandleModeChange, MissDeadline,
     CompleteRunning, ArrivePending, Dispatch, Procrastinate, Goto, Steps, JudgeSteps
<1>3. \A e \in Cores : pc'[e] \in JudgeSteps => pc[e] \in JudgeSteps
  BY <1>2 DEF IInv, TypeOK
<1>4. ASSUME NEW k \in Jobs, state'[k] = "IDLE" PROVE state[k] = "IDLE"
  <2>t. state \in [Jobs -> States]
    BY DEF IInv, TypeOK
  <2>1. CASE RemoveCompleted(c)
    BY <1>4, <2>1 DEF RemoveCompleted
  <2>2. CASE ObserveModeChange(c) \/ RaiseMode(c)
    BY <1>4, <2>2 DEF ObserveModeChange, RaiseMode, HandleModeChange, Preempted
  <2>3. CASE MissDeadline(c) \/ CompleteRunning(c)
    BY <1>4, <2>t, <2>3 DEF MissDeadline, CompleteRunning
  <2>4. CASE ArrivePending(c)
    BY <1>4, <2>t, <2>4 DEF ArrivePending
  <2>5. CASE Dispatch(c) \/ Procrastinate(c)
    BY <1>4, <2>t, <2>5 DEF Dispatch, Procrastinate, Preempted
  <2> QED
    BY <2>1, <2>2, <2>3, <2>4, <2>5
<1> QED
  BY <1>1, <1>3, <1>4, FutureKept

\* create_job and its undoing touch free structs only, which nobody requests.
LEMMA FutureCreates ==
    ASSUME IInv, FutureFromOwner, NEW c \in Cores, ArriveNew(c) \/ WithdrawFuture(c)
    PROVE  FutureFromOwner'
<1>1. UNCHANGED <<migq, req, pc>>
  BY DEF ArriveNew, WithdrawFuture, migVars
<1>2. ASSUME NEW k \in Jobs, Requested(k), state'[k] = "IDLE" PROVE state[k] = "IDLE"
  <2>1. k \notin Allocatable(c)
    BY <1>2, FreeJob DEF Allocatable, OwnFree, Returned
  <2> QED
    BY <1>2, <2>1 DEF ArriveNew, WithdrawFuture, CreateJob, IInv, TypeOK
<1> QED
  BY <1>1, <1>2, FutureKept

\* A request is sent for a waiting job, or for a future one by its owner.
LEMMA FutureOffers ==
    ASSUME IInv, FutureFromOwner, NEW c \in Cores, Offer(c) \/ OfferFuture(c)
    PROVE  FutureFromOwner'
<1>1. PICK j \in Jobs, d \in Cores \ {c} :
        /\ Claim(d, j, c)
        /\ \/ j \in Offerable(c) /\ state' = state
           \/ CreateJob(j, c, "IDLE")
  BY DEF Offer, OfferFuture, Offerable, In
<1>2. /\ req' = req /\ pc[c] \in {"offer", "future"}
      /\ \E s \in {"publish", "claim"} : pc' = [pc EXCEPT ![c] = s]
  BY DEF Offer, OfferFuture, At, Goto
<1>3. \A e \in Cores : pc'[e] \in JudgeSteps => pc[e] \in JudgeSteps
  BY <1>2 DEF IInv, TypeOK, JudgeSteps
<1>4. state'[j] = "IDLE" => Owner[j] = c
  <2>1. CASE j \in Offerable(c) /\ state' = state
    BY <2>1 DEF Offerable, In, IInv, StateAgrees
  <2>2. CASE CreateJob(j, c, "IDLE")
    BY <2>2 DEF CreateJob, Allocatable, OwnFree, Returned
  <2> QED
    BY <1>1, <2>1, <2>2
<1>5. ASSUME NEW k \in Jobs, Requested(k), state'[k] = "IDLE" PROVE state[k] = "IDLE"
  <2>1. CASE state' = state
    BY <1>5, <2>1
  <2>2. CASE CreateJob(j, c, "IDLE")
    <3>1. k # j
      BY <1>5, <2>2, FreeJob DEF CreateJob, Allocatable, OwnFree, Returned
    <3> QED
      BY <1>5, <2>2, <3>1 DEF CreateJob, IInv, TypeOK
  <2> QED
    BY <1>1, <2>1, <2>2
<1>6. /\ \A e \in Cores : \A i \in Slots(e) :
           migq[e][i].job \in Jobs /\ Requested(migq[e][i].job)
      /\ \A e \in Cores : pc[e] \in JudgeSteps =>
           req[e].job \in Jobs /\ Requested(req[e].job)
  BY DEF IInv, RequestsValid, ValidRequest, Requested, Serving, JudgeSteps
<1>7. /\ \A e \in Cores : \A i \in Slots(e)' :
           \/ i \in Slots(e) /\ migq'[e][i] = migq[e][i]
           \/ migq'[e][i].job = j /\ migq'[e][i].from = c
  <2>1. /\ Len(migq[d]) \in Nat /\ Len(migq'[d]) = Len(migq[d]) + 1
        /\ \A i \in Slots(d) : migq'[d][i] = migq[d][i]
        /\ migq'[d][Len(migq[d]) + 1] = [job |-> j, from |-> c, full |-> FALSE]
        /\ \A e \in Cores \ {d} : migq'[e] = migq[e]
    BY <1>1, ClaimSlots DEF IInv
  <2> QED
    BY <2>1 DEF Slots
<1> QED
  BY <1>2, <1>3, <1>4, <1>5, <1>6, <1>7 DEF FutureFromOwner

\* Filling a slot and taking the head out pass a request on as it is.
LEMMA FuturePasses ==
    ASSUME IInv, FutureFromOwner, NEW c \in Cores,
           PublishOffer(c) \/ PublishFuture(c) \/ Dequeue(c)
    PROVE  FutureFromOwner'
<1>t. migq \in [Cores -> Seq(Request)] /\ req \in [Cores -> Request]
      /\ pc \in [Cores -> Steps] /\ state' = state
  BY DEF IInv, TypeOK, PublishOffer, PublishFuture, Publish, Dequeue, jobVars
<1>1. CASE PublishOffer(c) \/ PublishFuture(c)
  <2> PICK d \in Cores : \E i \in 1 .. Len(migq[d]) :
           migq' = [migq EXCEPT ![d][i].full = TRUE]
    BY <1>1 DEF PublishOffer, PublishFuture, Publish
  <2>1. PICK i \in 1 .. Len(migq[d]) : migq' = [migq EXCEPT ![d][i].full = TRUE]
    OBVIOUS
  <2>2. req' = req /\ \E s \in {"offer", "future"} : pc' = [pc EXCEPT ![c] = s]
    BY <1>1 DEF PublishOffer, PublishFuture, Publish, Goto
  <2>3. \A e \in Cores : pc'[e] \in JudgeSteps => pc[e] \in JudgeSteps
    BY <1>t, <2>2 DEF JudgeSteps
  <2>4. \A e \in Cores : \A k \in Slots(e)' :
           /\ k \in Slots(e)
           /\ migq'[e][k].job = migq[e][k].job /\ migq'[e][k].from = migq[e][k].from
    <3> DEFINE r == [migq[d][i] EXCEPT !.full = TRUE]
    <3>1. migq[d] \in Seq(Request) /\ migq[d][i] \in Request
      BY <1>t
    <3>2. r \in Request /\ r.job = migq[d][i].job /\ r.from = migq[d][i].from
      BY <3>1 DEF Request
    <3>3. migq' = [migq EXCEPT ![d] = [migq[d] EXCEPT ![i] = r]]
      BY <2>1
    <3> HIDE DEF r
    <3>4. /\ [migq[d] EXCEPT ![i] = r] \in Seq(Request)
          /\ Len([migq[d] EXCEPT ![i] = r]) = Len(migq[d])
      BY <3>1, <3>2
    <3> QED
      BY <1>t, <3>1, <3>2, <3>3, <3>4 DEF Slots
  <2> QED
    BY <1>t, <2>2, <2>3, <2>4 DEF FutureFromOwner
<1>2. CASE Dequeue(c)
  <2>1. /\ pc' = [pc EXCEPT ![c] = "lock1"] /\ migq[c] # <<>>
        /\ req' = [req EXCEPT ![c] = Head(migq[c])]
        /\ migq' = [migq EXCEPT ![c] = Tail(migq[c])]
    BY <1>2 DEF Dequeue, HeadFull, Goto
  <2>2. /\ Len(migq[c]) \in Nat \ {0} /\ Head(migq[c]) = migq[c][1]
        /\ \A i \in 1 .. Len(Tail(migq[c])) :
             Tail(migq[c])[i] = migq[c][i + 1] /\ i + 1 \in 1 .. Len(migq[c])
    BY <1>t, <2>1, TailSlots
  <2>3. /\ 1 \in Slots(c) /\ req'[c] = migq[c][1]
        /\ \A i \in Slots(c)' : i + 1 \in Slots(c) /\ migq'[c][i] = migq[c][i + 1]
    BY <1>t, <2>1, <2>2 DEF Slots
  <2>4. \A e \in Cores \ {c} : /\ migq'[e] = migq[e] /\ Slots(e)' = Slots(e)
                               /\ req'[e] = req[e] /\ pc'[e] = pc[e]
    BY <1>t, <2>1 DEF Slots
  <2> SUFFICES ASSUME NEW e \in Cores
               PROVE  /\ \A i \in Slots(e)' : state[migq'[e][i].job] = "IDLE" =>
                           migq'[e][i].from = Owner[migq'[e][i].job]
                      /\ pc'[e] \in JudgeSteps /\ state[req'[e].job] = "IDLE" =>
                           req'[e].from = Owner[req'[e].job]
    BY <1>t DEF FutureFromOwner
  <2>5. CASE e = c
    BY <2>3, <2>5 DEF FutureFromOwner
  <2>6. CASE e # c
    BY <2>4, <2>6 DEF FutureFromOwner
  <2> QED
    BY <2>5, <2>6
<1> QED
  BY <1>1, <1>2

\* Every other step leaves the states and the queues of requests alone.
LEMMA FutureRests ==
    ASSUME IInv, FutureFromOwner, NEW c \in Cores,
           \/ NoMoreCompletions(c) \/ SameMode(c) \/ StayAsleep(c) \/ Awake(c)
           \/ KeepRunning(c) \/ BudgetEvent(c) \/ PutCompleted(c)
           \/ ExpirePending(c) \/ NoMorePending(c) \/ NoMoreArrivals(c)
           \/ ReclaimBegin(c) \/ ReclaimOwn(c) \/ ReclaimShared(c)
           \/ SkipPush(c) \/ DecidePush(c) \/ ShedBegin(c) \/ ShedEnd(c)
           \/ FutureEnd(c) \/ DrainEnd(c) \/ LockFirst(c) \/ LockSecond(c)
           \/ Drop(c) \/ AcceptFuture(c) \/ AcceptReady(c)
           \/ ClearOffered(c) \/ PutMigrated(c)
           \/ Select(c) \/ SelectNone(c) \/ SetDpm(c)
    PROVE  FutureFromOwner'
<1> USE DEF At, Goto, jobVars, migVars, Steps, JudgeSteps
<1>1. CASE \/ NoMoreCompletions(c) \/ SameMode(c) \/ StayAsleep(c) \/ Awake(c)
           \/ KeepRunning(c) \/ BudgetEvent(c) \/ PutCompleted(c)
           \/ ExpirePending(c) \/ NoMorePending(c) \/ NoMoreArrivals(c)
  <2>1. UNCHANGED <<state, migq, req>>
    BY <1>1 DEF NoMoreCompletions, SameMode, StayAsleep, Awake, KeepRunning, BudgetEvent,
       PutCompleted, ExpirePending, NoMorePending, NoMoreArrivals
  <2>2. pc' = pc \/ \E s \in Steps \ JudgeSteps : pc' = [pc EXCEPT ![c] = s]
    BY <1>1 DEF NoMoreCompletions, SameMode, StayAsleep, Awake, KeepRunning, BudgetEvent,
       PutCompleted, ExpirePending, NoMorePending, NoMoreArrivals
  <2> QED
    BY <2>1, <2>2, FutureQuiet
<1>2. CASE \/ ReclaimBegin(c) \/ ReclaimOwn(c) \/ ReclaimShared(c)
           \/ SkipPush(c) \/ DecidePush(c) \/ ShedBegin(c) \/ ShedEnd(c)
           \/ FutureEnd(c) \/ DrainEnd(c)
  <2>1. UNCHANGED <<state, migq, req>>
    BY <1>2 DEF ReclaimBegin, ReclaimOwn, ReclaimShared, SkipPush, DecidePush,
       ShedBegin, ShedEnd, FutureEnd, DrainEnd
  <2>2. pc' = pc \/ \E s \in Steps \ JudgeSteps : pc' = [pc EXCEPT ![c] = s]
    BY <1>2 DEF ReclaimBegin, ReclaimOwn, ReclaimShared, SkipPush, DecidePush,
       ShedBegin, ShedEnd, FutureEnd, DrainEnd
  <2> QED
    BY <2>1, <2>2, FutureQuiet
<1>3. CASE LockFirst(c) \/ LockSecond(c)
  BY <1>3, FutureQuiet DEF LockFirst, LockSecond
<1>4. CASE \/ Drop(c) \/ AcceptFuture(c) \/ AcceptReady(c)
           \/ ClearOffered(c) \/ PutMigrated(c)
           \/ Select(c) \/ SelectNone(c) \/ SetDpm(c)
  <2>1. UNCHANGED <<state, migq>>
    BY <1>4 DEF Drop, AcceptFuture, AcceptReady, ClearOffered, PutMigrated, Select,
       SelectNone, SetDpm
  <2>2. \E s \in Steps \ JudgeSteps : /\ pc' = [pc EXCEPT ![c] = s]
                                      /\ req' \in {req, [req EXCEPT ![c] = NoRequest]}
    BY <1>4 DEF Drop, AcceptFuture, AcceptReady, ClearOffered, PutMigrated, Select,
       SelectNone, SetDpm
  <2> QED
    BY <2>1, <2>2, FutureQuiet
<1> QED
  BY <1>1, <1>2, <1>3, <1>4

LEMMA FutureNext == IInv /\ FutureFromOwner /\ [Next]_vars => FutureFromOwner'
<1> SUFFICES ASSUME IInv, FutureFromOwner, [Next]_vars PROVE FutureFromOwner'
  OBVIOUS
<1>1. CASE Timer
  <2>1. /\ UNCHANGED <<state, migq, req>>
        /\ \A e \in Cores : pc'[e] \notin JudgeSteps
    BY <1>1 DEF Timer, migVars, JudgeSteps
  <2> QED
    BY <2>1, FutureKept
<1>2. ASSUME NEW c \in Cores, Core(c) PROVE FutureFromOwner'
  BY <1>2, FutureMoves, FutureCreates, FutureOffers, FuturePasses, FutureRests DEF Core
<1>3. CASE UNCHANGED vars
  BY <1>3, FutureKept DEF vars
<1> QED
  BY <1>1, <1>2, <1>3 DEF Next

\* Every step of the scheduler is a step of each job's life.
LEMMA StepMaps ==
    ASSUME Known, FutureFromOwner, [Next]_vars
    PROVE  Life!LifeNext
<1>1. ASSUME NEW j \in Jobs PROVE Life!JobStep(j)
  <2>1. CASE Timer
    BY <2>1, TimerLife
  <2>2. ASSUME NEW c \in Cores, Core(c) PROVE Life!JobStep(j)
    BY <2>2, QuietLife, RemoveCompletedLife, ModeChangeLife, EndsLife, PutCompletedLife,
       PendingLife, CreateLife, WithdrawLife, ReclaimLife, DropLife, AcceptLife,
       PutMigratedLife, DispatchLife, ProcrastinateLife DEF Core
  <2>3. CASE UNCHANGED vars
    BY <2>3, Idling DEF vars
  <2> QED
    BY <2>1, <2>2, <2>3 DEF Next
<1>2. Life!OnePerCore'
  <2> SUFFICES ASSUME NEW j \in Jobs, NEW k \in Jobs,
                      Phase(j)' = "running", Phase(k)' = "running",
                      CoreOf(j)' = CoreOf(k)'
               PROVE  j = k
    BY DEF Life!OnePerCore
  <2>0. ASSUME NEW i \in Jobs, Phase(i)' = "running"
        PROVE  \E c \in Cores : running'[c] = i
    <3>1. RunningOn(i)' # {}
      BY <2>0, View DEF PhaseFrom
    <3> QED
      BY <3>1 DEF RunningOn
  <2>1. PICK c \in Cores, d \in Cores : running'[c] = j /\ running'[d] = k
    BY <2>0
  <2> QED
    BY <2>1 DEF Known, Sight, Seen
<1> QED
  BY <1>1, <1>2 DEF Life!LifeNext

LEMMA InitMaps == Init => Life!LifeInit /\ FutureFromOwner
<1> SUFFICES ASSUME Init PROVE Life!LifeInit /\ FutureFromOwner
  OBVIOUS
<1>1. \A j \in Jobs : Phase(j) = "free" /\ CoreOf(j) = None
  BY View DEF Init, PhaseFrom, CoreFrom
<1>2. FutureFromOwner
  BY DEF Init, FutureFromOwner, Slots, JudgeSteps
<1> QED
  BY <1>1, <1>2 DEF Life!LifeInit

\* A delegated job that nobody has taken yet belongs to the core that offers
\* it, so whoever accepts it is another core than the owner.
THEOREM OwnersOffer == Spec => []FutureFromOwner
<1>1. Init => FutureFromOwner
  BY InitMaps
<1> QED
  BY <1>1, FutureNext, Invariance, PTL DEF Spec

\* The scheduler of a processor implements JobLifecycle.
THEOREM Refinement == Spec => ImplementsLifecycle
<1>1. Init => Life!LifeInit
  BY InitMaps
<1>2. IInv => Sight
  BY Shown
<1>3. IInv /\ IInv' /\ Sight /\ Sight' /\ FutureFromOwner /\ [Next]_vars
        => [Life!LifeNext]_(Life!lifeVars)
  BY StepMaps DEF Known
<1> QED
  BY <1>1, <1>2, <1>3, Invariance, OwnersOffer, PTL
     DEF Spec, ImplementsLifecycle, Life!LifeSpec

(***************************************************************************)
(* What follows for jobs, by way of JobLifecycle                           *)
(***************************************************************************)
\* A live job that is ready is in a list, running or in a thread's hands.
NeverForgotten == \A j \in Jobs : Phase(j) # "lost"

\* A job that runs, and goes on running, does so where it is.
StaysWhereItRuns ==
    [][\A j \in Jobs : Phase(j) = "running" /\ Phase(j)' = "running"
                            => CoreOf(j)' = CoreOf(j)]_vars

\* A job that a core has accepted ahead of its arrival arrives on that core.
ArrivesWhereAccepted ==
    [][\A j \in Jobs : Phase(j) = "pending" /\ Phase(j)' = "waiting"
                            => CoreOf(j)' = CoreOf(j)]_vars

LEMMA StepsOfLife ==
    ASSUME Life!LifeNext, NEW j \in Jobs
    PROVE  /\ Phase(j)' = "lost" => Phase(j) = "lost"
           /\ Phase(j) = "running" /\ Phase(j)' = "running" => CoreOf(j)' = CoreOf(j)
           /\ Phase(j) = "pending" /\ Phase(j)' = "waiting" => CoreOf(j)' = CoreOf(j)
<1>1. Life!JobStep(j)
  BY DEF Life!LifeNext
<1> QED
  BY <1>1 DEF Life!JobStep, Life!Arrives, Life!Foreseen, Life!Accepted, Life!Refused,
     Life!Released, Life!Expires, Life!Moves, Life!Starts, Life!Preempts, Life!Leaves,
     Life!Idles, Life!From, Life!Stays

\* However jobs are offered, migrated, withdrawn, shed or procrastinated, no
\* ready job ends up outside of every list while its job_struct is in use.
THEOREM NoneForgotten == Spec => []NeverForgotten
<1>1. Init => NeverForgotten
  BY View DEF Init, PhaseFrom, NeverForgotten
<1>2. IInv => Sight
  BY Shown
<1>3. IInv /\ IInv' /\ Sight /\ Sight' /\ FutureFromOwner /\ NeverForgotten /\ [Next]_vars
        => NeverForgotten'
  BY StepMaps, StepsOfLife DEF Known, NeverForgotten
<1> QED
  BY <1>1, <1>2, <1>3, Invariance, OwnersOffer, PTL DEF Spec

\* Migration never touches a running job, and a job accepted in advance is
\* released by the core that accepted it.
THEOREM KeepsItsCore == Spec => StaysWhereItRuns /\ ArrivesWhereAccepted
<1>1. IInv => Sight
  BY Shown
<1>2. IInv /\ IInv' /\ Sight /\ Sight' /\ FutureFromOwner /\ [Next]_vars
        => [\A j \in Jobs : Phase(j) = "running" /\ Phase(j)' = "running"
                                => CoreOf(j)' = CoreOf(j)]_vars
  BY StepMaps, StepsOfLife DEF Known
<1>3. IInv /\ IInv' /\ Sight /\ Sight' /\ FutureFromOwner /\ [Next]_vars
        => [\A j \in Jobs : Phase(j) = "pending" /\ Phase(j)' = "waiting"
                                => CoreOf(j)' = CoreOf(j)]_vars
  BY StepMaps, StepsOfLife DEF Known
<1> QED
  BY <1>1, <1>2, <1>3, Invariance, OwnersOffer, PTL
     DEF Spec, StaysWhereItRuns, ArrivesWhereAccepted

-----------------------------------------------------------------------------
(***************************************************************************)
(* No deadlock inside a tick.  Whoever waits for a lock waits for a thread *)
(* that can go on, or for one that waits for a lock of a higher core id:   *)
(* among finitely many cores that chain ends.                              *)
(***************************************************************************)
\* The thread that claims a ticket has one to fill, and nobody else loses one.
LEMMA ClaimKeepsSlots ==
    ASSUME IInv, ClaimHasSlot, NEW c \in Cores, NEW d \in Cores \ {c}, NEW j \in Jobs,
           Claim(d, j, c), \E s \in {"publish", "claim"} : pc' = [pc EXCEPT ![c] = s]
    PROVE  ClaimHasSlot'
<1>t. TypeOK
  BY DEF IInv
<1>1. /\ Len(migq[d]) \in Nat /\ Len(migq'[d]) = Len(migq[d]) + 1
      /\ \A i \in Slots(d) : migq'[d][i] = migq[d][i]
      /\ migq'[d][Len(migq[d]) + 1] = [job |-> j, from |-> c, full |-> FALSE]
      /\ \A e \in Cores \ {d} : migq'[e] = migq[e]
  BY <1>t, ClaimSlots
<1> PICK n \in Nat : n = Len(migq[d]) + 1
  BY <1>1
<1>2. n \in Slots(d)' /\ OwnSlot(c, d, n)'
  BY <1>1 DEF OwnSlot, Slots
<1>3. \A e \in Cores : \A i \in Slots(e) : i \in Slots(e)' /\ migq'[e][i] = migq[e][i]
  BY <1>1 DEF Slots
<1>4. \A b \in Cores \ {c} : ClaimsSlot(b)' => ClaimsSlot(b)
  BY <1>t DEF ClaimsSlot, TypeOK
<1>5. \A b \in Cores \ {c} : ClaimsSlot(b)' =>
         \E e \in Cores : \E i \in Slots(e)' : OwnSlot(b, e, i)'
  BY <1>3, <1>4 DEF ClaimHasSlot, OwnSlot
<1>6. \E e \in Cores : \E i \in Slots(e)' : OwnSlot(c, e, i)'
  BY <1>2
<1> QED
  BY <1>5, <1>6 DEF ClaimHasSlot

\* Filling a slot takes it from the thread that fills it, and from nobody else.
LEMMA PublishKeepsSlots ==
    ASSUME IInv, ClaimHasSlot, NEW c \in Cores, NEW from, NEW next \in {"offer", "future"},
           Publish(c, from, next)
    PROVE  ClaimHasSlot'
<1>t. TypeOK
  BY DEF IInv
<1> PICK d \in Cores : \E i \in 1..Len(migq[d]) :
       /\ migq[d][i].from = c /\ ~migq[d][i].full
       /\ migq' = [migq EXCEPT ![d][i].full = TRUE]
  BY DEF Publish
<1> PICK i \in 1..Len(migq[d]) :
       /\ migq[d][i].from = c /\ ~migq[d][i].full
       /\ migq' = [migq EXCEPT ![d][i].full = TRUE]
  OBVIOUS
<1>1. migq[d] \in Seq(Request) /\ migq \in [Cores -> Seq(Request)]
  BY <1>t DEF TypeOK
<1>2. migq'[d] = [migq[d] EXCEPT ![i] = [migq[d][i] EXCEPT !.full = TRUE]]
  BY <1>1
<1>3. Len(migq'[d]) = Len(migq[d]) /\ \A k \in 1..Len(migq[d]) : k # i => migq'[d][k] = migq[d][k]
  BY <1>1, <1>2
<1>4. \A e \in Cores \ {d} : migq'[e] = migq[e]
  BY <1>1
<1>5. \A b \in Cores \ {c} : \A e \in Cores : \A k \in Slots(e) :
         OwnSlot(b, e, k) => k \in Slots(e)' /\ OwnSlot(b, e, k)'
  <2> SUFFICES ASSUME NEW b \in Cores \ {c}, NEW e \in Cores, NEW k \in Slots(e), OwnSlot(b, e, k)
               PROVE  k \in Slots(e)' /\ OwnSlot(b, e, k)'
    OBVIOUS
  <2>1. CASE e = d
    BY <2>1, <1>3 DEF OwnSlot, Slots
  <2>2. CASE e # d
    BY <2>2, <1>4 DEF OwnSlot, Slots
  <2> QED
    BY <2>1, <2>2
<1>6. \A b \in Cores : ClaimsSlot(b)' => b # c /\ ClaimsSlot(b)
  BY <1>t DEF Publish, Goto, ClaimsSlot, TypeOK
<1> QED
  BY <1>5, <1>6 DEF ClaimHasSlot

\* The destination takes out only slots that are full.
LEMMA DequeueKeepsSlots ==
    ASSUME IInv, ClaimHasSlot, NEW c \in Cores, Dequeue(c)
    PROVE  ClaimHasSlot'
<1>t. TypeOK
  BY DEF IInv
<1>a. /\ pc' = [pc EXCEPT ![c] = "lock1"]
      /\ migq[c] # <<>> /\ Head(migq[c]).full
      /\ migq' = [migq EXCEPT ![c] = Tail(migq[c])]
  BY DEF Dequeue, HeadFull, Goto
<1>1. /\ Len(migq[c]) \in Nat \ {0} /\ Len(Tail(migq[c])) = Len(migq[c]) - 1
      /\ Head(migq[c]) = migq[c][1]
      /\ \A i \in 1..Len(Tail(migq[c])) : Tail(migq[c])[i] = migq[c][i + 1]
  BY <1>t, <1>a, TailSlots DEF TypeOK
<1>2. migq'[c] = Tail(migq[c]) /\ \A e \in Cores \ {c} : migq'[e] = migq[e]
  BY <1>t, <1>a DEF TypeOK
<1>3. \A i \in Slots(c) : ~migq[c][i].full =>
         i - 1 \in Slots(c)' /\ migq'[c][i - 1] = migq[c][i]
  <2> SUFFICES ASSUME NEW i \in 1..Len(migq[c]), ~migq[c][i].full
               PROVE  i - 1 \in 1..Len(migq'[c]) /\ migq'[c][i - 1] = migq[c][i]
    BY DEF Slots
  <2>1. i # 1
    BY <1>a, <1>1
  <2>2. i - 1 \in 1..Len(Tail(migq[c])) /\ (i - 1) + 1 = i
    BY <1>1, <2>1
  <2> QED
    BY <1>1, <1>2, <2>2
<1>4. \A b, e \in Cores : \A i \in Slots(e) : OwnSlot(b, e, i) =>
         \E k \in Slots(e)' : OwnSlot(b, e, k)'
  <2> SUFFICES ASSUME NEW b \in Cores, NEW e \in Cores, NEW i \in Slots(e), OwnSlot(b, e, i)
               PROVE  \E k \in Slots(e)' : OwnSlot(b, e, k)'
    OBVIOUS
  <2>1. CASE e = c
    BY <2>1, <1>3 DEF OwnSlot
  <2>2. CASE e # c
    BY <2>2, <1>2 DEF OwnSlot, Slots
  <2> QED
    BY <2>1, <2>2
<1>5. \A b \in Cores : ClaimsSlot(b)' => ClaimsSlot(b)
  BY <1>t, <1>a DEF ClaimsSlot, TypeOK
<1> QED
  BY <1>4, <1>5 DEF ClaimHasSlot

\* A step that touches no queue and claims no ticket.
LEMMA QueuesKeepSlots ==
    ASSUME ClaimHasSlot, UNCHANGED migq,
           \A c \in Cores : ClaimsSlot(c)' => ClaimsSlot(c)
    PROVE  ClaimHasSlot'
BY DEF ClaimHasSlot, OwnSlot, Slots

\* Every step of every thread keeps ClaimHasSlot.
LEMMA SlotsKept == IInv /\ ClaimHasSlot /\ [Next]_vars => ClaimHasSlot'
<1> SUFFICES ASSUME IInv, ClaimHasSlot, [Next]_vars PROVE ClaimHasSlot'
  OBVIOUS
<1>t. TypeOK
  BY DEF IInv
<1>1. CASE Timer
  <2>1. UNCHANGED migq /\ \A c \in Cores : ~ClaimsSlot(c)'
    BY <1>1, <1>t DEF Timer, migVars, ClaimsSlot, TypeOK
  <2> QED
    BY <2>1, QueuesKeepSlots
<1>2. ASSUME NEW c \in Cores, Core(c) PROVE ClaimHasSlot'
  <2>1. CASE Offer(c)
    <3> PICK j \in Offerable(c), d \in Cores \ {c} : Claim(d, j, c)
      BY <2>1 DEF Offer
    <3> QED
      BY <2>1, ClaimKeepsSlots DEF Offer, Offerable, In, Goto
  <2>2. CASE OfferFuture(c)
    <3> PICK j \in Jobs, d \in Cores \ {c} : Claim(d, j, c)
      BY <2>2 DEF OfferFuture
    <3> QED
      BY <2>2, ClaimKeepsSlots DEF OfferFuture, Goto
  <2>3. CASE PublishOffer(c) \/ PublishFuture(c)
    BY <2>3, PublishKeepsSlots DEF PublishOffer, PublishFuture
  <2>4. CASE Dequeue(c)
    BY <2>4, DequeueKeepsSlots
  <2>5. CASE \/ RemoveCompleted(c) \/ NoMoreCompletions(c)
             \/ ObserveModeChange(c) \/ SameMode(c)
             \/ StayAsleep(c) \/ Awake(c)
             \/ KeepRunning(c) \/ MissDeadline(c) \/ BudgetEvent(c)
             \/ CompleteRunning(c) \/ PutCompleted(c) \/ RaiseMode(c)
             \/ ArrivePending(c) \/ ExpirePending(c) \/ NoMorePending(c)
             \/ ArriveNew(c) \/ NoMoreArrivals(c)
             \/ ReclaimBegin(c) \/ ReclaimOwn(c) \/ ReclaimShared(c)
             \/ SkipPush(c) \/ DecidePush(c) \/ ShedBegin(c) \/ ShedEnd(c)
    <3>1. UNCHANGED migq
      BY <2>5 DEF RemoveCompleted, NoMoreCompletions, ObserveModeChange, HandleModeChange,
         SameMode, StayAsleep, Awake, KeepRunning, MissDeadline, BudgetEvent,
         CompleteRunning, PutCompleted, RaiseMode, ArrivePending, ExpirePending,
         NoMorePending, ArriveNew, NoMoreArrivals, ReclaimBegin, ReclaimOwn,
         ReclaimShared, SkipPush, DecidePush, ShedBegin, ShedEnd, migVars
    <3>2. \/ pc' = pc
          \/ \E s \in Steps \ {"publish", "claim"} : pc' = [pc EXCEPT ![c] = s]
      BY <2>5 DEF RemoveCompleted, NoMoreCompletions, ObserveModeChange, HandleModeChange,
         SameMode, StayAsleep, Awake, KeepRunning, MissDeadline, BudgetEvent,
         CompleteRunning, PutCompleted, RaiseMode, ArrivePending, ExpirePending,
         NoMorePending, ArriveNew, NoMoreArrivals, ReclaimBegin, ReclaimOwn,
         ReclaimShared, SkipPush, DecidePush, ShedBegin, ShedEnd, Goto, Steps
    <3>3. \A b \in Cores : ClaimsSlot(b)' => ClaimsSlot(b)
      BY <3>2, <1>t DEF ClaimsSlot, TypeOK
    <3> QED
      BY <3>1, <3>3, QueuesKeepSlots
  <2>6. CASE \/ WithdrawFuture(c) \/ FutureEnd(c)
             \/ DrainEnd(c) \/ LockFirst(c) \/ LockSecond(c)
             \/ Drop(c) \/ AcceptFuture(c) \/ AcceptReady(c)
             \/ ClearOffered(c) \/ PutMigrated(c)
             \/ Select(c) \/ SelectNone(c) \/ Dispatch(c)
             \/ Procrastinate(c) \/ SetDpm(c)
    <3>1. UNCHANGED migq
      BY <2>6 DEF WithdrawFuture, FutureEnd, DrainEnd, LockFirst, LockSecond, Drop,
         AcceptFuture, AcceptReady, ClearOffered, PutMigrated, Select, SelectNone,
         Dispatch, Procrastinate, SetDpm, migVars
    <3>2. \/ pc' = pc
          \/ \E s \in Steps \ {"publish", "claim"} : pc' = [pc EXCEPT ![c] = s]
      BY <2>6 DEF WithdrawFuture, FutureEnd, DrainEnd, LockFirst, LockSecond, Drop,
         AcceptFuture, AcceptReady, ClearOffered, PutMigrated, Select, SelectNone,
         Dispatch, Procrastinate, SetDpm, Goto, Steps
    <3>3. \A b \in Cores : ClaimsSlot(b)' => ClaimsSlot(b)
      BY <3>2, <1>t DEF ClaimsSlot, TypeOK
    <3> QED
      BY <3>1, <3>3, QueuesKeepSlots
  <2> QED
    BY <1>2, <2>1, <2>2, <2>3, <2>4, <2>5, <2>6 DEF Core
<1>3. CASE UNCHANGED vars
  BY <1>3 DEF vars, ClaimHasSlot, ClaimsSlot, OwnSlot, Slots
<1> QED
  BY <1>1, <1>2, <1>3 DEF Next

\* Whoever has claimed a ticket finds its slot in the queue.
THEOREM ClaimsHaveSlots == Spec => []ClaimHasSlot
<1>1. Init => ClaimHasSlot
  BY DEF Init, ClaimHasSlot, ClaimsSlot
<1> QED
  BY <1>1, Invariance, SlotsKept, PTL DEF Spec

\* A set of core ids each of which has a higher one in the set is empty.
LEMMA NoEndlessClimb ==
    ASSUME IsFiniteSet(Cores), NEW H \in SUBSET Cores,
           \A n \in H : \E m \in H : n < m
    PROVE  H = {}
<1> SUFFICES ASSUME H # {} PROVE FALSE
  OBVIOUS
<1> DEFINE Above(n) == {m \in H : n < m}
           T == {Above(n) : n \in H}
<1>1. IsWellFoundedOn(StrictSubsetOrdering(Cores), FiniteSubsetsOf(Cores))
  BY FS_StrictSubsetOrderingWellFounded
<1>2. T \subseteq FiniteSubsetsOf(Cores)
  BY FS_Subset DEF FiniteSubsetsOf
<1>3. T # {}
  OBVIOUS
<1>4. PICK U \in T : \A V \in T : ~(<<V, U>> \in StrictSubsetOrdering(Cores))
  <2> HIDE DEF T
  <2> QED
    BY <1>1, <1>2, <1>3, WFMin
<1>5. PICK n \in H : U = Above(n)
  OBVIOUS
<1>6. PICK m \in H : n < m
  OBVIOUS
<1>7. Above(m) \subseteq U /\ m \in U /\ m \notin Above(m)
  <2>1. m \in Nat /\ n \in Nat /\ \A k \in H : k \in Nat
    BY CoresAssumption
  <2>2. \A k \in H : m < k => n < k
    BY <1>6, <2>1
  <2>3. ~(m < m)
    BY <2>1
  <2> QED
    BY <1>5, <1>6, <2>2, <2>3
<1>8. <<Above(m), U>> \in StrictSubsetOrdering(Cores)
  BY <1>5, <1>7 DEF StrictSubsetOrdering
<1> QED
  BY <1>4, <1>8

\* The cores never all wait inside a tick, whatever their number: the lock
\* that a standing core waits for belongs to a core that can go on or that waits
\* for a lock of a higher core id.
THEOREM NeverAllStuck == ASSUME IsFiniteSet(Cores) PROVE Spec => []NobodyStuck
<1>1. ASSUME IInv, ClaimHasSlot PROVE NobodyStuck
  <2> SUFFICES ASSUME \A d \in Cores : Len(migq[d]) <= QCap,
                      \A c \in Cores : Stands(c),
                      NEW b \in Cores, pc[b] # "barrier"
               PROVE  FALSE
    BY DEF NobodyStuck, At
  <2>t. TypeOK /\ LockExact
    BY <1>1 DEF IInv
  <2> DEFINE H == {n \in Cores : ~Free(n)}
  <2>1. \A c \in Cores : ~ClaimsSlot(c) \/ \E n \in Wanted(c) : ~Free(n)
    <3> SUFFICES ASSUME NEW c \in Cores, ClaimsSlot(c) PROVE \E n \in Wanted(c) : ~Free(n)
      OBVIOUS
    <3>1. PICK d \in Cores : \E i \in Slots(d) : OwnSlot(c, d, i)
      BY <1>1 DEF ClaimHasSlot
    <3>2. Len(migq[d]) \in Nat /\ Len(migq[d]) <= QCap
      BY <2>t DEF TypeOK
    <3>3. \A i \in Slots(d) : i <= QCap
      BY <3>2, QCapAssumption DEF Slots
    <3> QED
      BY <3>1, <3>3 DEF Stands, ClaimsSlot
  <2>2. \A c \in Cores : pc[c] = "barrier" \/ \E n \in Wanted(c) : ~Free(n)
    BY <2>1 DEF Stands
  <2>3. \A c \in Cores : Wanted(c) \subseteq Cores
    <3> SUFFICES ASSUME NEW c \in Cores PROVE Wanted(c) \subseteq Cores
      OBVIOUS
    <3>1. pc[c] \in {"lock1", "lock2"} => req[c].from \in Cores
      BY <1>1 DEF IInv, RequestsValid, Serving, ValidRequest
    <3> QED
      BY <3>1 DEF Wanted, First, Second
  <2>4. \E n \in Cores : n \in H
    BY <2>2, <2>3
  <2>5. \A n \in H : \E m \in H : n < m
    <3> SUFFICES ASSUME NEW n \in Cores, ~Free(n) PROVE \E m \in H : n < m
      OBVIOUS
    <3> DEFINE d == lock[n]
    <3>1. d \in Cores /\ lock[n] = d
      BY <2>t DEF TypeOK, Free
    <3> HIDE DEF d
    <3>2. \/ n = d /\ pc[d] \in {"own", "offer", "publish"}
          \/ pc[d] = "lock2" /\ n = First(d)
          \/ pc[d] = "judge" /\ n \in Pair(d)
      BY <2>t, <3>1 DEF LockExact
    <3>3. pc[d] \notin {"own", "offer", "publish", "judge"}
      BY <2>2, <3>1 DEF Wanted
    <3>4. pc[d] = "lock2" /\ n = First(d) /\ Wanted(d) = {Second(d)}
      BY <3>2, <3>3 DEF Wanted
    <3>5. req[d].from \in Cores \ {d}
      BY <1>1, <3>1, <3>4 DEF IInv, RequestsValid, Serving, ValidRequest
    <3>6. n < Second(d)
      BY <3>1, <3>4, <3>5, CoresAssumption DEF First, Second
    <3> QED
      BY <2>2, <2>3, <3>1, <3>4, <3>6
  <2> QED
    BY <2>4, <2>5, NoEndlessClimb
<1> QED
  BY <1>1, Invariance, ClaimsHaveSlots, PTL
=============================================================================
