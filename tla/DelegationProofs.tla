-------------------------- MODULE DelegationProofs --------------------------
(***************************************************************************)
(* Delegation: no job is lost between the core it belongs to and the one   *)
(* that may have taken it over, whoever sleeps and for however long.       *)
(*                                                                         *)
(* The invariant follows a job from its offer to its arrival: a record at  *)
(* home, then a request, or an ack and a place among the pending jobs of   *)
(* the other core, and at last the word owned_by_remote in the record.     *)
(* What makes it work is that neither core sleeps past an arrival that is  *)
(* its to see: the home core counts every arrival that no record says is   *)
(* owned, so it is awake to read the ack at the latest when the job        *)
(* arrives, just before the record is freed.                               *)
(***************************************************************************)
EXTENDS Delegation, FiniteSetTheorems, TLAPS

InTick == {"acks", "push", "offer", "serve", "power"}

Awake == \A c \in Cores : pc[c] \in InTick => wake[c] <= now

\* The first arrival that a core has not seen yet is not before this.
Unseen(c) == IF At(c, "begin") THEN now ELSE now + 1

\* A record is of the next arrival of its task, or of the past.
Records ==
    \A j \in recs :
        /\ Arrival(j) \in Nat /\ Arrives(j[1], Arrival(j))
        /\ \A t \in Nat : Unseen(HomeOf(j)) <= t /\ t < Arrival(j) => ~Arrives(j[1], t)

Requests ==
    \A d \in Cores : \A j \in reqs[d] :
        /\ Arrival(j) \in Nat /\ Arrives(j[1], Arrival(j))
        /\ now < Arrival(j) => j \in recs
        /\ j \notin owned /\ j \notin acks

\* An ack is read before its record is freed.
Acks ==
    \A j \in acks :
        /\ j \in recs /\ j \notin owned
        /\ now <= Arrival(j)
        /\ now = Arrival(j) => At(HomeOf(j), "begin") \/ At(HomeOf(j), "acks")

Pending ==
    \A d \in Cores : \A j \in pend[d] :
        /\ now <= Arrival(j) /\ wake[d] <= Arrival(j)
        /\ ~At(d, "begin") => now < Arrival(j)

\* No core sleeps past an arrival of its own.
WakesForOwn ==
    \A i \in Entries, t \in Nat :
        /\ Arrives(i, t) /\ t < Forever /\ <<i, t>> \notin owned
        /\ Unseen(Home[i]) <= t
        => wake[Home[i]] <= t

\* What was accepted is released by the core that has accepted it.
Accepted ==
    \A j \in owned \cup acks : now <= Arrival(j) =>
        \/ \E d \in Cores : j \in pend[d]
        \/ now = Arrival(j) /\ released[j[1]] >= 1

\* The job of an entry, in the tick of its arrival.
Underway ==
    \A i \in Entries : Arrives(i, now) =>
        \/ released[i] >= 1
        \/ At(Home[i], "begin")
        \/ \E d \in Cores : <<i, now>> \in pend[d]

Pool == IsFiniteSet(recs) /\ \A c \in Cores : Cardinality(Of(recs, c)) <= PoolSize

IInv ==
    /\ TypeOK /\ Awake /\ Records /\ Requests /\ Acks /\ Pending /\ WakesForOwn
    /\ Accepted /\ Underway /\ Pool /\ SenderLearns /\ OneTaker

Stages == {"begin", "acks", "push", "offer", "serve", "power", "barrier"}

-----------------------------------------------------------------------------
(***************************************************************************)
(* Arrivals                                                                *)
(***************************************************************************)
LEMMA Quotient ==
    ASSUME NEW t \in Nat, NEW P \in Nat \ {0}
    PROVE  (t \div P) * P <= t /\ t \div P \in Nat
  BY SMTT(20)

LEMMA Remainder ==
    ASSUME NEW q \in Nat, NEW P \in Nat \ {0}, NEW r \in 0 .. (P - 1)
    PROVE  (q * P + r) % P = r
  BY SMTT(20)

\* The next arrival of a task is one, and there is none before it.
LEMMA NextOne ==
    ASSUME NEW i \in Entries, NEW u \in Nat
    PROVE  /\ NextArrival(i, u) \in Nat /\ u < NextArrival(i, u)
           /\ Arrives(i, NextArrival(i, u))
           /\ \A t \in Nat : u < t /\ t < NextArrival(i, u) => ~Arrives(i, t)
  <1> DEFINE P == Period[i]
  <1>1. P \in Nat \ {0}
    BY PeriodAssumption
  <1> HIDE DEF P
  <1>2. (u \div P + 1) * P \in Nat /\ u < (u \div P + 1) * P
    BY <1>1, SMTT(20)
  <1>3. ((u \div P + 1) * P) % P = 0
    BY <1>1, SMTT(20)
  <1>4. ASSUME NEW t \in Nat, u < t, t < (u \div P + 1) * P
        PROVE  t % P # 0
    <2>1. PICK q \in Nat : q = u \div P
      BY <1>1, Quotient
    <2>2. q * P <= u /\ t < (q + 1) * P
      BY <1>1, <1>4, <2>1, Quotient
    <2>3. PICK r \in Int : r = t - q * P
      BY <1>1
    <2>4. (q + 1) * P = q * P + P
      BY <1>1
    <2>5. r \in 0 .. (P - 1) /\ r # 0
      BY <1>1, <1>4, <2>2, <2>3, <2>4
    <2>6. t = q * P + r
      BY <1>1, <2>3
    <2>7. QED  BY <1>1, <2>5, <2>6, Remainder
  <1>5. QED  BY <1>2, <1>3, <1>4 DEF P, NextArrival, Arrives

LEMMA Times01 == \A b \in BOOLEAN : Times(b) \in Nat /\ (b => Times(b) = 1)
  BY DEF Times

\* The types, one by one.
LEMMA Typed ==
    ASSUME TypeOK
    PROVE  /\ now \in Nat /\ now <= LastTick /\ now < Forever
           /\ Forever \in Nat /\ LastTick \in Nat
           /\ pc \in [Cores -> Stages] /\ wake \in [Cores -> Nat]
           /\ eligible \in [Cores -> Nat] /\ released \in [Entries -> Nat]
           /\ recs \in SUBSET Jobs /\ owned \subseteq recs /\ acks \in SUBSET Jobs
           /\ reqs \in [Cores -> SUBSET Jobs] /\ pend \in [Cores -> SUBSET Jobs]
           /\ \A j \in Jobs : /\ j = <<j[1], Arrival(j)>> /\ j[1] \in Entries
                              /\ Arrival(j) \in Int /\ HomeOf(j) \in Cores
           /\ \A i \in Entries : Home[i] \in Cores
  BY HomeAssumption, TimeAssumption DEF TypeOK, Stages, Jobs, Arrival, HomeOf

-----------------------------------------------------------------------------
(***************************************************************************)
(* The actions                                                             *)
(***************************************************************************)
\* The core goes on, after the part of the tick that the others care about.
LEMMA MovesOn ==
    ASSUME IInv, NEW c \in Cores, pc[c] \in {"push", "offer", "serve", "power"},
           NEW s \in {"offer", "serve", "power", "barrier"}, Goto(c, s),
           UNCHANGED <<now, wake, eligible, recs, owned, reqs, acks, pend, released, unread>>
    PROVE  IInv'
  <1>1. TypeOK /\ pc \in [Cores -> Stages] /\ now \in Nat
    BY Typed DEF IInv
  <1>2. /\ pc' \in [Cores -> Stages] /\ pc'[c] = s
        /\ \A d \in Cores : d # c => pc'[d] = pc[d]
    BY <1>1 DEF Goto, Stages
  <1>3. \A d \in Cores : /\ pc'[d] = "begin" <=> pc[d] = "begin"
                         /\ pc'[d] = "acks" <=> pc[d] = "acks"
    BY <1>2
  <1>4. TypeOK'
    BY <1>1, <1>2 DEF TypeOK, Stages
  <1>5. Awake'
    BY <1>2 DEF IInv, Awake, InTick
  <1>6. Records' /\ Acks'
    <2>1. \A j \in recs : HomeOf(j) \in Cores
      BY <1>1, Typed
    <2>2. acks \subseteq recs
      BY DEF IInv, Acks
    <2>3. Records'
      BY <1>1, <1>3, <2>1 DEF IInv, Records, Unseen, At, Arrives, Arrival, HomeOf
    <2>4. Acks'
      BY <1>1, <1>3, <2>1, <2>2 DEF IInv, Acks, At, Arrival, HomeOf
    <2>5. QED  BY <2>3, <2>4
  <1>7. Requests'
    BY DEF IInv, Requests
  <1>8. Pending'
    BY <1>3 DEF IInv, Pending, At
  <1>9. WakesForOwn'
    BY <1>1, <1>3, Typed DEF IInv, WakesForOwn, Unseen, At
  <1>10. Accepted' /\ Pool'
    BY DEF IInv, Accepted, Pool, Of
  <1>11. Underway'
    BY <1>1, <1>3, Typed DEF IInv, Underway, At
  <1>12. SenderLearns' /\ OneTaker'
    BY DEF IInv, SenderLearns, OneTaker
  <1>13. QED
    BY <1>4, <1>5, <1>6, <1>7, <1>8, <1>9, <1>10, <1>11, <1>12 DEF IInv

LEMMA StayAsleepKeeps ==
    ASSUME IInv, NEW c \in Cores, StayAsleep(c)
    PROVE  IInv'
  <1>1. /\ TypeOK /\ pc[c] = "begin" /\ now < wake[c]
        /\ UNCHANGED <<now, wake, eligible, recs, owned, reqs, acks, pend, released, unread>>
    BY DEF IInv, StayAsleep, At, Asleep
  <1>2. /\ pc' \in [Cores -> Stages] /\ pc'[c] = "barrier"
        /\ \A d \in Cores : d # c => pc'[d] = pc[d]
    BY <1>1, Typed DEF StayAsleep, Goto, Stages
  <1>3. /\ \A d \in Cores : d # c => /\ Unseen(d)' = Unseen(d)
                                     /\ At(d, "begin")' <=> At(d, "begin")
                                     /\ At(d, "acks")' <=> At(d, "acks")
        /\ Unseen(c) = now /\ Unseen(c)' = now + 1 /\ ~At(c, "begin")'
    BY <1>1, <1>2 DEF Unseen, At
  <1>4. TypeOK'
    BY <1>1, <1>2 DEF TypeOK, Stages
  <1>5. Awake'
    BY <1>1, <1>2 DEF IInv, Awake, InTick
  <1>6. \A i \in Entries : Home[i] = c /\ Arrives(i, now) => <<i, now>> \in owned
    BY <1>1, <1>3, Typed DEF IInv, WakesForOwn
  <1>7. Records'
    BY <1>1, <1>3, Typed DEF IInv, Records
  <1>8. Requests'
    BY <1>1 DEF IInv, Requests
  <1>9. Acks'
    <2>1. ASSUME NEW j \in acks, now = Arrival(j) PROVE HomeOf(j) # c
      <3>1. j \in recs /\ j \notin owned /\ j \in Jobs
        BY <1>1, Typed DEF IInv, Acks
      <3>2. Arrives(j[1], Arrival(j)) /\ j = <<j[1], Arrival(j)>> /\ j[1] \in Entries
        BY <1>1, <3>1, Typed DEF IInv, Records
      <3>3. QED  BY <1>6, <2>1, <3>1, <3>2 DEF HomeOf
    <2>2. QED  BY <1>1, <1>3, <2>1, Typed DEF IInv, Acks
  <1>10. Pending'
    <2>1. \A j \in pend[c] : now < Arrival(j)
      BY <1>1, Typed DEF IInv, Pending
    <2>2. QED  BY <1>1, <1>3, <2>1 DEF IInv, Pending
  <1>11. WakesForOwn'
    BY <1>1, <1>3, Typed DEF IInv, WakesForOwn
  <1>12. Accepted' /\ Pool' /\ SenderLearns' /\ OneTaker'
    BY <1>1 DEF IInv, Accepted, Pool, Of, SenderLearns, OneTaker
  <1>13. Underway'
    <2>1. ASSUME NEW i \in Entries, Arrives(i, now), Home[i] = c
          PROVE  released[i] >= 1 \/ \E d \in Cores : <<i, now>> \in pend[d]
      <3>1. <<i, now>> \in owned /\ Arrival(<<i, now>>) = now
        BY <1>6, <2>1 DEF Arrival
      <3>2. QED  BY <1>1, <3>1, Typed DEF IInv, Accepted
    <2>2. QED  BY <1>1, <1>3, <2>1, Typed DEF IInv, Underway
  <1>14. QED
    BY <1>4, <1>5, <1>7, <1>8, <1>9, <1>10, <1>11, <1>12, <1>13 DEF IInv

LEMMA ReadAcksKeeps ==
    ASSUME IInv, NEW c \in Cores, ReadAcks(c)
    PROVE  IInv'
  <1>1. /\ TypeOK /\ pc \in [Cores -> Stages] /\ pc[c] = "acks"
        /\ UNCHANGED <<now, wake, eligible, recs, reqs, pend, released, unread>>
    BY Typed DEF IInv, ReadAcks, At
  <1>2. /\ pc' \in [Cores -> Stages] /\ pc'[c] = "push"
        /\ \A d \in Cores : d # c => pc'[d] = pc[d]
    BY <1>1 DEF ReadAcks, Goto, Stages
  <1>3. acks \subseteq recs /\ owned \subseteq recs /\ recs \in SUBSET Jobs
    BY <1>1, Typed DEF IInv, Acks
  <1>4. /\ owned' = owned \cup {j \in acks : HomeOf(j) = c}
        /\ acks' = {j \in acks : HomeOf(j) # c}
    BY <1>3 DEF ReadAcks, Of
  <1>5. owned' \cup acks' = owned \cup acks
    BY <1>4
  <1>6. TypeOK'
    BY <1>1, <1>2, <1>3, <1>4 DEF TypeOK, Stages
  <1>7. Awake'
    BY <1>1, <1>2 DEF IInv, Awake, InTick
  <1>8. Records'
    BY <1>1, <1>2, <1>3, Typed DEF IInv, Records, Unseen, At
  <1>9. Requests'
    BY <1>1, <1>5 DEF IInv, Requests
  <1>10. Acks'
    BY <1>1, <1>2, <1>3, <1>4, Typed DEF IInv, Acks, At
  <1>11. Pending'
    BY <1>1, <1>2 DEF IInv, Pending, At
  <1>12. WakesForOwn'
    <2>1. owned \subseteq owned'
      BY <1>4
    <2>2. QED  BY <1>1, <1>2, <2>1, Typed DEF IInv, WakesForOwn, Unseen, At
  <1>13. Accepted' /\ Pool' /\ OneTaker'
    BY <1>1, <1>5 DEF IInv, Accepted, Pool, Of, OneTaker
  <1>14. Underway'
    BY <1>1, <1>2, Typed DEF IInv, Underway, At
  <1>15. SenderLearns'
    BY <1>1, <1>3, <1>4, <1>5 DEF IInv, SenderLearns
  <1>16. QED
    BY <1>6, <1>7, <1>8, <1>9, <1>10, <1>11, <1>12, <1>13, <1>14, <1>15 DEF IInv

\* The home core releases the job unless a record says that it is with a core
\* that has it pending; a record of the past is nobody's concern.
LEMMA ArriveKeeps ==
    ASSUME IInv, NEW c \in Cores, Arrive(c)
    PROVE  IInv'
  <1> DEFINE E == Expired(c)
  <1>1. /\ TypeOK /\ pc \in [Cores -> Stages] /\ pc[c] = "begin"
        /\ now \in Nat /\ wake \in [Cores -> Nat] /\ wake[c] <= now
        /\ UNCHANGED <<now, wake, eligible, reqs, acks>>
    BY Typed DEF IInv, Arrive, At, Asleep
  <1>2. /\ pc' \in [Cores -> Stages] /\ pc'[c] = "acks"
        /\ \A d \in Cores : d # c => pc'[d] = pc[d]
    BY <1>1 DEF Arrive, Goto, Stages
  <1>3. /\ recs' = recs \ E /\ owned' = owned \ E
        /\ \A j \in E : j \in recs /\ Arrival(j) < now
    BY DEF Arrive, Forget, Expired, Of
  <1> HIDE DEF E
  <1>4. /\ pend' \in [Cores -> SUBSET Jobs] /\ pend'[c] = pend[c] \ Due(c)
        /\ \A d \in Cores : d # c => pend'[d] = pend[d]
    BY <1>1, Typed DEF Arrive
  <1>5. /\ released' \in [Entries -> Nat]
        /\ \A i \in Entries :
             /\ released'[i] >= released[i]
             /\ <<i, now>> \in Due(c) => released'[i] >= 1
             /\ i \in Local(c) /\ ~Taken(i) => released'[i] >= 1
    <2>1. \A i \in Entries :
            /\ Times(<<i, now>> \in Due(c)) \in Nat
            /\ <<i, now>> \in Due(c) => Times(<<i, now>> \in Due(c)) = 1
            /\ Times(i \in Local(c) /\ ~Taken(i)) \in Nat
            /\ i \in Local(c) /\ ~Taken(i) => Times(i \in Local(c) /\ ~Taken(i)) = 1
      BY DEF Times
    <2>2. released \in [Entries -> Nat]
      BY <1>1, Typed
    <2>3. released' = [i \in Entries |->
             released[i] + Times(<<i, now>> \in Due(c))
                         + Times(i \in Local(c) /\ ~Taken(i))]
      BY DEF Arrive
    <2>4. QED  BY <2>1, <2>2, <2>3
  <1>6. TypeOK'
    <2>1. unread' \in SUBSET Jobs
      BY <1>1 DEF Arrive, Of, TypeOK
    <2>2. QED  BY <1>1, <1>2, <1>3, <1>4, <1>5, <2>1 DEF TypeOK, Stages
  <1>7. Awake'
    BY <1>1, <1>2 DEF IInv, Awake, InTick
  <1>8. Records'
    BY <1>1, <1>2, <1>3, Typed DEF IInv, Records, Unseen, At
  <1>9. Requests'
    BY <1>1, <1>3, Typed DEF IInv, Requests
  <1>10. Acks'
    <2>1. \A j \in acks : j \in recs /\ Arrival(j) \in Int /\ HomeOf(j) \in Cores
      BY <1>1, Typed DEF IInv, Acks
    <2>2. \A j \in acks : j \notin E
      BY <1>1, <1>3, <2>1 DEF IInv, Acks
    <2>3. QED  BY <1>1, <1>2, <1>3, <2>1, <2>2 DEF IInv, Acks, At
  <1>11. Pending'
    <2>1. \A j \in pend[c] : j \in Jobs /\ Arrival(j) \in Int
      BY <1>1, Typed
    <2>2. \A j \in pend'[c] : now < Arrival(j) /\ j \in pend[c]
      BY <1>1, <1>4, <2>1 DEF IInv, Pending, Due
    <2>3. QED  BY <1>1, <1>2, <1>4, <2>2 DEF IInv, Pending, At
  <1>12. WakesForOwn'
    <2>1. SUFFICES ASSUME NEW i \in Entries, NEW t \in Nat, Arrives(i, t),
                          t < Forever, <<i, t>> \notin owned', Unseen(Home[i])' <= t
                   PROVE  wake[Home[i]] <= t
      BY <1>1 DEF WakesForOwn, Arrives
    <2>2. Unseen(Home[i]) <= t /\ now <= t
      BY <1>1, <1>2, <2>1, Typed DEF Unseen, At
    <2>3. <<i, t>> \notin E
      BY <1>1, <1>3, <2>2 DEF Arrival
    <2>4. QED  BY <1>3, <2>1, <2>2, <2>3 DEF IInv, WakesForOwn
  <1>13. Accepted'
    <2>1. ASSUME NEW j \in owned' \cup acks', now <= Arrival(j)
          PROVE  (\E d \in Cores : j \in pend'[d]) \/ (now = Arrival(j) /\ released'[j[1]] >= 1)
      <3>1. j \in owned \cup acks /\ j \in Jobs
        BY <1>1, <1>3, <2>1, Typed
      <3>2. CASE \E d \in Cores : j \in pend[d] /\ (d # c \/ j \notin Due(c))
        BY <1>4, <3>2
      <3>3. CASE j \in Due(c)
        <4>1. Arrival(j) = now /\ j = <<j[1], now>> /\ j[1] \in Entries
          BY <1>1, <3>1, <3>3, Typed DEF Due
        <4>2. QED  BY <1>5, <3>3, <4>1
      <3>4. CASE now = Arrival(j) /\ released[j[1]] >= 1
        <4>1. j[1] \in Entries /\ released[j[1]] \in Nat
          BY <1>1, <3>1, Typed
        <4>2. released'[j[1]] \in Nat /\ released'[j[1]] >= released[j[1]]
          BY <1>5, <4>1
        <4>3. QED  BY <3>4, <4>1, <4>2
      <3>5. (\E d \in Cores : j \in pend[d]) \/ (now = Arrival(j) /\ released[j[1]] >= 1)
        BY <2>1, <3>1 DEF IInv, Accepted
      <3>6. QED  BY <3>2, <3>3, <3>4, <3>5
    <2>2. QED  BY <1>1, <2>1 DEF Accepted, Arrival
  <1>14. Underway'
    <2>1. ASSUME NEW i \in Entries, Arrives(i, now)
          PROVE  \/ released'[i] >= 1 \/ pc'[Home[i]] = "begin"
                 \/ \E d \in Cores : <<i, now>> \in pend'[d]
      <3>1. released \in [Entries -> Nat] /\ Home[i] \in Cores
        BY <1>1, Typed
      <3>2. CASE released[i] >= 1
        BY <1>5, <3>1, <3>2
      <3>3. CASE \E d \in Cores : <<i, now>> \in pend[d]
        BY <1>4, <1>5, <3>3
      <3>4. CASE pc[Home[i]] = "begin" /\ Home[i] # c
        BY <1>2, <3>1, <3>4
      <3>5. CASE Home[i] = c
        <4>1. i \in Local(c)
          BY <2>1, <3>5 DEF Local
        <4>2. CASE ~Taken(i)
          BY <1>5, <4>1, <4>2
        <4>3. CASE Taken(i)
          <5>1. PICK j \in owned : j[1] = i /\ Arrival(j) >= now
            BY <4>3 DEF Taken
          <5>2. /\ j \in recs /\ j = <<i, Arrival(j)>> /\ HomeOf(j) = c
                /\ Arrival(j) \in Nat
            BY <1>1, <3>5, <5>1, Typed DEF IInv, Records, HomeOf
          <5>3. Unseen(c) = now
            BY <1>1 DEF Unseen, At
          <5>4. \A t \in Nat : now <= t /\ t < Arrival(j) => ~Arrives(i, t)
            BY <5>1, <5>2, <5>3 DEF IInv, Records
          <5>5. Arrival(j) = now
            BY <1>1, <2>1, <5>1, <5>2, <5>4
          <5>6. (\E d \in Cores : j \in pend[d]) \/ released[i] >= 1
            BY <1>1, <5>1, <5>5 DEF IInv, Accepted
          <5>7. QED  BY <3>2, <3>3, <5>2, <5>5, <5>6
        <4>4. QED  BY <4>2, <4>3
      <3>6. QED  BY <2>1, <3>2, <3>3, <3>4, <3>5 DEF IInv, Underway, At
    <2>2. QED  BY <1>1, <2>1 DEF Underway, Arrives, At
  <1>15. Pool'
    <2>1. IsFiniteSet(recs) /\ recs' \subseteq recs
      BY <1>3 DEF IInv, Pool
    <2>2. ASSUME NEW d \in Cores PROVE Cardinality(Of(recs', d)) <= PoolSize
      <3>1. IsFiniteSet(Of(recs, d)) /\ Of(recs', d) \subseteq Of(recs, d)
        BY <2>1, FS_Subset DEF Of
      <3>2. /\ IsFiniteSet(Of(recs', d))
            /\ Cardinality(Of(recs', d)) <= Cardinality(Of(recs, d))
        BY <3>1, FS_Subset
      <3>3. Cardinality(Of(recs, d)) <= PoolSize
        BY DEF IInv, Pool
      <3>4. QED  BY <3>1, <3>2, <3>3, FS_CardinalityType, NumberAssumption
    <2>3. QED  BY <2>1, <2>2, FS_Subset DEF Pool, Of
  <1>16. SenderLearns'
    <2>1. \A d \in Cores : pend'[d] \subseteq pend[d]
      BY <1>4
    <2>2. QED  BY <1>1, <1>3, <2>1, Typed DEF IInv, SenderLearns
  <1>17. OneTaker'
    <2>1. \A d \in Cores : pend'[d] \subseteq pend[d]
      BY <1>4
    <2>2. QED  BY <1>1, <2>1 DEF IInv, OneTaker
  <1>18. QED
    BY <1>6, <1>7, <1>8, <1>9, <1>10, <1>11, <1>12, <1>13, <1>14, <1>15, <1>16, <1>17
    DEF IInv

\* A job that has no record is with nobody, so it can be offered to anyone.
LEMMA OfferKeeps ==
    ASSUME IInv, NEW c \in Cores, Offer(c)
    PROVE  IInv'
  <1>1. PICK i \in Entries, d \in Cores \ {c} :
          LET j == <<i, NextArrival(i, now)>>
          IN  Offerable(c, j) /\ Cardinality(Of(recs, c)) < PoolSize /\ Record(c, d, j)
    BY DEF Offer
  <1> DEFINE j == <<i, NextArrival(i, now)>>
  <1>2. /\ TypeOK /\ pc[c] = "offer" /\ Home[i] = c /\ j \notin recs
        /\ Cardinality(Of(recs, c)) < PoolSize
        /\ recs' = recs \cup {j} /\ reqs' = [reqs EXCEPT ![d] = @ \cup {j}]
        /\ eligible' = [eligible EXCEPT ![c] = now + Cooldown]
        /\ UNCHANGED <<now, pc, wake, owned, acks, pend, released, unread>>
    BY <1>1 DEF IInv, Offerable, Record, HomeOf, At
  <1>3. /\ j \in Jobs /\ Arrival(j) \in Nat /\ now < Arrival(j) /\ HomeOf(j) = c
        /\ j[1] = i /\ Arrives(j[1], Arrival(j)) /\ now \in Nat
        /\ \A t \in Nat : now < t /\ t < Arrival(j) => ~Arrives(j[1], t)
    BY <1>2, NextOne, Typed DEF Jobs, Arrival, HomeOf
  <1>4. /\ acks \subseteq recs /\ owned \subseteq recs /\ recs \in SUBSET Jobs
        /\ IsFiniteSet(recs) /\ j \notin owned /\ j \notin acks
    BY <1>2, Typed DEF IInv, Acks, Pool
  <1> HIDE DEF j
  <1>5. \A e \in Cores : j \notin pend[e] /\ j \notin reqs[e]
    BY <1>2, <1>3, <1>4 DEF IInv, SenderLearns, Requests
  <1>6. /\ reqs' \in [Cores -> SUBSET Jobs] /\ reqs'[d] = reqs[d] \cup {j}
        /\ \A e \in Cores : e # d => reqs'[e] = reqs[e]
    BY <1>2, <1>3, Typed
  <1>7. TypeOK'
    <2>1. now + Cooldown \in Nat
      BY <1>3, NumberAssumption
    <2>2. QED  BY <1>2, <1>3, <1>4, <1>6, <2>1 DEF TypeOK
  <1>8. Awake' /\ Pending' /\ Accepted' /\ Underway'
    BY <1>2 DEF IInv, Awake, Pending, Accepted, Underway, At
  <1>9. Records'
    <2>1. \A k \in recs' :
            /\ Arrival(k) \in Nat /\ Arrives(k[1], Arrival(k))
            /\ \A t \in Nat : Unseen(HomeOf(k)) <= t /\ t < Arrival(k) => ~Arrives(k[1], t)
      <3>1. Unseen(c) = now + 1
        BY <1>2 DEF Unseen, At
      <3>2. \A t \in Nat : Unseen(HomeOf(j)) <= t => now < t
        BY <1>3, <3>1
      <3>3. QED  BY <1>2, <1>3, <3>2 DEF IInv, Records
    <2>2. QED  BY <1>2, <2>1 DEF Records, Unseen, At
  <1>10. Requests'
    BY <1>2, <1>3, <1>4, <1>6 DEF IInv, Requests
  <1>11. Acks'
    BY <1>2 DEF IInv, Acks, At
  <1>12. WakesForOwn'
    BY <1>2 DEF IInv, WakesForOwn, Unseen, At
  <1>13. Pool'
    <2>1. IsFiniteSet(recs')
      BY <1>2, <1>4, FS_AddElement
    <2>2. ASSUME NEW e \in Cores PROVE Cardinality(Of(recs', e)) <= PoolSize
      <3>1. IsFiniteSet(Of(recs, e)) /\ Cardinality(Of(recs, e)) \in Nat
        BY <1>4, FS_Subset, FS_CardinalityType DEF Of
      <3>2. CASE e = c
        <4>1. Of(recs', e) = Of(recs, e) \cup {j} /\ j \notin Of(recs, e)
          BY <1>2, <1>3, <3>2 DEF Of
        <4>2. Cardinality(Of(recs', e)) = Cardinality(Of(recs, e)) + 1
          BY <3>1, <4>1, FS_AddElement
        <4>3. QED  BY <1>2, <3>1, <3>2, <4>2, NumberAssumption
      <3>3. CASE e # c
        <4>1. Of(recs', e) = Of(recs, e)
          BY <1>2, <1>3, <3>3 DEF Of
        <4>2. QED  BY <4>1 DEF IInv, Pool
      <3>4. QED  BY <3>2, <3>3
    <2>3. QED  BY <2>1, <2>2 DEF Pool, Of
  <1>14. SenderLearns'
    BY <1>2 DEF IInv, SenderLearns
  <1>15. OneTaker'
    BY <1>2, <1>5, <1>6 DEF IInv, OneTaker
  <1>16. QED
    BY <1>7, <1>8, <1>9, <1>10, <1>11, <1>12, <1>13, <1>14, <1>15 DEF IInv

LEMMA AcceptKeeps ==
    ASSUME IInv, NEW d \in Cores, NEW j \in reqs[d], Accept(d, j)
    PROVE  IInv'
  <1>1. /\ TypeOK /\ pc[d] = "serve" /\ now < Arrival(j) /\ now \in Nat
        /\ reqs' = [reqs EXCEPT ![d] = @ \ {j}]
        /\ pend' = [pend EXCEPT ![d] = @ \cup {j}] /\ acks' = acks \cup {j}
        /\ UNCHANGED <<now, pc, wake, eligible, recs, owned, released, unread>>
    BY Typed DEF IInv, Accept, At
  <1>2. /\ j \in recs /\ j \notin owned /\ j \in Jobs /\ Arrival(j) \in Nat
        /\ wake[d] \in Nat /\ wake[d] <= now
    BY <1>1, Typed DEF IInv, Requests, Awake, InTick
  <1>3. /\ reqs' \in [Cores -> SUBSET Jobs] /\ reqs'[d] = reqs[d] \ {j}
        /\ \A e \in Cores : e # d => reqs'[e] = reqs[e]
        /\ pend' \in [Cores -> SUBSET Jobs] /\ pend'[d] = pend[d] \cup {j}
        /\ \A e \in Cores : e # d => pend'[e] = pend[e]
    BY <1>1, <1>2, Typed
  <1>4. /\ \A e \in Cores : j \notin reqs'[e] /\ j \notin pend[e]
    BY <1>3 DEF IInv, OneTaker
  <1>5. TypeOK'
    BY <1>1, <1>2, <1>3 DEF TypeOK
  <1>6. Awake' /\ Records' /\ WakesForOwn' /\ Pool'
    BY <1>1 DEF IInv, Awake, Records, WakesForOwn, Pool, Unseen, At, Of
  <1>7. Requests'
    BY <1>1, <1>3, <1>4 DEF IInv, Requests
  <1>8. Acks'
    BY <1>1, <1>2 DEF IInv, Acks, At
  <1>9. Pending'
    BY <1>1, <1>2, <1>3 DEF IInv, Pending, At
  <1>10. \A e \in Cores : pend[e] \subseteq pend'[e]
    BY <1>3
  <1>11. Accepted'
    BY <1>1, <1>3, <1>10 DEF IInv, Accepted
  <1>12. Underway'
    BY <1>1, <1>10 DEF IInv, Underway, At
  <1>13. SenderLearns'
    BY <1>1, <1>2, <1>3 DEF IInv, SenderLearns
  <1>14. OneTaker'
    BY <1>3, <1>4 DEF IInv, OneTaker
  <1>15. QED
    BY <1>5, <1>6, <1>7, <1>8, <1>9, <1>11, <1>12, <1>13, <1>14 DEF IInv

LEMMA RefuseKeeps ==
    ASSUME IInv, NEW d \in Cores, NEW j \in reqs[d], Refuse(d, j)
    PROVE  IInv'
  <1>1. /\ TypeOK /\ reqs' = [reqs EXCEPT ![d] = @ \ {j}]
        /\ UNCHANGED <<now, pc, wake, eligible, recs, owned, acks, pend, released, unread>>
    BY DEF IInv, Refuse
  <1>2. /\ reqs' \in [Cores -> SUBSET Jobs]
        /\ \A e \in Cores : reqs'[e] \subseteq reqs[e]
    BY <1>1, Typed
  <1>3. TypeOK'
    BY <1>1, <1>2 DEF TypeOK
  <1>4. Awake' /\ Records' /\ Acks' /\ Pending' /\ WakesForOwn'
    BY <1>1 DEF IInv, Awake, Records, Acks, Pending, WakesForOwn, Unseen, At
  <1>5. Accepted' /\ Underway' /\ Pool' /\ SenderLearns'
    BY <1>1 DEF IInv, Accepted, Underway, Pool, SenderLearns, At, Of
  <1>6. Requests' /\ OneTaker'
    BY <1>1, <1>2 DEF IInv, Requests, OneTaker
  <1>7. QED
    BY <1>3, <1>4, <1>5, <1>6 DEF IInv

\* Every arrival that is the core's to see is one of its events.
LEMMA SleepKeeps ==
    ASSUME IInv, NEW c \in Cores, Sleep(c)
    PROVE  IInv'
  <1>1. /\ TypeOK /\ pc \in [Cores -> Stages] /\ pc[c] = "power" /\ now \in Nat
        /\ Forever \in Nat /\ Goto(c, "barrier")
        /\ UNCHANGED <<now, eligible, recs, owned, reqs, acks, pend, released, unread>>
    BY Typed DEF IInv, Sleep, At
  <1>2. /\ pc' \in [Cores -> Stages] /\ pc'[c] = "barrier"
        /\ \A d \in Cores : d # c => pc'[d] = pc[d]
    BY <1>1 DEF Goto, Stages
  <1>3. PICK t \in Events(c) \cup {Forever} :
          /\ \A u \in Events(c) : t <= u
          /\ \E s \in now + Threshold .. t : wake' = [wake EXCEPT ![c] = s]
    BY DEF Sleep
  <1>4. PICK s \in now + Threshold .. t : wake' = [wake EXCEPT ![c] = s]
    BY <1>3
  <1>5. \A j \in pend[c] : j \in Jobs /\ Arrival(j) \in Int /\ now < Arrival(j)
    BY <1>1, Typed DEF IInv, Pending, At
  <1>6. /\ \A j \in pend[c] : Arrival(j) \in Events(c)
        /\ \A i \in Entries : Home[i] = c => Upcoming(i) \subseteq Events(c)
        /\ Events(c) \subseteq Int
    <2>1. \A i \in Entries : Upcoming(i) \subseteq Int
      BY <1>1 DEF Upcoming
    <2>2. QED  BY <1>5, <2>1 DEF Events
  <1>7. s \in Nat /\ s <= t /\ t \in Int
    BY <1>1, <1>3, <1>6, NumberAssumption
  <1>8. /\ wake' \in [Cores -> Nat] /\ wake'[c] = s
        /\ \A d \in Cores : d # c => wake'[d] = wake[d]
    BY <1>1, <1>4, <1>7, Typed
  <1>9. TypeOK'
    BY <1>1, <1>2, <1>8 DEF TypeOK, Stages
  <1>10. Awake'
    BY <1>1, <1>2, <1>8 DEF IInv, Awake, InTick
  <1>11. Records'
    BY <1>1, <1>2, Typed DEF IInv, Records, Unseen, At
  <1>12. Acks'
    <2>1. \A j \in acks : j \in recs /\ HomeOf(j) \in Cores
      BY <1>1, Typed DEF IInv, Acks
    <2>2. QED  BY <1>1, <1>2, <2>1 DEF IInv, Acks, At
  <1>13. Pending'
    <2>1. \A j \in pend[c] : s <= Arrival(j)
      BY <1>3, <1>5, <1>6, <1>7
    <2>2. QED  BY <1>1, <1>2, <1>5, <1>8, <2>1 DEF IInv, Pending, At
  <1>14. WakesForOwn'
    <2>1. SUFFICES ASSUME NEW i \in Entries, NEW u \in Nat, Arrives(i, u),
                          u < Forever, <<i, u>> \notin owned, Unseen(Home[i])' <= u
                   PROVE  wake'[Home[i]] <= u
      BY <1>1 DEF WakesForOwn, Arrives
    <2>2. CASE Home[i] = c
      <3>1. now + 1 <= u
        BY <1>1, <1>2, <2>1, <2>2 DEF Unseen, At
      <3>2. u \in Upcoming(i)
        BY <1>1, <2>1, <3>1 DEF Upcoming
      <3>3. QED  BY <1>3, <1>6, <1>7, <1>8, <2>2, <3>2
    <2>3. CASE Home[i] # c
      <3>1. Home[i] \in Cores
        BY <1>1, Typed
      <3>2. wake'[Home[i]] = wake[Home[i]] /\ Unseen(Home[i])' = Unseen(Home[i])
        BY <1>1, <1>2, <1>8, <2>3, <3>1 DEF Unseen, At
      <3>3. QED  BY <2>1, <3>2 DEF IInv, WakesForOwn
    <2>4. QED  BY <2>2, <2>3
  <1>15. Underway'
    BY <1>1, <1>2, Typed DEF IInv, Underway, At
  <1>16. Requests' /\ Accepted' /\ Pool' /\ SenderLearns' /\ OneTaker'
    BY <1>1 DEF IInv, Requests, Accepted, Pool, Of, SenderLearns, OneTaker
  <1>17. QED
    BY <1>9, <1>10, <1>11, <1>12, <1>13, <1>14, <1>15, <1>16 DEF IInv

\* Every ack has been read by now, or is of a job that is still to arrive.
LEMMA TimerKeeps ==
    ASSUME IInv, Timer
    PROVE  IInv'
  <1>1. /\ TypeOK /\ now \in Nat /\ now < LastTick /\ LastTick \in Nat
        /\ \A c \in Cores : pc[c] = "barrier"
        /\ now' = now + 1 /\ pc' = [c \in Cores |-> "begin"]
        /\ released' = [i \in Entries |-> 0] /\ unread' = {}
        /\ UNCHANGED <<wake, eligible, recs, owned, reqs, acks, pend>>
    BY Typed DEF IInv, Timer, At
  <1>2. \A c \in Cores : pc'[c] = "begin" /\ Unseen(c)' = Unseen(c)
    BY <1>1 DEF Unseen, At
  <1>3. TypeOK'
    BY <1>1 DEF TypeOK
  <1>4. Awake'
    BY <1>2 DEF Awake, InTick
  <1>5. Records'
    BY <1>1, <1>2, Typed DEF IInv, Records
  <1>6. Requests'
    BY <1>1 DEF IInv, Requests
  <1>7. \A j \in acks : /\ j \in recs /\ HomeOf(j) \in Cores
                        /\ Arrival(j) \in Int /\ now < Arrival(j)
    <2>1. \A j \in acks : j \in Jobs /\ j \in recs /\ HomeOf(j) \in Cores /\ Arrival(j) \in Int
      BY <1>1, Typed DEF IInv, Acks
    <2>2. QED  BY <1>1, <2>1 DEF IInv, Acks, At
  <1>8. Acks'
    BY <1>1, <1>2, <1>7 DEF IInv, Acks, At
  <1>9. \A d \in Cores : \A j \in pend[d] : Arrival(j) \in Int /\ now < Arrival(j)
    BY <1>1, Typed DEF IInv, Pending, At
  <1>10. Pending'
    BY <1>1, <1>2, <1>9 DEF IInv, Pending, At
  <1>11. WakesForOwn'
    BY <1>1, <1>2, Typed DEF IInv, WakesForOwn
  <1>12. Accepted'
    <2>1. \A j \in owned \cup acks : Arrival(j) \in Int
      BY <1>1, <1>7, Typed
    <2>2. QED  BY <1>1, <2>1 DEF IInv, Accepted
  <1>13. Underway'
    BY <1>2, Typed, <1>1 DEF Underway, At
  <1>14. Pool' /\ OneTaker'
    BY <1>1 DEF IInv, Pool, Of, OneTaker
  <1>15. SenderLearns'
    BY <1>1, <1>9 DEF IInv, SenderLearns
  <1>16. QED
    BY <1>3, <1>4, <1>5, <1>6, <1>8, <1>10, <1>11, <1>12, <1>13, <1>14, <1>15 DEF IInv

LEMMA Initially == Init => IInv
  <1> SUFFICES ASSUME Init PROVE IInv
    OBVIOUS
  <1>1. TypeOK
    BY TimeAssumption DEF Init, TypeOK
  <1>2. Awake /\ Records /\ Requests /\ Acks /\ Pending /\ Accepted
    BY DEF Init, Awake, InTick, Records, Requests, Acks, Pending, Accepted
  <1>3. WakesForOwn /\ Underway
    BY <1>1, Typed DEF Init, WakesForOwn, Underway, At
  <1>4. Pool
    <2>1. \A c \in Cores : Of(recs, c) = {}
      BY DEF Init, Of
    <2>2. QED  BY <2>1, FS_EmptySet, NumberAssumption DEF Init, Pool
  <1>5. SenderLearns /\ OneTaker
    BY DEF Init, SenderLearns, OneTaker
  <1>6. QED
    BY <1>1, <1>2, <1>3, <1>4, <1>5 DEF IInv

LEMMA Step == IInv /\ [Next]_vars => IInv'
  <1> SUFFICES ASSUME IInv, [Next]_vars PROVE IInv'
    OBVIOUS
  <1>1. CASE Timer
    BY <1>1, TimerKeeps
  <1>2. ASSUME NEW c \in Cores, Core(c) PROVE IInv'
    <2>1. CASE StayAsleep(c)
      BY <2>1, StayAsleepKeeps
    <2>2. CASE Arrive(c)
      BY <2>2, ArriveKeeps
    <2>3. CASE ReadAcks(c)
      BY <2>3, ReadAcksKeeps
    <2>4. CASE SkipPush(c) \/ Push(c)
      BY <2>4, MovesOn DEF SkipPush, Push, At
    <2>5. CASE Offer(c)
      BY <2>5, OfferKeeps
    <2>6. CASE OfferEnd(c) \/ ServeEnd(c) \/ StayAwake(c)
      BY <2>6, MovesOn DEF OfferEnd, ServeEnd, StayAwake, At
    <2>7. CASE \E j \in reqs[c] : Accept(c, j) \/ Refuse(c, j)
      BY <2>7, AcceptKeeps, RefuseKeeps
    <2>8. CASE Sleep(c)
      BY <2>8, SleepKeeps
    <2>9. QED
      BY <1>2, <2>1, <2>2, <2>3, <2>4, <2>5, <2>6, <2>7, <2>8 DEF Core
  <1>3. CASE UNCHANGED vars
    BY <1>3 DEF vars, IInv, TypeOK, Awake, Records, Requests, Acks, Pending,
       WakesForOwn, Accepted, Underway, Pool, SenderLearns, OneTaker, Unseen, At, Of
  <1>4. QED
    BY <1>1, <1>2, <1>3 DEF Next

-----------------------------------------------------------------------------
(***************************************************************************)
(* The theorems                                                            *)
(***************************************************************************)
\* The invariant that the others follow from: sched_core.c, sched_migration.c
\* and power_management.c together keep each offered job in sight.
THEOREM Invariance == Spec => []IInv
  BY Initially, Step, PTL DEF Spec

\* The types; release_delegation leaves no owned_by_remote behind in a record
\* that is free.
THEOREM TypeCorrect == Spec => []TypeOK
  <1>1. IInv => TypeOK
    BY DEF IInv
  <1>2. QED  BY <1>1, Invariance, PTL

\* The error that handle_job_arrivals logs when it meets a pending job of the
\* past is never reached.
THEOREM TakerAwake == Spec => []NeverLate
  <1>1. IInv => NeverLate
    <2>1. \A d \in Cores : At(d, "acks") => ~At(d, "begin")
      BY DEF At
    <2>2. QED  BY <2>1 DEF IInv, Pending, NeverLate
  <1>2. QED  BY <1>1, Invariance, PTL

\* update_delegations: the sender of a job that was accepted knows, or has the
\* ack in its queue.
THEOREM AcceptanceKnown == Spec => []SenderLearns
  <1>1. IInv => SenderLearns
    BY DEF IInv
  <1>2. QED  BY <1>1, Invariance, PTL

\* attempt_future_load_shedding offers a job to one core, once.
THEOREM OneCoreEach == Spec => []OneTaker
  <1>1. IInv => OneTaker
    BY DEF IInv
  <1>2. QED  BY <1>1, Invariance, PTL

\* process_migration_requests: the enqueue of an ack finds a free slot, since
\* the record that it is for is still in use.
THEOREM AcksHaveRoom == Spec => []AcksFit
  <1>1. IInv => AcksFit
    <2>1. SUFFICES ASSUME IInv, NEW c \in Cores PROVE Cardinality(Of(acks, c)) <= PoolSize
      BY DEF AcksFit
    <2>2. /\ IsFiniteSet(recs) /\ Of(acks, c) \subseteq Of(recs, c)
          /\ Cardinality(Of(recs, c)) <= PoolSize
      BY <2>1 DEF IInv, Acks, Pool, Of
    <2>3. IsFiniteSet(Of(recs, c))
      BY <2>2, FS_Subset DEF Of
    <2>4. /\ Cardinality(Of(acks, c)) <= Cardinality(Of(recs, c))
          /\ Cardinality(Of(acks, c)) \in Nat /\ Cardinality(Of(recs, c)) \in Nat
      BY <2>2, <2>3, FS_Subset, FS_CardinalityType
    <2>5. QED  BY <2>2, <2>4, NumberAssumption
  <1>2. QED  BY <1>1, Invariance, PTL

-----------------------------------------------------------------------------
(***************************************************************************)
(* How often a job is released                                             *)
(***************************************************************************)
\* The job of this tick: some core has accepted it, and has not released it yet.
Delegated(i) == <<i, now>> \in owned \cup acks
InHand(i)    == \E d \in Cores : <<i, now>> \in pend[d]

\* The core that has accepted the job releases it once.  The core it belongs to
\* does so when it comes to its arrivals, unless it knows of the other one.
ByTaker(i) == Delegated(i) /\ ~InHand(i)
ByHome(i)  == /\ Arrives(i, now) /\ ~At(Home[i], "begin")
              /\ <<i, now>> \in unread \/ ~Delegated(i)

TallyOf(i) ==
    /\ InHand(i) \/ <<i, now>> \in unread => Delegated(i)
    /\ At(Home[i], "begin") => <<i, now>> \notin unread
    /\ released[i] = Times(ByTaker(i)) + Times(ByHome(i))

Tally == \A i \in Entries : TallyOf(i)

\* What is delegated arrives in this tick.
LEMMA DelegatedArrives ==
    ASSUME IInv, NEW i \in Entries, Delegated(i)
    PROVE  Arrives(i, now)
  <1>1. <<i, now>> \in recs
    BY Typed DEF Delegated, IInv, Acks
  <1>2. QED  BY <1>1 DEF IInv, Records, Arrival

\* A step that releases nothing keeps the tally.
LEMMA TallyKept ==
    ASSUME IInv, Tally, UNCHANGED <<now, released, unread>>,
           \A d \in Cores : pc'[d] = "begin" <=> pc[d] = "begin",
           \A d \in Cores : \A j \in Jobs : Arrival(j) = now =>
               (j \in pend'[d] <=> j \in pend[d]),
           \A j \in Jobs : Arrival(j) = now =>
               (j \in owned' \cup acks' <=> j \in owned \cup acks)
    PROVE  Tally'
  <1> SUFFICES ASSUME NEW i \in Entries PROVE TallyOf(i)'
    BY DEF Tally
  <1>1. <<i, now>> \in Jobs /\ Arrival(<<i, now>>) = now /\ Home[i] \in Cores
    BY Typed DEF IInv, Jobs, Arrival
  <1>2. /\ Delegated(i)' <=> Delegated(i)
        /\ InHand(i)' <=> InHand(i)
        /\ At(Home[i], "begin")' <=> At(Home[i], "begin")
    BY <1>1 DEF Delegated, InHand, At
  <1>3. /\ ByTaker(i)' <=> ByTaker(i)
        /\ ByHome(i)' <=> ByHome(i)
    BY <1>2 DEF ByTaker, ByHome, Arrives
  <1>4. /\ Times(ByTaker(i))' = Times(ByTaker(i))
        /\ Times(ByHome(i))' = Times(ByHome(i))
    BY <1>3 DEF Times
  <1>5. TallyOf(i)
    BY DEF Tally
  <1>6. QED  BY <1>2, <1>4, <1>5 DEF TallyOf

\* A core that sleeps on has given away every job of this tick.
LEMMA TallyAsleep ==
    ASSUME IInv, Tally, NEW c \in Cores, StayAsleep(c)
    PROVE  Tally'
  <1>1. /\ pc[c] = "begin" /\ now < wake[c]
        /\ UNCHANGED <<now, wake, owned, acks, pend, released, unread>>
    BY DEF StayAsleep, At, Asleep
  <1>2. pc'[c] = "barrier" /\ \A d \in Cores : d # c => pc'[d] = pc[d]
    BY Typed DEF IInv, StayAsleep, Goto
  <1> SUFFICES ASSUME NEW i \in Entries PROVE TallyOf(i)'
    BY DEF Tally
  <1>3. Home[i] \in Cores /\ TallyOf(i)
    BY Typed DEF IInv, Tally
  <1>4. /\ Delegated(i)' <=> Delegated(i)
        /\ InHand(i)' <=> InHand(i)
        /\ ByTaker(i)' <=> ByTaker(i)
    BY <1>1 DEF Delegated, InHand, ByTaker
  <1>5. At(Home[i], "begin")' => At(Home[i], "begin")
    BY <1>2, <1>3 DEF At
  <1>6. ByHome(i)' <=> ByHome(i)
    <2>1. CASE Home[i] = c
      <3>1. Arrives(i, now) => <<i, now>> \in owned
        BY <1>1, <2>1, Typed DEF IInv, WakesForOwn, Unseen, At
      <3>2. At(Home[i], "begin")
        BY <1>1, <2>1 DEF At
      <3>3. QED
        BY <1>1, <1>3, <1>4, <3>1, <3>2 DEF ByHome, TallyOf, Delegated, Arrives
    <2>2. CASE Home[i] # c
      <3>1. At(Home[i], "begin")' <=> At(Home[i], "begin")
        BY <1>2, <1>3, <2>2 DEF At
      <3>2. QED  BY <1>1, <1>4, <3>1 DEF ByHome, Arrives
    <2>3. QED  BY <2>1, <2>2
  <1>7. /\ Times(ByTaker(i))' = Times(ByTaker(i))
        /\ Times(ByHome(i))' = Times(ByHome(i))
    BY <1>4, <1>6 DEF Times
  <1>8. QED  BY <1>1, <1>3, <1>4, <1>5, <1>7 DEF TallyOf

\* handle_job_arrivals releases what its core has accepted, and what is its own
\* and is not known to be with another core.
LEMMA TallyArrive ==
    ASSUME IInv, Tally, NEW c \in Cores, Arrive(c)
    PROVE  Tally'
  <1>1. /\ TypeOK /\ pc \in [Cores -> Stages] /\ pc[c] = "begin" /\ now \in Nat
        /\ UNCHANGED <<now, acks>>
    BY Typed DEF IInv, Arrive, At
  <1>2. /\ pc'[c] = "acks" /\ \A d \in Cores : d # c => pc'[d] = pc[d]
        /\ pend'[c] = pend[c] \ Due(c)
        /\ \A d \in Cores : d # c => pend'[d] = pend[d]
    BY <1>1, Typed DEF Arrive, Goto
  <1> SUFFICES ASSUME NEW i \in Entries PROVE TallyOf(i)'
    BY DEF Tally
  <1>3. Home[i] \in Cores /\ released[i] \in Nat /\ TallyOf(i)
        /\ HomeOf(<<i, now>>) = Home[i] /\ Arrival(<<i, now>>) = now
        /\ <<i, now>> \in Jobs
    BY <1>1, Typed DEF Tally, HomeOf, Arrival, Jobs
  <1> DEFINE due   == <<i, now>> \in Due(c)
             local == i \in Local(c) /\ ~Taken(i)
  <1>4. released'[i] = released[i] + Times(due) + Times(local)
    BY DEF Arrive
  <1>5. due <=> <<i, now>> \in pend[c]
    BY DEF Due, Arrival
  <1>6. InHand(i)' <=> InHand(i) /\ ~due
    <2>1. ASSUME NEW d \in Cores, <<i, now>> \in pend'[d] PROVE InHand(i) /\ ~due
      <3>1. CASE d = c
        BY <1>2, <1>5, <2>1, <3>1 DEF InHand
      <3>2. CASE d # c
        <4>1. <<i, now>> \in pend[d] /\ pend[d] \cap pend[c] = {}
          BY <1>2, <2>1, <3>2 DEF IInv, OneTaker
        <4>2. QED  BY <1>5, <4>1 DEF InHand
      <3>3. QED  BY <3>1, <3>2
    <2>2. ASSUME NEW d \in Cores, <<i, now>> \in pend[d], ~due
          PROVE  <<i, now>> \in pend'[d]
      BY <1>2, <1>5, <2>2
    <2>3. QED  BY <1>1, <2>1, <2>2 DEF InHand
  <1>7. due => InHand(i)
    BY <1>5 DEF InHand
  <1>8. /\ Delegated(i)' <=> Delegated(i)
        /\ <<i, now>> \in owned' <=> <<i, now>> \in owned
    <2>1. <<i, now>> \notin Expired(c)
      BY <1>1 DEF Expired, Arrival
    <2>2. QED  BY <1>1, <2>1 DEF Delegated, Arrive, Forget
  <1>9. <<i, now>> \in unread' <=>
            <<i, now>> \in unread \/ (Home[i] = c /\ <<i, now>> \in acks)
    BY <1>3 DEF Arrive, Of
  <1>10. Times(ByTaker(i))' = Times(ByTaker(i)) + Times(due)
    <2>1. ByTaker(i)' <=> ByTaker(i) \/ due
      BY <1>3, <1>6, <1>7, <1>8 DEF ByTaker, TallyOf
    <2>2. ~(ByTaker(i) /\ due)
      BY <1>7 DEF ByTaker
    <2> HIDE DEF due, local
    <2>3. QED  BY <2>1, <2>2 DEF Times
  <1>11. Times(ByHome(i))' = Times(ByHome(i)) + Times(local)
    <2>1. CASE Home[i] # c
      <3>1. ~local /\ (At(Home[i], "begin")' <=> At(Home[i], "begin"))
        BY <1>2, <1>3, <2>1 DEF Local, At
      <3>2. ByHome(i)' <=> ByHome(i)
        BY <1>1, <1>8, <1>9, <2>1, <3>1 DEF ByHome, Arrives
      <3> HIDE DEF due, local
      <3>3. QED  BY <3>1, <3>2 DEF Times
    <2>2. CASE Home[i] = c
      <3>1. At(Home[i], "begin") /\ ~At(Home[i], "begin")'
        BY <1>1, <1>2, <2>2 DEF At
      <3>2. Arrives(i, now) => (Taken(i) <=> <<i, now>> \in owned)
        <4>1. ASSUME Arrives(i, now), NEW k \in owned, k[1] = i, Arrival(k) >= now
              PROVE  k = <<i, now>>
          <5>1. k \in recs /\ k \in Jobs /\ Arrival(k) \in Nat /\ HomeOf(k) = c
            BY <1>1, <2>2, <4>1, Typed DEF IInv, Records, HomeOf
          <5>2. Unseen(c) = now
            BY <1>1 DEF Unseen, At
          <5>3. ~(now < Arrival(k))
            BY <1>1, <4>1, <5>1, <5>2 DEF IInv, Records
          <5>4. QED  BY <1>1, <4>1, <5>1, <5>3, Typed
        <4>2. <<i, now>> \in owned => Taken(i)
          BY <1>1, <1>3 DEF Taken
        <4>3. QED  BY <4>1, <4>2 DEF Taken
      <3>3. <<i, now>> \in acks => <<i, now>> \notin owned
        BY DEF IInv, Acks
      <3>4. i \in Local(c) <=> Arrives(i, now)
        BY <2>2 DEF Local
      <3>5. ~ByHome(i)
        BY <3>1 DEF ByHome
      <3>6. ByHome(i)' <=> local
        BY <1>1, <1>3, <1>8, <1>9, <2>2, <3>1, <3>2, <3>3, <3>4
           DEF ByHome, TallyOf, Delegated, Arrives
      <3> HIDE DEF due, local
      <3>7. QED  BY <3>5, <3>6 DEF Times
    <2>3. QED  BY <2>1, <2>2
  <1>12. InHand(i)' \/ <<i, now>> \in unread' => Delegated(i)'
    BY <1>3, <1>6, <1>8, <1>9 DEF TallyOf, Delegated
  <1>13. At(Home[i], "begin")' => <<i, now>> \notin unread'
    BY <1>1, <1>2, <1>3, <1>9 DEF TallyOf, At
  <1>14. Times(ByTaker(i)) \in Nat /\ Times(ByHome(i)) \in Nat
    BY DEF Times
  <1> HIDE DEF due, local
  <1>15. Times(due) \in Nat /\ Times(local) \in Nat
    BY DEF Times
  <1>16. released'[i] = Times(ByTaker(i))' + Times(ByHome(i))'
    BY <1>3, <1>4, <1>10, <1>11, <1>14, <1>15 DEF TallyOf
  <1>17. QED  BY <1>1, <1>12, <1>13, <1>16 DEF TallyOf

\* A job that arrives is with the core that has accepted it, or with nobody.
LEMMA TallyTimer ==
    ASSUME IInv, Timer
    PROVE  Tally'
  <1>1. /\ TypeOK /\ now \in Nat /\ now' = now + 1
        /\ released' = [i \in Entries |-> 0] /\ unread' = {}
        /\ \A c \in Cores : pc'[c] = "begin"
        /\ UNCHANGED <<recs, owned, acks, pend>>
    BY Typed DEF IInv, Timer
  <1> SUFFICES ASSUME NEW i \in Entries PROVE TallyOf(i)'
    BY DEF Tally
  <1>2. now < now' /\ now <= now' /\ now # now' /\ Arrival(<<i, now'>>) = now'
        /\ Home[i] \in Cores
    BY <1>1, Typed DEF Arrival
  <1>3. InHand(i)' => Delegated(i)'
    BY <1>1, <1>2 DEF InHand, Delegated, IInv, SenderLearns
  <1>4. Delegated(i)' => InHand(i)'
    BY <1>1, <1>2 DEF InHand, Delegated, IInv, Accepted
  <1>5. At(Home[i], "begin")' /\ released'[i] = 0
    BY <1>1, <1>2 DEF At
  <1>6. ~ByTaker(i)' /\ ~ByHome(i)'
    BY <1>4, <1>5 DEF ByTaker, ByHome
  <1>7. QED  BY <1>1, <1>3, <1>5, <1>6 DEF TallyOf, Times

LEMMA TallyNext == IInv /\ Tally /\ [Next]_vars => Tally'
  <1> SUFFICES ASSUME IInv, Tally, [Next]_vars PROVE Tally'
    OBVIOUS
  <1>0. TypeOK /\ pc \in [Cores -> Stages] /\ pend \in [Cores -> SUBSET Jobs]
    BY Typed DEF IInv
  <1>1. CASE Timer
    BY <1>1, TallyTimer
  <1>2. ASSUME NEW c \in Cores, Core(c) PROVE Tally'
    <2>1. CASE \/ SkipPush(c) \/ Push(c) \/ OfferEnd(c)
               \/ ServeEnd(c) \/ StayAwake(c) \/ Sleep(c)
      <3>1. UNCHANGED <<now, released, unread, owned, acks, pend>>
        BY <2>1 DEF SkipPush, Push, OfferEnd, ServeEnd, StayAwake, Sleep
      <3>2. pc[c] # "begin" /\ \E s \in Stages \ {"begin"} : Goto(c, s)
        BY <2>1 DEF SkipPush, Push, OfferEnd, ServeEnd, StayAwake, Sleep, Stages, At
      <3>3. \A d \in Cores : pc'[d] = "begin" <=> pc[d] = "begin"
        BY <1>0, <3>2 DEF Goto
      <3>4. QED  BY <3>1, <3>3, TallyKept
    <2>2. CASE Arrive(c)
      BY <2>2, TallyArrive
    <2>s. CASE StayAsleep(c)
      BY <2>s, TallyAsleep
    <2>3. CASE ReadAcks(c)
      <3>1. UNCHANGED <<now, released, unread, pend>>
        BY <2>3 DEF ReadAcks
      <3>2. \A d \in Cores : pc'[d] = "begin" <=> pc[d] = "begin"
        BY <1>0, <2>3 DEF ReadAcks, Goto, At
      <3>3. \A j \in Jobs : j \in owned' \cup acks' <=> j \in owned \cup acks
        BY <2>3 DEF ReadAcks, Of, IInv, Acks
      <3>4. QED  BY <3>1, <3>2, <3>3, TallyKept
    <2>4. CASE Offer(c)
      <3>1. UNCHANGED <<now, pc, released, unread, owned, acks, pend>>
        BY <2>4 DEF Offer, Record
      <3>2. QED  BY <3>1, TallyKept
    <2>5. ASSUME NEW j \in reqs[c], Accept(c, j) PROVE Tally'
      <3>1. /\ UNCHANGED <<now, pc, released, unread, owned>>
            /\ acks' = acks \cup {j}
            /\ now < Arrival(j) /\ now \in Nat
            /\ pend' = [pend EXCEPT ![c] = @ \cup {j}]
        BY <2>5, <1>0, Typed DEF Accept
      <3>2. /\ \A d \in Cores : \A k \in Jobs : Arrival(k) = now =>
                  (k \in pend'[d] <=> k \in pend[d])
            /\ \A k \in Jobs : Arrival(k) = now =>
                  (k \in owned' \cup acks' <=> k \in owned \cup acks)
        BY <1>0, <3>1
      <3>3. QED  BY <3>1, <3>2, TallyKept
    <2>6. ASSUME NEW j \in reqs[c], Refuse(c, j) PROVE Tally'
      <3>1. UNCHANGED <<now, pc, released, unread, owned, acks, pend>>
        BY <2>6 DEF Refuse
      <3>2. QED  BY <3>1, TallyKept
    <2>7. QED  BY <1>2, <2>1, <2>2, <2>s, <2>3, <2>4, <2>5, <2>6 DEF Core
  <1>3. CASE UNCHANGED vars
    <2>1. UNCHANGED <<now, pc, released, unread, owned, acks, pend>>
      BY <1>3 DEF vars
    <2>2. QED  BY <2>1, TallyKept
  <1>4. QED
    BY <1>1, <1>2, <1>3 DEF Next

\* handle_job_arrivals: for any tasks, cores and sleeping times, the job of
\* every period is released in the tick in which it begins: by one core, or by
\* both if one has accepted it and the other came to its arrivals before the ack.
THEOREM EveryJobReleased == Spec => []ReleasedInTick
  <1>1. Init => Tally
    <2> SUFFICES ASSUME Init, NEW i \in Entries PROVE TallyOf(i)
      BY DEF Tally
    <2>1. ~InHand(i) /\ ~Delegated(i) /\ At(Home[i], "begin")
      BY HomeAssumption DEF Init, InHand, Delegated, At
    <2>2. ~ByTaker(i) /\ ~ByHome(i)
      BY <2>1 DEF ByTaker, ByHome
    <2>3. QED  BY <2>1, <2>2 DEF Init, TallyOf, Times
  <1>2. IInv /\ Tally => ReleasedInTick
    <2>1. SUFFICES ASSUME IInv, Tally, NEW i \in Entries,
                          \A c \in Cores : pc[c] = "barrier"
                   PROVE  released[i] = IF ~Arrives(i, now) THEN 0
                                        ELSE IF <<i, now>> \in unread THEN 2 ELSE 1
      BY DEF ReleasedInTick, At
    <2>2. Home[i] \in Cores /\ now \in Nat /\ TallyOf(i)
      BY <2>1, Typed DEF IInv, Tally
    <2>3. ~InHand(i)
      BY <2>1, <2>2 DEF InHand, IInv, Pending, At, Arrival
    <2>4. ~At(Home[i], "begin")
      BY <2>1, <2>2 DEF At
    <2>5. ByTaker(i) <=> Delegated(i)
      BY <2>3 DEF ByTaker
    <2>6. ByHome(i) <=> Arrives(i, now) /\ (<<i, now>> \in unread \/ ~Delegated(i))
      BY <2>4 DEF ByHome
    <2>7. <<i, now>> \in unread => Delegated(i)
      BY <2>2 DEF TallyOf
    <2>8. Delegated(i) => Arrives(i, now)
      BY <2>1, DelegatedArrives
    <2>9. released[i] = Times(ByTaker(i)) + Times(ByHome(i))
      BY <2>2 DEF TallyOf
    <2>10. QED  BY <2>5, <2>6, <2>7, <2>8, <2>9 DEF Times
  <1>3. QED  BY <1>1, <1>2, TallyNext, Invariance, PTL DEF Spec
=============================================================================
