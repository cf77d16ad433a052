------------------------- MODULE CriticalityProofs -------------------------
(***************************************************************************)
(* Criticality for any processors, cores and number of levels: no core     *)
(* goes back to a lower level, although levels are stored without a lock.  *)
(***************************************************************************)
EXTENDS Criticality, TLAPS

\* A core belongs to a processor, and a level is a number.
LEMMA Kinds ==
    /\ \A c \in CoreIds : Proc(c) \in Procs
    /\ \A l \in Levels : l \in Int
  BY LevelAssumption DEF CoreIds, Proc, Levels

LEMMA InitIInv == Init => IInv
<1> SUFFICES ASSUME Init PROVE IInv
  OBVIOUS
<1>1. 0 \in Levels
  BY LevelAssumption DEF Levels
<1>2. TypeOK
  BY <1>1 DEF Init, TypeOK
<1>3. NotAbove
  BY Kinds DEF Init, NotAbove, Stores
<1>4. Remembered
  BY Kinds DEF Init, Remembered, Heard, Stores
<1>5. Restored
  BY DEF Init, Restored, Looked, Stores
<1> QED BY <1>2, <1>3, <1>4, <1>5 DEF IInv

-----------------------------------------------------------------------------
(***************************************************************************)
(* Steps that store nothing and send nothing                               *)
(***************************************************************************)
\* The test of local_criticality_level against the processor's level.
LEMMA TestKeeps == ASSUME IInv, NEW c \in CoreIds, Test(c) PROVE IInv'
<1> USE DEF IInv, TypeOK
<1>1. /\ UNCHANGED <<system, local, new, inbox, flight>>
      /\ pc[c] = "begin"
      /\ pc' = [pc EXCEPT ![c] = IF local[c] = system[Proc(c)] THEN "work" ELSE "load"]
  BY DEF Test, At, Goto
<1>2. TypeOK'
  BY <1>1
<1>3. NotAbove'
  BY <1>1, Kinds DEF NotAbove, Stores
<1>4. Remembered'
  BY <1>1 DEF Remembered, Heard, Sent, Stores
<1>5. Restored'
  BY <1>1, Kinds DEF Restored, Remembered, Heard, Sent, Looked, Stores, Aim
<1> QED BY <1>2, <1>3, <1>4, <1>5

\* The second load, which may find a level that the test has not seen.
LEMMA LoadKeeps == ASSUME IInv, NEW c \in CoreIds, Load(c) PROVE IInv'
<1> USE DEF IInv, TypeOK
<1>1. /\ UNCHANGED <<system, local, inbox, flight>>
      /\ pc[c] = "load" /\ pc' = [pc EXCEPT ![c] = "adopt"]
      /\ new' = [new EXCEPT ![c] = system[Proc(c)]]
  BY DEF Load, At, Goto
<1>2. TypeOK'
  BY <1>1, Kinds
<1>3. NotAbove'
  BY <1>1, Kinds DEF NotAbove, Stores
<1>4. Remembered'
  BY <1>1, Kinds DEF Remembered, NotAbove, Heard, Sent, Stores
<1>5. Restored'
  BY <1>1, Kinds DEF Restored, Remembered, Heard, Sent, Looked, Stores, Aim
<1> QED BY <1>2, <1>3, <1>4, <1>5

LEMMA WorkKeeps == ASSUME IInv, NEW c \in CoreIds, Work(c) PROVE IInv'
<1> USE DEF IInv, TypeOK
<1>1. /\ UNCHANGED <<system, local, new, inbox, flight>>
      /\ pc[c] = "work" /\ pc' = [pc EXCEPT ![c] = "end"]
  BY DEF Work, At, Goto
<1>2. TypeOK'
  BY <1>1
<1>3. NotAbove'
  BY <1>1 DEF NotAbove, Stores
<1>4. Remembered'
  BY <1>1 DEF Remembered, Heard, Sent, Stores
<1>5. Restored'
  BY <1>1 DEF Restored, Sent, Looked, Stores, Aim
<1> QED BY <1>2, <1>3, <1>4, <1>5

-----------------------------------------------------------------------------
(***************************************************************************)
(* The stores of handle_mode_change                                        *)
(***************************************************************************)
\* What a store overwrites is not higher, or is on its way back.
LEMMA StoreKeeps ==
    ASSUME IInv, NEW c \in CoreIds, Adopt(c) \/ Raise(c)
    PROVE  IInv' /\ local[c] <= local'[c]
<1> USE DEF IInv, TypeOK
<1>1. /\ UNCHANGED <<new, inbox, flight>>
      /\ Stores(c)
      /\ system' = [system EXCEPT ![Proc(c)] = new[c]]
      /\ local' = [local EXCEPT ![c] = new[c]]
      /\ pc' = [pc EXCEPT ![c] = IF pc[c] = "adopt" THEN "work" ELSE "end"]
  BY DEF Adopt, Raise, Store, Stores, At, Goto
<1>2. TypeOK'
  BY <1>1, Kinds
<1>3. /\ system'[Proc(c)] = new[c] /\ local'[c] = new[c]
      /\ local[c] <= new[c]
      /\ \A p \in Procs \ {Proc(c)} : system'[p] = system[p]
      /\ \A d \in CoreIds \ {c} : local'[d] = local[d] /\ pc'[d] = pc[d]
  BY <1>1, Kinds DEF Remembered
<1>4. NotAbove'
  BY <1>1, <1>3, Kinds DEF NotAbove, Stores
<1>5. ASSUME NEW v \in Levels, NEW p \in Procs, Heard(p, v) PROVE Heard(p, v)'
  <2>1. CASE p = Proc(c)
    <3>1. system[p] <= new[c] \/ Sent(p, system[p])
      BY <1>1, <2>1 DEF Restored, Looked, Aim, Stores
    <3> QED BY <1>1, <1>3, <1>5, <2>1, <3>1, Kinds DEF Heard, Sent
  <2>2. CASE p # Proc(c)
    BY <1>1, <1>3, <1>5, <2>2 DEF Heard, Sent
  <2> QED BY <2>1, <2>2
<1>6. Remembered'
  BY <1>1, <1>3, <1>5, Kinds DEF Remembered, Stores
<1>7. Restored'
  BY <1>1, <1>3, Kinds DEF Restored, Remembered, Sent, Looked, Stores, Aim
<1> QED BY <1>2, <1>3, <1>4, <1>6, <1>7

-----------------------------------------------------------------------------
(***************************************************************************)
(* The network                                                             *)
(***************************************************************************)
\* An overrun puts the level into the own socket before it is stored.
LEMMA OverrunKeeps == ASSUME IInv, NEW c \in CoreIds, Overrun(c) PROVE IInv'
<1> USE DEF IInv, TypeOK
<1>1. PICK level \in local[c] .. MaxLevel :
        /\ new' = [new EXCEPT ![c] = level]
        /\ inbox' = [inbox EXCEPT ![Proc(c)] = @ \cup {level}]
        /\ flight' = flight \cup ((Procs \ {Proc(c)}) \X {level})
  BY DEF Overrun, Broadcast
<1>1a. level \in Levels /\ local[c] <= level
  BY LevelAssumption DEF Levels
<1>2. /\ UNCHANGED <<system, local>>
      /\ pc[c] = "work" /\ pc' = [pc EXCEPT ![c] = "raise"]
  BY DEF Overrun, At, Goto
<1>3. TypeOK'
  BY <1>1a, <1>1, <1>2, Kinds DEF Packets
<1>4. \A p \in Procs : inbox[p] \subseteq inbox'[p]
  BY <1>1
<1>5. \A p \in Procs, v \in Levels : Sent(p, v) => Sent(p, v)'
  BY <1>4 DEF Sent
<1>6. level \in inbox'[Proc(c)] /\ new'[c] = level
  BY <1>1a, <1>1, Kinds
<1>7. NotAbove'
  BY <1>1a, <1>1, <1>2, Kinds DEF NotAbove, Stores
<1>8. Remembered'
  <2>1. \A p \in Procs, v \in Levels : Heard(p, v) => Heard(p, v)'
    BY <1>2, <1>5 DEF Heard
  <2>2. Heard(Proc(c), level)'
    BY <1>1a, <1>6, Kinds DEF Heard, Sent
  <2>3. \A d \in CoreIds \ {c} : pc'[d] = pc[d] /\ new'[d] = new[d]
    BY <1>1, <1>2
  <2> QED BY <1>1a, <1>2, <1>4, <1>6, <2>1, <2>2, <2>3, Kinds DEF Remembered, Stores
<1>9. Restored'
  BY <1>1a, <1>1, <1>2, <1>5, <1>6, Kinds DEF Restored, Sent, Looked, Stores, Aim
<1> QED BY <1>3, <1>7, <1>8, <1>9

\* The timer takes the highest level that has come, with all cores at the end
\* of their tick.
LEMMA ReceiveKeeps == ASSUME IInv, NEW p \in Procs, Receive(p) PROVE IInv'
<1> USE DEF IInv, TypeOK
<1>1. PICK level \in inbox[p] \cup {system[p]} :
        /\ \A l \in inbox[p] \cup {system[p]} : l <= level
        /\ system' = [system EXCEPT ![p] = level]
  BY DEF Receive
<1>2. /\ UNCHANGED <<local, new, flight>>
      /\ inbox' = [inbox EXCEPT ![p] = {}]
      /\ pc' = [c \in CoreIds |-> IF Proc(c) = p THEN "begin" ELSE pc[c]]
  BY DEF Receive
<1>3. level \in Levels
  BY <1>1
<1>4. TypeOK'
  BY <1>2, <1>1, <1>3
<1>5. \A v \in Levels : Heard(p, v) => v <= level
  <2> HIDE DEF IInv, TypeOK
  <2> SUFFICES ASSUME NEW v \in Levels, Heard(p, v) PROVE v <= level
    OBVIOUS
  <2>1. /\ inbox[p] \subseteq Levels /\ system[p] \in Levels
        /\ level \in Int /\ v \in Int
    BY <1>3, Kinds DEF IInv, TypeOK
  <2>2. PICK l \in inbox[p] \cup {system[p]} : v <= l
    BY DEF Heard, Sent
  <2>3. l \in Int /\ l <= level
    BY <1>1, <2>1, <2>2, Kinds
  <2> QED BY <2>1, <2>2, <2>3
<1>6. /\ system'[p] = level
      /\ \A q \in Procs \ {p} : system'[q] = system[q] /\ inbox'[q] = inbox[q]
  BY <1>1, <1>2
<1>7. NotAbove'
  BY <1>2, <1>5, <1>6, Kinds DEF NotAbove, Remembered, Stores
<1>8. Remembered'
  BY <1>2, <1>5, <1>6, Kinds DEF Remembered, Heard, Sent, Stores
<1>9. Restored'
  BY <1>2, <1>6, Kinds DEF Restored, Sent, Looked, Stores, Aim
<1> QED BY <1>4, <1>7, <1>8, <1>9

\* A packet that arrives makes more known.
LEMMA DeliverKeeps == ASSUME IInv, NEW m \in Packets, Deliver(m) PROVE IInv'
<1> USE DEF IInv, TypeOK
<1>1. /\ UNCHANGED <<system, local, pc, new>>
      /\ m[1] \in Procs /\ m[2] \in Levels
      /\ inbox' = [inbox EXCEPT ![m[1]] = @ \cup {m[2]}]
      /\ flight' = flight \ {m}
  BY DEF Deliver, Packets
<1>2. TypeOK'
  BY <1>1
<1>3. \A q \in Procs : inbox[q] \subseteq inbox'[q]
  BY <1>1
<1>4. \A q \in Procs, v \in Levels : Sent(q, v) => Sent(q, v)'
  BY <1>3 DEF Sent
<1>5. NotAbove'
  BY <1>1 DEF NotAbove, Stores
<1>6. Remembered'
  BY <1>1, <1>3, <1>4, Kinds DEF Remembered, Heard, Stores
<1>7. Restored'
  BY <1>1, <1>4, Kinds DEF Restored, Looked, Stores, Aim
<1> QED BY <1>2, <1>5, <1>6, <1>7

-----------------------------------------------------------------------------
(***************************************************************************)
(* The theorems                                                            *)
(***************************************************************************)
\* Every step keeps the invariant and lowers no core's level.
LEMMA NextKeeps ==
    IInv /\ [Next]_vars => IInv' /\ \A c \in CoreIds : local[c] <= local'[c]
<1> SUFFICES ASSUME IInv, [Next]_vars
             PROVE  IInv' /\ \A c \in CoreIds : local[c] <= local'[c]
  OBVIOUS
<1>1. \A c \in CoreIds : local[c] \in Int
  BY Kinds DEF IInv, TypeOK
<1>2. ASSUME NEW c \in CoreIds, Test(c) \/ Load(c) \/ Work(c) \/ Overrun(c)
      PROVE  IInv' /\ UNCHANGED local
  BY <1>2, TestKeeps, LoadKeeps, WorkKeeps, OverrunKeeps
     DEF Test, Load, Work, Overrun
<1>3. ASSUME NEW c \in CoreIds, Adopt(c) \/ Raise(c)
      PROVE  /\ IInv' /\ local[c] <= local'[c]
             /\ \A d \in CoreIds \ {c} : local'[d] = local[d]
  BY <1>3, StoreKeeps DEF Adopt, Raise, Store, IInv, TypeOK
<1>4. ASSUME NEW p \in Procs, Receive(p) PROVE IInv' /\ UNCHANGED local
  BY <1>4, ReceiveKeeps DEF Receive
<1>5. ASSUME NEW m \in Packets, Deliver(m) PROVE IInv' /\ UNCHANGED local
  BY <1>5, DeliverKeeps DEF Deliver
<1>6. CASE UNCHANGED vars
  BY <1>1, <1>6 DEF vars, IInv, TypeOK, NotAbove, Remembered, Restored,
                    Heard, Sent, Looked, Stores, Aim
<1> QED BY <1>1, <1>2, <1>3, <1>4, <1>5, <1>6 DEF Next, Core

\* The invariant of the levels.
THEOREM Invariance == Spec => []IInv
<1>1. Init => IInv
  BY InitIInv
<1>2. IInv /\ [Next]_vars => IInv'
  BY NextKeeps
<1> QED BY <1>1, <1>2, PTL DEF Spec

\* Levels stay below MAX_CRITICALITY_LEVELS, and an overrun raises them.
THEOREM TypeCorrect == Spec => []TypeOK
<1>1. IInv => TypeOK
  BY DEF IInv
<1> QED BY <1>1, Invariance, PTL

\* The unconditional store of handle_mode_change is repaired before any core
\* of the processor begins its next tick.
THEOREM StoreRepaired == Spec => []Covered
<1>1. IInv => Covered
  BY DEF IInv, NotAbove, Covered
<1> QED BY <1>1, Invariance, PTL

\* local_criticality_level never decreases.
THEOREM ModeIsFinal == Spec => NeverFalls
<1>1. IInv /\ [Next]_vars => [\A c \in CoreIds : local[c] <= local'[c]]_vars
  BY NextKeeps
<1> QED BY <1>1, Invariance, PTL DEF Spec, NeverFalls

-----------------------------------------------------------------------------
(***************************************************************************)
(* HighestKnown                                                            *)
(***************************************************************************)
\* The level that a core has adopted or will store, that a processor is at, or
\* that a packet carries.
Present(v) ==
    \/ \E c \in CoreIds : local[c] = v \/ (Stores(c) /\ new[c] = v)
    \/ \E p \in Procs : system[p] = v \/ v \in inbox[p] \/ <<p, v>> \in flight

Known(p, v) == Heard(p, v) \/ \E l \in Levels : v <= l /\ <<p, l>> \in flight

\* No level is anywhere without being known, or on its way, everywhere.
AllKnown == \A v \in Levels, p \in Procs : Present(v) => Known(p, v)

\* What neither lowers a processor's level nor takes a packet keeps a level
\* known.
LEMMA KnownKept ==
    ASSUME TypeOK, UNCHANGED system, NEW p \in Procs, NEW v \in Levels, Known(p, v),
           inbox[p] \subseteq inbox'[p], flight \subseteq flight'
    PROVE  Known(p, v)'
  BY DEF Known, Heard, Sent

\* Steps that neither send nor take a packet nor store.
LEMMA QuietKnown ==
    ASSUME IInv, AllKnown, NEW c \in CoreIds, Test(c) \/ Load(c) \/ Work(c)
    PROVE  AllKnown'
<1>1. UNCHANGED <<system, local, inbox, flight>>
  BY DEF Test, Load, Work
<1>2. ASSUME NEW v \in Levels, Present(v)' PROVE Present(v)
  <2>1. ASSUME NEW d \in CoreIds, Stores(d)', new'[d] = v PROVE Present(v)
    <3>1. CASE d # c
      BY <2>1, <3>1 DEF Test, Load, Work, Goto, Stores, Present, IInv, TypeOK
    <3>2. CASE d = c
      BY <2>1, <3>2, Kinds DEF Test, Load, Work, Goto, Stores, Present, IInv, TypeOK
    <3> QED BY <3>1, <3>2
  <2> QED BY <1>1, <1>2, <2>1 DEF Present
<1> QED BY <1>1, <1>2, KnownKept DEF AllKnown, IInv

\* A store overwrites a higher level only when that comes back (Restored).
LEMMA StoreKnown ==
    ASSUME IInv, AllKnown, NEW c \in CoreIds, Adopt(c) \/ Raise(c)
    PROVE  AllKnown'
<1> USE DEF IInv, TypeOK
<1>1. /\ UNCHANGED <<new, inbox, flight>>
      /\ Stores(c)
      /\ system' = [system EXCEPT ![Proc(c)] = new[c]]
      /\ local' = [local EXCEPT ![c] = new[c]]
      /\ pc' = [pc EXCEPT ![c] = IF pc[c] = "adopt" THEN "work" ELSE "end"]
  BY DEF Adopt, Raise, Store, Stores, At, Goto
<1>2. ASSUME NEW v \in Levels, Present(v)' PROVE Present(v)
  BY <1>1, <1>2 DEF Present, Stores
<1>3. ASSUME NEW v \in Levels, NEW p \in Procs, Known(p, v) PROVE Known(p, v)'
  <2>1. CASE p = Proc(c)
    <3>1. system[p] <= new[c] \/ Sent(p, system[p])
      BY <1>1, <2>1 DEF Restored, Looked, Aim, Stores
    <3> QED BY <1>1, <1>3, <2>1, <3>1, Kinds DEF Known, Heard, Sent
  <2>2. CASE p # Proc(c)
    BY <1>1, <1>3, <2>2 DEF Known, Heard, Sent
  <2> QED BY <2>1, <2>2
<1> QED BY <1>2, <1>3 DEF AllKnown

\* A level is announced to everybody before it is stored.
LEMMA OverrunKnown ==
    ASSUME IInv, AllKnown, NEW c \in CoreIds, Overrun(c) PROVE AllKnown'
<1> USE DEF IInv, TypeOK
<1>1. PICK level \in local[c] .. MaxLevel :
        /\ new' = [new EXCEPT ![c] = level]
        /\ inbox' = [inbox EXCEPT ![Proc(c)] = @ \cup {level}]
        /\ flight' = flight \cup ((Procs \ {Proc(c)}) \X {level})
  BY DEF Overrun, Broadcast
<1>2. /\ UNCHANGED <<system, local>>
      /\ pc[c] = "work" /\ pc' = [pc EXCEPT ![c] = "raise"]
  BY DEF Overrun, At, Goto
<1>3. level \in Levels
  BY LevelAssumption DEF Levels
<1>4. ASSUME NEW p \in Procs PROVE Known(p, level)'
  <2>1. CASE p = Proc(c)
    BY <1>1, <1>3, <2>1, Kinds DEF Known, Heard, Sent
  <2>2. CASE p # Proc(c)
    BY <1>1, <1>3, <2>2, Kinds DEF Known
  <2> QED BY <2>1, <2>2
<1>5. ASSUME NEW v \in Levels, Present(v)', v # level PROVE Present(v)
  BY <1>1, <1>2, <1>5 DEF Present, Stores
<1>6. ASSUME NEW p \in Procs, NEW v \in Levels, Known(p, v) PROVE Known(p, v)'
  BY <1>1, <1>2, <1>6, KnownKept
<1> QED BY <1>4, <1>5, <1>6 DEF AllKnown

\* The highest level of the socket replaces all others.
LEMMA ReceiveKnown ==
    ASSUME IInv, AllKnown, NEW p \in Procs, Receive(p) PROVE AllKnown'
<1> USE DEF IInv, TypeOK
<1>1. PICK level \in inbox[p] \cup {system[p]} :
        /\ \A l \in inbox[p] \cup {system[p]} : l <= level
        /\ system' = [system EXCEPT ![p] = level]
  BY DEF Receive
<1>2. /\ UNCHANGED <<local, new, flight>>
      /\ inbox' = [inbox EXCEPT ![p] = {}]
      /\ pc' = [c \in CoreIds |-> IF Proc(c) = p THEN "begin" ELSE pc[c]]
  BY DEF Receive
<1>3. level \in Levels
  OBVIOUS
<1>4. ASSUME NEW v \in Levels, Present(v)' PROVE Present(v)
  BY <1>1, <1>2, <1>4 DEF Present, Stores
<1>5. ASSUME NEW q \in Procs, NEW v \in Levels, Known(q, v) PROVE Known(q, v)'
  <2>1. CASE q = p
    <3>1. Heard(p, v) => v <= level
      BY <1>1, <1>3, Kinds DEF Heard, Sent
    <3> QED BY <1>1, <1>2, <1>5, <2>1, <3>1 DEF Known, Heard
  <2>2. CASE q # p
    BY <1>1, <1>2, <1>5, <2>2 DEF Known, Heard, Sent
  <2> QED BY <2>1, <2>2
<1> QED BY <1>4, <1>5 DEF AllKnown

LEMMA DeliverKnown ==
    ASSUME IInv, AllKnown, NEW m \in Packets, Deliver(m) PROVE AllKnown'
<1> USE DEF IInv, TypeOK
<1>1. /\ UNCHANGED <<system, local, pc, new>>
      /\ m \in flight /\ flight' = flight \ {m}
      /\ inbox' = [inbox EXCEPT ![m[1]] = @ \cup {m[2]}]
  BY DEF Deliver
<1>2. m[1] \in Procs /\ m[2] \in Levels /\ m = <<m[1], m[2]>>
  BY DEF Packets
<1>3. ASSUME NEW v \in Levels, Present(v)' PROVE Present(v)
  BY <1>1, <1>2, <1>3 DEF Present, Stores
<1>4. ASSUME NEW q \in Procs, NEW v \in Levels, Known(q, v) PROVE Known(q, v)'
  <2>1. CASE Heard(q, v)
    BY <1>1, <1>2, <2>1 DEF Known, Heard, Sent
  <2>2. ASSUME NEW l \in Levels, v <= l, <<q, l>> \in flight PROVE Known(q, v)'
    BY <1>1, <1>2, <2>2 DEF Known, Heard, Sent
  <2> QED BY <1>4, <2>1, <2>2 DEF Known
<1> QED BY <1>3, <1>4 DEF AllKnown

\* Every level is known, or on its way, everywhere.
THEOREM LevelsKnown == Spec => []AllKnown
<1>1. Init => AllKnown
  <2> SUFFICES ASSUME Init PROVE AllKnown
    OBVIOUS
  <2>1. \A v \in Levels : Present(v) => v = 0
    BY DEF Init, Present, Stores
  <2> QED BY <2>1, Kinds DEF Init, AllKnown, Known, Heard
<1>2. IInv /\ AllKnown /\ [Next]_vars => AllKnown'
  <2> SUFFICES ASSUME IInv, AllKnown, [Next]_vars PROVE AllKnown'
    OBVIOUS
  <2>1. CASE UNCHANGED vars
    BY <2>1 DEF vars, AllKnown, Known, Present, Heard, Sent, Stores
  <2>2. CASE Next
    BY <2>2, QuietKnown, StoreKnown, OverrunKnown, ReceiveKnown, DeliverKnown
       DEF Next, Core
  <2> QED BY <2>1, <2>2
<1> QED
  BY <1>1, <1>2, Invariance, PTL DEF Spec

LEMMA KnownMeansHighest == IInv /\ AllKnown => HighestKnown
<1> SUFFICES ASSUME IInv, AllKnown, NEW c \in CoreIds, NEW p \in Procs
             PROVE  \/ local[c] <= system[p]
                    \/ \E level \in local[c] .. MaxLevel :
                         level \in inbox[p] \/ <<p, level>> \in flight
  BY DEF HighestKnown
<1>1. local[c] \in Levels /\ Present(local[c])
  BY DEF IInv, TypeOK, Present
<1>2. Known(p, local[c])
  BY <1>1 DEF AllKnown
<1>3. inbox[p] \subseteq Levels
  BY DEF IInv, TypeOK
<1> QED BY <1>1, <1>2, <1>3, LevelAssumption DEF Known, Heard, Sent, Levels

\* However late a packet is, no core is at a level that another processor does
\* not have and will never hear of.
THEOREM LevelsAnnounced == Spec => []HighestKnown
<1> QED
  BY Invariance, LevelsKnown, KnownMeansHighest, PTL

-----------------------------------------------------------------------------
(***************************************************************************)
(* Agreement, as far as safety goes                                        *)
(***************************************************************************)
\* When nothing is on its way and every core has looked, there is one level in
\* the system: no store has left a processor below, or above, the others.
THEOREM QuietAgreement == Spec => []QuietMeansAgreed
<1>1. ASSUME IInv, HighestKnown PROVE QuietMeansAgreed
  <2> SUFFICES ASSUME Quiet, NEW c \in CoreIds, NEW d \in CoreIds
               PROVE  local[c] = local[d] /\ local[c] = system[Proc(d)]
    BY DEF QuietMeansAgreed
  <2>1. \A e \in CoreIds, p \in Procs : local[e] <= system[p]
    BY <1>1 DEF HighestKnown, Quiet
  <2>2. \A e \in CoreIds : system[Proc(e)] <= local[e]
    <3> SUFFICES ASSUME NEW e \in CoreIds PROVE system[Proc(e)] <= local[e]
      OBVIOUS
    <3>1. Looked(e) /\ Aim(e) = local[e]
      BY DEF Quiet, Looked, Aim, Stores
    <3>2. ~Sent(Proc(e), system[Proc(e)])
      BY Kinds DEF Quiet, Sent
    <3> QED BY <1>1, <3>1, <3>2 DEF IInv, Restored
  <2>3. /\ local[c] \in Int /\ local[d] \in Int
        /\ system[Proc(c)] \in Int /\ system[Proc(d)] \in Int
        /\ Proc(c) \in Procs /\ Proc(d) \in Procs
    BY <1>1, Kinds DEF IInv, TypeOK
  <2>4. /\ local[c] <= system[Proc(d)] /\ system[Proc(d)] <= local[d]
        /\ local[d] <= system[Proc(c)] /\ system[Proc(c)] <= local[c]
    BY <2>1, <2>2, <2>3
  <2> QED BY <2>3, <2>4
<1> QED
  BY <1>1, Invariance, LevelsAnnounced, PTL
=============================================================================
