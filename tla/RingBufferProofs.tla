-------------------------- MODULE RingBufferProofs --------------------------
(***************************************************************************)
(* RingBuffer for any threads, values and size: the inductive invariant    *)
(* IInv, what follows from it, and the refinement of TicketQueue.          *)
(***************************************************************************)
EXTENDS RingBuffer, TLAPS

(***************************************************************************)
(* Arithmetic of tickets.  A ticket is a number of rounds and a slot; the  *)
(* product and the quotient are named so that the proofs below can treat   *)
(* them as opaque.                                                         *)
(***************************************************************************)
Round(n)  == n \div Size
Rounds(k) == Size * k

\* The multiples of Size that the lemmas on tickets need.
LEMMA Multiples ==
    /\ \A k \in Int : Rounds(k) \in Int
    /\ \A k, m \in Int : Rounds(k - m) = Rounds(k) - Rounds(m)
    /\ \A k \in Int : k > 0 => Rounds(k) >= Size
    /\ \A k \in Int : k < 0 => Rounds(k) <= - Size
    /\ Rounds(0) = 0 /\ Rounds(1) = Size
  BY SizeAssumption DEF Rounds

\* A ticket n uses the slot n % buf_size, after n / buf_size rounds.
LEMMA Division ==
    \A n \in Nat : /\ n = Rounds(Round(n)) + Slot(n)
                   /\ Slot(n) \in Slots /\ Round(n) \in Nat
  BY SizeAssumption DEF Slot, Slots, Round, Rounds

\* n % buf_size indexes seq and buffer.
LEMMA SlotType ==
    \A n \in Nat : Slot(n) \in Slots /\ Slot(n) \in Nat /\ Slot(n) < Size
  BY Division, SizeAssumption DEF Slots

\* Two tickets differ by whole rounds and by their slots.
LEMMA Congruent ==
    \A m, n \in Nat : \E k \in Int : n - m = Rounds(k) + Slot(n) - Slot(m)
<1> TAKE m, n \in Nat
<1>1. Round(n) \in Int /\ Round(m) \in Int /\ Round(n) - Round(m) \in Int
  BY Division
<1>2. n - m = Rounds(Round(n) - Round(m)) + Slot(n) - Slot(m)
  <2>1. n = Rounds(Round(n)) + Slot(n) /\ m = Rounds(Round(m)) + Slot(m)
    BY Division
  <2>2. Rounds(Round(n) - Round(m)) = Rounds(Round(n)) - Rounds(Round(m))
    BY <1>1, Multiples
  <2>3. /\ Rounds(Round(n)) \in Int /\ Rounds(Round(m)) \in Int
        /\ Slot(n) \in Int /\ Slot(m) \in Int
    BY <1>1, Multiples, SlotType
  <2> QED BY <2>1, <2>2, <2>3
<1> QED BY <1>1, <1>2

\* Two tickets of one slot are a round apart.
LEMMA Apart == \A m, n \in Nat : Slot(m) = Slot(n) /\ m < n => m + Size <= n
<1> SUFFICES ASSUME NEW m \in Nat, NEW n \in Nat, Slot(m) = Slot(n), m < n
             PROVE  m + Size <= n
  OBVIOUS
<1>1. PICK k \in Int : n - m = Rounds(k) + Slot(n) - Slot(m)
  BY Congruent
<1>2. n - m = Rounds(k)
  <2>1. Rounds(k) \in Int /\ Slot(n) \in Int
    BY Multiples, SlotType
  <2> QED BY <2>1, <1>1
<1>3. k > 0
  BY <1>2, Multiples, SizeAssumption
<1> QED BY <1>2, <1>3, Multiples, SizeAssumption

\* ring_buffer_dequeue leaves the slot to the ticket one round later.
LEMMA NextRound == \A n \in Nat : Slot(n + Size) = Slot(n)
<1> TAKE n \in Nat
<1>1. n + Size \in Nat
  BY SizeAssumption
<1>2. PICK k \in Int : (n + Size) - n = Rounds(k) + Slot(n + Size) - Slot(n)
  BY <1>1, Congruent
<1>3. /\ Slot(n) \in Nat /\ Slot(n) < Size
      /\ Slot(n + Size) \in Nat /\ Slot(n + Size) < Size
  BY <1>1, SlotType
<1>4. PICK j \in Int : j = k - 1
  OBVIOUS
<1>5. Rounds(j) = Rounds(k) - Size /\ Rounds(k) \in Int
  <2>1. Rounds(k - 1) = Rounds(k) - Rounds(1)
    BY Multiples
  <2> QED BY <1>4, <2>1, Multiples
<1>6. Rounds(j) > - Size /\ Rounds(j) < Size
  BY <1>2, <1>3, <1>5, SizeAssumption
<1>7. j = 0
  <2>1. (j > 0 => Rounds(j) >= Size) /\ (j < 0 => Rounds(j) <= - Size)
    BY Multiples
  <2>2. Rounds(j) \in Int
    BY Multiples
  <2> QED BY <1>6, <2>1, <2>2, SizeAssumption
<1>8. Rounds(k) = Size
  BY <1>4, <1>7, Multiples
<1> QED BY <1>2, <1>3, <1>8, SizeAssumption

\* n and n + 1 as sequence numbers mean different things: the ring has more
\* than one slot.
LEMMA Adjacent == \A n \in Nat : Slot(n + 1) # Slot(n)
  BY Apart, SizeAssumption

(***************************************************************************)
(* The sequence number of the slot of a ticket                             *)
(***************************************************************************)
\* What seq says of the slot of ticket n: it belongs to n or to a ticket at
\* least a round away, and it cannot mean a put and a get at once.
LEMMA Position ==
    ASSUME TypeOK, NEW n \in Nat
    PROVE  /\ Slot(n) \in Slots /\ seq[Slot(n)] \in Nat
           /\ EmptySlot(Slot(n)) =>
                /\ seq[Slot(n)] > n => seq[Slot(n)] >= n + Size
                /\ seq[Slot(n)] < n => seq[Slot(n)] + Size <= n
           /\ ~EmptySlot(Slot(n)) =>
                /\ seq[Slot(n)] > 0
                /\ seq[Slot(n)] - 1 > n => seq[Slot(n)] - 1 >= n + Size
                /\ seq[Slot(n)] - 1 < n => seq[Slot(n)] - 1 + Size <= n
           /\ seq[Slot(n)] = n => EmptySlot(Slot(n))
           /\ seq[Slot(n)] = n + 1 => ~EmptySlot(Slot(n))
<1>1. Slot(n) \in Slots /\ seq[Slot(n)] \in Nat
  BY SlotType DEF TypeOK
<1>2. PICK s \in Nat : s = seq[Slot(n)]
  BY <1>1
<1>3. ASSUME EmptySlot(Slot(n))
      PROVE  (s > n => s >= n + Size) /\ (s < n => s + Size <= n)
  BY <1>2, <1>3, Apart DEF EmptySlot
<1>4. ASSUME ~EmptySlot(Slot(n))
      PROVE  /\ s > 0
             /\ s - 1 > n => s - 1 >= n + Size
             /\ s - 1 < n => s - 1 + Size <= n
  <2>1. s > 0 /\ Slot(s - 1) = Slot(n) /\ s - 1 \in Nat
    BY <1>1, <1>2, <1>4 DEF TypeOK, FullSlot
  <2> QED BY <2>1, Apart
<1>5. s = n => EmptySlot(Slot(n))
  BY <1>2 DEF EmptySlot
<1>6. s = n + 1 => ~EmptySlot(Slot(n))
  BY <1>2, Adjacent DEF EmptySlot
<1> QED BY <1>1, <1>2, <1>3, <1>4, <1>5, <1>6

\* The next ticket of a put is not written, the next one of a get not taken.
LEMMA Fresh ==
    ASSUME TypeOK, SlotBounds
    PROVE  ~Written(tail) /\ ~Taken(head)
<1>1. tail \in Nat /\ head \in Nat
  BY DEF TypeOK
<1>2. ~Written(tail)
  BY <1>1, Position, SizeAssumption DEF SlotBounds, Written
<1>3. ~Taken(head)
  <2>1. seq[Slot(head)] # head + Size \/ EmptySlot(Slot(head))
    BY <1>1, NextRound, SizeAssumption DEF EmptySlot
  <2> QED BY <1>1, <2>1, Position, SizeAssumption DEF SlotBounds, Taken
<1> QED BY <1>2, <1>3

\* Two threads in a slot are one: from the invariant, and so in every state.
LEMMA Tearless == IInv => NoTearing
<1> SUFFICES ASSUME IInv, NEW t \in Threads, NEW u \in Threads,
                    pc[t] \in Copies, pc[u] \in Copies,
                    Slot(ticket[t]) = Slot(ticket[u])
             PROVE  t = u
  BY DEF NoTearing
<1>1. ticket[t] \in Nat /\ ticket[u] \in Nat
  BY DEF IInv, TypeOK
<1>2. /\ EmptyFor(t) => EmptySlot(Slot(ticket[t]))
      /\ FullFor(t) => ~EmptySlot(Slot(ticket[t]))
      /\ EmptyFor(u) => EmptySlot(Slot(ticket[u]))
      /\ FullFor(u) => ~EmptySlot(Slot(ticket[u]))
  BY <1>1, Position DEF IInv, EmptyFor, FullFor
<1>3. CASE pc[t] \in {"write", "publish"}
  <2>1. EmptyFor(t)
    BY <1>3 DEF IInv, TicketsExact
  <2>2. pc[u] \in {"write", "publish"} /\ EmptyFor(u)
    BY <1>2, <2>1 DEF IInv, TicketsExact, Copies
  <2>3. ticket[t] = ticket[u]
    BY <2>1, <2>2 DEF EmptyFor
  <2> QED BY <1>3, <2>2, <2>3 DEF IInv, TicketsUnique, Puts
<1>4. CASE pc[t] \in {"read", "release"}
  <2>1. FullFor(t)
    BY <1>4 DEF IInv, TicketsExact
  <2>2. pc[u] \in {"read", "release"} /\ FullFor(u)
    BY <1>2, <2>1 DEF IInv, TicketsExact, Copies
  <2>3. ticket[t] = ticket[u]
    BY <1>1, <2>1, <2>2 DEF FullFor
  <2> QED BY <1>4, <2>2, <2>3 DEF IInv, TicketsUnique, Gets
<1> QED BY <1>3, <1>4 DEF Copies

(***************************************************************************)
(* IInv is inductive                                                       *)
(***************************************************************************)
\* ring_buffer_init
LEMMA InitIInv == Init => IInv
<1> SUFFICES ASSUME Init PROVE IInv
  OBVIOUS
<1>1. \A i \in Slots : i \in Nat /\ i < Size /\ Slot(i) = i
  BY SizeAssumption DEF Slots, Slot
<1>2. TypeOK
  BY <1>1 DEF Init, TypeOK, EmptySlot
<1>3. SlotBounds
  BY <1>1, SizeAssumption DEF Init, SlotBounds, EmptySlot
<1>4. TicketsExact /\ TicketsUnique
  BY DEF Init, TicketsExact, TicketsUnique, Puts, Gets
<1>5. NothingLost
  BY DEF Init, NothingLost
<1>6. Contents
  BY <1>1 DEF Init, Contents, EmptySlot, Puts
<1> QED BY <1>2, <1>3, <1>4, <1>5, <1>6 DEF IInv

\* Every step that touches neither a counter nor a sequence number.
LEMMA LocalInv ==
    ASSUME IInv, NEW t \in Threads,
           \/ SlotEmpty(t) \/ TryEnqueue(t) \/ TestEmpty(t) \/ Write(t)
           \/ SlotFull(t) \/ TryDequeue(t) \/ TestFull(t) \/ Read(t)
    PROVE  IInv'
<1> USE DEF SlotEmpty, TryEnqueue, TestEmpty, Write, SlotFull, TryDequeue,
            TestFull, Read, At, Goto, Draws, Holds, Ends
<1>1. UNCHANGED <<head, tail, seq>>
  OBVIOUS
<1>2. \A u \in Threads : ticket[u] \in Nat /\ Slot(ticket[u]) \in Slots
  BY SlotType DEF IInv, TypeOK
<1>3. TypeOK'
  BY <1>1, <1>2 DEF IInv, TypeOK, EmptySlot, FullSlot, Puts, Gets
<1>4. SlotBounds'
  BY <1>1 DEF IInv, SlotBounds, EmptySlot
<1>5. TicketsExact'
  BY <1>1, <1>2 DEF IInv, TypeOK, TicketsExact, Puts, Gets, Written, Taken, EmptyFor, FullFor
<1>6. TicketsUnique'
  BY DEF IInv, TypeOK, TicketsUnique, Puts, Gets
<1>7. NothingLost'
  <2>1. \A u \in Threads : /\ pc[u] \in Puts => pc'[u] \in Puts /\ ticket'[u] = ticket[u]
                           /\ pc[u] \in Gets => pc'[u] \in Gets /\ ticket'[u] = ticket[u]
    BY DEF IInv, TypeOK, Puts, Gets
  <2> QED BY <1>1, <2>1 DEF IInv, NothingLost, Written, Taken
<1>8. Contents'
  <2>1. CASE Write(t)
    <3>1. Slot(ticket[t]) \in Slots /\ EmptySlot(Slot(ticket[t]))
      BY <1>2, <2>1, Position DEF IInv, TypeOK, TicketsExact, EmptyFor
    <3>2. \A u \in Threads \ {t} :
            pc[u] \in {"publish", "release"} => Slot(ticket[u]) # Slot(ticket[t])
      BY <2>1, Tearless DEF NoTearing, Copies
    <3> QED BY <1>1, <1>2, <2>1, <3>1, <3>2 DEF IInv, TypeOK, Contents, Puts, EmptySlot
  <2>2. CASE ~Write(t)
    <3>1. UNCHANGED buf
      BY <2>2
    <3>2. pc[t] = "read" => item'[t] = buf[Slot(ticket[t])]
      BY <2>2 DEF IInv, TypeOK
    <3> QED BY <1>1, <1>2, <2>2, <3>1, <3>2 DEF IInv, TypeOK, Contents, Puts, EmptySlot
  <2> QED BY <2>1, <2>2
<1> QED BY <1>3, <1>4, <1>5, <1>6, <1>7, <1>8 DEF IInv

\* A ticket is drawn from tail: by ring_buffer_enqueue, or by the compare and
\* swap of ring_buffer_try_enqueue.
LEMMA DrawPutInv ==
    ASSUME IInv, NEW t \in Threads, Enqueue(t) \/ CasTail(t)
    PROVE  IInv'
<1> USE DEF Enqueue, CasTail, At, Goto, Draws, Holds, Ends
<1>1. UNCHANGED <<head, seq, buf>> /\ tail \in Nat /\ tail' \in {tail, tail + 1}
  BY DEF IInv, TypeOK
<1>2. \A u \in Threads : ticket[u] \in Nat /\ Slot(ticket[u]) \in Slots
  BY SlotType DEF IInv, TypeOK
<1>3. TypeOK'
  BY <1>1, <1>2 DEF IInv, TypeOK, EmptySlot, FullSlot, Puts, Gets
<1>4. SlotBounds'
  BY <1>1, SizeAssumption DEF IInv, TypeOK, SlotBounds, EmptySlot
<1>5. \A u \in Threads \ {t} : pc'[u] = pc[u] /\ ticket'[u] = ticket[u] /\ item'[u] = item[u]
  BY DEF IInv, TypeOK
<1>6. CASE pc'[t] \in Puts
  <2>1. /\ ticket'[t] = tail /\ tail' = tail + 1 /\ item'[t] \in Values
        /\ pc'[t] \in {"putWait", "write"} /\ pc[t] \notin Puts
    BY <1>1, <1>6 DEF IInv, TypeOK, Puts, Contents
  <2>2. ~Written(tail)
    BY Fresh DEF IInv
  <2>3. pc'[t] = "write" => seq[Slot(tail)] = tail
    BY <2>1 DEF IInv, TypeOK, TicketsExact, EmptyFor
  <2>4. TicketsExact'
    BY <1>1, <1>2, <1>5, <2>1, <2>2, <2>3
       DEF IInv, TicketsExact, Puts, Gets, Written, Taken, EmptyFor, FullFor
  <2>5. TicketsUnique'
    BY <1>1, <1>2, <1>5, <2>1 DEF IInv, TicketsExact, TicketsUnique, Puts, Gets
  <2>6. NothingLost'
    <3>1. pc[t] \notin Gets
      BY <1>6 DEF Puts, Gets
    <3>2. \A n \in 0 .. tail' - 1 : n \in 0 .. tail - 1 \/ n = tail
      BY <1>1, <2>1
    <3> QED BY <1>1, <1>5, <1>6, <2>1, <3>1, <3>2
            DEF IInv, NothingLost, Written, Taken
  <2>7. Contents'
    BY <1>1, <1>5, <2>1 DEF IInv, Contents, Puts, EmptySlot
  <2> QED BY <1>3, <1>4, <2>4, <2>5, <2>6, <2>7 DEF IInv
<1>7. CASE pc'[t] \notin Puts
  <2>1. UNCHANGED tail /\ pc[t] = "putCas" /\ pc'[t] = "idle"
    BY <1>7 DEF IInv, TypeOK, Puts
  <2>2. TicketsExact' /\ TicketsUnique'
    BY <1>1, <1>2, <1>5, <2>1 DEF IInv, TicketsExact, TicketsUnique, Puts, Gets,
         Written, Taken, EmptyFor, FullFor
  <2>3. NothingLost'
    BY <1>1, <1>5, <2>1 DEF IInv, NothingLost, Written, Taken, Puts, Gets
  <2>4. Contents'
    BY <1>1, <1>5, <2>1 DEF IInv, Contents, Puts, EmptySlot
  <2> QED BY <1>3, <1>4, <2>2, <2>3, <2>4 DEF IInv
<1> QED BY <1>6, <1>7

\* A ticket is drawn from head.
LEMMA DrawGetInv ==
    ASSUME IInv, NEW t \in Threads, Dequeue(t) \/ CasHead(t)
    PROVE  IInv'
<1> USE DEF Dequeue, CasHead, At, Goto, Draws, Holds
<1>1. UNCHANGED <<tail, seq, buf>> /\ head \in Nat /\ head' \in {head, head + 1}
  BY DEF IInv, TypeOK
<1>2. \A u \in Threads : ticket[u] \in Nat /\ Slot(ticket[u]) \in Slots
  BY SlotType DEF IInv, TypeOK
<1>3. TypeOK'
  BY <1>1, <1>2 DEF IInv, TypeOK, EmptySlot, FullSlot, Puts, Gets
<1>4. SlotBounds'
  BY <1>1, SizeAssumption DEF IInv, TypeOK, SlotBounds, EmptySlot
<1>5. \A u \in Threads \ {t} : pc'[u] = pc[u] /\ ticket'[u] = ticket[u] /\ item'[u] = item[u]
  BY DEF IInv, TypeOK
<1>6. CASE pc'[t] \in Gets
  <2>1. /\ ticket'[t] = head /\ head' = head + 1
        /\ pc'[t] \in {"getWait", "read"} /\ pc[t] \notin Puts \cup Gets
    BY <1>1, <1>6 DEF IInv, TypeOK, Puts, Gets
  <2>2. ~Taken(head)
    BY Fresh DEF IInv
  <2>3. pc'[t] = "read" => seq[Slot(head)] = head + 1
    BY <2>1 DEF IInv, TypeOK, TicketsExact, FullFor
  <2>4. TicketsExact'
    BY <1>1, <1>2, <1>5, <2>1, <2>2, <2>3
       DEF IInv, TicketsExact, Puts, Gets, Written, Taken, EmptyFor, FullFor
  <2>5. TicketsUnique'
    BY <1>1, <1>2, <1>5, <2>1 DEF IInv, TicketsExact, TicketsUnique, Puts, Gets
  <2>6. NothingLost'
    <3>1. \A n \in 0 .. head' - 1 : n \in 0 .. head - 1 \/ n = head
      BY <1>1, <2>1
    <3> QED BY <1>1, <1>5, <1>6, <2>1, <3>1 DEF IInv, NothingLost, Written, Taken
  <2>7. Contents'
    BY <1>1, <1>5, <2>1 DEF IInv, Contents, Puts, EmptySlot
  <2> QED BY <1>3, <1>4, <2>4, <2>5, <2>6, <2>7 DEF IInv
<1>7. CASE pc'[t] \notin Gets
  <2>1. UNCHANGED head /\ pc[t] = "getCas" /\ pc'[t] = "idle"
    BY <1>7 DEF IInv, TypeOK, Gets
  <2>2. TicketsExact' /\ TicketsUnique'
    BY <1>1, <1>2, <1>5, <2>1 DEF IInv, TicketsExact, TicketsUnique, Puts, Gets,
         Written, Taken, EmptyFor, FullFor
  <2>3. NothingLost'
    BY <1>1, <1>5, <2>1 DEF IInv, NothingLost, Written, Taken, Puts, Gets
  <2>4. Contents'
    BY <1>1, <1>5, <2>1 DEF IInv, Contents, Puts, EmptySlot
  <2> QED BY <1>3, <1>4, <2>2, <2>3, <2>4 DEF IInv
<1> QED BY <1>6, <1>7

\* The store of ticket + 1 hands a written slot to the get with that ticket.
LEMMA PublishInv ==
    ASSUME IInv, NEW t \in Threads, Publish(t)
    PROVE  IInv'
<1> DEFINE n == ticket[t]
           i == Slot(n)
<1> USE DEF At, Goto, Holds, Ends
<1>1. /\ pc[t] = "publish" /\ n \in Nat /\ i \in Slots
      /\ n < tail /\ seq[i] = n /\ head \in Nat /\ tail \in Nat
  BY SlotType DEF Publish, IInv, TypeOK, TicketsExact, Puts, EmptyFor
<1>2. /\ UNCHANGED <<head, tail, buf, ticket>>
      /\ seq' = [seq EXCEPT ![i] = n + 1]
      /\ pc' = [pc EXCEPT ![t] = "idle"] /\ item' = [item EXCEPT ![t] = NoValue]
  BY DEF Publish
<1>3. EmptySlot(i) /\ Slot(n + 1) # i
  BY <1>1, Adjacent DEF EmptySlot
<1>4. \A k \in Slots : /\ k # i => seq'[k] = seq[k]
                       /\ seq'[k] \in Nat /\ seq'[k] >= seq[k]
  BY <1>1, <1>2 DEF IInv, TypeOK
<1>5. seq'[i] = n + 1
  BY <1>1, <1>2 DEF IInv, TypeOK
<1>6. \A u \in Threads : ticket[u] \in Nat /\ Slot(ticket[u]) \in Slots
  BY SlotType DEF IInv, TypeOK
<1>7. \A u \in Threads \ {t} :
        /\ pc'[u] = pc[u] /\ ticket'[u] = ticket[u] /\ item'[u] = item[u]
        /\ pc[u] \in Puts => ticket[u] # n
  BY <1>1, <1>2 DEF IInv, TypeOK, TicketsUnique, Puts
<1>8. TypeOK'
  <2>1. seq' \in [Slots -> Nat]
    BY <1>1, <1>2 DEF IInv, TypeOK
  <2>2. \A k \in Slots : EmptySlot(k)' \/ FullSlot(k)'
    <3>1. FullSlot(i)'
      <4>1. seq'[i] - 1 = n /\ seq'[i] > 0 /\ ticket'[t] = n
        BY <1>1, <1>2, <1>5
      <4> QED BY <4>1, <1>2 DEF FullSlot
    <3> QED BY <1>2, <1>4, <3>1 DEF IInv, TypeOK, EmptySlot, FullSlot
  <2> QED BY <1>2, <2>1, <2>2 DEF IInv, TypeOK
<1>9. SlotBounds'
  <2>1. ~EmptySlot(i)' /\ seq'[i] <= tail' /\ seq'[i] <= head' + Size
    BY <1>1, <1>2, <1>3, <1>5, SizeAssumption DEF IInv, SlotBounds, EmptySlot
  <2> QED BY <1>2, <1>4, <2>1 DEF IInv, SlotBounds, EmptySlot
<1>10. ASSUME NEW u \in Threads, u # t, Slot(ticket[u]) = i
       PROVE  /\ pc[u] \in Puts /\ ~Written(ticket[u]) => n + 1 <= ticket[u]
              /\ pc[u] \in Gets /\ ~Taken(ticket[u]) => n + 1 < ticket[u] + Size
              /\ ~EmptyFor(u) \/ ticket[u] = n
              /\ ~FullFor(u)
  <2>1. pc[u] \in Puts /\ ~Written(ticket[u]) => n + 1 <= ticket[u]
    BY <1>1, <1>6, <1>7, <1>10, Apart, SizeAssumption DEF Written
  <2>2. pc[u] \in Gets /\ ~Taken(ticket[u]) => n + 1 < ticket[u] + Size
    <3>1. Slot(ticket[u] + Size) = i /\ ticket[u] + Size \in Nat
      BY <1>6, <1>10, NextRound, SizeAssumption
    <3> QED BY <1>1, <1>3, <1>6, <1>10, <3>1, SizeAssumption DEF Taken
  <2>3. ~EmptyFor(u) \/ ticket[u] = n
    BY <1>1, <1>10 DEF EmptyFor
  <2>4. ~FullFor(u)
    BY <1>1, <1>6, <1>10, Adjacent DEF FullFor
  <2> QED BY <2>1, <2>2, <2>3, <2>4
<1>11. TicketsExact'
  <2>1. SUFFICES ASSUME NEW u \in Threads, u # t
                 PROVE  /\ pc[u] \in Puts => ~Written(ticket[u])'
                        /\ pc[u] \in Gets => ~Taken(ticket[u])'
                        /\ pc[u] \in {"write", "publish"} => EmptyFor(u)'
                        /\ pc[u] \in {"read", "release"} => FullFor(u)'
                        /\ pc[u] = "putCas" /\ ticket[u] = tail => EmptyFor(u)'
                        /\ pc[u] = "getCas" /\ ticket[u] = head => FullFor(u)'
    BY <1>1, <1>2, <1>7 DEF IInv, TypeOK, TicketsExact, Puts, Gets
  <2>2. CASE Slot(ticket[u]) # i
    BY <1>2, <1>4, <1>6, <1>7, <2>1, <2>2 DEF IInv, TicketsExact, Written, Taken,
       EmptyFor, FullFor
  <2>3. CASE Slot(ticket[u]) = i
    <3>1. pc[u] \in Puts => ~Written(ticket[u])'
      BY <1>1, <1>2, <1>5, <1>6, <1>10, <2>1, <2>3 DEF IInv, TicketsExact, Written
    <3>2. pc[u] \in Gets => ~Taken(ticket[u])'
      BY <1>1, <1>2, <1>5, <1>6, <1>10, <2>1, <2>3, SizeAssumption
         DEF IInv, TicketsExact, Taken
    <3>3. pc[u] \notin {"write", "publish", "read", "release"}
      BY <1>7, <1>10, <2>1, <2>3 DEF IInv, TicketsExact, Puts
    <3>4. ~(pc[u] = "putCas" /\ ticket[u] = tail)
      BY <1>1, <1>10, <2>1, <2>3 DEF IInv, TicketsExact
    <3>5. ~(pc[u] = "getCas" /\ ticket[u] = head)
      BY <1>10, <2>1, <2>3 DEF IInv, TicketsExact
    <3> QED BY <3>1, <3>2, <3>3, <3>4, <3>5
  <2> QED BY <2>2, <2>3
<1>12. TicketsUnique'
  BY <1>2, <1>7 DEF IInv, TypeOK, TicketsUnique, Puts, Gets
<1>13. NothingLost'
  <2>1. Written(n)'
    BY <1>1, <1>2, <1>5 DEF Written
  <2>2. \A m \in Nat : /\ Written(m) => Written(m)'
                       /\ Taken(m) => Taken(m)'
    BY <1>4, SlotType, SizeAssumption DEF IInv, TypeOK, Written, Taken
  <2>3. pc[t] \notin Gets /\ (\A u \in Threads \ {t} : pc'[u] = pc[u])
    BY <1>1, <1>7 DEF Gets
  <2> QED BY <1>1, <1>2, <2>1, <2>2, <2>3 DEF IInv, NothingLost
<1>14. Contents'
  <2>1. buf[i] \in Values
    BY <1>1 DEF IInv, Contents, Puts
  <2>2. \A k \in Slots : EmptySlot(k) /\ k # i => EmptySlot(k)'
    BY <1>4 DEF EmptySlot
  <2> QED BY <1>2, <1>7, <2>1, <2>2 DEF IInv, TypeOK, Contents, Puts
<1> QED BY <1>8, <1>9, <1>11, <1>12, <1>13, <1>14 DEF IInv

\* The store of ticket + buf_size hands a read slot to the put of the next
\* round.
LEMMA ReleaseInv ==
    ASSUME IInv, NEW t \in Threads, Release(t)
    PROVE  IInv'
<1> DEFINE n == ticket[t]
           i == Slot(n)
<1> USE DEF At, Goto
<1>1. /\ pc[t] = "release" /\ n \in Nat /\ i \in Slots
      /\ n < head /\ seq[i] = n + 1 /\ head \in Nat /\ tail \in Nat
  BY SlotType DEF Release, IInv, TypeOK, TicketsExact, Gets, FullFor
<1>2. /\ UNCHANGED <<head, tail, buf, ticket, item>>
      /\ seq' = [seq EXCEPT ![i] = n + Size]
      /\ pc' = [pc EXCEPT ![t] = "idle"]
  BY DEF Release
<1>3. ~EmptySlot(i) /\ Slot(n + Size) = i /\ n + Size \in Nat
  BY <1>1, Position, NextRound, SizeAssumption DEF IInv
<1>4. \A k \in Slots : /\ k # i => seq'[k] = seq[k]
                       /\ seq'[k] \in Nat /\ seq'[k] >= seq[k]
  BY <1>1, <1>2, SizeAssumption DEF IInv, TypeOK
<1>5. seq'[i] = n + Size
  BY <1>1, <1>2 DEF IInv, TypeOK
<1>6. \A u \in Threads : ticket[u] \in Nat /\ Slot(ticket[u]) \in Slots
  BY SlotType DEF IInv, TypeOK
<1>7. \A u \in Threads \ {t} :
        /\ pc'[u] = pc[u] /\ ticket'[u] = ticket[u] /\ item'[u] = item[u]
        /\ pc[u] \in Gets => ticket[u] # n
  BY <1>1, <1>2 DEF IInv, TypeOK, TicketsUnique, Gets
<1>8. TypeOK'
  <2>1. seq' \in [Slots -> Nat]
    BY <1>1, <1>2, <1>3 DEF IInv, TypeOK
  <2>2. \A k \in Slots : EmptySlot(k)' \/ FullSlot(k)'
    <3>1. EmptySlot(i)'
      BY <1>2, <1>3, <1>5 DEF EmptySlot
    <3> QED BY <1>2, <1>4, <3>1 DEF IInv, TypeOK, EmptySlot, FullSlot
  <2> QED BY <1>2, <2>1, <2>2 DEF IInv, TypeOK
<1>9. SlotBounds'
  <2>1. EmptySlot(i)' /\ seq'[i] < head' + Size /\ seq'[i] < tail' + Size
    BY <1>1, <1>2, <1>3, <1>5, SizeAssumption DEF IInv, SlotBounds, EmptySlot
  <2> QED BY <1>2, <1>4, <2>1 DEF IInv, SlotBounds, EmptySlot
<1>10. ASSUME NEW u \in Threads, u # t, Slot(ticket[u]) = i
       PROVE  /\ pc[u] \in Puts /\ ~Written(ticket[u]) => n + Size <= ticket[u]
              /\ pc[u] \in Gets /\ ~Taken(ticket[u]) => n < ticket[u]
              /\ ~EmptyFor(u)
              /\ ~FullFor(u) \/ ticket[u] = n
  <2>1. pc[u] \in Puts /\ ~Written(ticket[u]) => n + Size <= ticket[u]
    BY <1>1, <1>6, <1>10, Apart, SizeAssumption DEF Written
  <2>2. pc[u] \in Gets /\ ~Taken(ticket[u]) => n < ticket[u]
    BY <1>1, <1>6, <1>7, <1>10, Apart, SizeAssumption DEF Taken
  <2>3. ~EmptyFor(u)
    BY <1>1, <1>10, Adjacent DEF EmptyFor
  <2>4. ~FullFor(u) \/ ticket[u] = n
    BY <1>1, <1>6, <1>10 DEF FullFor
  <2> QED BY <2>1, <2>2, <2>3, <2>4
<1>11. TicketsExact'
  <2>1. SUFFICES ASSUME NEW u \in Threads, u # t
                 PROVE  /\ pc[u] \in Puts => ~Written(ticket[u])'
                        /\ pc[u] \in Gets => ~Taken(ticket[u])'
                        /\ pc[u] \in {"write", "publish"} => EmptyFor(u)'
                        /\ pc[u] \in {"read", "release"} => FullFor(u)'
                        /\ pc[u] = "putCas" /\ ticket[u] = tail => EmptyFor(u)'
                        /\ pc[u] = "getCas" /\ ticket[u] = head => FullFor(u)'
    BY <1>1, <1>2, <1>7 DEF IInv, TypeOK, TicketsExact, Puts, Gets
  <2>2. CASE Slot(ticket[u]) # i
    BY <1>2, <1>4, <1>6, <1>7, <2>1, <2>2 DEF IInv, TicketsExact, Written, Taken,
       EmptyFor, FullFor
  <2>3. CASE Slot(ticket[u]) = i
    <3>1. pc[u] \in Puts => ~Written(ticket[u])'
      BY <1>1, <1>2, <1>5, <1>6, <1>10, <2>1, <2>3, SizeAssumption
         DEF IInv, TicketsExact, Written
    <3>2. pc[u] \in Gets => ~Taken(ticket[u])'
      BY <1>1, <1>2, <1>5, <1>6, <1>10, <2>1, <2>3, SizeAssumption
         DEF IInv, TicketsExact, Taken
    <3>3. pc[u] \notin {"write", "publish", "read", "release"}
      BY <1>7, <1>10, <2>1, <2>3 DEF IInv, TicketsExact, Gets
    <3>4. ~(pc[u] = "putCas" /\ ticket[u] = tail)
      BY <1>10, <2>1, <2>3 DEF IInv, TicketsExact
    <3>5. ~(pc[u] = "getCas" /\ ticket[u] = head)
      BY <1>1, <1>10, <2>1, <2>3 DEF IInv, TicketsExact
    <3> QED BY <3>1, <3>2, <3>3, <3>4, <3>5
  <2> QED BY <2>2, <2>3
<1>12. TicketsUnique'
  BY <1>2, <1>7 DEF IInv, TypeOK, TicketsUnique, Puts, Gets
<1>13. NothingLost'
  <2>1. Taken(n)'
    BY <1>1, <1>2, <1>5, SizeAssumption DEF Taken
  <2>2. \A m \in Nat : /\ Written(m) => Written(m)'
                       /\ Taken(m) => Taken(m)'
    BY <1>4, SlotType, SizeAssumption DEF IInv, TypeOK, Written, Taken
  <2>3. pc[t] \notin Puts /\ (\A u \in Threads \ {t} : pc'[u] = pc[u])
    BY <1>1, <1>7 DEF Puts
  <2> QED BY <1>1, <1>2, <2>1, <2>2, <2>3 DEF IInv, NothingLost
<1>14. Contents'
  <2>1. EmptySlot(i)' /\ (\A k \in Slots : EmptySlot(k) /\ k # i => EmptySlot(k)')
    BY <1>2, <1>3, <1>4, <1>5 DEF EmptySlot
  <2> QED BY <1>2, <1>7, <2>1 DEF IInv, TypeOK, Contents, Puts
<1> QED BY <1>8, <1>9, <1>11, <1>12, <1>13, <1>14 DEF IInv

\* With nobody at work every ticket drawn from tail is written and every one
\* drawn from head is taken, so the full slots are those of the unread tickets.
LEMMA Quiescent ==
    ASSUME IInv, \A t \in Threads : pc[t] = "idle"
    PROVE  /\ \A n \in Unread : n \in Nat /\ seq[Slot(n)] = n + 1
           /\ \A i \in Slots : ~EmptySlot(i) =>
                seq[i] - 1 \in Unread /\ Slot(seq[i] - 1) = i
<1>1. head \in Nat /\ tail \in Nat
  BY DEF IInv, TypeOK
<1>2. /\ \A n \in 0 .. tail - 1 : Written(n)
      /\ \A n \in 0 .. head - 1 : Taken(n)
  BY DEF IInv, NothingLost, Puts, Gets
<1>3. ASSUME NEW n \in Unread
      PROVE  n \in Nat /\ seq[Slot(n)] = n + 1
  <2>1. n \in Nat /\ head <= n /\ n < tail
    BY <1>1, <1>3 DEF Unread
  <2>2. Written(n)
    BY <1>1, <1>2, <2>1
  <2>3. ~Taken(n)
    <3>1. seq[Slot(n)] # n + Size \/ EmptySlot(Slot(n))
      BY <2>1, NextRound DEF EmptySlot
    <3> QED BY <1>1, <2>1, <3>1, Position, SizeAssumption DEF IInv, SlotBounds, Taken
  <2> QED BY <2>1, <2>2, <2>3, Position, SizeAssumption DEF IInv, Written, Taken
<1>4. ASSUME NEW i \in Slots, ~EmptySlot(i)
      PROVE  seq[i] - 1 \in Unread /\ Slot(seq[i] - 1) = i
  <2>1. seq[i] > 0 /\ Slot(seq[i] - 1) = i /\ seq[i] \in Nat /\ seq[i] - 1 \in Nat
    BY <1>4 DEF IInv, TypeOK, FullSlot
  <2>2. seq[i] - 1 < tail
    BY <1>1, <1>4, <2>1 DEF IInv, SlotBounds
  <2>3. ~(seq[i] - 1 < head)
    <3>1. SUFFICES ASSUME seq[i] - 1 < head PROVE FALSE
      OBVIOUS
    <3>2. Taken(seq[i] - 1)
      BY <1>1, <1>2, <2>1, <3>1
    <3> QED BY <2>1, <3>2, SizeAssumption DEF Taken
  <2> QED BY <1>1, <2>1, <2>2, <2>3 DEF Unread
<1> QED BY <1>3, <1>4

\* ring_buffer_clear gives every full slot to the put of the next round.
LEMMA ClearedSlots ==
    ASSUME IInv, Clear
    PROVE  \A i \in Slots :
             seq'[i] = IF EmptySlot(i) THEN seq[i] ELSE seq[i] - 1 + Size
<1> SUFFICES ASSUME NEW i \in Slots
             PROVE  seq'[i] = IF EmptySlot(i) THEN seq[i] ELSE seq[i] - 1 + Size
  OBVIOUS
<1>1. \A t \in Threads : pc[t] = "idle"
  BY DEF Clear, At
<1>2. seq'[i] = IF \E n \in Unread : Slot(n) = i
                THEN (CHOOSE n \in Unread : Slot(n) = i) + Size ELSE seq[i]
  BY DEF Clear
<1>3. seq[i] \in Nat
  BY DEF IInv, TypeOK
<1>4. CASE \E n \in Unread : Slot(n) = i
  <2>1. PICK n \in Unread : n = CHOOSE m \in Unread : Slot(m) = i
    BY <1>4
  <2>2. Slot(n) = i
    BY <1>4, <2>1
  <2>3. n \in Nat /\ seq[i] = n + 1
    BY <1>1, <2>2, Quiescent
  <2>4. ~EmptySlot(i)
    BY <2>2, <2>3, Position DEF IInv
  <2> QED BY <1>2, <1>4, <2>1, <2>3, <2>4
<1>5. CASE ~\E n \in Unread : Slot(n) = i
  BY <1>1, <1>2, <1>5, Quiescent
<1> QED BY <1>4, <1>5

LEMMA ClearInv == IInv /\ Clear => IInv'
<1> SUFFICES ASSUME IInv, Clear PROVE IInv'
  OBVIOUS
<1>1. /\ UNCHANGED <<tail, buf, pc, ticket, item>> /\ head' = tail
      /\ \A t \in Threads : pc[t] = "idle"
  BY DEF Clear, At
<1>2. head \in Nat /\ tail \in Nat
  BY DEF IInv, TypeOK
<1>3. ASSUME NEW i \in Slots
      PROVE  /\ seq'[i] \in Nat /\ seq'[i] >= seq[i] /\ EmptySlot(i)'
             /\ seq'[i] < tail + Size
  <2>1. seq[i] \in Nat
    BY DEF IInv, TypeOK
  <2>2. CASE EmptySlot(i)
    <3>1. seq'[i] = seq[i]
      BY <2>2, ClearedSlots
    <3> QED BY <2>1, <2>2, <3>1 DEF EmptySlot, IInv, SlotBounds
  <2>3. CASE ~EmptySlot(i)
    <3>1. seq'[i] = seq[i] - 1 + Size
      BY <2>3, ClearedSlots
    <3>2. seq[i] > 0 /\ seq[i] - 1 \in Nat /\ Slot(seq[i] - 1) = i /\ seq[i] <= tail
      BY <2>1, <2>3 DEF IInv, TypeOK, FullSlot, SlotBounds
    <3>3. Slot(seq'[i]) = i
      BY <3>1, <3>2, NextRound
    <3> QED BY <1>2, <2>1, <3>1, <3>2, <3>3, SizeAssumption DEF EmptySlot
  <2> QED BY <2>2, <2>3
<1>4. TypeOK'
  <2>1. seq' \in [Slots -> Nat]
    <3>1. DOMAIN seq' = Slots /\ seq' = [i \in Slots |-> seq'[i]]
      BY DEF Clear
    <3> QED BY <1>3, <3>1
  <2> QED BY <1>1, <1>2, <1>3, <2>1 DEF IInv, TypeOK
<1>5. SlotBounds'
  BY <1>1, <1>3 DEF SlotBounds
<1>6. TicketsExact' /\ TicketsUnique'
  BY <1>1 DEF TicketsExact, TicketsUnique, Puts, Gets
<1>7. NothingLost'
  <2>1. \A n \in Nat : /\ Written(n) => Written(n)'
                       /\ Taken(n) => Taken(n)'
    BY <1>3, SlotType, SizeAssumption DEF IInv, TypeOK, Written, Taken
  <2>2. \A n \in 0 .. tail - 1 : Written(n)'
    BY <1>1, <1>2, <2>1 DEF IInv, NothingLost, Puts
  <2>3. ASSUME NEW n \in 0 .. tail - 1 PROVE Taken(n)'
    <3>1. CASE n < head
      BY <1>1, <1>2, <2>1, <2>3, <3>1 DEF IInv, NothingLost, Gets
    <3>2. CASE n >= head
      <4>1. n \in Unread /\ n \in Nat
        BY <1>2, <2>3, <3>2 DEF Unread
      <4>2. seq[Slot(n)] = n + 1 /\ ~EmptySlot(Slot(n)) /\ Slot(n) \in Slots
        BY <1>1, <4>1, Quiescent, Position DEF IInv
      <4>3. seq'[Slot(n)] = n + Size
        BY <4>1, <4>2, ClearedSlots, SizeAssumption
      <4> QED BY <4>1, <4>3, SizeAssumption DEF Taken
    <3> QED BY <1>2, <2>3, <3>1, <3>2
  <2> QED BY <1>1, <2>2, <2>3 DEF NothingLost
<1>8. Contents'
  BY <1>1, <1>3 DEF Contents, Puts
<1> QED BY <1>4, <1>5, <1>6, <1>7, <1>8 DEF IInv

\* Every step preserves IInv.
THEOREM NextIInv == IInv /\ [Next]_vars => IInv'
<1> SUFFICES ASSUME IInv, [Next]_vars PROVE IInv'
  OBVIOUS
<1>1. CASE Clear
  BY <1>1, ClearInv
<1>2. ASSUME NEW t \in Threads, Call(t) \/ GoesOn(t)
      PROVE  IInv'
  BY <1>2, LocalInv, DrawPutInv, DrawGetInv, PublishInv, ReleaseInv DEF Call, GoesOn
<1>3. CASE UNCHANGED vars
  BY <1>3 DEF vars, IInv, TypeOK, EmptySlot, FullSlot, SlotBounds, TicketsExact,
     TicketsUnique, NothingLost, Contents, Written, Taken, EmptyFor, FullFor
<1> QED BY <1>1, <1>2, <1>3 DEF Next

\* IInv holds in every reachable state.
THEOREM Invariance == Spec => []IInv
  BY InitIInv, NextIInv, PTL DEF Spec

\* head, tail, seq and the threads keep their types, and the sequence number of
\* a slot always names a ticket of that slot.
THEOREM TypeCorrect == Spec => []TypeOK
<1>1. IInv => TypeOK
  BY DEF IInv
<1> QED BY <1>1, Invariance, PTL

\* At most one thread copies into or out of a slot: the memcpys of
\* ring_buffer_enqueue and ring_buffer_dequeue never race.
THEOREM NeverTorn == Spec => []NoTearing
  BY Tearless, Invariance, PTL

\* Every ticket that was drawn is used, or a thread is on its way to use it.
THEOREM NoneLost == Spec => []NothingLost
<1>1. IInv => NothingLost
  BY DEF IInv
<1> QED BY <1>1, Invariance, PTL

(***************************************************************************)
(* RingBuffer implements TicketQueue                                       *)
(***************************************************************************)
\* The operation of the abstract queue a thread is in, by its pc.
LEMMA BusinessIs ==
    ASSUME NEW t \in Threads
    PROVE  /\ pc[t] \in Puts => Business(t) =
                [role |-> "put", ticket |-> ticket[t], val |-> item[t]]
           /\ pc[t] \in Gets => Business(t) =
                [role |-> "get", ticket |-> ticket[t], val |-> NoValue]
           /\ pc[t] \in {"putTest", "putCas", "getTest", "getCas"} =>
                Business(t) = Queue!Rest(NoValue)
           /\ pc[t] = "idle" => Business(t) = Queue!Rest(item[t])
  BY DEF Business, Puts, Gets, Queue!Rest

\* ring_buffer_init gives the empty queue.
LEMMA InitMaps == Init => Queue!QueueInit
<1> SUFFICES ASSUME Init PROVE Queue!QueueInit
  OBVIOUS
<1>1. FullTickets = {}
  <2>1. \A i \in Slots : Slot(i) = i /\ seq[i] = i
    BY SizeAssumption DEF Slots, Slot, Init
  <2> QED BY <2>1 DEF FullTickets, EmptySlot
<1>2. \A t \in Threads : Business(t) = Queue!Rest(NoValue)
  BY BusinessIs DEF Init
<1> QED BY <1>1, <1>2 DEF Init, Queue!QueueInit

\* The other threads' operations, seen from the abstract queue.
LEMMA OthersStay ==
    ASSUME IInv, NEW t \in Threads, NEW b,
           \A u \in Threads \ {t} : /\ pc'[u] = pc[u] /\ ticket'[u] = ticket[u]
                                    /\ item'[u] = item[u],
           Business(t)' = b
    PROVE  [u \in Threads |-> Business(u)]' =
             [[u \in Threads |-> Business(u)] EXCEPT ![t] = b]
<1>1. \A u \in Threads \ {t} : Business(u)' = Business(u)
  BY DEF Business, Puts, Gets
<1> QED BY <1>1

\* Steps that draw no ticket and hand over no slot: the abstract queue at most
\* forgets a result.
LEMMA LocalMaps ==
    ASSUME IInv, NEW t \in Threads,
           \/ SlotEmpty(t) \/ TryEnqueue(t) \/ TestEmpty(t) \/ Write(t)
           \/ SlotFull(t) \/ TryDequeue(t) \/ TestFull(t) \/ Read(t)
    PROVE  Queue!Forget(t) \/ UNCHANGED Queue!queueVars
<1> USE DEF SlotEmpty, TryEnqueue, TestEmpty, Write, SlotFull, TryDequeue,
            TestFull, Read, At, Goto, Draws, Holds, Ends
<1>1. UNCHANGED <<head, tail, seq>>
  OBVIOUS
<1>2. \A u \in Threads \ {t} :
        pc'[u] = pc[u] /\ ticket'[u] = ticket[u] /\ item'[u] = item[u]
  BY DEF IInv, TypeOK
<1>3. UNCHANGED FullTickets
  <2>1. CASE Write(t)
    <3>1. Slot(ticket[t]) \in Slots /\ EmptySlot(Slot(ticket[t]))
      BY <2>1, Position DEF IInv, TypeOK, TicketsExact, EmptyFor
    <3>2. \A k \in Slots : ~EmptySlot(k) => buf'[k] = buf[k]
      BY <2>1, <3>1 DEF IInv, TypeOK
    <3> QED BY <1>1, <3>2 DEF FullTickets, EmptySlot
  <2>2. CASE ~Write(t)
    BY <1>1, <2>2 DEF FullTickets, EmptySlot
  <2> QED BY <2>1, <2>2
<1>4. CASE TryEnqueue(t) \/ TryDequeue(t)
  <2>1. Business(t)' = Queue!Rest(NoValue)
    BY <1>4 DEF IInv, TypeOK, Business, Puts, Gets, Queue!Rest
  <2>2. Business(t).role = "idle"
    BY <1>4 DEF Business, Puts, Gets
  <2>3. [u \in Threads |-> Business(u)]' =
          [[u \in Threads |-> Business(u)] EXCEPT ![t] = Queue!Rest(NoValue)]
    BY <1>2, <2>1, OthersStay
  <2> QED BY <1>1, <1>3, <2>2, <2>3 DEF Queue!Forget, Queue!Is, Queue!Becomes
<1>5. CASE ~(TryEnqueue(t) \/ TryDequeue(t))
  <2>1. Business(t)' = Business(t)
    BY <1>5 DEF IInv, TypeOK, Contents, Business, Puts, Gets
  <2>2. [u \in Threads |-> Business(u)]' = [u \in Threads |-> Business(u)]
    BY <1>2, <2>1 DEF Business, Puts, Gets
  <2> QED BY <1>1, <1>3, <2>2 DEF Queue!queueVars
<1> QED BY <1>4, <1>5

\* Drawing a ticket of tail is the abstract claim of a put.
LEMMA DrawPutMaps ==
    ASSUME IInv, NEW t \in Threads, Enqueue(t) \/ CasTail(t)
    PROVE  Queue!ClaimPut(t) \/ UNCHANGED Queue!queueVars
<1> USE DEF Enqueue, CasTail, At, Goto, Draws, Holds, Ends
<1>1. /\ UNCHANGED <<head, seq, buf>>
      /\ \A u \in Threads \ {t} :
           pc'[u] = pc[u] /\ ticket'[u] = ticket[u] /\ item'[u] = item[u]
  BY DEF IInv, TypeOK
<1>2. UNCHANGED FullTickets
  BY <1>1 DEF FullTickets, EmptySlot
<1>3. Business(t).role = "idle"
  BY DEF Business, Puts, Gets
<1>4. CASE pc'[t] \in Puts
  <2>1. PICK v \in Values : v = item'[t]
    BY <1>4 DEF IInv, TypeOK, Contents, Puts
  <2>2. tail' = tail + 1 /\ ticket'[t] = tail
    BY <1>4 DEF IInv, TypeOK, Puts
  <2>3. Business(t)' = [role |-> "put", ticket |-> tail, val |-> v]
    <3>1. Business(t)' = [role |-> "put", ticket |-> ticket'[t], val |-> item'[t]]
      BY <1>4 DEF Business, Puts, Gets
    <3> QED BY <2>1, <2>2, <3>1
  <2>4. [u \in Threads |-> Business(u)]' =
          [[u \in Threads |-> Business(u)]
             EXCEPT ![t] = [role |-> "put", ticket |-> tail, val |-> v]]
    BY <1>1, <2>3, OthersStay
  <2> QED BY <1>1, <1>2, <1>3, <2>2, <2>4 DEF Queue!ClaimPut, Queue!Is, Queue!Becomes
<1>5. CASE pc'[t] \notin Puts
  <2>1. UNCHANGED tail /\ Business(t)' = Business(t)
    BY <1>5 DEF IInv, TypeOK, Business, Puts, Gets
  <2>2. [u \in Threads |-> Business(u)]' = [u \in Threads |-> Business(u)]
    BY <1>1, <2>1 DEF Business, Puts, Gets
  <2> QED BY <1>1, <1>2, <2>1, <2>2 DEF Queue!queueVars
<1> QED BY <1>4, <1>5

\* Drawing a ticket of head is the abstract claim of a get.
LEMMA DrawGetMaps ==
    ASSUME IInv, NEW t \in Threads, Dequeue(t) \/ CasHead(t)
    PROVE  Queue!ClaimGet(t) \/ UNCHANGED Queue!queueVars
<1> USE DEF Dequeue, CasHead, At, Goto, Draws, Holds
<1>1. /\ UNCHANGED <<tail, seq, buf>>
      /\ \A u \in Threads \ {t} :
           pc'[u] = pc[u] /\ ticket'[u] = ticket[u] /\ item'[u] = item[u]
  BY DEF IInv, TypeOK
<1>2. UNCHANGED FullTickets
  BY <1>1 DEF FullTickets, EmptySlot
<1>3. Business(t).role = "idle"
  BY DEF Business, Puts, Gets
<1>4. CASE pc'[t] \in Gets
  <2>1. head' = head + 1 /\ ticket'[t] = head
    BY <1>4 DEF IInv, TypeOK, Gets
  <2>2. Business(t)' = [role |-> "get", ticket |-> head, val |-> NoValue]
    BY <1>4, <2>1 DEF Business, Puts, Gets
  <2>3. [u \in Threads |-> Business(u)]' =
          [[u \in Threads |-> Business(u)]
             EXCEPT ![t] = [role |-> "get", ticket |-> head, val |-> NoValue]]
    BY <1>1, <2>2, OthersStay
  <2> QED BY <1>1, <1>2, <1>3, <2>1, <2>3 DEF Queue!ClaimGet, Queue!Is, Queue!Becomes
<1>5. CASE pc'[t] \notin Gets
  <2>1. UNCHANGED head /\ Business(t)' = Business(t)
    BY <1>5 DEF IInv, TypeOK, Contents, Business, Puts, Gets
  <2>2. [u \in Threads |-> Business(u)]' = [u \in Threads |-> Business(u)]
    BY <1>1, <2>1 DEF Business, Puts, Gets
  <2> QED BY <1>1, <1>2, <2>1, <2>2 DEF Queue!queueVars
<1> QED BY <1>4, <1>5

\* The store of ticket + 1 fills the ticket with the element of the put.
LEMMA PublishMaps ==
    ASSUME IInv, NEW t \in Threads, Publish(t)
    PROVE  Queue!Fill(t)
<1> DEFINE n == ticket[t]
           i == Slot(n)
<1>1. /\ pc[t] = "publish" /\ n \in Nat /\ i \in Slots /\ seq[i] = n
      /\ buf[i] = item[t] /\ EmptySlot(i)
  BY SlotType, Position DEF Publish, At, IInv, TypeOK, TicketsExact, Contents, EmptyFor
<1>2. /\ UNCHANGED <<head, tail, buf, ticket>>
      /\ seq' = [seq EXCEPT ![i] = n + 1]
      /\ pc' = [pc EXCEPT ![t] = "idle"] /\ item' = [item EXCEPT ![t] = NoValue]
  BY DEF Publish, Goto, Holds, Ends
<1>3. /\ \A u \in Threads \ {t} :
           pc'[u] = pc[u] /\ ticket'[u] = ticket[u] /\ item'[u] = item[u]
      /\ pc'[t] = "idle" /\ item'[t] = NoValue
  BY <1>2 DEF IInv, TypeOK
<1>4. FullTickets' = FullTickets \cup {<<n, item[t]>>}
  <2>1. \A k \in Slots \ {i} : seq'[k] = seq[k]
    BY <1>2 DEF IInv, TypeOK
  <2>2. seq'[i] - 1 = n /\ seq'[i] = n + 1
    BY <1>1, <1>2 DEF IInv, TypeOK
  <2>3. Slot(seq'[i]) # i
    BY <1>1, <2>2, Adjacent
  <2> QED BY <1>1, <1>2, <2>1, <2>2, <2>3 DEF FullTickets, EmptySlot
<1>5. Business(t) = [role |-> "put", ticket |-> n, val |-> item[t]]
  <2>1. pc[t] \in Puts
    BY <1>1 DEF Puts
  <2> QED BY <2>1, BusinessIs
<1>6. Business(t)' = Queue!Rest(NoValue)
  BY <1>3 DEF Business, Puts, Gets, Queue!Rest
<1>7. [u \in Threads |-> Business(u)]' =
        [[u \in Threads |-> Business(u)] EXCEPT ![t] = Queue!Rest(NoValue)]
  BY <1>3, <1>6, OthersStay
<1> QED BY <1>2, <1>4, <1>5, <1>7 DEF Queue!Fill, Queue!Is, Queue!Becomes

\* The store of ticket + buf_size ends the get with the element of its ticket.
LEMMA ReleaseMaps ==
    ASSUME IInv, NEW t \in Threads, Release(t)
    PROVE  Queue!Get(t)
<1> DEFINE n == ticket[t]
           i == Slot(n)
           v == item[t]
<1>1. /\ pc[t] = "release" /\ n \in Nat /\ i \in Slots /\ seq[i] = n + 1
      /\ buf[i] = v /\ ~EmptySlot(i) /\ v \in Values
  BY SlotType, Position DEF Release, At, IInv, TypeOK, TicketsExact, Contents, FullFor
<1>2. /\ UNCHANGED <<head, tail, buf, ticket, item>>
      /\ seq' = [seq EXCEPT ![i] = n + Size]
      /\ pc' = [pc EXCEPT ![t] = "idle"]
  BY DEF Release, Goto
<1>3. /\ \A u \in Threads \ {t} :
           pc'[u] = pc[u] /\ ticket'[u] = ticket[u] /\ item'[u] = item[u]
      /\ pc'[t] = "idle" /\ item'[t] = v
  BY <1>2 DEF IInv, TypeOK
<1>4. /\ <<n, v>> \in FullTickets
      /\ FullTickets' = FullTickets \ {<<n, v>>}
  <2>1. \A k \in Slots \ {i} : seq'[k] = seq[k]
    BY <1>2 DEF IInv, TypeOK
  <2>2. seq[i] - 1 = n /\ seq'[i] = n + Size /\ Slot(seq'[i]) = i
    BY <1>1, <1>2, NextRound DEF IInv, TypeOK
  <2>3. \A k \in Slots : ~EmptySlot(k) /\ seq[k] - 1 = n => k = i
    BY DEF IInv, TypeOK, FullSlot
  <2>4. \A k \in Slots : EmptySlot(k)' <=> EmptySlot(k) \/ k = i
    BY <1>1, <2>1, <2>2 DEF EmptySlot
  <2>5. <<n, v>> \in FullTickets
    BY <1>1, <2>2 DEF FullTickets
  <2>6. ASSUME NEW k \in Slots, ~EmptySlot(k), k # i
        PROVE  <<seq[k] - 1, buf[k]>> # <<n, v>>
    BY <2>3, <2>6
  <2> QED BY <1>1, <1>2, <2>1, <2>2, <2>4, <2>5, <2>6 DEF FullTickets
<1>5. Business(t) = [role |-> "get", ticket |-> n, val |-> NoValue]
  BY <1>1 DEF Business, Puts, Gets
<1>6. Business(t)' = Queue!Rest(v)
  BY <1>3 DEF Business, Puts, Gets, Queue!Rest
<1>7. [u \in Threads |-> Business(u)]' =
        [[u \in Threads |-> Business(u)] EXCEPT ![t] = Queue!Rest(v)]
  BY <1>3, <1>6, OthersStay
<1>8. UNCHANGED <<tail, head>>
  BY <1>2
<1>9. Queue!Is(t, "get")
  <2>1. Business(t).role = "get"
    BY <1>5
  <2> QED BY <2>1 DEF Queue!Is
<1>10. Business(t).ticket = n
  BY <1>5
<1>11. Queue!Becomes(t, Queue!Rest(v))
  BY <1>7 DEF Queue!Becomes
<1>12. /\ <<Business(t).ticket, v>> \in FullTickets
       /\ FullTickets' = FullTickets \ {<<Business(t).ticket, v>>}
  BY <1>4, <1>10
<1>13. v \in Values
  BY <1>1
<1> HIDE DEF n, i, v
<1> QED BY <1>8, <1>9, <1>11, <1>12, <1>13 DEF Queue!Get

\* ring_buffer_clear empties the abstract queue.
LEMMA ClearMaps == IInv /\ Clear => Queue!Empty
<1> SUFFICES ASSUME IInv, Clear PROVE Queue!Empty
  OBVIOUS
<1>1. /\ UNCHANGED <<tail, buf, pc, ticket, item>> /\ head' = tail
      /\ \A t \in Threads : pc[t] = "idle"
  BY DEF Clear, At
<1>2. \A i \in Slots : EmptySlot(i)'
  <2>1. SUFFICES ASSUME NEW i \in Slots PROVE Slot(seq'[i]) = i
    BY DEF EmptySlot
  <2>2. CASE EmptySlot(i)
    BY <2>2, ClearedSlots DEF EmptySlot
  <2>3. CASE ~EmptySlot(i)
    <3>1. seq[i] \in Nat /\ seq[i] > 0 /\ seq[i] - 1 \in Nat /\ Slot(seq[i] - 1) = i
      BY <2>3 DEF IInv, TypeOK, FullSlot
    <3> QED BY <2>3, <3>1, ClearedSlots, NextRound
  <2> QED BY <2>2, <2>3
<1>3. FullTickets' = {}
  BY <1>2 DEF FullTickets
<1>4. \A t \in Threads : Business(t).role = "idle" /\ Business(t)' = Business(t)
  BY <1>1 DEF Business, Puts, Gets
<1> QED BY <1>1, <1>3, <1>4 DEF Queue!Empty, Queue!Is

\* The ring buffer is a ticket queue: the element of the put with ticket n goes
\* to the get with ticket n, once, for any number of threads and slots.
THEOREM Refinement == Spec => ImplementsTicketQueue
<1>1. IInv /\ [Next]_vars => [Queue!QueueNext]_(Queue!queueVars)
  <2> SUFFICES ASSUME IInv, [Next]_vars
               PROVE  Queue!QueueNext \/ UNCHANGED Queue!queueVars
    OBVIOUS
  <2>1. CASE Clear
    BY <2>1, ClearMaps DEF Queue!QueueNext
  <2>2. ASSUME NEW t \in Threads, Call(t) \/ GoesOn(t)
        PROVE  Queue!QueueNext \/ UNCHANGED Queue!queueVars
    BY <2>2, LocalMaps, DrawPutMaps, DrawGetMaps, PublishMaps, ReleaseMaps
       DEF Call, GoesOn, Queue!QueueNext
  <2>3. CASE UNCHANGED vars
    BY <2>3 DEF vars, Queue!queueVars, FullTickets, Business, EmptySlot, Puts, Gets
  <2> QED BY <2>1, <2>2, <2>3 DEF Next
<1> QED
  BY <1>1, InitMaps, Invariance, PTL DEF Spec, ImplementsTicketQueue, Queue!QueueSpec
=============================================================================
