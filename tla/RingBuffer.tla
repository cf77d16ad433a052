----------------------------- MODULE RingBuffer -----------------------------
(***************************************************************************)
(* lib/ring_buffer.h: the bounded multi-producer, multi-consumer queue of  *)
(* the migration requests, acknowledgements, messages and log lines.       *)
(*                                                                         *)
(* One action is one atomic operation on head, tail or a slot's sequence   *)
(* number, or one memcpy of an element.  seq[i] = ticket says that slot i  *)
(* is empty and belongs to the put with that ticket; seq[i] = ticket + 1   *)
(* that it is full and belongs to the get with that ticket.                *)
(***************************************************************************)
EXTENDS Integers

CONSTANTS
    Threads, Values, NoValue,
    Size,           \* buf_size
    MaxTickets      \* bound: tickets drawn from each counter

\* ring_buffer_init refuses fewer than three slots.
ASSUME SizeAssumption    == Size \in Nat /\ Size >= 3
ASSUME NoValueAssumption == NoValue \notin Values
ASSUME BoundAssumption   == MaxTickets \in Nat

VARIABLES
    head, tail,     \* the next ticket of a get, of a put
    seq, buf,       \* slot -> its sequence number, its element
    pc,             \* thread -> the part of the operation it is in
    ticket,         \* thread -> its local head or tail
    item            \* thread -> its element: *elem of the call

vars == <<head, tail, seq, buf, pc, ticket, item>>

Slots   == 0 .. Size - 1
Slot(n) == n % Size

Init ==
    /\ head = 0 /\ tail = 0
    /\ seq = [i \in Slots |-> i]
    /\ buf = [i \in Slots |-> NoValue]
    /\ pc = [t \in Threads |-> "idle"]
    /\ ticket = [t \in Threads |-> 0]
    /\ item = [t \in Threads |-> NoValue]

At(t, s)   == pc[t] = s
Goto(t, s) == pc' = [pc EXCEPT ![t] = s]

Draws(t, n)  == ticket' = [ticket EXCEPT ![t] = n]
Holds(t, v)  == item' = [item EXCEPT ![t] = v]
\* What a thread compares its slot's sequence number with.
EmptyFor(t) == seq[Slot(ticket[t])] = ticket[t]
FullFor(t)  == seq[Slot(ticket[t])] = ticket[t] + 1

-----------------------------------------------------------------------------
(***************************************************************************)
(* ring_buffer_enqueue draws a ticket and spins until the slot is its own. *)
(***************************************************************************)
Enqueue(t) ==
    /\ At(t, "idle") /\ tail < MaxTickets
    /\ Draws(t, tail) /\ tail' = tail + 1
    /\ \E v \in Values : Holds(t, v)
    /\ Goto(t, "putWait")
    /\ UNCHANGED <<head, seq, buf>>

\* mutant: a full ring is reported after the ticket was drawn
GiveUp(t) ==
    /\ At(t, "putWait")
    /\ Goto(t, IF EmptyFor(t) THEN "write" ELSE "idle")
    /\ UNCHANGED <<head, tail, seq, buf, ticket, item>>

SlotEmpty(t) ==
    /\ At(t, "putWait") /\ EmptyFor(t)
    /\ Goto(t, "write")
    /\ UNCHANGED <<head, tail, seq, buf, ticket, item>>

(***************************************************************************)
(* ring_buffer_try_enqueue draws the ticket only when the slot is empty.   *)
(***************************************************************************)
TryEnqueue(t) ==
    /\ At(t, "idle") /\ tail < MaxTickets
    /\ Draws(t, tail)
    /\ \E v \in Values : Holds(t, v)
    /\ Goto(t, "putTest")
    /\ UNCHANGED <<head, tail, seq, buf>>

\* The operation is over and has no element to hand out.
Ends(t) == Goto(t, "idle") /\ Holds(t, NoValue)

\* mutant: the sequence number is not tested
AnySlot(t) ==
    /\ At(t, "putTest")
    /\ Goto(t, "putCas")
    /\ UNCHANGED <<head, tail, seq, buf, ticket, item>>

TestEmpty(t) ==
    /\ At(t, "putTest")
    /\ IF EmptyFor(t) THEN Goto(t, "putCas") /\ UNCHANGED item
                      ELSE Ends(t)
    /\ UNCHANGED <<head, tail, seq, buf, ticket>>

CasTail(t) ==
    /\ At(t, "putCas")
    /\ IF tail = ticket[t]
       THEN tail' = tail + 1 /\ Goto(t, "write") /\ UNCHANGED item
       ELSE Ends(t) /\ UNCHANGED tail
    /\ UNCHANGED <<head, seq, buf, ticket>>

\* The two halves that both enqueues share: memcpy, and the store of seq.
Write(t) ==
    /\ At(t, "write")
    /\ buf' = [buf EXCEPT ![Slot(ticket[t])] = item[t]]
    /\ Goto(t, "publish")
    /\ UNCHANGED <<head, tail, seq, ticket, item>>

Publish(t) ==
    /\ At(t, "publish")
    /\ seq' = [seq EXCEPT ![Slot(ticket[t])] = ticket[t] + 1]
    /\ Ends(t)
    /\ UNCHANGED <<head, tail, buf, ticket>>

-----------------------------------------------------------------------------
(***************************************************************************)
(* ring_buffer_dequeue and ring_buffer_try_dequeue                         *)
(***************************************************************************)
Dequeue(t) ==
    /\ At(t, "idle") /\ head < MaxTickets
    /\ Draws(t, head) /\ head' = head + 1
    /\ Holds(t, NoValue)
    /\ Goto(t, "getWait")
    /\ UNCHANGED <<tail, seq, buf>>

SlotFull(t) ==
    /\ At(t, "getWait") /\ FullFor(t)
    /\ Goto(t, "read")
    /\ UNCHANGED <<head, tail, seq, buf, ticket, item>>

TryDequeue(t) ==
    /\ At(t, "idle")
    /\ Draws(t, head) /\ Holds(t, NoValue)
    /\ Goto(t, "getTest")
    /\ UNCHANGED <<head, tail, seq, buf>>

TestFull(t) ==
    /\ At(t, "getTest")
    /\ Goto(t, IF FullFor(t) THEN "getCas" ELSE "idle")
    /\ UNCHANGED <<head, tail, seq, buf, ticket, item>>

\* mutant: the head is stored, not compared and swapped
StoreHead(t) ==
    /\ At(t, "getCas")
    /\ head' = ticket[t] + 1 /\ Goto(t, "read")
    /\ UNCHANGED <<tail, seq, buf, ticket, item>>

CasHead(t) ==
    /\ At(t, "getCas")
    /\ IF head = ticket[t]
       THEN head' = head + 1 /\ Goto(t, "read")
       ELSE Goto(t, "idle") /\ UNCHANGED head
    /\ UNCHANGED <<tail, seq, buf, ticket, item>>

Read(t) ==
    /\ At(t, "read")
    /\ Holds(t, buf[Slot(ticket[t])])
    /\ Goto(t, "release")
    /\ UNCHANGED <<head, tail, seq, buf, ticket>>

Release(t) ==
    /\ At(t, "release")
    /\ seq' = [seq EXCEPT ![Slot(ticket[t])] = ticket[t] + Size]
    /\ Goto(t, "idle")
    /\ UNCHANGED <<head, tail, buf, ticket, item>>

(***************************************************************************)
(* ring_buffer_clear.  The timer thread clears the queue of the incoming   *)
(* messages between two barriers, while nobody else is at work on it.      *)
(***************************************************************************)
Unread == head .. tail - 1

Clear ==
    /\ \A t \in Threads : At(t, "idle")
    /\ seq' = [i \in Slots |->
                 IF \E n \in Unread : Slot(n) = i
                 THEN (CHOOSE n \in Unread : Slot(n) = i) + Size
                 ELSE seq[i]]
    /\ head' = tail
    /\ UNCHANGED <<tail, buf, pc, ticket, item>>

Call(t)    == Enqueue(t) \/ TryEnqueue(t) \/ Dequeue(t) \/ TryDequeue(t)
GoesOn(t)  == \/ SlotEmpty(t) \/ TestEmpty(t) \/ CasTail(t)
              \/ Write(t) \/ Publish(t)
              \/ SlotFull(t) \/ TestFull(t) \/ CasHead(t)
              \/ Read(t) \/ Release(t)

Next == Clear \/ \E t \in Threads : Call(t) \/ GoesOn(t)

Spec == Init /\ [][Next]_vars

\* A thread that has begun an operation is scheduled; nobody need begin one.
FairSpec == Spec /\ \A t \in Threads : WF_vars(GoesOn(t))

-----------------------------------------------------------------------------
(***************************************************************************)
(* Properties                                                              *)
(***************************************************************************)
Puts   == {"putWait", "write", "publish"}       \* has a ticket of tail
Gets   == {"getWait", "read", "release"}        \* has a ticket of head
Copies == {"write", "publish", "read", "release"}

EmptySlot(i) == Slot(seq[i]) = i
FullSlot(i)  == seq[i] > 0 /\ Slot(seq[i] - 1) = i

\* The types; and a sequence number names a ticket of its own slot, as a put's
\* or as a get's.
TypeOK ==
    /\ head \in Nat /\ tail \in Nat
    /\ seq \in [Slots -> Nat]
    /\ \A i \in Slots : EmptySlot(i) \/ FullSlot(i)
    /\ buf \in [Slots -> Values \cup {NoValue}]
    /\ pc \in [Threads -> Puts \cup Gets \cup {"idle", "putTest", "putCas",
                                               "getTest", "getCas"}]
    /\ ticket \in [Threads -> Nat]
    /\ item \in [Threads -> Values \cup {NoValue}]

\* A slot has one thread at a time that copies into it or out of it, whatever
\* mixture of blocking and non-blocking calls draws the tickets: no element is
\* torn or overwritten before it has been read.
NoTearing ==
    \A t, u \in Threads :
        /\ pc[t] \in Copies /\ pc[u] \in Copies
        /\ Slot(ticket[t]) = Slot(ticket[u])
        => t = u

\* The slot has been filled (emptied) for the put (get) with ticket n.
Written(n) == seq[Slot(n)] > n
Taken(n)   == seq[Slot(n)] >= n + Size

\* Every ticket that was drawn has been used or has a thread that will use it:
\* otherwise the queue would stop for ever at its slot.
NothingLost ==
    /\ \A n \in 0 .. tail - 1 :
         Written(n) \/ \E t \in Threads : pc[t] \in Puts /\ ticket[t] = n
    /\ \A n \in 0 .. head - 1 :
         Taken(n) \/ \E t \in Threads : pc[t] \in Gets /\ ticket[t] = n

\* Nobody spins for ever on a slot whose turn is due: a put gets its slot once
\* a get has drawn the ticket one round before, a get once a put has drawn its
\* ticket.
SlotComes ==
    \A t \in Threads :
        /\ pc[t] = "putWait" /\ ticket[t] < head + Size ~> pc[t] # "putWait"
        /\ pc[t] = "getWait" /\ ticket[t] < tail ~> pc[t] # "getWait"

(***************************************************************************)
(* The inductive strengthening                                             *)
(***************************************************************************)
\* A slot is filled for a ticket that was drawn, after it was emptied for one.
SlotBounds ==
    \A i \in Slots :
        IF EmptySlot(i) THEN seq[i] < head + Size /\ seq[i] < tail + Size
                        ELSE seq[i] <= tail /\ seq[i] <= head + Size

\* A drawn ticket is not used yet, and a thread that copies owns its slot.
TicketsExact ==
    \A t \in Threads :
        /\ pc[t] \in Puts => ticket[t] < tail /\ ~Written(ticket[t])
        /\ pc[t] \in Gets => ticket[t] < head /\ ~Taken(ticket[t])
        /\ pc[t] \in {"write", "publish"} => EmptyFor(t)
        /\ pc[t] \in {"read", "release"} => FullFor(t)
        /\ pc[t] \in {"putTest", "putCas"} => ticket[t] <= tail
        /\ pc[t] \in {"getTest", "getCas"} => ticket[t] <= head
        /\ pc[t] = "putCas" /\ ticket[t] = tail => EmptyFor(t)
        /\ pc[t] = "getCas" /\ ticket[t] = head => FullFor(t)

TicketsUnique ==
    \A t, u \in Threads :
        /\ ticket[t] = ticket[u]
        /\ \/ pc[t] \in Puts /\ pc[u] \in Puts
           \/ pc[t] \in Gets /\ pc[u] \in Gets
        => t = u

\* Where the elements are on their way.
Contents ==
    /\ \A i \in Slots : ~EmptySlot(i) => buf[i] \in Values
    /\ \A t \in Threads :
         /\ pc[t] \in Puts \cup {"putTest", "putCas"} => item[t] \in Values
         /\ pc[t] \in {"getTest", "getCas"} => item[t] = NoValue
         /\ pc[t] = "publish" => buf[Slot(ticket[t])] = item[t]
         /\ pc[t] = "release" => item[t] = buf[Slot(ticket[t])]

IInv == /\ TypeOK /\ SlotBounds /\ TicketsExact /\ TicketsUnique
        /\ NothingLost /\ Contents

(***************************************************************************)
(* The refinement mapping to TicketQueue                                   *)
(***************************************************************************)
FullTickets == {<<seq[i] - 1, buf[i]>> : i \in {k \in Slots : ~EmptySlot(k)}}

Business(t) ==
    CASE pc[t] \in Puts -> [role |-> "put", ticket |-> ticket[t], val |-> item[t]]
      [] pc[t] \in Gets -> [role |-> "get", ticket |-> ticket[t], val |-> NoValue]
      [] OTHER -> [role |-> "idle", ticket |-> 0,
                   val |-> IF pc[t] = "idle" THEN item[t] ELSE NoValue]

Queue == INSTANCE TicketQueue WITH
           next <- tail, first <- head, full <- FullTickets,
           busy <- [t \in Threads |-> Business(t)]

\* Values leave in the order in which they were put, each once and unchanged,
\* and none that was not put: the get with ticket n receives the element of the
\* put with ticket n.
ImplementsTicketQueue == Queue!QueueSpec
=============================================================================
