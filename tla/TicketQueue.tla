---------------------------- MODULE TicketQueue ----------------------------
(***************************************************************************)
(* What a ring buffer promises, without slots or sequence numbers: puts    *)
(* and gets draw tickets in order, a put fills its ticket once, and the    *)
(* get with the same number receives that value, once.  RingBuffer         *)
(* implements this module with a fixed number of slots.                    *)
(***************************************************************************)
EXTENDS Naturals

CONSTANTS Threads, Values, NoValue

VARIABLES
    next,       \* the next ticket of a put
    first,      \* the next ticket of a get
    full,       \* the filled tickets, as <<ticket, value>>
    busy        \* thread -> its operation; val of an idle thread is its result

queueVars == <<next, first, full, busy>>

Rest(v) == [role |-> "idle", ticket |-> 0, val |-> v]

QueueInit ==
    /\ next = 0 /\ first = 0 /\ full = {}
    /\ busy = [t \in Threads |-> Rest(NoValue)]

Is(t, role)  == busy[t].role = role
Becomes(t, b) == busy' = [busy EXCEPT ![t] = b]

ClaimPut(t) ==
    /\ Is(t, "idle") /\ next' = next + 1
    /\ \E v \in Values :
         Becomes(t, [role |-> "put", ticket |-> next, val |-> v])
    /\ UNCHANGED <<first, full>>

Fill(t) ==
    /\ Is(t, "put")
    /\ full' = full \cup {<<busy[t].ticket, busy[t].val>>}
    /\ Becomes(t, Rest(NoValue))
    /\ UNCHANGED <<next, first>>

ClaimGet(t) ==
    /\ Is(t, "idle") /\ first' = first + 1
    /\ Becomes(t, [role |-> "get", ticket |-> first, val |-> NoValue])
    /\ UNCHANGED <<next, full>>

Get(t) ==
    /\ Is(t, "get")
    /\ \E v \in Values :
         /\ <<busy[t].ticket, v>> \in full
         /\ full' = full \ {<<busy[t].ticket, v>>}
         /\ Becomes(t, Rest(v))
    /\ UNCHANGED <<next, first>>

\* An operation that fails leaves no result.
Forget(t) ==
    /\ Is(t, "idle") /\ Becomes(t, Rest(NoValue))
    /\ UNCHANGED <<next, first, full>>

\* Everything that waits is thrown away, with nobody at work.
Empty ==
    /\ \A t \in Threads : Is(t, "idle")
    /\ full' = {} /\ first' = next
    /\ UNCHANGED <<next, busy>>

QueueNext ==
    \/ Empty
    \/ \E t \in Threads : \/ ClaimPut(t) \/ Fill(t)
                          \/ ClaimGet(t) \/ Get(t) \/ Forget(t)

QueueSpec == QueueInit /\ [][QueueNext]_queueVars
=============================================================================
