----------------------------- MODULE Criticality -----------------------------
(***************************************************************************)
(* Mode changes: how the criticality level of one core becomes that of its *)
(* processor and of the system (handle_mode_change, handle_running_job,    *)
(* ipc_broadcast_criticality_change, ipc_receive_completion_messages).     *)
(*                                                                         *)
(* Every core has a level of its own, every processor an atomic one that   *)
(* its cores and its timer load and store without a lock.  An announcement *)
(* is one packet to every processor.  The others get it later or never.    *)
(* The sender gets it back at once, over the loopback interface; that is   *)
(* an assumption, as the code does not look at the result of sendto.       *)
(***************************************************************************)
EXTENDS Integers

CONSTANTS
    Procs, Cores,
    MaxLevel        \* MAX_CRITICALITY_LEVELS - 1

ASSUME LevelAssumption == MaxLevel \in Nat

VARIABLES
    system,     \* processor -> system_criticality_level
    local,      \* core -> local_criticality_level
    pc,         \* core -> where it is in scheduler_tick
    new,        \* core -> the level it has loaded or chosen
    inbox,      \* processor -> the levels in its socket
    flight      \* <<destination, level>>

vars == <<system, local, pc, new, inbox, flight>>

Levels == 0 .. MaxLevel
CoreIds == Procs \X Cores

Init ==
    /\ system = [p \in Procs |-> 0]
    /\ local = [c \in CoreIds |-> 0]
    /\ pc = [c \in CoreIds |-> "begin"]
    /\ new = [c \in CoreIds |-> 0]
    /\ inbox = [p \in Procs |-> {}]
    /\ flight = {}

Proc(c)    == c[1]
At(c, s)   == pc[c] = s
Goto(c, s) == pc' = [pc EXCEPT ![c] = s]

-----------------------------------------------------------------------------
(***************************************************************************)
(* The tick of a core.  The level is loaded twice: once for the test, once *)
(* for the argument of handle_mode_change.                                 *)
(***************************************************************************)
\* mutant: a core does not look at the processor's level
Deaf(c) ==
    /\ At(c, "begin") /\ Goto(c, "work")
    /\ UNCHANGED <<system, local, new, inbox, flight>>

Test(c) ==
    /\ At(c, "begin")
    /\ Goto(c, IF local[c] = system[Proc(c)] THEN "work" ELSE "load")
    /\ UNCHANGED <<system, local, new, inbox, flight>>

Load(c) ==
    /\ At(c, "load") /\ Goto(c, "adopt")
    /\ new' = [new EXCEPT ![c] = system[Proc(c)]]
    /\ UNCHANGED <<system, local, inbox, flight>>

\* handle_mode_change stores the level, whatever it has become meanwhile.
Store(c) ==
    /\ system' = [system EXCEPT ![Proc(c)] = new[c]]
    /\ local' = [local EXCEPT ![c] = new[c]]

Adopt(c) ==
    /\ At(c, "adopt") /\ Goto(c, "work") /\ Store(c)
    /\ UNCHANGED <<new, inbox, flight>>

\* mutant: without IP_MULTICAST_LOOP
ToOthers(c, level) ==
    /\ flight' = flight \cup ((Procs \ {Proc(c)}) \X {level})
    /\ UNCHANGED inbox

\* mutant: the packet does not leave the processor
ToSelf(c, level) ==
    /\ inbox' = [inbox EXCEPT ![Proc(c)] = @ \cup {level}]
    /\ UNCHANGED flight

\* ipc_broadcast_criticality_change
Broadcast(c, level) ==
    /\ inbox' = [inbox EXCEPT ![Proc(c)] = @ \cup {level}]
    /\ flight' = flight \cup ((Procs \ {Proc(c)}) \X {level})

\* handle_running_job: the job is over its budget of this level.  The new one
\* is the first that allows for the time used, or the old one if none does.
Overrun(c) ==
    /\ At(c, "work") /\ Goto(c, "raise")
    /\ \E level \in local[c] .. MaxLevel :
         /\ new' = [new EXCEPT ![c] = level]
         /\ Broadcast(c, level)
    /\ UNCHANGED <<system, local>>

Raise(c) ==
    /\ At(c, "raise") /\ Goto(c, "end") /\ Store(c)
    /\ UNCHANGED <<new, inbox, flight>>

\* Within its budget, idle, or in a low power state.
Work(c) ==
    /\ At(c, "work") /\ Goto(c, "end")
    /\ UNCHANGED <<system, local, new, inbox, flight>>

-----------------------------------------------------------------------------
(***************************************************************************)
(* The timer and the network                                               *)
(***************************************************************************)
\* mutant: the last packet wins
ReceiveAny(p) ==
    /\ \A c \in {p} \X Cores : At(c, "end")
    /\ \E level \in inbox[p] \cup (IF inbox[p] = {} THEN {system[p]} ELSE {}) :
         system' = [system EXCEPT ![p] = level]
    /\ inbox' = [inbox EXCEPT ![p] = {}]
    /\ pc' = [c \in CoreIds |-> IF Proc(c) = p THEN "begin" ELSE pc[c]]
    /\ UNCHANGED <<local, new, flight>>

\* The timer takes the packets that raise the level, between two barriers.
Receive(p) ==
    /\ \A c \in {p} \X Cores : At(c, "end")
    /\ \E level \in inbox[p] \cup {system[p]} :
         /\ \A l \in inbox[p] \cup {system[p]} : l <= level
         /\ system' = [system EXCEPT ![p] = level]
    /\ inbox' = [inbox EXCEPT ![p] = {}]
    /\ pc' = [c \in CoreIds |-> IF Proc(c) = p THEN "begin" ELSE pc[c]]
    /\ UNCHANGED <<local, new, flight>>

\* A packet that is lost stays in flight for ever.
Deliver(m) ==
    /\ m \in flight /\ flight' = flight \ {m}
    /\ inbox' = [inbox EXCEPT ![m[1]] = @ \cup {m[2]}]
    /\ UNCHANGED <<system, local, pc, new>>

Packets == Procs \X Levels

Core(c) == \/ Test(c) \/ Load(c) \/ Adopt(c)
           \/ Overrun(c) \/ Raise(c) \/ Work(c)

Next == \/ \E c \in CoreIds : Core(c)
        \/ \E p \in Procs : Receive(p)
        \/ \E m \in Packets : Deliver(m)

Spec == Init /\ [][Next]_vars

\* Threads are scheduled and sent packets arrive; no job need overrun.
FairSpec ==
    /\ Spec
    /\ \A c \in CoreIds : WF_vars(Core(c))
    /\ \A p \in Procs : WF_vars(Receive(p))
    /\ \A m \in Packets : WF_vars(Deliver(m))

-----------------------------------------------------------------------------
(***************************************************************************)
(* Properties                                                              *)
(***************************************************************************)
\* The types; a job that overruns never lowers the level of its core.
TypeOK ==
    /\ system \in [Procs -> Levels] /\ local \in [CoreIds -> Levels]
    /\ pc \in [CoreIds -> {"begin", "load", "adopt", "work", "raise", "end"}]
    /\ new \in [CoreIds -> Levels]
    /\ \A c \in CoreIds : pc[c] = "raise" => local[c] <= new[c]
    /\ inbox \in [Procs -> SUBSET Levels] /\ flight \in SUBSET Packets

\* A core that begins a tick is not above its processor, although another core
\* may have overwritten the processor's level with one that was out of date:
\* the sender's own packet restores it before the next tick.
Covered == \A c \in CoreIds : pc[c] = "begin" => local[c] <= system[Proc(c)]

\* No core ever goes back to a lower level, whatever the other processors' packets
\* do: the budgets and the discarded jobs of a mode change are never taken back.
\* (That a processor's own packets come back is assumed: see the module's head.)
NeverFalls == [][\A c \in CoreIds : local[c] <= local'[c]]_vars

\* A level is announced by a core that is about to adopt it: nobody is at a
\* level that is not on its way to everybody else, or there already.
HighestKnown ==
    \A c \in CoreIds, p \in Procs :
        \/ local[c] <= system[p]
        \/ \E level \in local[c] .. MaxLevel :
             level \in inbox[p] \/ <<p, level>> \in flight

\* With packets that arrive, all cores of the system come to one level.
Agreement == <>[](\A c, d \in CoreIds : local[c] = local[d])

\* When the network is quiet and every core has looked at the level of its
\* processor in the tick it is in, all cores of the system are at one level, and
\* so are their processors: what is left behind by stores that overwrite each
\* other is always still in a packet.
Quiet == /\ flight = {} /\ \A p \in Procs : inbox[p] = {}
         /\ \A c \in CoreIds : pc[c] \in {"work", "end"}

QuietMeansAgreed ==
    Quiet => \A c, d \in CoreIds : local[c] = local[d] /\ local[c] = system[Proc(d)]

(***************************************************************************)
(* The inductive strengthening of Covered and NeverFalls                   *)
(***************************************************************************)
\* The next receive brings a level of at least v; it does, or v is reached.
Sent(p, v)  == \E l \in inbox[p] : v <= l
Heard(p, v) == v <= system[p] \/ Sent(p, v)

\* A core that is about to store, and one that has looked at the level in this
\* tick: what either will store or has adopted.
Stores(c) == pc[c] \in {"adopt", "raise"}
Looked(c) == pc[c] \notin {"begin", "load"}
Aim(c)    == IF Stores(c) THEN new[c] ELSE local[c]

\* A core that has not loaded the level yet is below all that its processor's
\* other cores have adopted or will store in this tick.
NotAbove ==
    \A c, d \in CoreIds :
        Proc(c) = Proc(d) /\ pc[c] \in {"begin", "load"} =>
            /\ local[c] <= system[Proc(c)]
            /\ Stores(d) => local[c] <= new[d]
            /\ pc[d] \in {"work", "end"} => local[c] <= local[d]

\* Every level that a core has adopted or is going to store is the processor's,
\* or comes back with the next receive.
Remembered ==
    \A c \in CoreIds :
        /\ Heard(Proc(c), local[c])
        /\ Stores(c) => local[c] <= new[c] /\ Heard(Proc(c), new[c])
        /\ pc[c] = "raise" => new[c] \in inbox[Proc(c)]

\* A store overwrites a higher level only when that comes back.
Restored ==
    \A c, d \in CoreIds :
        Proc(c) = Proc(d) /\ Looked(c) =>
            /\ system[Proc(c)] <= Aim(c) \/ Sent(Proc(c), system[Proc(c)])
            /\ Stores(d) => new[d] <= Aim(c) \/ Sent(Proc(c), new[d])

IInv == TypeOK /\ NotAbove /\ Remembered /\ Restored
=============================================================================
