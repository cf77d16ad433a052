-------------------------- MODULE ProcessorProofs --------------------------
(***************************************************************************)
(* Processor: every core runs every tick once, no processor gets a tick    *)
(* ahead of another one by more than one, and a deadline miss is the last  *)
(* thing a processor does and shows in the exit status.                    *)
(*                                                                         *)
(* The two barriers cut a tick of a processor into three phases.  While    *)
(* the cores are before or at the first barrier the timer has not touched  *)
(* the time (Before); between the barriers the cores have had their tick   *)
(* and the timer has not, or has, advanced the time (Between, After).      *)
(***************************************************************************)
EXTENDS Processor, FiniteSetTheorems, TLAPS

Places == {"loop", "tick", "completion", "met", "work", "received",
           "sync", "synced", "proc", "left"}

Clk(p) == pc[TimerOf(p)]

Before(p) ==
    /\ Clk(p) \in {"loop", "completion", "synced", "proc", "left"}
    /\ \A c \in Cores :
        /\ pc[<<p, c>>] \in {"loop", "tick", "completion", "left"}
        /\ ticks[<<p, c>>] = IF pc[<<p, c>>] = "completion" THEN time[p] + 1
                                                            ELSE time[p]

Between(p) ==
    /\ Clk(p) \in {"met", "work", "received", "left"}
    /\ \A c \in Cores : /\ pc[<<p, c>>] \in {"met", "sync"}
                        /\ ticks[<<p, c>>] = time[p] + 1

After(p) ==
    /\ Clk(p) = "sync"
    /\ \A c \in Cores : /\ pc[<<p, c>>] \in {"met", "sync"}
                        /\ ticks[<<p, c>>] = time[p]

Phase(p) == Before(p) \/ Between(p) \/ After(p)

\* The last tick is the last one for everybody.
InTime(p) ==
    /\ time[p] = TotalTicks => shutdown[p]
    /\ Clk(p) \in {"work", "received"} => time[p] < TotalTicks
    /\ \A c \in Cores : pc[<<p, c>>] = "tick" => time[p] < TotalTicks

\* The tick after a miss does not begin.
Halts(p) ==
    Fatal(p) =>
        \/ time[p] = missed[p]
        \/ /\ time[p] = missed[p] + 1 /\ shutdown[p]
           /\ Clk(p) \notin {"work", "received"}
           /\ \A c \in Cores : /\ ticks[<<p, c>>] = time[p]
                               /\ pc[<<p, c>>] # "tick"

Closed(p) == ~Running(p) => \A c \in Cores : ticks[<<p, c>>] = time[p]

Reported(p) ==
    /\ proc[p] = "succeeded" => ~Fatal(p)
    /\ proc[p] = "reaped" /\ Fatal(p) => main \in {"killing", "draining", "failed"}
    /\ main \in {"succeeded", "failed"} => proc[p] = "reaped"

\* The round of the barrier between processors that a timer is in.
Round(p) == IF Clk(p) \in {"sync", "synced", "proc"} THEN time[p] - 1 ELSE time[p]

Together == \A p, q \in Procs : Round(p) = Round(q)

Part(p) == Phase(p) /\ InTime(p) /\ Halts(p) /\ Closed(p)

IInv ==
    /\ TypeOK
    /\ \A p \in Procs : Part(p) /\ Reported(p)
    /\ Together

-----------------------------------------------------------------------------
(***************************************************************************)
(* Threads and barriers                                                    *)
(***************************************************************************)
\* The threads of a processor: its timer, and others.
LEMMA Names ==
    ASSUME NEW p \in Procs
    PROVE  /\ TimerOf(p) \in Threads /\ TimerOf(p) \in Crew(p)
           /\ Crew(p) \subseteq Threads
           /\ \A c \in Cores : /\ <<p, c>> \in Threads /\ <<p, c>> \in Crew(p)
                               /\ <<p, c>> # TimerOf(p) /\ <<p, c>>[2] # Timer
           /\ \A q \in Procs : q # p =>
                /\ \A u \in Crew(q) : u \in Threads /\ u \notin Crew(p)
                /\ TimerOf(q) # TimerOf(p)
  BY TimerAssumption DEF TimerOf, Crew, Threads

\* A thread of p waits: the barrier stays closed, or all go on.
LEMMA Waiting ==
    ASSUME TypeOK, NEW p \in Procs, NEW t \in Crew(p),
           NEW b \in {"completion", "sync"}, WaitAt(t, b, Crew(p))
    PROVE  /\ pc' \in [Threads -> Places]
           /\ \A q \in Procs : q # p => \A u \in Crew(q) : pc'[u] = pc[u]
           /\ \/ /\ pc'[t] = b
                 /\ \A u \in Crew(p) \ {t} : pc'[u] = pc[u]
              \/ /\ \A u \in Crew(p) \ {t} : pc[u] = b
                 /\ \A u \in Crew(p) : pc'[u] = Behind(u, b)
  <1>1. pc \in [Threads -> Places] /\ t \in Threads /\ Crew(p) \subseteq Threads
    BY Names DEF TypeOK, Places
  <1>2. \A u \in Threads : Behind(u, b) \in Places
    BY DEF Behind, Places
  <1>3. CASE \A u \in Crew(p) \ {t} : pc[u] = b
    <2>1. pc' = [u \in Threads |-> IF u \in Crew(p) THEN Behind(u, b) ELSE pc[u]]
      BY <1>3 DEF WaitAt
    <2>2. QED  BY <1>1, <1>2, <1>3, <2>1, Names
  <1>4. CASE ~ \A u \in Crew(p) \ {t} : pc[u] = b
    <2>1. pc' = [pc EXCEPT ![t] = b]
      BY <1>4 DEF WaitAt
    <2>2. b \in Places
      BY DEF Places
    <2>3. QED  BY <1>1, <2>1, <2>2, Names
  <1>5. QED  BY <1>3, <1>4

\* A thread of p goes somewhere on its own.
LEMMA Going ==
    ASSUME TypeOK, NEW p \in Procs, NEW t \in Crew(p), NEW s \in Places, Goto(t, s)
    PROVE  /\ pc' \in [Threads -> Places]
           /\ \A q \in Procs : q # p => \A u \in Crew(q) : pc'[u] = pc[u]
           /\ pc'[t] = s
           /\ \A u \in Crew(p) \ {t} : pc'[u] = pc[u]
  BY Names DEF TypeOK, Places, Goto

\* What a step leaves alone stays in its phase.
Still(q) ==
    /\ \A u \in Crew(q) : pc'[u] = pc[u]
    /\ time'[q] = time[q] /\ shutdown'[q] = shutdown[q]
    /\ missed'[q] = missed[q] /\ proc'[q] = proc[q]
    /\ \A c \in Cores : ticks'[<<q, c>>] = ticks[<<q, c>>]

LEMMA Rest ==
    ASSUME NEW q \in Procs, Part(q), Still(q)
    PROVE  Part(q)' /\ Round(q)' = Round(q)
  <1>1. /\ Clk(q)' = Clk(q)
        /\ \A c \in Cores : pc'[<<q, c>>] = pc[<<q, c>>]
    BY Names DEF Still, Clk
  <1>2. Phase(q)'
    BY <1>1 DEF Part, Phase, Before, Between, After, Still
  <1>3. InTime(q)'
    BY <1>1 DEF Part, InTime, Still
  <1>4. Halts(q)' /\ Closed(q)'
    BY <1>1 DEF Part, Halts, Closed, Fatal, Running, Still
  <1>5. QED  BY <1>1, <1>2, <1>3, <1>4 DEF Part, Round, Still

\* A step of the threads of one processor that keeps it in its phase and its
\* round keeps the invariant.
LEMMA Combine ==
    ASSUME IInv, TypeOK', NEW p \in Procs, Part(p)', Round(p)' = Round(p),
           \A q \in Procs : q # p => Still(q),
           Running(p), UNCHANGED <<main, proc>>
    PROVE  IInv'
  <1>1. \A q \in Procs : Part(q)' /\ Round(q)' = Round(q)
    BY Rest DEF IInv
  <1>2. Together'
    BY <1>1 DEF IInv, Together
  <1>3. ASSUME NEW q \in Procs PROVE Reported(q)'
    <2>1. CASE q = p
      BY <2>1 DEF IInv, Reported, Running
    <2>2. CASE q # p
      <3>1. Fatal(q)' = Fatal(q)
        BY <2>2 DEF Still, Fatal
      <3>2. QED  BY <3>1 DEF IInv, Reported
    <2>3. QED  BY <2>1, <2>2
  <1>4. QED  BY <1>1, <1>2, <1>3 DEF IInv

LEMMA Openings ==
    ASSUME NEW p \in Procs
    PROVE  /\ \A c \in Cores : /\ Behind(<<p, c>>, "completion") = "met"
                               /\ Behind(<<p, c>>, "sync") = "loop"
           /\ Behind(TimerOf(p), "completion") = "met"
           /\ Behind(TimerOf(p), "sync") = "synced"
           /\ Behind(TimerOf(p), "proc") = "loop"
  BY TimerAssumption DEF Behind, TimerOf

-----------------------------------------------------------------------------
(***************************************************************************)
(* The cores                                                               *)
(***************************************************************************)
LEMMA CoreLoopKeeps ==
    ASSUME IInv, NEW p \in Procs, NEW c \in Cores, CoreLoop(p, c)
    PROVE  IInv'
  <1> DEFINE s == IF shutdown[p] THEN "left" ELSE "tick"
  <1>1. /\ s \in Places /\ Goto(<<p, c>>, s) /\ <<p, c>> \in Crew(p)
        /\ pc[<<p, c>>] = "loop" /\ Running(p)
        /\ UNCHANGED <<time, shutdown, missed, proc, main, ticks>>
    BY Names DEF CoreLoop, At, Places
  <1>2. /\ pc' \in [Threads -> Places]
        /\ \A q \in Procs : q # p => Still(q)
        /\ pc'[<<p, c>>] = s /\ Clk(p)' = Clk(p)
        /\ \A d \in Cores : d # c => pc'[<<p, d>>] = pc[<<p, d>>]
    BY <1>1, Going, Names DEF IInv, Still, Clk
  <1>3. TypeOK'
    BY <1>1, <1>2 DEF IInv, TypeOK, CoreLoop, Places
  <1>4. Phase(p)'
    <2>1. Before(p)
      BY <1>1 DEF IInv, Part, Phase, Between, After
    <2>2. QED  BY <1>1, <1>2, <2>1 DEF Before, Phase
  <1>5. InTime(p)'
    <2>1. InTime(p) /\ time[p] \in 0 .. TotalTicks /\ TotalTicks \in Nat
      BY TicksAssumption DEF IInv, TypeOK, Part
    <2>2. s = "tick" => time[p] < TotalTicks
      BY <2>1 DEF InTime
    <2>3. QED  BY <1>1, <1>2, <2>1, <2>2 DEF InTime
  <1>6. Halts(p)' /\ Closed(p)'
    BY <1>1, <1>2 DEF IInv, Part, Halts, Closed, Fatal, Running
  <1>7. QED
    BY <1>1, <1>2, <1>3, <1>4, <1>5, <1>6, Combine DEF Part, Round

LEMMA TickKeeps ==
    ASSUME IInv, NEW p \in Procs, NEW c \in Cores, Tick(p, c)
    PROVE  IInv'
  <1>1. /\ <<p, c>> \in Crew(p) /\ <<p, c>> \in Procs \X Cores
        /\ WaitAt(<<p, c>>, "completion", Crew(p))
        /\ pc[<<p, c>>] = "tick" /\ Running(p)
        /\ ticks' = [ticks EXCEPT ![<<p, c>>] = @ + 1]
        /\ UNCHANGED <<time, shutdown, proc, main>>
        /\ missed' = missed \/ (~Fatal(p) /\ missed' = [missed EXCEPT ![p] = time[p]])
    BY Names DEF Tick, At
  <1>2. Before(p) /\ time[p] < TotalTicks /\ ticks[<<p, c>>] = time[p]
    BY <1>1 DEF IInv, Part, Phase, Before, Between, After, InTime
  <1>3. /\ pc' \in [Threads -> Places]
        /\ \A q \in Procs : q # p => Still(q)
    BY <1>1, Waiting, Names DEF IInv, Still, TypeOK
  <1>4. TypeOK'
    BY <1>1, <1>2, <1>3, TicksAssumption DEF IInv, TypeOK, Tick, Places
  <1>5. /\ ticks'[<<p, c>>] = time[p] + 1
        /\ \A d \in Cores : d # c => ticks'[<<p, d>>] = ticks[<<p, d>>]
    BY <1>1, <1>2 DEF IInv, TypeOK
  <1>6. Phase(p)' /\ InTime(p)' /\ Round(p)' = Round(p)
    <2>1. CASE /\ pc'[<<p, c>>] = "completion"
               /\ \A u \in Crew(p) \ {<<p, c>>} : pc'[u] = pc[u]
      <3>1. /\ Clk(p)' = Clk(p)
            /\ \A d \in Cores : d # c => pc'[<<p, d>>] = pc[<<p, d>>]
        BY <2>1, Names DEF Clk
      <3>2. Before(p)'
        BY <1>1, <1>2, <1>5, <2>1, <3>1 DEF Before
      <3>3. InTime(p)'
        BY <1>1, <2>1, <3>1 DEF IInv, Part, InTime
      <3>4. QED  BY <1>1, <3>1, <3>2, <3>3 DEF Phase, Round
    <2>2. CASE /\ \A u \in Crew(p) \ {<<p, c>>} : pc[u] = "completion"
               /\ \A u \in Crew(p) : pc'[u] = Behind(u, "completion")
      <3>1. /\ Clk(p) = "completion" /\ Clk(p)' = "met"
            /\ \A d \in Cores : /\ d # c => pc[<<p, d>>] = "completion"
                                /\ pc'[<<p, d>>] = "met"
        BY <2>2, Names, Openings DEF Clk
      <3>2. Between(p)'
        BY <1>1, <1>2, <1>5, <3>1 DEF Before, Between
      <3>3. InTime(p)'
        BY <1>1, <3>1 DEF IInv, Part, InTime
      <3>4. QED  BY <1>1, <3>1, <3>2, <3>3 DEF Phase, Round
    <2>3. QED  BY <1>1, <2>1, <2>2, Waiting DEF IInv
  <1>7. Halts(p)' /\ Closed(p)'
    <2>1. Closed(p)'
      BY <1>1 DEF Closed, Running
    <2>2. Halts(p) /\ missed \in [Procs -> {Never} \cup 0 .. TotalTicks - 1]
      BY DEF IInv, Part, TypeOK
    <2>3. time[p] = missed'[p] \/ ~Fatal(p)'
      <3>1. CASE missed' = missed
        BY <1>1, <2>2, <3>1 DEF Halts, Fatal
      <3>2. CASE missed' = [missed EXCEPT ![p] = time[p]]
        BY <2>2, <3>2
      <3>3. QED  BY <1>1, <3>1, <3>2
    <2>4. QED  BY <1>1, <2>1, <2>3 DEF Halts
  <1>8. QED  BY <1>1, <1>3, <1>4, <1>6, <1>7, Combine DEF Part

LEMMA CoreSyncKeeps ==
    ASSUME IInv, NEW p \in Procs, NEW c \in Cores, CoreSync(p, c)
    PROVE  IInv'
  <1>1. /\ <<p, c>> \in Crew(p)
        /\ WaitAt(<<p, c>>, "sync", Crew(p))
        /\ pc[<<p, c>>] = "met" /\ Running(p)
        /\ UNCHANGED <<time, shutdown, missed, ticks, proc, main>>
    BY Names DEF CoreSync, At
  <1>2. Between(p) \/ After(p)
    BY <1>1 DEF IInv, Part, Phase, Before
  <1>3. /\ pc' \in [Threads -> Places]
        /\ \A q \in Procs : q # p => Still(q)
    BY <1>1, Waiting, Names DEF IInv, Still
  <1>4. TypeOK'
    BY <1>1, <1>3 DEF IInv, TypeOK, CoreSync, Places
  <1>5. Phase(p)' /\ InTime(p)' /\ Halts(p)' /\ Round(p)' = Round(p)
    <2>1. CASE /\ pc'[<<p, c>>] = "sync"
               /\ \A u \in Crew(p) \ {<<p, c>>} : pc'[u] = pc[u]
      <3>1. /\ Clk(p)' = Clk(p)
            /\ \A d \in Cores : d # c => pc'[<<p, d>>] = pc[<<p, d>>]
        BY <2>1, Names DEF Clk
      <3>2. Phase(p)'
        BY <1>1, <1>2, <2>1, <3>1 DEF Phase, Between, After
      <3>3. InTime(p)' /\ Halts(p)'
        BY <1>1, <2>1, <3>1 DEF IInv, Part, InTime, Halts, Fatal
      <3>4. QED  BY <1>1, <3>1, <3>2, <3>3 DEF Round
    <2>2. CASE /\ \A u \in Crew(p) \ {<<p, c>>} : pc[u] = "sync"
               /\ \A u \in Crew(p) : pc'[u] = Behind(u, "sync")
      <3>1. /\ Clk(p) = "sync" /\ Clk(p)' = "synced"
            /\ \A d \in Cores : pc'[<<p, d>>] = "loop"
        BY <2>2, Names, Openings DEF Clk
      <3>2. Before(p)'
        BY <1>1, <1>2, <3>1 DEF Before, Between, After
      <3>3. InTime(p)' /\ Halts(p)'
        BY <1>1, <3>1 DEF IInv, Part, InTime, Halts, Fatal
      <3>4. QED  BY <1>1, <3>1, <3>2, <3>3 DEF Round, Phase
    <2>3. QED  BY <1>1, <2>1, <2>2, Waiting DEF IInv
  <1>6. Closed(p)'
    BY <1>1 DEF Closed, Running
  <1>7. QED  BY <1>1, <1>3, <1>4, <1>5, <1>6, Combine DEF Part

-----------------------------------------------------------------------------
(***************************************************************************)
(* The timer                                                               *)
(***************************************************************************)
\* The timer of p waits for its cores, in the words of the phases.
LEMMA TimerWaits ==
    ASSUME TypeOK, NEW p \in Procs, NEW b \in {"completion", "sync"},
           WaitAt(TimerOf(p), b, Crew(p))
    PROVE  /\ pc' \in [Threads -> Places]
           /\ \A q \in Procs : q # p => \A u \in Crew(q) : pc'[u] = pc[u]
           /\ \/ Clk(p)' = b /\ \A c \in Cores : pc'[<<p, c>>] = pc[<<p, c>>]
              \/ /\ b = "completion" /\ Clk(p)' = "met"
                 /\ \A c \in Cores : /\ pc[<<p, c>>] = "completion"
                                     /\ pc'[<<p, c>>] = "met"
              \/ /\ b = "sync" /\ Clk(p)' = "synced"
                 /\ \A c \in Cores : /\ pc[<<p, c>>] = "sync"
                                     /\ pc'[<<p, c>>] = "loop"
  <1>1. TimerOf(p) \in Crew(p)
    BY Names
  <1>2. CASE /\ pc'[TimerOf(p)] = b
             /\ \A u \in Crew(p) \ {TimerOf(p)} : pc'[u] = pc[u]
    <2>1. Clk(p)' = b /\ \A c \in Cores : pc'[<<p, c>>] = pc[<<p, c>>]
      BY <1>2, Names DEF Clk, TimerOf
    <2>2. QED  BY <1>1, <2>1, Waiting
  <1>3. CASE /\ \A u \in Crew(p) \ {TimerOf(p)} : pc[u] = b
             /\ \A u \in Crew(p) : pc'[u] = Behind(u, b)
    <2>1. Clk(p)' = Behind(TimerOf(p), b)
      BY <1>1, <1>3 DEF Clk, TimerOf
    <2>2. \A c \in Cores : /\ pc[<<p, c>>] = b
                          /\ pc'[<<p, c>>] = Behind(<<p, c>>, b)
      BY <1>3, Names
    <2>3. QED  BY <1>1, <2>1, <2>2, Openings, Waiting
  <1>4. QED  BY <1>1, <1>2, <1>3, Waiting

LEMMA TimerGoes ==
    ASSUME TypeOK, NEW p \in Procs, NEW s \in Places, Goto(TimerOf(p), s)
    PROVE  /\ pc' \in [Threads -> Places]
           /\ \A q \in Procs : q # p => \A u \in Crew(q) : pc'[u] = pc[u]
           /\ Clk(p)' = s /\ \A c \in Cores : pc'[<<p, c>>] = pc[<<p, c>>]
  BY Going, Names DEF Clk, TimerOf

LEMMA TimerLoopKeeps ==
    ASSUME IInv, NEW p \in Procs, TimerLoop(p)
    PROVE  IInv'
  <1>1. /\ Clk(p) = "loop" /\ Running(p)
        /\ UNCHANGED <<time, shutdown, missed, ticks, proc, main, pending,
                       interrupted, mail>>
        /\ \/ Goto(TimerOf(p), "left")
           \/ WaitAt(TimerOf(p), "completion", Crew(p))
    BY DEF TimerLoop, At, Clk, TimerOf
  <1>2. Before(p)
    BY <1>1 DEF IInv, Part, Phase, Between, After
  <1>3. /\ pc' \in [Threads -> Places]
        /\ \A q \in Procs : q # p => \A u \in Crew(q) : pc'[u] = pc[u]
        /\ \/ /\ Clk(p)' \in {"left", "completion"}
              /\ \A c \in Cores : pc'[<<p, c>>] = pc[<<p, c>>]
           \/ /\ Clk(p)' = "met"
              /\ \A c \in Cores : /\ pc[<<p, c>>] = "completion"
                                  /\ pc'[<<p, c>>] = "met"
    BY <1>1, TimerWaits, TimerGoes DEF IInv, Places
  <1>4. TypeOK'
    BY <1>1, <1>3 DEF IInv, TypeOK, Places
  <1>5. \A q \in Procs : q # p => Still(q)
    BY <1>1, <1>3 DEF Still
  <1>6. Phase(p)'
    BY <1>1, <1>2, <1>3 DEF Phase, Before, Between
  <1>7. InTime(p)' /\ Halts(p)'
    BY <1>1, <1>3 DEF IInv, Part, InTime, Halts, Fatal
  <1>8. Closed(p)' /\ Round(p)' = Round(p)
    BY <1>1, <1>3 DEF Closed, Running, Round
  <1>9. QED  BY <1>1, <1>4, <1>5, <1>6, <1>7, <1>8, Combine DEF Part

LEMMA TimerMetKeeps ==
    ASSUME IInv, NEW p \in Procs, TimerMet(p)
    PROVE  IInv'
  <1> DEFINE s == IF shutdown[p] THEN "left" ELSE "work"
  <1>1. /\ Clk(p) = "met" /\ Running(p)
        /\ UNCHANGED <<time, shutdown, missed, ticks, proc, main, pending,
                       interrupted, mail>>
        /\ Goto(TimerOf(p), s) /\ s \in Places
    BY DEF TimerMet, At, Clk, TimerOf, Places
  <1>2. Between(p)
    BY <1>1 DEF IInv, Part, Phase, Before, After
  <1>3. /\ pc' \in [Threads -> Places]
        /\ \A q \in Procs : q # p => \A u \in Crew(q) : pc'[u] = pc[u]
        /\ Clk(p)' = s /\ \A c \in Cores : pc'[<<p, c>>] = pc[<<p, c>>]
    BY <1>1, TimerGoes DEF IInv
  <1>4. TypeOK'
    BY <1>1, <1>3 DEF IInv, TypeOK, Places
  <1>5. \A q \in Procs : q # p => Still(q)
    BY <1>1, <1>3 DEF Still
  <1>6. Phase(p)'
    BY <1>1, <1>2, <1>3 DEF Phase, Between
  <1>7. InTime(p)'
    <2>1. InTime(p) /\ time[p] \in 0 .. TotalTicks /\ TotalTicks \in Nat
      BY TicksAssumption DEF IInv, TypeOK, Part
    <2>2. s = "work" => time[p] < TotalTicks
      BY <2>1 DEF InTime
    <2>3. QED  BY <1>1, <1>3, <2>1, <2>2 DEF InTime
  <1>8. Halts(p)'
    BY <1>1, <1>3 DEF IInv, Part, Halts, Fatal
  <1>9. Closed(p)' /\ Round(p)' = Round(p)
    BY <1>1, <1>3 DEF Closed, Running, Round
  <1>10. QED  BY <1>1, <1>4, <1>5, <1>6, <1>7, <1>8, <1>9, Combine DEF Part

LEMMA ReceiveKeeps ==
    ASSUME IInv, NEW p \in Procs, Receive(p)
    PROVE  IInv'
  <1>1. /\ Clk(p) = "work" /\ Running(p)
        /\ UNCHANGED <<time, shutdown, missed, ticks, proc, main, pending,
                       interrupted>>
        /\ mail' = [mail EXCEPT ![p] = 0]
        /\ Goto(TimerOf(p), "received") /\ "received" \in Places
    BY DEF Receive, At, Clk, TimerOf, Places
  <1>2. Between(p)
    BY <1>1 DEF IInv, Part, Phase, Before, After
  <1>3. /\ pc' \in [Threads -> Places]
        /\ \A q \in Procs : q # p => \A u \in Crew(q) : pc'[u] = pc[u]
        /\ Clk(p)' = "received"
        /\ \A c \in Cores : pc'[<<p, c>>] = pc[<<p, c>>]
    BY <1>1, TimerGoes DEF IInv
  <1>4. TypeOK'
    BY <1>1, <1>3 DEF IInv, TypeOK, Places
  <1>5. \A q \in Procs : q # p => Still(q)
    BY <1>1, <1>3 DEF Still
  <1>6. Phase(p)'
    BY <1>1, <1>2, <1>3 DEF Phase, Between
  <1>7. InTime(p)' /\ Halts(p)'
    BY <1>1, <1>3 DEF IInv, Part, InTime, Halts, Fatal
  <1>8. Closed(p)' /\ Round(p)' = Round(p)
    BY <1>1, <1>3 DEF Closed, Running, Round
  <1>9. QED  BY <1>1, <1>4, <1>5, <1>6, <1>7, <1>8, Combine DEF Part

LEMMA AdvanceKeeps ==
    ASSUME IInv, NEW p \in Procs, Advance(p)
    PROVE  IInv'
  <1>1. /\ Clk(p) = "received" /\ Running(p)
        /\ UNCHANGED <<missed, ticks, proc, main, pending, interrupted>>
        /\ time' = [time EXCEPT ![p] = @ + 1]
        /\ shutdown' = [shutdown EXCEPT ![p] =
                          @ \/ Fatal(p) \/ time[p] + 1 >= TotalTicks]
        /\ mail' = [q \in Procs |-> mail[q] + Cardinality(Cores)]
        /\ WaitAt(TimerOf(p), "sync", Crew(p))
    BY DEF Advance, Send, At, Clk, TimerOf
  <1>2. /\ Between(p) /\ time[p] \in 0 .. TotalTicks /\ time[p] < TotalTicks
        /\ TotalTicks \in Nat
    BY <1>1, TicksAssumption DEF IInv, Part, Phase, Before, After, InTime, TypeOK
  <1>3. /\ pc' \in [Threads -> Places]
        /\ \A q \in Procs : q # p => \A u \in Crew(q) : pc'[u] = pc[u]
        /\ \/ Clk(p)' = "sync" /\ \A c \in Cores : pc'[<<p, c>>] = pc[<<p, c>>]
           \/ Clk(p)' = "synced" /\ \A c \in Cores : pc'[<<p, c>>] = "loop"
    BY <1>1, TimerWaits DEF IInv
  <1>4. /\ time'[p] = time[p] + 1
        /\ Fatal(p) => shutdown'[p]
        /\ time'[p] = TotalTicks => shutdown'[p]
        /\ \A q \in Procs : q # p => time'[q] = time[q] /\ shutdown'[q] = shutdown[q]
    <2>1. time \in [Procs -> 0 .. TotalTicks] /\ shutdown \in [Procs -> BOOLEAN]
      BY DEF IInv, TypeOK
    <2>2. /\ time'[p] = time[p] + 1
          /\ \A q \in Procs : q # p => time'[q] = time[q] /\ shutdown'[q] = shutdown[q]
      BY <1>1, <2>1
    <2>3. shutdown'[p] = (shutdown[p] \/ Fatal(p) \/ time[p] + 1 >= TotalTicks)
      BY <1>1, <2>1
    <2>4. time'[p] = TotalTicks => time[p] + 1 >= TotalTicks
      BY <1>2, <2>2
    <2>5. QED  BY <2>2, <2>3, <2>4
  <1>5. TypeOK'
    <2>1. mail' \in [Procs -> Nat]
      BY <1>1, SizeAssumption, FS_CardinalityType DEF IInv, TypeOK
    <2>2. time' \in [Procs -> 0 .. TotalTicks]
      BY <1>1, <1>2 DEF IInv, TypeOK
    <2>3. shutdown' \in [Procs -> BOOLEAN]
      BY <1>1 DEF IInv, TypeOK, Fatal
    <2>4. QED  BY <1>1, <1>3, <2>1, <2>2, <2>3 DEF IInv, TypeOK, Places
  <1>6. \A q \in Procs : q # p => Still(q)
    BY <1>1, <1>3, <1>4 DEF Still
  <1>7. Phase(p)'
    BY <1>1, <1>2, <1>3, <1>4 DEF Phase, Before, Between, After
  <1>8. InTime(p)'
    <2>1. \A c \in Cores : pc'[<<p, c>>] # "tick"
      BY <1>2, <1>3 DEF Between
    <2>2. QED  BY <1>3, <1>4, <2>1 DEF InTime
  <1>9. Halts(p)'
    <2>1. Fatal(p) => time[p] = missed[p]
      BY <1>1 DEF IInv, Part, Halts
    <2>2. \A c \in Cores : pc'[<<p, c>>] # "tick" /\ ticks[<<p, c>>] = time[p] + 1
      BY <1>2, <1>3 DEF Between
    <2>3. QED  BY <1>1, <1>3, <1>4, <2>1, <2>2 DEF Halts, Fatal
  <1>10. Closed(p)' /\ Round(p)' = Round(p)
    BY <1>1, <1>2, <1>3, <1>4 DEF Closed, Running, Round
  <1>11. QED  BY <1>1, <1>5, <1>6, <1>7, <1>8, <1>9, <1>10, Combine DEF Part

\* The one step that moves threads of all processors: the third barrier.
LEMMA TimerProcKeeps ==
    ASSUME IInv, NEW p \in Procs, TimerProc(p)
    PROVE  IInv'
  <1>1. /\ Clk(p) = "synced" /\ Running(p)
        /\ UNCHANGED <<time, shutdown, missed, ticks, proc, main, pending,
                       interrupted, mail>>
        /\ WaitAt(TimerOf(p), "proc", Timers)
        /\ pc \in [Threads -> Places]
    BY DEF TimerProc, At, Clk, TimerOf, IInv, TypeOK, Places
  <1>2. CASE \A u \in Timers \ {TimerOf(p)} : pc[u] = "proc"
    <2>1. pc' = [u \in Threads |-> IF u \in Timers THEN Behind(u, "proc") ELSE pc[u]]
      BY <1>1, <1>2 DEF WaitAt
    <2>2. /\ \A q \in Procs : Clk(q)' = "loop"
          /\ \A q \in Procs : q # p => Clk(q) = "proc"
          /\ \A q \in Procs, c \in Cores : pc'[<<q, c>>] = pc[<<q, c>>]
      <3>1. \A q \in Procs : TimerOf(q) \in Timers /\ TimerOf(q) \in Threads
        BY Names DEF Timers
      <3>2. \A q \in Procs, c \in Cores : <<q, c>> \notin Timers /\ <<q, c>> \in Threads
        BY Names, TimerAssumption DEF Timers, TimerOf
      <3>3. \A q \in Procs : q # p => TimerOf(q) # TimerOf(p)
        BY DEF TimerOf
      <3>4. \A q \in Procs : Clk(q)' = "loop"
        BY <2>1, <3>1, Openings DEF Clk, TimerOf
      <3>5. \A q \in Procs : q # p => Clk(q) = "proc"
        BY <1>2, <3>1, <3>3 DEF Clk
      <3>6. QED  BY <2>1, <3>2, <3>4, <3>5
    <2>3. pc' \in [Threads -> Places]
      <3>1. \A u \in Threads : Behind(u, "proc") = "loop"
        BY DEF Behind
      <3>2. QED  BY <1>1, <2>1, <3>1 DEF Places
    <2>4. TypeOK'
      BY <1>1, <2>3 DEF IInv, TypeOK, Places
    <2>5. ASSUME NEW q \in Procs PROVE Part(q)'
      <3>1. Before(q)
        BY <1>1, <2>2 DEF IInv, Part, Phase, Between, After
      <3>2. Phase(q)'
        BY <1>1, <2>2, <3>1 DEF Phase, Before
      <3>3. InTime(q)' /\ Halts(q)' /\ Closed(q)'
        BY <1>1, <2>2 DEF IInv, Part, InTime, Halts, Closed, Fatal, Running
      <3>4. QED  BY <3>2, <3>3 DEF Part
    <2>6. Together'
      <3>1. \A q \in Procs : Round(q) = time[q] - 1 /\ Round(q)' = time[q]
        BY <1>1, <2>2 DEF Round
      <3>2. \A q \in Procs : time[q] \in Int
        BY TicksAssumption DEF IInv, TypeOK
      <3>3. QED  BY <3>1, <3>2 DEF IInv, Together
    <2>7. \A q \in Procs : Reported(q)'
      BY <1>1 DEF IInv, Reported, Fatal
    <2>8. QED  BY <2>4, <2>5, <2>6, <2>7 DEF IInv
  <1>3. CASE ~ \A u \in Timers \ {TimerOf(p)} : pc[u] = "proc"
    <2>1. Goto(TimerOf(p), "proc") /\ "proc" \in Places
      BY <1>1, <1>3 DEF WaitAt, Goto, Places
    <2>2. /\ pc' \in [Threads -> Places]
          /\ \A q \in Procs : q # p => \A u \in Crew(q) : pc'[u] = pc[u]
          /\ Clk(p)' = "proc" /\ \A c \in Cores : pc'[<<p, c>>] = pc[<<p, c>>]
      BY <2>1, TimerGoes DEF IInv
    <2>3. TypeOK'
      BY <1>1, <2>2 DEF IInv, TypeOK, Places
    <2>4. \A q \in Procs : q # p => Still(q)
      BY <1>1, <2>2 DEF Still
    <2>5. Phase(p)'
      <3>1. Before(p)
        BY <1>1 DEF IInv, Part, Phase, Between, After
      <3>2. QED  BY <1>1, <2>2, <3>1 DEF Phase, Before
    <2>6. InTime(p)' /\ Halts(p)'
      BY <1>1, <2>2 DEF IInv, Part, InTime, Halts, Fatal
    <2>7. Closed(p)' /\ Round(p)' = Round(p)
      BY <1>1, <2>2 DEF Closed, Running, Round
    <2>8. QED  BY <1>1, <2>3, <2>4, <2>5, <2>6, <2>7, Combine DEF Part
  <1>4. QED  BY <1>2, <1>3

-----------------------------------------------------------------------------
(***************************************************************************)
(* The processes and main                                                  *)
(***************************************************************************)
\* These leave the threads, the time and the misses alone.
LEMMA Outside ==
    ASSUME IInv, TypeOK', UNCHANGED <<pc, time, missed, ticks>>,
           \A q \in Procs : /\ shutdown[q] => shutdown'[q]
                            /\ Closed(q)' /\ Reported(q)'
    PROVE  IInv'
  <1>1. \A q \in Procs : Clk(q)' = Clk(q) /\ Fatal(q)' = Fatal(q)
    BY DEF Clk, Fatal
  <1>2. ASSUME NEW q \in Procs PROVE Part(q)'
    <2>1. Phase(q)'
      BY <1>1 DEF IInv, Part, Phase, Before, Between, After
    <2>2. InTime(q)' /\ Halts(q)'
      BY <1>1 DEF IInv, Part, InTime, Halts
    <2>3. QED  BY <2>1, <2>2 DEF Part
  <1>3. Together'
    BY <1>1 DEF IInv, Together, Round
  <1>4. QED  BY <1>2, <1>3 DEF IInv

LEMMA ProcessKeeps ==
    ASSUME IInv, NEW p \in Procs, Process(p)
    PROVE  IInv'
  <1>1. \A q \in Procs : Part(q) /\ Closed(q) /\ Reported(q)
    BY DEF IInv, Part
  <1>2. CASE Start(p)
    <2>1. TypeOK'
      BY <1>2 DEF Start, IInv, TypeOK
    <2>2. \A q \in Procs : proc'[q] # proc[q] => q = p /\ proc'[q] = "running"
      BY <1>2 DEF Start, IInv, TypeOK
    <2>3. proc[p] = "starting"
      BY <1>2 DEF Start
    <2>4. \A q \in Procs : Closed(q)' /\ Reported(q)'
      BY <1>1, <1>2, <2>2, <2>3 DEF Start, Closed, Reported, Running, Fatal
    <2>5. QED  BY <1>2, <2>1, <2>4, Outside DEF Start
  <1>3. CASE Exit(p)
    <2>1. TypeOK'
      BY <1>3 DEF Exit, IInv, TypeOK
    <2>2. /\ proc'[p] = IF Fatal(p) THEN "failed" ELSE "succeeded"
          /\ \A q \in Procs : q # p => proc'[q] = proc[q]
          /\ proc[p] = "running"
      BY <1>3 DEF Exit, Running, IInv, TypeOK
    <2>3. \A c \in Cores : ticks[<<p, c>>] = time[p]
      <3>1. \A c \in Cores : pc[<<p, c>>] = "left"
        BY <1>3, Names DEF Exit
      <3>2. QED  BY <1>1, <3>1 DEF Part, Phase, Before, Between, After
    <2>4. \A q \in Procs : Closed(q)' /\ Reported(q)'
      BY <1>1, <1>3, <2>2, <2>3 DEF Exit, Closed, Reported, Running, Fatal
    <2>5. QED  BY <1>3, <2>1, <2>4, Outside DEF Exit
  <1>4. CASE Deliver(p)
    <2>1. TypeOK'
      BY <1>4 DEF Deliver, IInv, TypeOK, Running
    <2>2. /\ \A q \in Procs : shutdown[q] => shutdown'[q]
          /\ \A q \in Procs : proc'[q] # proc[q] =>
                                proc[q] = "starting" /\ proc'[q] = "failed"
      BY <1>4 DEF Deliver, IInv, TypeOK
    <2>3. \A q \in Procs : Closed(q)' /\ Reported(q)'
      BY <1>1, <1>4, <2>2 DEF Deliver, Closed, Reported, Running, Fatal
    <2>4. QED  BY <1>4, <2>1, <2>2, <2>3, Outside DEF Deliver
  <1>5. QED  BY <1>2, <1>3, <1>4 DEF Process

LEMMA ParentKeeps ==
    ASSUME IInv, Parent \/ Interrupt
    PROVE  IInv'
  <1>1. \A q \in Procs : Part(q) /\ Closed(q) /\ Reported(q)
    BY DEF IInv, Part
  <1>2. ASSUME NEW p \in Procs, Reap(p) PROVE IInv'
    <2>1. TypeOK'
      BY <1>2 DEF Reap, IInv, TypeOK
    <2>2. /\ proc'[p] = "reaped" /\ proc[p] \in {"succeeded", "failed"}
          /\ \A q \in Procs : q # p => proc'[q] = proc[q]
          /\ main \in {"waiting", "draining"}
          /\ main' = IF main = "waiting" /\ proc[p] = "failed" THEN "killing" ELSE main
      BY <1>2 DEF Reap, IInv, TypeOK
    <2>3. ASSUME NEW q \in Procs PROVE Closed(q)' /\ Reported(q)'
      BY <1>1, <1>2, <2>2 DEF Reap, Closed, Reported, Running, Fatal
    <2>4. QED  BY <1>2, <2>1, <2>3, Outside DEF Reap
  <1>3. CASE Kill
    <2>1. TypeOK'
      BY <1>3 DEF Kill, IInv, TypeOK
    <2>2. \A q \in Procs : Closed(q)' /\ Reported(q)'
      BY <1>1, <1>3 DEF Kill, Closed, Reported, Running, Fatal
    <2>3. QED  BY <1>3, <2>1, <2>2, Outside DEF Kill
  <1>4. CASE Finish
    <2>1. TypeOK'
      BY <1>4 DEF Finish, IInv, TypeOK
    <2>2. \A q \in Procs : /\ proc[q] = "reaped"
                           /\ Fatal(q) => main = "draining"
      BY <1>1, <1>4 DEF Finish, Reported
    <2>3. \A q \in Procs : Closed(q)' /\ Reported(q)'
      BY <1>1, <1>4, <2>2 DEF Finish, Closed, Reported, Running, Fatal
    <2>4. QED  BY <1>4, <2>1, <2>3, Outside DEF Finish
  <1>5. CASE Interrupt
    <2>1. TypeOK'
      BY <1>5 DEF Interrupt, IInv, TypeOK
    <2>2. \A q \in Procs : Closed(q)' /\ Reported(q)'
      BY <1>1, <1>5 DEF Interrupt, Closed, Reported, Running, Fatal
    <2>3. QED  BY <1>5, <2>1, <2>2, Outside DEF Interrupt
  <1>6. QED  BY <1>2, <1>3, <1>4, <1>5 DEF Parent

-----------------------------------------------------------------------------
LEMMA Stutters ==
    ASSUME IInv, UNCHANGED vars
    PROVE  IInv'
  <1>1. TypeOK'
    BY DEF IInv, TypeOK, vars
  <1>2. ASSUME NEW q \in Procs PROVE Closed(q)' /\ Reported(q)'
    <2>1. Closed(q) /\ Reported(q)
      BY DEF IInv, Part
    <2>2. QED  BY <2>1 DEF Closed, Reported, Running, Fatal, vars
  <1>3. QED  BY <1>1, <1>2, Outside DEF vars

LEMMA Begins == Init => IInv
  <1> SUFFICES ASSUME Init PROVE IInv
    OBVIOUS
  <1>1. TypeOK
    <2>1. 0 \in 0 .. TotalTicks
      BY TicksAssumption
    <2>2. /\ time \in [Procs -> 0 .. TotalTicks]
          /\ ticks \in [Procs \X Cores -> 0 .. TotalTicks]
      BY <2>1 DEF Init
    <2>3. /\ pc \in [Threads -> {"loop"}] /\ mail \in [Procs -> Nat]
          /\ missed \in [Procs -> {Never} \cup 0 .. TotalTicks - 1]
          /\ proc \in [Procs -> {"starting"}] /\ shutdown \in [Procs -> BOOLEAN]
      BY DEF Init
    <2>4. QED  BY <2>2, <2>3 DEF Init, TypeOK
  <1>2. ASSUME NEW p \in Procs PROVE Part(p) /\ Reported(p) /\ Round(p) = 0
    <2>1. /\ Clk(p) = "loop" /\ time[p] = 0 /\ ~Fatal(p)
          /\ \A c \in Cores : pc[<<p, c>>] = "loop" /\ ticks[<<p, c>>] = 0
      BY Names DEF Init, Clk, Fatal
    <2>2. Phase(p) /\ InTime(p)
      BY <2>1, TicksAssumption DEF Phase, Before, InTime
    <2>3. Halts(p) /\ Closed(p) /\ Reported(p)
      BY <2>1 DEF Init, Halts, Closed, Reported
    <2>4. QED  BY <2>1, <2>2, <2>3 DEF Part, Round
  <1>3. QED  BY <1>1, <1>2 DEF IInv, Together

\* The phases of the barriers, the rounds and the reports are invariant.
THEOREM Invariance == Spec => []IInv
  <1>1. IInv /\ [Next]_vars => IInv'
    <2> SUFFICES ASSUME IInv, [Next]_vars PROVE IInv'
      OBVIOUS
    <2>1. CASE Parent \/ Interrupt
      BY <2>1, ParentKeeps
    <2>2. ASSUME NEW p \in Procs, Process(p) PROVE IInv'
      BY <2>2, ProcessKeeps
    <2>3. ASSUME NEW p \in Procs, Clock(p) PROVE IInv'
      BY <2>3, TimerLoopKeeps, TimerMetKeeps, ReceiveKeeps, AdvanceKeeps,
         TimerProcKeeps DEF Clock
    <2>4. ASSUME NEW p \in Procs, NEW c \in Cores, Core(p, c) PROVE IInv'
      BY <2>4, CoreLoopKeeps, TickKeeps, CoreSyncKeeps DEF Core
    <2>5. CASE UNCHANGED vars
      BY <2>5, Stutters
    <2>6. QED  BY <2>1, <2>2, <2>3, <2>4, <2>5 DEF Next
  <1>2. QED  BY Begins, <1>1, PTL DEF Spec

\* The types: the time and the cores' ticks end where the simulation does.
THEOREM TypeCorrect == Spec => []TypeOK
  <1>1. IInv => TypeOK
    BY DEF IInv
  <1>2. QED  BY Invariance, <1>1, PTL

\* Every core runs scheduler_tick once for every value of system_time.
THEOREM EveryTickOnce == Spec => []InStep
  <1>1. IInv => InStep
    BY DEF IInv, Part, Phase, Before, Between, After, InStep
  <1>2. QED  BY Invariance, <1>1, PTL

\* The processors' clocks are never more than a tick apart.
THEOREM ClocksTogether == Spec => []LockStep
  <1>1. ASSUME IInv, NEW p \in Procs, NEW q \in Procs PROVE time[p] <= time[q] + 1
    <2>1. time[p] \in Int /\ time[q] \in Int
      BY <1>1, TicksAssumption DEF IInv, TypeOK
    <2>2. Round(p) = Round(q)
      BY <1>1 DEF IInv, Together
    <2>3. QED  BY <2>1, <2>2 DEF Round
  <1>2. IInv => LockStep
    BY <1>1 DEF LockStep
  <1>3. QED  BY Invariance, <1>2, PTL

\* A processor that has ended has completed its last tick on every core.
THEOREM TicksCompleted == Spec => []NoHalfTick
  <1>1. IInv => NoHalfTick
    BY DEF IInv, Part, Closed, NoHalfTick, Ended, Running
  <1>2. QED  BY Invariance, <1>1, PTL

\* No core runs a tick after the one in which a deadline was missed.
THEOREM HaltsAtMiss == Spec => []MissIsLast
  <1>1. ASSUME IInv, NEW p \in Procs, NEW c \in Cores, Fatal(p)
        PROVE  ticks[<<p, c>>] <= missed[p] + 1
    <2>1. time[p] \in Int /\ missed[p] \in Int
      BY <1>1, TicksAssumption DEF IInv, TypeOK, Fatal
    <2>2. ticks[<<p, c>>] = time[p] \/ ticks[<<p, c>>] = time[p] + 1
      BY <1>1 DEF IInv, Part, Phase, Before, Between, After
    <2>3. time[p] = missed[p] \/ ticks[<<p, c>>] = missed[p] + 1
      BY <1>1 DEF IInv, Part, Halts
    <2>4. QED  BY <2>1, <2>2, <2>3
  <1>2. IInv => MissIsLast
    BY <1>1 DEF MissIsLast
  <1>3. QED  BY Invariance, <1>2, PTL

\* The exit status of the simulation tells of every deadline miss.
THEOREM MissReported == Spec => []SuccessMeansNoMiss
  <1>1. IInv => SuccessMeansNoMiss
    BY DEF IInv, Reported, SuccessMeansNoMiss
  <1>2. QED  BY Invariance, <1>1, PTL

-----------------------------------------------------------------------------
(***************************************************************************)
(* The start.  A process that has not started keeps the barrier between    *)
(* the processors shut: until then no timer gets out of its first tick, so *)
(* no process ends and main has no reason to send a signal.                *)
(***************************************************************************)
\* A processor in its first tick; if it is to stop, that is decided, not done.
FirstTick(p) ==
    /\ proc[p] \in {"starting", "running"}
    /\ proc[p] = "starting" => Clk(p) = "loop"
    /\ Clk(p) # "left"
    /\ shutdown[p] => Clk(p) \in {"sync", "synced", "proc"}

HeldBack ==
    (\E q \in Procs : proc[q] = "starting") =>
        /\ main = "waiting" /\ pending = {}
        /\ \A p \in Procs : FirstTick(p)

\* A step of the threads of p leaves the other processors where they are.
LEMMA HeldBackStep ==
    ASSUME HeldBack, NEW p \in Procs, Running(p),
           UNCHANGED <<main, pending, proc>>,
           \A q \in Procs : q # p => Clk(q)' = Clk(q) /\ shutdown'[q] = shutdown[q],
           (\E q \in Procs : proc[q] = "starting") /\ FirstTick(p) =>
               /\ Clk(p)' # "left"
               /\ shutdown'[p] => Clk(p)' \in {"sync", "synced", "proc"}
    PROVE  HeldBack'
  BY DEF HeldBack, FirstTick, Running

LEMMA CoreHeldBack ==
    ASSUME IInv, HeldBack, NEW p \in Procs, NEW c \in Cores, Core(p, c)
    PROVE  HeldBack'
  <1>t. TypeOK /\ <<p, c>> \in Crew(p) /\ <<p, c>> # TimerOf(p) /\ TimerOf(p) \in Crew(p)
    BY Names DEF IInv
  <1>1. Running(p) /\ UNCHANGED <<main, pending, proc, shutdown>>
    BY DEF Core, CoreLoop, Tick, CoreSync, At
  <1>2. \/ Goto(<<p, c>>, IF shutdown[p] THEN "left" ELSE "tick")
        \/ WaitAt(<<p, c>>, "completion", Crew(p))
        \/ WaitAt(<<p, c>>, "sync", Crew(p))
    BY DEF Core, CoreLoop, Tick, CoreSync
  <1>3. CASE Goto(<<p, c>>, IF shutdown[p] THEN "left" ELSE "tick")
    <2>1. \A q \in Procs : Clk(q)' = Clk(q)
      BY <1>t, <1>3, Going, Names DEF Clk, Places
    <2>2. QED  BY <1>1, <2>1, HeldBackStep DEF FirstTick
  <1>4. ASSUME NEW b \in {"completion", "sync"}, WaitAt(<<p, c>>, b, Crew(p))
        PROVE  HeldBack'
    <2>1. /\ \A q \in Procs : q # p => \A u \in Crew(q) : pc'[u] = pc[u]
          /\ \/ /\ pc'[<<p, c>>] = b
                /\ \A u \in Crew(p) \ {<<p, c>>} : pc'[u] = pc[u]
             \/ /\ \A u \in Crew(p) \ {<<p, c>>} : pc[u] = b
                /\ \A u \in Crew(p) : pc'[u] = Behind(u, b)
      BY <1>t, <1>4, Waiting
    <2>2. \A q \in Procs : q # p => Clk(q)' = Clk(q)
      BY <2>1, Names DEF Clk
    <2>3. \/ Clk(p)' = Clk(p)
          \/ Clk(p) = "completion" /\ Clk(p)' = "met"
          \/ Clk(p) = "sync" /\ Clk(p)' = "synced"
      BY <1>t, <2>1, Openings DEF Clk
    <2>4. QED  BY <1>1, <2>2, <2>3, HeldBackStep DEF FirstTick
  <1>5. QED  BY <1>2, <1>3, <1>4

LEMMA ClockHeldBack ==
    ASSUME IInv, HeldBack, NEW p \in Procs, Clock(p)
    PROVE  HeldBack'
  <1>t. TypeOK /\ TimerOf(p) \in Crew(p)
    BY Names DEF IInv
  <1>1. Running(p) /\ UNCHANGED <<main, pending, proc>>
    BY DEF Clock, TimerLoop, TimerMet, Receive, Advance, TimerProc, At, TimerOf
  <1> SUFFICES ASSUME NEW r \in Procs, proc[r] = "starting", FirstTick(p), FirstTick(r)
               PROVE  HeldBack'
    BY <1>1 DEF HeldBack
  <1>2. ASSUME NEW s \in {"work", "received"}, Goto(TimerOf(p), s), ~shutdown[p],
               UNCHANGED shutdown
        PROVE  HeldBack'
    <2>1. Clk(p)' = s /\ \A q \in Procs : q # p => Clk(q)' = Clk(q)
      BY <1>t, <1>2, Going, Names DEF Clk, Places
    <2>2. QED  BY <1>1, <1>2, <2>1, HeldBackStep
  <1>3. ASSUME NEW b \in {"completion", "sync"}, WaitAt(TimerOf(p), b, Crew(p)),
               b = "completion" => ~shutdown'[p],
               \A q \in Procs : q # p => shutdown'[q] = shutdown[q]
        PROVE  HeldBack'
    <2>1. /\ \A q \in Procs : q # p => \A u \in Crew(q) : pc'[u] = pc[u]
          /\ pc'[TimerOf(p)] = b \/ pc'[TimerOf(p)] = Behind(TimerOf(p), b)
      BY <1>t, <1>3, Waiting
    <2>2. \A q \in Procs : q # p => Clk(q)' = Clk(q)
      BY <2>1, Names DEF Clk
    <2>3. Clk(p)' \in (IF b = "sync" THEN {"sync", "synced"} ELSE {"completion", "met"})
      BY <2>1, Openings DEF Clk
    <2>4. QED  BY <1>1, <1>3, <2>2, <2>3, HeldBackStep
  <1>4. CASE TimerLoop(p)
    <2>1. Clk(p) = "loop" /\ UNCHANGED shutdown
      BY <1>4 DEF TimerLoop, At, Clk
    <2>2. ~shutdown[p] /\ WaitAt(TimerOf(p), "completion", Crew(p))
      BY <1>4, <2>1 DEF TimerLoop, FirstTick
    <2>3. QED  BY <1>3, <2>1, <2>2
  <1>5. CASE TimerMet(p)
    <2>1. Clk(p) = "met" /\ UNCHANGED shutdown
      BY <1>5 DEF TimerMet, At, Clk
    <2>2. ~shutdown[p] /\ Goto(TimerOf(p), "work")
      BY <1>5, <2>1 DEF TimerMet, FirstTick
    <2>3. QED  BY <1>2, <2>1, <2>2
  <1>6. CASE Receive(p)
    <2>1. Clk(p) = "work" /\ UNCHANGED shutdown /\ Goto(TimerOf(p), "received")
      BY <1>6 DEF Receive, At, Clk
    <2>2. QED  BY <1>2, <2>1 DEF FirstTick
  <1>7. CASE Advance(p)
    <2>1. WaitAt(TimerOf(p), "sync", Crew(p))
      BY <1>7 DEF Advance
    <2>2. \A q \in Procs : q # p => shutdown'[q] = shutdown[q]
      BY <1>7, <1>t DEF Advance, TypeOK
    <2>3. QED  BY <1>3, <2>1, <2>2
  <1>8. CASE TimerProc(p)
    <2>1. UNCHANGED shutdown /\ WaitAt(TimerOf(p), "proc", Timers)
      BY <1>8 DEF TimerProc
    <2>2. TimerOf(r) \in Timers \ {TimerOf(p)} /\ pc[TimerOf(r)] # "proc"
      BY <1>1 DEF FirstTick, Clk, Running, Timers, TimerOf
    <2>3. pc' = [pc EXCEPT ![TimerOf(p)] = "proc"]
      BY <2>1, <2>2 DEF WaitAt
    <2>4. Clk(p)' = "proc" /\ \A q \in Procs : q # p => Clk(q)' = Clk(q)
      BY <1>t, <2>3, Names DEF Clk, TypeOK
    <2>5. QED  BY <1>1, <2>1, <2>4, HeldBackStep
  <1>9. QED  BY <1>4, <1>5, <1>6, <1>7, <1>8 DEF Clock

LEMMA OutsideHeldBack ==
    ASSUME IInv, HeldBack, Parent \/ Interrupt \/ (\E p \in Procs : Process(p))
    PROVE  HeldBack'
  <1>t. proc \in [Procs -> {"starting", "running", "succeeded", "failed", "reaped"}]
    BY DEF IInv, TypeOK
  <1>1. (\E q \in Procs : proc'[q] = "starting") => \E q \in Procs : proc[q] = "starting"
    BY <1>t DEF Parent, Interrupt, Kill, Finish, Reap, Process, Start, Exit, Deliver
  <1> SUFFICES ASSUME NEW r \in Procs, proc[r] = "starting"
               PROVE  HeldBack'
    BY <1>1 DEF HeldBack
  <1>2. /\ main = "waiting" /\ pending = {}
        /\ \A p \in Procs : FirstTick(p) /\ TimerOf(p) \in Crew(p)
    BY Names DEF HeldBack
  <1>3. ~Kill /\ ~Finish /\ \A p \in Procs : ~Reap(p) /\ ~Deliver(p) /\ ~Exit(p)
    BY <1>2 DEF Kill, Finish, Reap, Deliver, Exit, FirstTick, Clk
  <1>4. CASE Interrupt
    BY <1>2, <1>4 DEF Interrupt, HeldBack, FirstTick, Clk
  <1>5. ASSUME NEW p \in Procs, Start(p) PROVE HeldBack'
    BY <1>t, <1>2, <1>5 DEF Start, HeldBack, FirstTick, Clk
  <1>6. QED  BY <1>3, <1>4, <1>5 DEF Parent, Process

\* main sends SIGUSR1, or ends, only when every process has its handler: none
\* is killed by a signal that it cannot take yet.
THEOREM SignalsAreHandled == Spec => []HandlersInstalled
  <1>1. Init => HeldBack
    <2>1. Init => \A p \in Procs : Clk(p) = "loop"
      BY Names DEF Init, Clk
    <2>2. QED  BY <2>1 DEF Init, HeldBack, FirstTick
  <1>2. IInv /\ HeldBack /\ [Next]_vars => HeldBack'
    <2>1. ASSUME IInv, HeldBack, UNCHANGED vars PROVE HeldBack'
      BY <2>1 DEF vars, HeldBack, FirstTick, Clk
    <2>2. QED  BY <2>1, CoreHeldBack, ClockHeldBack, OutsideHeldBack DEF Next
  <1>3. HeldBack => HandlersInstalled
    BY DEF HeldBack, HandlersInstalled
  <1>4. QED  BY Invariance, <1>1, <1>2, <1>3, PTL DEF Spec

-----------------------------------------------------------------------------
(***************************************************************************)
(* The socket of a processor.  A timer sends once in every tick, so what   *)
(* came since the receiver last looked is counted by pairs of a sender and *)
(* a tick, and the rounds of the third barrier bound these.                *)
(***************************************************************************)
\* MESSAGE_QUEUE_SIZE has room for two ticks of every other processor and one
\* of its own.
RoomForTicks ==
    /\ IsFiniteSet(Procs)
    /\ (2 * Cardinality(Procs) - 1) * Cardinality(Cores) <= QueueSize

\* The tick in which p last looked at its socket, and what was sent from then on.
LookedAt(p) == IF Clk(p) = "received" THEN time[p] ELSE time[p] - 1
SentTo(p) == {m \in Procs \X (-1 .. TotalTicks) :
                LookedAt(p) <= m[2] /\ m[2] < time[m[1]]}

Counted(p) == mail[p] <= Cardinality(SentTo(p)) * Cardinality(Cores)
MailCounted == \A p \in Procs : Counted(p)

\* Products of numbers, which the solver is told once.
LEMMA Products ==
    ASSUME NEW k \in Nat, NEW l \in Nat, NEW c \in Nat, k <= l
    PROVE  0 <= k * c /\ k * c <= l * c /\ (k + 1) * c = k * c + c
  OBVIOUS

LEMMA SentFinite ==
    ASSUME RoomForTicks, NEW p \in Procs
    PROVE  /\ IsFiniteSet(SentTo(p)) /\ Cardinality(SentTo(p)) \in Nat
           /\ IsFiniteSet(SentTo(p)') /\ Cardinality(SentTo(p)') \in Nat
  <1>1. IsFiniteSet(Procs \X (-1 .. TotalTicks))
    <2>1. -1 \in Int /\ TotalTicks \in Int
      BY TicksAssumption
    <2>2. IsFiniteSet(-1 .. TotalTicks)
      BY <2>1, FS_Interval
    <2>3. QED  BY <2>2, FS_Product DEF RoomForTicks
  <1>2. /\ SentTo(p) \subseteq Procs \X (-1 .. TotalTicks)
        /\ SentTo(p)' \subseteq Procs \X (-1 .. TotalTicks)
    BY DEF SentTo
  <1>3. QED  BY <1>1, <1>2, FS_Subset, FS_CardinalityType

\* The bound stays where nothing is sent and nobody looks.
LEMMA NoMail ==
    ASSUME RoomForTicks, IInv, MailCounted, NEW p \in Procs,
           mail'[p] = mail[p], UNCHANGED time,
           Clk(p)' = "received" => Clk(p) = "received"
    PROVE  Counted(p)'
  <1>1. time[p] \in Int
    BY TicksAssumption DEF IInv, TypeOK
  <1>2. LookedAt(p)' \in Int /\ LookedAt(p) \in Int /\ LookedAt(p)' <= LookedAt(p)
    BY <1>1 DEF LookedAt
  <1>3. SentTo(p) \subseteq SentTo(p)'
    BY <1>2, TicksAssumption DEF SentTo
  <1>4. Cardinality(SentTo(p)) <= Cardinality(SentTo(p)')
    BY <1>3, SentFinite, FS_Subset
  <1>5. Cardinality(Cores) \in Nat
    BY SizeAssumption, FS_CardinalityType
  <1>6. Cardinality(SentTo(p)) * Cardinality(Cores)
           <= Cardinality(SentTo(p)') * Cardinality(Cores)
    BY <1>4, <1>5, SentFinite, Products
  <1>7. mail[p] \in Nat
    BY DEF IInv, TypeOK
  <1> DEFINE k == Cardinality(SentTo(p)) * Cardinality(Cores)
             l == Cardinality(SentTo(p)') * Cardinality(Cores)
  <1>8. k \in Int /\ l \in Int
    BY <1>5, SentFinite
  <1>9. mail[p] <= k
    BY DEF MailCounted, Counted
  <1>10. mail'[p] <= l
    <2> HIDE DEF k, l
    <2> QED  BY <1>6, <1>7, <1>8, <1>9 DEF k, l
  <1>11. QED  BY <1>10 DEF Counted

\* Behind no barrier does a timer find its messages received.
LEMMA Elsewhere ==
    ASSUME TypeOK, NEW t \in Threads, NEW b \in {"completion", "sync", "proc"},
           NEW s \in Places, s # "received", NEW party,
           WaitAt(t, b, party) \/ Goto(t, s) \/ pc' = pc
    PROVE  \A q \in Procs : Clk(q)' = "received" => Clk(q) = "received"
  <1>1. \A u \in Threads : Behind(u, b) # "received"
    BY DEF Behind
  <1>2. \A u \in Threads : pc'[u] \in {pc[u], b, s, Behind(u, b)}
    BY DEF WaitAt, Goto, TypeOK
  <1>3. QED  BY <1>1, <1>2, Names DEF Clk

\* The clock that a timer advances was not behind what anybody has looked at.
LEMMA AdvanceCounts ==
    ASSUME RoomForTicks, IInv, MailCounted, NEW p \in Procs, Advance(p)
    PROVE  MailCounted'
  <1> SUFFICES ASSUME NEW q \in Procs PROVE Counted(q)'
    BY DEF MailCounted
  <1>1. /\ Clk(p) = "received"
        /\ time' = [time EXCEPT ![p] = @ + 1]
        /\ mail'[q] = mail[q] + Cardinality(Cores)
        /\ WaitAt(TimerOf(p), "sync", Crew(p))
    BY DEF Advance, Send, At, Clk, TimerOf
  <1>2. /\ time \in [Procs -> 0 .. TotalTicks] /\ TotalTicks \in Nat
        /\ time[p] \in Int /\ time[q] \in Int
        /\ time[p] \in -1 .. TotalTicks
    BY TicksAssumption DEF IInv, TypeOK
  <1>3. time[p] = Round(p) /\ Round(q) = Round(p)
    BY <1>1 DEF IInv, Together, Round
  <1>4. Clk(q)' = "received" => Clk(q) = "received"
    BY <1>1, Names, Elsewhere DEF IInv, Places
  <1>5. Clk(p)' # "received"
    BY <1>1, TimerWaits DEF IInv
  <1>6. /\ LookedAt(q)' \in Int /\ LookedAt(q) \in Int /\ LookedAt(q)' <= LookedAt(q)
        /\ LookedAt(q)' <= time[p]
    <2>1. CASE q = p
      BY <1>1, <1>2, <1>5, <2>1 DEF LookedAt
    <2>2. CASE q # p
      BY <1>1, <1>2, <1>3, <1>4, <2>2 DEF LookedAt, Round
    <2>3. QED  BY <2>1, <2>2
  <1>7. /\ SentTo(q) \cup {<<p, time[p]>>} \subseteq SentTo(q)'
        /\ <<p, time[p]>> \notin SentTo(q)
    <2>1. \A r \in Procs : time[r] \in Int /\ time'[r] \in Int /\ time[r] <= time'[r]
      BY <1>1, <1>2
    <2>2. time'[p] = time[p] + 1
      BY <1>1, <1>2
    <2>3. <<p, time[p]>> \notin SentTo(q)
      BY <1>2 DEF SentTo
    <2>4. <<p, time[p]>> \in SentTo(q)'
      <3>1. LookedAt(q)' <= time[p] /\ time[p] < time'[p]
        BY <1>2, <1>6, <2>2
      <3>2. <<p, time[p]>> \in Procs \X (-1 .. TotalTicks)
        BY <1>2
      <3>3. QED  BY <3>1, <3>2 DEF SentTo
    <2>5. ASSUME NEW m \in SentTo(q) PROVE m \in SentTo(q)'
      <3>1. /\ m \in Procs \X (-1 .. TotalTicks)
            /\ LookedAt(q) <= m[2] /\ m[2] < time[m[1]]
        BY <2>5 DEF SentTo
      <3>2. m[1] \in Procs /\ m[2] \in Int
        BY <1>2, <3>1
      <3>3. LookedAt(q)' <= m[2] /\ m[2] < time'[m[1]]
        BY <1>6, <2>1, <3>1, <3>2
      <3>4. QED  BY <3>1, <3>3 DEF SentTo
    <2>6. QED  BY <2>3, <2>4, <2>5
  <1>8. Cardinality(SentTo(q)) + 1 <= Cardinality(SentTo(q)')
    <2>1. Cardinality(SentTo(q) \cup {<<p, time[p]>>}) = Cardinality(SentTo(q)) + 1
      BY <1>7, SentFinite, FS_AddElement
    <2>2. QED  BY <1>7, <2>1, SentFinite, FS_Subset
  <1> DEFINE k == Cardinality(SentTo(q))
             l == Cardinality(SentTo(q)')
             c == Cardinality(Cores)
  <1>9. k \in Nat /\ l \in Nat /\ c \in Nat /\ mail[q] \in Nat /\ mail[q] <= k * c
    BY SizeAssumption, FS_CardinalityType, SentFinite
       DEF IInv, TypeOK, MailCounted, Counted
  <1>10. mail[q] + c <= l * c
    <2> HIDE DEF k, l, c
    <2>1. k * c \in Int /\ l * c \in Int /\ (k + 1) * c = k * c + c
      BY <1>9, Products
    <2>2. (k + 1) * c <= l * c
      <3>1. k + 1 \in Nat /\ k + 1 <= l
        BY <1>8, <1>9 DEF k, l
      <3>2. QED  BY <1>9, <3>1, Products
    <2>3. QED  BY <1>9, <2>1, <2>2
  <1>11. QED  BY <1>1, <1>10 DEF Counted

LEMMA ReceiveCounts ==
    ASSUME RoomForTicks, IInv, MailCounted, NEW p \in Procs, Receive(p)
    PROVE  MailCounted'
  <1> SUFFICES ASSUME NEW q \in Procs PROVE Counted(q)'
    BY DEF MailCounted
  <1>1. /\ mail' = [mail EXCEPT ![p] = 0] /\ UNCHANGED time
        /\ Goto(TimerOf(p), "received") /\ "received" \in Places
    BY DEF Receive, Places
  <1>2. CASE q = p
    <2>1. mail'[q] = 0
      BY <1>1, <1>2 DEF IInv, TypeOK
    <2>2. 0 <= Cardinality(SentTo(q)') * Cardinality(Cores)
      BY SizeAssumption, FS_CardinalityType, SentFinite, Products
    <2>3. QED  BY <2>1, <2>2 DEF Counted
  <1>3. CASE q # p
    <2>1. mail'[q] = mail[q]
      BY <1>1, <1>3 DEF IInv, TypeOK
    <2>2. Clk(q)' = Clk(q)
      BY <1>1, <1>3, TimerGoes, Names DEF IInv, Clk
    <2>3. QED  BY <1>1, <2>1, <2>2, NoMail
  <1>4. QED  BY <1>2, <1>3

LEMMA NextCounts ==
    ASSUME RoomForTicks, IInv, MailCounted, [Next]_vars
    PROVE  MailCounted'
  <1>1. ASSUME UNCHANGED <<time, mail>>,
               \A q \in Procs : Clk(q)' = "received" => Clk(q) = "received"
        PROVE  MailCounted'
    BY <1>1, NoMail DEF MailCounted
  <1>2. TypeOK /\ {"tick", "loop", "left", "work"} \subseteq Places \ {"received"}
    BY DEF IInv, Places
  <1>3. CASE Parent \/ Interrupt \/ (\E p \in Procs : Process(p)) \/ UNCHANGED vars
    <2>1. UNCHANGED <<pc, time, mail>>
      BY <1>3 DEF Parent, Interrupt, Kill, Finish, Reap, Process, Start, Exit, Deliver, vars
    <2>2. QED  BY <1>1, <2>1 DEF Clk
  <1>4. ASSUME NEW p \in Procs, Clock(p) PROVE MailCounted'
    <2>1. CASE Receive(p)
      BY <2>1, ReceiveCounts
    <2>2. CASE Advance(p)
      BY <2>2, AdvanceCounts
    <2>3. CASE TimerLoop(p) \/ TimerMet(p) \/ TimerProc(p)
      <3>1. /\ UNCHANGED <<time, mail>>
            /\ \/ \E b \in {"completion", "sync", "proc"}, party \in {Crew(p), Timers} :
                    WaitAt(TimerOf(p), b, party)
               \/ \E s \in Places \ {"received"} : Goto(TimerOf(p), s)
        BY <1>2, <2>3 DEF TimerLoop, TimerMet, TimerProc
      <3>2. QED  BY <1>1, <1>2, <3>1, Names, Elsewhere
    <2>4. QED  BY <1>4, <2>1, <2>2, <2>3 DEF Clock
  <1>5. ASSUME NEW p \in Procs, NEW c \in Cores, Core(p, c) PROVE MailCounted'
    <2>1. /\ UNCHANGED <<time, mail>>
          /\ \/ \E b \in {"completion", "sync", "proc"} : WaitAt(<<p, c>>, b, Crew(p))
             \/ \E s \in Places \ {"received"} : Goto(<<p, c>>, s)
      BY <1>2, <1>5 DEF Core, CoreLoop, Tick, CoreSync
    <2>2. QED  BY <1>1, <1>2, <2>1, Names, Elsewhere
  <1>6. QED  BY <1>3, <1>4, <1>5 DEF Next

\* The timer never waits for room in the queue that only it empties, on any
\* number of processors and cores whose messages of two ticks fit.
THEOREM RoomForMail == ASSUME RoomForTicks PROVE Spec => []TimerNeverBlocks
  <1>1. Init => MailCounted
    <2> SUFFICES ASSUME Init, NEW p \in Procs PROVE Counted(p)
      BY DEF MailCounted
    <2>1. 0 <= Cardinality(SentTo(p)) * Cardinality(Cores)
      BY SizeAssumption, FS_CardinalityType, SentFinite, Products
    <2>2. QED  BY <2>1 DEF Init, Counted
  <1>2. IInv /\ MailCounted => TimerNeverBlocks
    <2> SUFFICES ASSUME IInv, MailCounted, NEW p \in Procs PROVE mail[p] <= QueueSize
      BY DEF TimerNeverBlocks
    <2> DEFINE b == LookedAt(p)
               S == Procs \X (b .. b + 1)
    <2>1. b \in Int /\ time[p] <= b + 1
      BY TicksAssumption DEF LookedAt, IInv, TypeOK
    <2>2. \A q \in Procs : time[q] \in Int /\ time[q] <= b + 2
      <3> SUFFICES ASSUME NEW q \in Procs PROVE time[q] \in Int /\ time[q] <= b + 2
        OBVIOUS
      <3>1. time[q] \in Int /\ time[p] \in Int /\ Round(q) = Round(p)
        BY TicksAssumption DEF IInv, TypeOK, Together
      <3>2. QED  BY <3>1 DEF LookedAt, Round
    <2>3. SentTo(p) \subseteq S \ {<<p, b + 1>>}
      BY <2>1, <2>2, TicksAssumption DEF SentTo
    <2> HIDE DEF b
    <2>4. /\ IsFiniteSet(S) /\ Cardinality(S) = 2 * Cardinality(Procs)
          /\ Cardinality(Procs) \in Nat
      <3>1. IsFiniteSet(b .. b + 1) /\ Cardinality(b .. b + 1) = 2
        BY <2>1, FS_Interval
      <3>2. /\ IsFiniteSet(S)
            /\ Cardinality(S) = Cardinality(Procs) * Cardinality(b .. b + 1)
        BY <3>1, FS_Product DEF RoomForTicks
      <3>3. Cardinality(Procs) \in Nat
        BY FS_CardinalityType DEF RoomForTicks
      <3>4. QED  BY <3>1, <3>2, <3>3
    <2>5. /\ IsFiniteSet(S \ {<<p, b + 1>>})
          /\ Cardinality(S \ {<<p, b + 1>>}) = 2 * Cardinality(Procs) - 1
      <3>1. <<p, b + 1>> \in S
        BY <2>1
      <3> HIDE DEF S
      <3>2. QED  BY <2>4, <3>1, FS_RemoveElement
    <2>6. Cardinality(SentTo(p)) <= 2 * Cardinality(Procs) - 1
      BY <2>3, <2>5, FS_Subset
    <2> DEFINE k == Cardinality(SentTo(p))
               l == 2 * Cardinality(Procs) - 1
               c == Cardinality(Cores)
    <2>7. /\ k \in Nat /\ l \in Nat /\ c \in Nat /\ k <= l
          /\ mail[p] \in Nat /\ QueueSize \in Nat
          /\ mail[p] <= k * c /\ l * c <= QueueSize
      BY <2>4, <2>6, SizeAssumption, FS_CardinalityType, SentFinite
         DEF IInv, TypeOK, MailCounted, Counted, RoomForTicks
    <2> HIDE DEF k, l, c
    <2>8. k * c \in Int /\ l * c \in Int /\ k * c <= l * c
      BY <2>7, Products
    <2>9. QED  BY <2>7, <2>8
  <1>3. IInv /\ MailCounted /\ [Next]_vars => MailCounted'
    BY NextCounts
  <1>4. QED  BY Invariance, <1>1, <1>2, <1>3, PTL DEF Spec

-----------------------------------------------------------------------------
(***************************************************************************)
(* Nobody stops short.  A barrier never stands full, and while no deadline *)
(* has been missed nobody is told to stop before the last tick.            *)
(***************************************************************************)
\* Some thread of the processor is not at either barrier.
NotFull(p) == \A b \in {"completion", "sync"} : \E t \in Crew(p) : pc[t] # b

\* Some timer is not at the barrier between the processors.
TimersApart == Procs # {} => \E p \in Procs : Clk(p) # "proc"

Apart == TimersApart /\ \A p \in Procs : NotFull(p)

\* Who leaves, leaves after the last tick; who waits for the cores has one to go.
OnTime(p) ==
    /\ proc[p] # "failed"
    /\ shutdown[p] => time[p] = TotalTicks
    /\ Clk(p) \in {"completion", "met"} => time[p] < TotalTicks
    /\ \A t \in Crew(p) : pc[t] = "left" => time[p] = TotalTicks
    /\ Ended(p) => \A t \in Crew(p) : pc[t] = "left"

NoMissYet == \A p \in Procs : ~Fatal(p)

Calm ==
    NoMissYet => /\ main \notin {"killing", "draining"} /\ pending = {}
                 /\ \A p \in Procs : OnTime(p)

LEMMA ApartKept ==
    ASSUME Apart, \A q \in Procs : NotFull(q)' /\ (Clk(q)' = "proc" => Clk(q) = "proc")
    PROVE  Apart'
  BY DEF Apart, TimersApart

\* A thread that goes somewhere else fills no barrier.
LEMMA GoApart ==
    ASSUME TypeOK, Apart, NEW p \in Procs, NEW t \in Crew(p),
           NEW s \in Places \ {"completion", "sync", "proc"}, Goto(t, s)
    PROVE  Apart'
  <1>1. /\ \A q \in Procs : q # p => \A u \in Crew(q) : pc'[u] = pc[u]
        /\ pc'[t] = s
        /\ \A u \in Crew(p) \ {t} : pc'[u] = pc[u]
    BY Going
  <1>2. \A q \in Procs : NotFull(q)'
    BY <1>1 DEF Apart, NotFull
  <1>3. \A q \in Procs : Clk(q)' = "proc" => Clk(q) = "proc"
    BY <1>1, Names DEF Clk
  <1>4. QED  BY <1>2, <1>3, ApartKept

\* The last thread that comes to a barrier of its processor empties it.
LEMMA WaitApart ==
    ASSUME TypeOK, Apart, NEW p \in Procs, NEW t \in Crew(p),
           NEW b \in {"completion", "sync"}, WaitAt(t, b, Crew(p))
    PROVE  Apart'
  <1>1. pc \in [Threads -> Places] /\ t \in Threads /\ Crew(p) \subseteq Threads
    BY Names DEF TypeOK, Places
  <1>2. CASE \A u \in Crew(p) \ {t} : pc[u] = b
    <2>1. pc' = [u \in Threads |-> IF u \in Crew(p) THEN Behind(u, b) ELSE pc[u]]
      BY <1>2 DEF WaitAt
    <2>2. \A q \in Procs : q # p => \A u \in Crew(q) : pc'[u] = pc[u]
      BY <2>1, Names
    <2>3. \A u \in Crew(p) : pc'[u] \notin {"completion", "sync", "proc"}
      BY <1>1, <2>1 DEF Behind
    <2>4. \A q \in Procs : NotFull(q)'
      BY <2>2, <2>3 DEF Apart, NotFull
    <2>5. \A q \in Procs : Clk(q)' = "proc" => Clk(q) = "proc"
      BY <2>2, <2>3, Names DEF Clk
    <2>6. QED  BY <2>4, <2>5, ApartKept
  <1>3. CASE \E u \in Crew(p) \ {t} : pc[u] # b
    <2>1. pc' = [pc EXCEPT ![t] = b]
      BY <1>3 DEF WaitAt
    <2>2. /\ \A q \in Procs : q # p => \A u \in Crew(q) : pc'[u] = pc[u]
          /\ \A u \in Crew(p) \ {t} : pc'[u] = pc[u]
          /\ pc'[t] = b
      BY <1>1, <2>1, Names
    <2>3. \A q \in Procs : NotFull(q)'
      BY <1>3, <2>2 DEF Apart, NotFull
    <2>4. \A q \in Procs : Clk(q)' = "proc" => Clk(q) = "proc"
      BY <2>2, Names DEF Clk
    <2>5. QED  BY <2>3, <2>4, ApartKept
  <1>4. QED  BY <1>2, <1>3

\* The last timer that comes to the barrier between the processors empties it.
LEMMA TimersWaitApart ==
    ASSUME TypeOK, Apart, NEW p \in Procs, TimerProc(p)
    PROVE  Apart'
  <1>1. /\ pc \in [Threads -> Places] /\ WaitAt(TimerOf(p), "proc", Timers)
        /\ \A q \in Procs : /\ TimerOf(q) \in Timers /\ TimerOf(q) \in Threads
                            /\ TimerOf(q) \in Crew(q)
    BY Names DEF TimerProc, TypeOK, Places, Timers
  <1>2. CASE \A u \in Timers \ {TimerOf(p)} : pc[u] = "proc"
    <2>1. pc' = [u \in Threads |-> IF u \in Timers THEN Behind(u, "proc") ELSE pc[u]]
      BY <1>1, <1>2 DEF WaitAt
    <2>2. \A q \in Procs : pc'[TimerOf(q)] = "loop"
      BY <1>1, <2>1, Openings
    <2>3. QED  BY <1>1, <2>2 DEF Apart, NotFull, TimersApart, Clk, TimerOf
  <1>3. CASE \E u \in Timers \ {TimerOf(p)} : pc[u] # "proc"
    <2>1. pc' = [pc EXCEPT ![TimerOf(p)] = "proc"]
      BY <1>1, <1>3 DEF WaitAt
    <2>2. PICK q \in Procs : TimerOf(q) # TimerOf(p) /\ pc[TimerOf(q)] # "proc"
      BY <1>3 DEF Timers
    <2>3. pc'[TimerOf(q)] = pc[TimerOf(q)] /\ pc'[TimerOf(p)] = "proc"
      BY <1>1, <2>1, <2>2
    <2>4. \A r \in Procs : r # p => \A u \in Crew(r) : pc'[u] = pc[u]
      BY <1>1, <2>1, Names
    <2>5. \A r \in Procs : NotFull(r)'
      BY <1>1, <2>3, <2>4 DEF Apart, NotFull, TimerOf
    <2>6. Clk(q)' # "proc"
      BY <2>2, <2>3 DEF Clk, TimerOf
    <2>7. QED  BY <2>5, <2>6 DEF Apart, TimersApart
  <1>4. QED  BY <1>2, <1>3

\* No step fills a barrier.
LEMMA NextApart ==
    ASSUME IInv, Apart, [Next]_vars
    PROVE  Apart'
  <1>t. TypeOK
    BY DEF IInv
  <1>1. CASE Parent \/ Interrupt \/ (\E p \in Procs : Process(p)) \/ UNCHANGED vars
    <2>1. UNCHANGED pc
      BY <1>1 DEF Parent, Interrupt, Kill, Finish, Reap, Process, Start, Exit, Deliver, vars
    <2>2. QED  BY <2>1, ApartKept DEF Apart, NotFull, Clk
  <1>2. ASSUME NEW p \in Procs, Clock(p) PROVE Apart'
    <2>1. TimerOf(p) \in Crew(p)
      BY Names
    <2>2. CASE TimerLoop(p) \/ TimerMet(p) \/ Receive(p) \/ Advance(p)
      <3>1. \/ \E b \in {"completion", "sync"} : WaitAt(TimerOf(p), b, Crew(p))
            \/ \E s \in Places \ {"completion", "sync", "proc"} : Goto(TimerOf(p), s)
        BY <2>2 DEF TimerLoop, TimerMet, Receive, Advance, Places
      <3>2. QED  BY <1>t, <2>1, <3>1, GoApart, WaitApart
    <2>3. CASE TimerProc(p)
      BY <1>t, <2>3, TimersWaitApart
    <2>4. QED  BY <1>2, <2>2, <2>3 DEF Clock
  <1>3. ASSUME NEW p \in Procs, NEW c \in Cores, Core(p, c) PROVE Apart'
    <2>1. <<p, c>> \in Crew(p)
      BY Names
    <2>2. \/ \E b \in {"completion", "sync"} : WaitAt(<<p, c>>, b, Crew(p))
          \/ \E s \in Places \ {"completion", "sync", "proc"} : Goto(<<p, c>>, s)
      BY <1>3 DEF Core, CoreLoop, Tick, CoreSync, Places
    <2>3. QED  BY <1>t, <2>1, <2>2, GoApart, WaitApart
  <1>4. QED  BY <1>1, <1>2, <1>3 DEF Next

\* A processor whose threads leave neither the barriers' way nor the loop.
LEMMA OnTimeKept ==
    ASSUME NEW q \in Procs, OnTime(q), time'[q] = time[q],
           shutdown'[q] = shutdown[q], proc'[q] = proc[q],
           \A u \in Crew(q) : pc'[u] = "left" <=> pc[u] = "left",
           Clk(q)' \in {"completion", "met"} => time[q] < TotalTicks
    PROVE  OnTime(q)'
  BY DEF OnTime, Ended

\* A step of a thread of p that is not told to leave.
LEMMA CalmStep ==
    ASSUME IInv, Calm, NEW p \in Procs, Running(p), UNCHANGED <<main, pending>>,
           \A q \in Procs : q # p => Still(q),
           NoMissYet' => NoMissYet,
           NoMissYet /\ OnTime(p) => OnTime(p)'
    PROVE  Calm'
  <1> SUFFICES ASSUME NoMissYet' PROVE Calm'
    BY DEF Calm
  <1>1. /\ main \notin {"killing", "draining"} /\ pending = {}
        /\ \A q \in Procs : OnTime(q)
    BY DEF Calm
  <1>2. \A q \in Procs : q # p => OnTime(q)'
    <2> SUFFICES ASSUME NEW q \in Procs, q # p PROVE OnTime(q)'
      OBVIOUS
    <2>1. Still(q) /\ Clk(q)' = Clk(q)
      BY Names DEF Still, Clk
    <2>2. QED  BY <1>1, <2>1, OnTimeKept DEF Still, OnTime
  <1>3. QED  BY <1>1, <1>2 DEF Calm

\* Where a thread of p that waits leaves the threads of p.
LEMMA WaitLeaves ==
    ASSUME TypeOK, NEW p \in Procs, NEW t \in Crew(p), pc[t] # "left",
           NEW b \in {"completion", "sync"}, WaitAt(t, b, Crew(p))
    PROVE  /\ \A q \in Procs : q # p => \A u \in Crew(q) : pc'[u] = pc[u]
           /\ \A u \in Crew(p) : pc'[u] = "left" <=> pc[u] = "left"
           /\ b = "sync" => (Clk(p)' \in {"completion", "met"} =>
                               Clk(p) \in {"completion", "met"})
           /\ b = "completion" /\ Clk(p)' \in {"completion", "met"} =>
                t = TimerOf(p) \/ Clk(p) \in {"completion", "met"}
  <1>1. /\ \A q \in Procs : q # p => \A u \in Crew(q) : pc'[u] = pc[u]
        /\ \/ /\ pc'[t] = b
              /\ \A u \in Crew(p) \ {t} : pc'[u] = pc[u]
           \/ /\ \A u \in Crew(p) \ {t} : pc[u] = b
              /\ \A u \in Crew(p) : pc'[u] = Behind(u, b)
    BY Waiting
  <1>2. \A u \in Crew(p) : Behind(u, b) \in {"met", "synced", "loop"}
    BY DEF Behind
  <1>3. b = "sync" => \A u \in Crew(p) : Behind(u, b) \notin {"completion", "met"}
    BY DEF Behind
  <1>4. \A u \in Crew(p) : pc'[u] = "left" <=> pc[u] = "left"
    BY <1>1, <1>2
  <1>5. TimerOf(p) \in Crew(p)
    BY Names
  <1>6. b = "sync" => (Clk(p)' \in {"completion", "met"} => Clk(p) \in {"completion", "met"})
    BY <1>1, <1>3, <1>5 DEF Clk, TimerOf
  <1>7. b = "completion" /\ Clk(p)' \in {"completion", "met"} =>
          t = TimerOf(p) \/ Clk(p) \in {"completion", "met"}
    BY <1>1, <1>5 DEF Clk, TimerOf
  <1>8. QED  BY <1>1, <1>4, <1>6, <1>7

LEMMA CoreCalm ==
    ASSUME IInv, Calm, NEW p \in Procs, NEW c \in Cores, Core(p, c)
    PROVE  Calm'
  <1>t. TypeOK /\ <<p, c>> \in Crew(p) /\ <<p, c>> # TimerOf(p)
    BY Names DEF IInv
  <1>1. CASE CoreLoop(p, c)
    <2> DEFINE s == IF shutdown[p] THEN "left" ELSE "tick"
    <2>1. /\ s \in Places /\ Goto(<<p, c>>, s) /\ Running(p)
          /\ UNCHANGED <<time, shutdown, missed, proc, main, pending, ticks>>
      BY <1>1 DEF CoreLoop, At, Places
    <2>2. /\ \A q \in Procs : q # p => \A u \in Crew(q) : pc'[u] = pc[u]
          /\ pc'[<<p, c>>] = s /\ \A u \in Crew(p) \ {<<p, c>>} : pc'[u] = pc[u]
          /\ Clk(p)' = Clk(p)
      BY <1>t, <2>1, Going, Names DEF Clk
    <2>3. OnTime(p) => OnTime(p)'
      <3>1. ~Ended(p)
        BY <2>1 DEF Ended, Running
      <3>2. QED  BY <2>1, <2>2, <3>1 DEF OnTime, Ended
    <2>4. QED  BY <2>1, <2>2, <2>3, CalmStep DEF Still, NoMissYet, Fatal
  <1>2. CASE Tick(p, c) \/ CoreSync(p, c)
    <2>1. /\ Running(p) /\ pc[<<p, c>>] # "left"
          /\ UNCHANGED <<time, shutdown, proc, main, pending>>
          /\ \/ WaitAt(<<p, c>>, "completion", Crew(p))
             \/ WaitAt(<<p, c>>, "sync", Crew(p))
      BY <1>2 DEF Tick, CoreSync, At
    <2>2. /\ \A q \in Procs : q # p => \A u \in Crew(q) : pc'[u] = pc[u]
          /\ \A u \in Crew(p) : pc'[u] = "left" <=> pc[u] = "left"
          /\ Clk(p)' \in {"completion", "met"} => Clk(p) \in {"completion", "met"}
      BY <1>t, <2>1, WaitLeaves
    <2>3. /\ NoMissYet' => NoMissYet
          /\ \A q \in Procs : q # p =>
               /\ missed'[q] = missed[q]
               /\ \A d \in Cores : ticks'[<<q, d>>] = ticks[<<q, d>>]
      BY <1>2, <1>t, MissAssumption DEF Tick, CoreSync, NoMissYet, Fatal, TypeOK
    <2>4. OnTime(p) => OnTime(p)'
      BY <2>1, <2>2, OnTimeKept DEF OnTime
    <2>5. QED  BY <2>1, <2>2, <2>3, <2>4, CalmStep DEF Still
  <1>3. QED  BY <1>1, <1>2 DEF Core

LEMMA ClockCalm ==
    ASSUME IInv, Calm, NEW p \in Procs, Clock(p)
    PROVE  Calm'
  <1>t. /\ TypeOK /\ TimerOf(p) \in Crew(p) /\ InTime(p)
        /\ time[p] \in 0 .. TotalTicks /\ TotalTicks \in Nat
    BY Names, TicksAssumption DEF IInv, Part, TypeOK
  <1>0. ~Ended(p) /\ UNCHANGED <<missed, proc, main, pending, ticks>> /\ Running(p)
    BY DEF Clock, TimerLoop, TimerMet, Receive, Advance, TimerProc, At, Running, Ended, TimerOf
  <1>m. NoMissYet' <=> NoMissYet
    BY <1>0 DEF NoMissYet, Fatal
  <1>1. CASE TimerLoop(p) /\ shutdown[p]
    <2>1. Goto(TimerOf(p), "left") /\ UNCHANGED <<time, shutdown>> /\ "left" \in Places
      BY <1>1 DEF TimerLoop, Places
    <2>2. /\ \A q \in Procs : q # p => \A u \in Crew(q) : pc'[u] = pc[u]
          /\ Clk(p)' = "left" /\ \A u \in Crew(p) \ {TimerOf(p)} : pc'[u] = pc[u]
      BY <1>t, <2>1, Going DEF Clk, TimerOf
    <2>3. OnTime(p) => OnTime(p)'
      BY <1>0, <1>1, <2>1, <2>2 DEF OnTime, Ended
    <2>4. QED  BY <1>0, <1>m, <2>1, <2>2, <2>3, CalmStep DEF Still
  <1>2. CASE TimerLoop(p) /\ ~shutdown[p]
    <2>1. /\ WaitAt(TimerOf(p), "completion", Crew(p)) /\ UNCHANGED <<time, shutdown>>
          /\ pc[TimerOf(p)] # "left"
      BY <1>2 DEF TimerLoop, At
    <2>2. /\ \A q \in Procs : q # p => \A u \in Crew(q) : pc'[u] = pc[u]
          /\ \A u \in Crew(p) : pc'[u] = "left" <=> pc[u] = "left"
      BY <1>t, <2>1, WaitLeaves
    <2>3. time[p] < TotalTicks
      BY <1>t, <1>2 DEF InTime
    <2>4. OnTime(p) => OnTime(p)'
      BY <1>0, <2>1, <2>2, <2>3, OnTimeKept
    <2>5. QED  BY <1>0, <1>m, <2>1, <2>2, <2>4, CalmStep DEF Still
  <1>3. CASE TimerMet(p)
    <2>1. /\ Clk(p) = "met" /\ UNCHANGED <<time, shutdown>>
          /\ Goto(TimerOf(p), IF shutdown[p] THEN "left" ELSE "work")
      BY <1>3 DEF TimerMet, At, Clk
    <2>2. OnTime(p) => ~shutdown[p]
      BY <1>t, <2>1 DEF OnTime
    <2>3. /\ \A q \in Procs : q # p => \A u \in Crew(q) : pc'[u] = pc[u]
          /\ ~shutdown[p] => Clk(p)' = "work"
          /\ \A u \in Crew(p) \ {TimerOf(p)} : pc'[u] = pc[u]
      <3>1. {"left", "work"} \subseteq Places
        BY DEF Places
      <3>2. QED  BY <1>t, <2>1, <3>1, Going DEF Clk, TimerOf
    <2>4. OnTime(p) => OnTime(p)'
      BY <1>0, <2>1, <2>2, <2>3 DEF OnTime, Ended, Clk
    <2>5. QED  BY <1>0, <1>m, <2>1, <2>3, <2>4, CalmStep DEF Still
  <1>4. CASE Receive(p)
    <2>1. /\ UNCHANGED <<time, shutdown>> /\ Goto(TimerOf(p), "received")
          /\ "received" \in Places
      BY <1>4 DEF Receive, Places
    <2>2. /\ \A q \in Procs : q # p => \A u \in Crew(q) : pc'[u] = pc[u]
          /\ Clk(p)' = "received"
          /\ \A u \in Crew(p) \ {TimerOf(p)} : pc'[u] = pc[u]
      BY <1>t, <2>1, Going DEF Clk, TimerOf
    <2>3. OnTime(p) => OnTime(p)'
      BY <1>0, <2>1, <2>2 DEF OnTime, Ended, Clk
    <2>4. QED  BY <1>0, <1>m, <2>1, <2>2, <2>3, CalmStep DEF Still
  <1>5. CASE Advance(p)
    <2>1. /\ Clk(p) = "received" /\ pc[TimerOf(p)] # "left"
          /\ time' = [time EXCEPT ![p] = @ + 1]
          /\ shutdown' = [shutdown EXCEPT ![p] =
                            @ \/ Fatal(p) \/ time[p] + 1 >= TotalTicks]
          /\ WaitAt(TimerOf(p), "sync", Crew(p))
      BY <1>5 DEF Advance, At, Clk
    <2>2. /\ \A q \in Procs : q # p => \A u \in Crew(q) : pc'[u] = pc[u]
          /\ \A u \in Crew(p) : pc'[u] = "left" <=> pc[u] = "left"
          /\ Clk(p)' \in {"completion", "met"} => Clk(p) \in {"completion", "met"}
      BY <1>t, <2>1, WaitLeaves
    <2>3. time[p] < TotalTicks /\ Clk(p)' \notin {"completion", "met"}
      BY <1>t, <2>1, <2>2 DEF InTime
    <2>4. /\ \A q \in Procs : q # p => time'[q] = time[q] /\ shutdown'[q] = shutdown[q]
          /\ time'[p] = time[p] + 1
          /\ shutdown'[p] = (shutdown[p] \/ Fatal(p) \/ time[p] + 1 >= TotalTicks)
      <3>1. time \in [Procs -> 0 .. TotalTicks] /\ shutdown \in [Procs -> BOOLEAN]
        BY <1>t DEF TypeOK
      <3>2. \A q \in Procs : q # p => time'[q] = time[q] /\ shutdown'[q] = shutdown[q]
        BY <2>1, <3>1
      <3>3. time'[p] = time[p] + 1
        BY <2>1, <3>1
      <3>4. shutdown'[p] = (shutdown[p] \/ Fatal(p) \/ time[p] + 1 >= TotalTicks)
        BY <2>1, <3>1
      <3>5. QED  BY <3>2, <3>3, <3>4
    <2>5. NoMissYet /\ OnTime(p) => OnTime(p)'
      <3> SUFFICES ASSUME NoMissYet, OnTime(p) PROVE OnTime(p)'
        OBVIOUS
      <3>1. ~shutdown[p] /\ ~Fatal(p) /\ \A u \in Crew(p) : pc[u] # "left"
        BY <1>t, <2>3 DEF OnTime, NoMissYet
      <3>2. shutdown'[p] => time'[p] = TotalTicks
        <4>1. shutdown'[p] => time[p] + 1 >= TotalTicks
          BY <2>4, <3>1, Zenon
        <4>2. QED  BY <1>t, <2>3, <2>4, <4>1
      <3>3. QED  BY <1>0, <2>2, <2>3, <3>1, <3>2 DEF OnTime, Ended
    <2>6. QED  BY <1>0, <1>m, <2>2, <2>4, <2>5, CalmStep DEF Still
  <1>6. CASE TimerProc(p)
    <2>1. /\ Clk(p) = "synced" /\ UNCHANGED <<time, shutdown>>
          /\ WaitAt(TimerOf(p), "proc", Timers) /\ pc \in [Threads -> Places]
      BY <1>6, <1>t DEF TimerProc, At, Clk, TypeOK, Places
    <2>2. \A u \in Threads : /\ pc'[u] = "left" <=> pc[u] = "left"
                             /\ pc'[u] \in {"completion", "met"} => pc'[u] = pc[u]
      <3>1. TimerOf(p) \in Threads /\ pc[TimerOf(p)] = "synced"
        BY <2>1, Names DEF Clk
      <3>2. CASE \A u \in Timers \ {TimerOf(p)} : pc[u] = "proc"
        <4>1. pc' = [u \in Threads |-> IF u \in Timers THEN Behind(u, "proc") ELSE pc[u]]
          BY <2>1, <3>2 DEF WaitAt
        <4>2. \A u \in Threads : Behind(u, "proc") = "loop"
          BY DEF Behind
        <4>3. QED  BY <3>1, <3>2, <4>1, <4>2
      <3>3. CASE ~\A u \in Timers \ {TimerOf(p)} : pc[u] = "proc"
        <4>1. pc' = [pc EXCEPT ![TimerOf(p)] = "proc"]
          BY <2>1, <3>3 DEF WaitAt
        <4>2. QED  BY <2>1, <3>1, <4>1
      <3>4. QED  BY <3>2, <3>3
    <2>3. \A q \in Procs : OnTime(q) => OnTime(q)'
      <3> SUFFICES ASSUME NEW q \in Procs, OnTime(q) PROVE OnTime(q)'
        OBVIOUS
      <3>1. Crew(q) \subseteq Threads /\ TimerOf(q) \in Threads
        BY Names
      <3>2. Clk(q)' \in {"completion", "met"} => Clk(q) \in {"completion", "met"}
        BY <2>2, <3>1 DEF Clk, TimerOf
      <3>3. QED  BY <1>0, <2>1, <2>2, <3>1, <3>2, OnTimeKept DEF OnTime
    <2>4. QED  BY <1>0, <1>m, <2>3 DEF Calm
  <1>7. QED  BY <1>1, <1>2, <1>3, <1>4, <1>5, <1>6 DEF Clock

\* Without a miss the processes only start, end and are reaped.
LEMMA OutsideCalm ==
    ASSUME IInv, Calm, NoMissYet,
           Parent \/ Interrupt \/ (\E p \in Procs : Process(p))
    PROVE  /\ main' \notin {"killing", "draining"} /\ pending' = {}
           /\ \A q \in Procs : OnTime(q)'
  <1>1. /\ main \notin {"killing", "draining"} /\ pending = {}
        /\ \A q \in Procs : OnTime(q)
    BY DEF Calm
  <1>t. proc \in [Procs -> {"starting", "running", "succeeded", "failed", "reaped"}]
    BY DEF IInv, TypeOK
  <1>2. CASE Finish \/ Interrupt
    BY <1>1, <1>2 DEF Finish, Interrupt, OnTime, Clk, Ended
  <1>3. CASE Kill
    BY <1>1, <1>3 DEF Kill
  <1>4. ASSUME NEW p \in Procs, Reap(p) \/ Start(p) \/ Exit(p)
        PROVE  /\ main' \notin {"killing", "draining"} /\ pending' = {}
               /\ \A q \in Procs : OnTime(q)'
    <2>1. /\ UNCHANGED <<pc, time, shutdown, pending>>
          /\ proc'[p] \in {"running", "succeeded", "reaped"}
          /\ \A q \in Procs : q # p => proc'[q] = proc[q]
          /\ proc'[p] # "running" => \A u \in Crew(p) : pc[u] = "left"
      BY <1>1, <1>t, <1>4 DEF Reap, Start, Exit, OnTime, Ended, NoMissYet
    <2>2. main' \notin {"killing", "draining"}
      BY <1>1, <1>4 DEF Reap, Start, Exit, OnTime
    <2>3. ASSUME NEW q \in Procs PROVE OnTime(q)'
      <3>1. Clk(q)' = Clk(q) /\ OnTime(q)
        BY <1>1, <2>1 DEF Clk
      <3>2. CASE q = p
        BY <2>1, <3>1, <3>2 DEF OnTime, Ended
      <3>3. CASE q # p
        BY <2>1, <3>1, <3>3 DEF OnTime, Ended
      <3>4. QED  BY <3>2, <3>3
    <2>4. QED  BY <1>1, <2>1, <2>2, <2>3
  <1>5. ASSUME NEW p \in Procs, Deliver(p) PROVE FALSE
    BY <1>1, <1>5 DEF Deliver
  <1>6. QED  BY <1>2, <1>3, <1>4, <1>5 DEF Parent, Process

LEMMA NextCalm ==
    ASSUME IInv, Calm, [Next]_vars
    PROVE  Calm'
  <1>1. CASE Parent \/ Interrupt \/ (\E p \in Procs : Process(p))
    <2>1. UNCHANGED missed
      BY <1>1 DEF Parent, Interrupt, Kill, Finish, Reap, Process, Start, Exit, Deliver
    <2>2. NoMissYet' => NoMissYet
      BY <2>1 DEF NoMissYet, Fatal
    <2>3. QED  BY <1>1, <2>2, OutsideCalm DEF Calm
  <1>2. CASE UNCHANGED vars
    BY <1>2 DEF vars, Calm, NoMissYet, Fatal, OnTime, Ended, Clk
  <1>3. QED  BY <1>1, <1>2, ClockCalm, CoreCalm DEF Next

\* While no deadline is missed, no processor is left waiting: whatever the
\* processes and the user do, if no thread can go on, every processor has
\* completed the last tick and all its threads have left.
THEOREM NobodyStopsShort == ASSUME RoomForTicks PROVE Spec => []NeverStopsShort
  <1>1. Init => Apart /\ Calm
    <2> SUFFICES ASSUME Init PROVE Apart /\ Calm
      OBVIOUS
    <2>1. \A p \in Procs : /\ Clk(p) = "loop" /\ TimerOf(p) \in Crew(p)
                           /\ \A t \in Crew(p) : pc[t] = "loop"
      BY Names DEF Init, Clk
    <2>2. Apart
      BY <2>1 DEF Apart, TimersApart, NotFull
    <2>3. Calm
      BY <2>1 DEF Init, Calm, OnTime, Ended
    <2>4. QED  BY <2>2, <2>3
  <1>2. ASSUME IInv, Apart, Calm, TimerNeverBlocks PROVE NeverStopsShort
    <2> SUFFICES ASSUME NoMissYet, \A p \in Procs : proc[p] # "starting",
                        \A t \in Threads : ~Goes(t), NEW p \in Procs
                 PROVE  time[p] = TotalTicks /\ \A t \in Crew(p) : pc[t] = "left"
      BY DEF NeverStopsShort, NoMissYet
    <2>t. TypeOK /\ TotalTicks \in Nat
      BY <1>2, TicksAssumption DEF IInv
    <2>1. \A q \in Procs : OnTime(q)
      BY <1>2 DEF Calm
    <2>2. ASSUME NEW q \in Procs, NEW t \in Crew(q)
          PROVE  pc[t] \in {"completion", "sync", "proc", "left"}
      <3>1. t \in Threads /\ t[1] = q
        BY <2>2 DEF Crew, Threads
      <3>2. CASE Running(q)
        BY <1>2, <3>1, <3>2 DEF Goes, TimerNeverBlocks
      <3>3. CASE ~Running(q)
        <4>1. Ended(q)
          BY <2>t, <3>3 DEF TypeOK, Running, Ended
        <4>2. QED  BY <2>1, <2>2, <4>1 DEF OnTime
      <3>4. QED  BY <3>2, <3>3
    <2>3. ASSUME NEW q \in Procs, Clk(q) # "proc"
          PROVE  time[q] = TotalTicks /\ \A t \in Crew(q) : pc[t] = "left"
      <3>1. /\ TimerOf(q) \in Crew(q) /\ OnTime(q) /\ NotFull(q) /\ Part(q)
            /\ \A c \in Cores : <<q, c>> \in Crew(q)
        BY <1>2, <2>1, Names DEF Apart, IInv
      <3>2. /\ Clk(q) \in {"completion", "sync", "left"}
            /\ \A c \in Cores : pc[<<q, c>>] \in {"completion", "sync", "proc", "left"}
        BY <2>2, <2>3, <3>1 DEF Clk
      <3>3. \A t \in Crew(q) : t = TimerOf(q) \/ \E c \in Cores : t = <<q, c>>
        BY DEF Crew, TimerOf
      <3>4. \A c \in Cores : ticks[<<q, c>>] <= TotalTicks
        BY <2>t DEF TypeOK
      <3>5. CASE Clk(q) = "left"
        <4>1. time[q] = TotalTicks
          BY <3>1, <3>5 DEF OnTime, Clk
        <4>2. \A c \in Cores : ticks[<<q, c>>] # time[q] + 1
          BY <2>t, <3>4, <4>1
        <4>3. \A c \in Cores : pc[<<q, c>>] = "left"
          BY <3>1, <3>2, <3>5, <4>2 DEF Part, Phase, Before, Between, After
        <4>4. QED  BY <3>3, <3>5, <4>1, <4>3 DEF Clk
      <3>6. CASE Clk(q) = "completion"
        <4>1. time[q] < TotalTicks
          BY <3>1, <3>6 DEF OnTime
        <4>2. \A t \in Crew(q) : pc[t] # "left"
          BY <2>t, <3>1, <4>1 DEF OnTime
        <4>3. \A c \in Cores : pc[<<q, c>>] = "completion"
          BY <3>1, <3>2, <3>6, <4>2 DEF Part, Phase, Before, Between, After
        <4>4. \A t \in Crew(q) : pc[t] = "completion"
          BY <3>3, <3>6, <4>3 DEF Clk
        <4>5. QED  BY <3>1, <4>4 DEF NotFull
      <3>7. CASE Clk(q) = "sync"
        <4>1. \A c \in Cores : pc[<<q, c>>] = "sync"
          BY <3>1, <3>2, <3>7 DEF Part, Phase, Before, Between, After
        <4>2. \A t \in Crew(q) : pc[t] = "sync"
          BY <3>3, <3>7, <4>1 DEF Clk
        <4>3. QED  BY <3>1, <4>2 DEF NotFull
      <3>8. QED  BY <3>2, <3>5, <3>6, <3>7
    <2>4. Clk(p) # "proc"
      <3> SUFFICES ASSUME Clk(p) = "proc" PROVE FALSE
        OBVIOUS
      <3>1. PICK q \in Procs : Clk(q) # "proc"
        BY <1>2 DEF Apart, TimersApart
      <3>2. time[q] = TotalTicks /\ Clk(q) = "left"
        BY <2>3, <3>1, Names DEF Clk
      <3>3. Round(p) = Round(q) /\ time[p] \in 0 .. TotalTicks
        BY <1>2, <2>t DEF IInv, Together, TypeOK
      <3>4. QED  BY <2>t, <3>2, <3>3 DEF Round
    <2>5. QED  BY <2>3, <2>4
  <1>3. IInv /\ Apart /\ Calm /\ [Next]_vars => Apart' /\ Calm'
    BY NextApart, NextCalm
  <1>4. QED  BY Invariance, RoomForMail, <1>1, <1>2, <1>3, PTL DEF Spec
=============================================================================
