---------------------------- MODULE LoggerProofs ----------------------------
(***************************************************************************)
(* Logger for any number of threads and any size of the queue: how lines,  *)
(* the wake-up flag and the semaphore go together.                         *)
(***************************************************************************)
EXTENDS Logger, FiniteSetTheorems, TLAPS

LEMMA InitIInv == Init => IInv
<1> SUFFICES ASSUME Init PROVE IInv
  OBVIOUS
<1>1. TypeOK
  <2>1. queue \in Seq(Writers \cup {Full}) /\ Len(queue) <= QSize
    BY QSizeAssumption DEF Init
  <2> QED BY <2>1 DEF Init, TypeOK
<1>2. Posting = {}
  BY DEF Init, Posting
<1>3. WakeupsFrom
  BY <1>2, FS_EmptySet DEF Init, WakeupsFrom, Sources, Posted, Writers
<1> QED
  BY <1>1, <1>3 DEF Init, IInv, Claimed, FlagAnswered, LineAnswered

\* The threads that are about to post are finitely many.
LEMMA PostingFinite == IsFiniteSet(Posting) /\ Cardinality(Posting) \in Nat
<1>1. IsFiniteSet(Writers)
  BY MainAssumption, FS_AddElement DEF Writers
<1> QED
  BY <1>1, FS_Subset, FS_CardinalityType DEF Posting

\* What a thread does between two exchanges leaves the others where they are.
LEMMA OthersStay ==
    ASSUME TypeOK, NEW w \in Writers, NEW s, Goto(w, s)
    PROVE  /\ wpc'[w] = s
           /\ \A u \in Writers \ {w} : wpc'[u] = wpc[u]
           /\ wpc[w] # "post" /\ s # "post" => Posting' = Posting
           /\ s = "post" => Posting' = Posting \cup {w}
           /\ wpc[w] = "post" /\ s # "post" => Posting' = Posting \ {w}
  BY DEF TypeOK, Goto, Posting

-----------------------------------------------------------------------------
(***************************************************************************)
(* LOG                                                                     *)
(***************************************************************************)
LEMMA ClaimKeeps == ASSUME IInv, NEW w \in Writers, Claim(w) PROVE IInv'
<1> USE DEF IInv
<1>1. /\ wpc[w] = "run" /\ Len(queue) < QSize /\ queue' = Append(queue, w)
      /\ Goto(w, "fill") /\ UNCHANGED <<pending, sem, shutdown, lpc, missed>>
  BY DEF Claim
<1>2. /\ wpc'[w] = "fill" /\ \A u \in Writers \ {w} : wpc'[u] = wpc[u]
      /\ Posting' = Posting
  BY <1>1, OthersStay
<1>3. TypeOK'
  BY <1>1, QSizeAssumption DEF TypeOK, Goto
<1>4. Claimed'
  <2> SUFFICES ASSUME NEW i \in 1 .. Len(queue'), queue'[i] # Full
               PROVE  wpc'[queue'[i]] = "fill"
    BY DEF Claimed
  <2>1. CASE i = Len(queue) + 1
    BY <1>1, <1>2, <2>1 DEF TypeOK
  <2>2. CASE i # Len(queue) + 1
    <3>1. i \in 1 .. Len(queue) /\ queue'[i] = queue[i] /\ queue[i] \in Writers
      BY <1>1, <2>2 DEF TypeOK
    <3> QED BY <1>1, <1>2, <3>1 DEF Claimed
  <2> QED BY <2>1, <2>2
<1>5. FlagAnswered'
  BY <1>1, <1>2 DEF FlagAnswered
<1>6. LineAnswered'
  BY <1>2 DEF LineAnswered, Busy
<1>7. WakeupsFrom'
  BY <1>1, <1>2, MainAssumption DEF WakeupsFrom, Sources, Posted, TypeOK, Writers
<1> QED BY <1>3, <1>4, <1>5, <1>6, <1>7

LEMMA FillKeeps == ASSUME IInv, NEW w \in Writers, Fill(w) PROVE IInv'
<1> USE DEF IInv
<1>1. /\ wpc[w] = "fill" /\ Goto(w, "wake")
      /\ queue' = [i \in DOMAIN queue |-> IF queue[i] = w THEN Full ELSE queue[i]]
      /\ UNCHANGED <<pending, sem, shutdown, lpc, missed>>
  BY DEF Fill
<1>2. /\ wpc'[w] = "wake" /\ \A u \in Writers \ {w} : wpc'[u] = wpc[u]
      /\ Posting' = Posting
  BY <1>1, OthersStay
<1>3. /\ queue' \in Seq(Writers \cup {Full}) /\ Len(queue') = Len(queue)
      /\ \A i \in 1 .. Len(queue) :
           queue'[i] = IF queue[i] = w THEN Full ELSE queue[i]
  BY <1>1 DEF TypeOK
<1>4. TypeOK'
  BY <1>1, <1>3 DEF TypeOK, Goto
<1>5. Claimed'
  <2> SUFFICES ASSUME NEW i \in 1 .. Len(queue), queue'[i] # Full
               PROVE  wpc'[queue'[i]] = "fill"
    BY <1>3 DEF Claimed
  <2>1. queue[i] # w /\ queue[i] # Full /\ queue'[i] = queue[i] /\ queue[i] \in Writers
    BY <1>3 DEF TypeOK
  <2> QED BY <1>2, <2>1 DEF Claimed
<1>6. FlagAnswered'
  BY <1>1, <1>2 DEF FlagAnswered
<1>7. LineAnswered'
  BY <1>2 DEF LineAnswered, Busy
<1>8. WakeupsFrom'
  BY <1>1, <1>2 DEF WakeupsFrom, Sources, Posted, TypeOK, Writers
<1> QED BY <1>4, <1>5, <1>6, <1>7, <1>8

\* The exchange: who finds the flag clear posts, and who finds it set leaves
\* the wake-up to the one that did.
LEMMA WakeKeeps == ASSUME IInv, NEW w \in Writers, Wake(w) PROVE IInv'
<1> USE DEF IInv
<1>1. /\ wpc[w] = "wake" /\ pending' = TRUE
      /\ Goto(w, IF pending THEN "run" ELSE "post")
      /\ missed' = (missed \/ (pending /\ lpc = "clear"))
      /\ UNCHANGED <<queue, sem, shutdown, lpc>>
  BY DEF Wake
<1>2. /\ wpc'[w] = (IF pending THEN "run" ELSE "post")
      /\ \A u \in Writers \ {w} : wpc'[u] = wpc[u]
      /\ Posting' = IF pending THEN Posting ELSE Posting \cup {w}
      /\ w \notin Posting
  BY <1>1, OthersStay DEF Posting
<1>3. TypeOK'
  BY <1>1 DEF TypeOK, Goto
<1>4. Claimed'
  BY <1>1, <1>2, FullAssumption DEF Claimed, TypeOK
<1>5. FlagAnswered'
  BY <1>1, <1>2 DEF FlagAnswered
<1>6. LineAnswered'
  <2> SUFFICES ASSUME LineAnswered, ~(sem > 0 \/ Busy' # {}), queue # <<>>, ~missed',
                      lpc \in {"start", "clear", "test", "wait"}
               PROVE  FALSE
    BY <1>1 DEF LineAnswered
  <2>1. pending /\ lpc \in {"start", "test", "wait"}
    BY <1>1, <1>2 DEF Busy, TypeOK
  <2>2. Posting # {}
    BY <2>1 DEF FlagAnswered
  <2>3. Posting' \subseteq Busy'
    BY DEF Posting, Busy
  <2> QED BY <1>2, <2>1, <2>2, <2>3
<1>7. WakeupsFrom'
  <2>1. Posted' = Posted
    BY <1>1, <1>2 DEF Posted, Writers
  <2>2. Cardinality(Posting') = Cardinality(Posting) + (IF pending THEN 0 ELSE 1)
    <3>1. CASE pending
      BY <1>2, <3>1, PostingFinite
    <3>2. CASE ~pending
      BY <1>2, <3>2, PostingFinite, FS_AddElement
    <3> QED BY <3>1, <3>2
  <2> QED BY <1>1, <2>1, <2>2, PostingFinite DEF WakeupsFrom, Sources, TypeOK
<1> QED BY <1>3, <1>4, <1>5, <1>6, <1>7

LEMMA PostKeeps == ASSUME IInv, NEW w \in Writers, Post(w) PROVE IInv'
<1> USE DEF IInv
<1>1. /\ wpc[w] = "post" /\ sem' = sem + 1 /\ Goto(w, "run")
      /\ UNCHANGED <<queue, pending, shutdown, lpc, missed>>
  BY DEF Post
<1>2. /\ wpc'[w] = "run" /\ \A u \in Writers \ {w} : wpc'[u] = wpc[u]
      /\ Posting' = Posting \ {w} /\ w \in Posting
  BY <1>1, OthersStay DEF Posting
<1>3. TypeOK'
  BY <1>1 DEF TypeOK, Goto
<1>4. sem' > 0
  BY <1>1 DEF TypeOK
<1>5. Claimed'
  BY <1>1, <1>2, FullAssumption DEF Claimed, TypeOK
<1>6. FlagAnswered' /\ LineAnswered'
  BY <1>4 DEF FlagAnswered, LineAnswered
<1>7. WakeupsFrom'
  <2>1. Posted' = Posted
    BY <1>1, <1>2 DEF Posted, Writers
  <2>2. Cardinality(Posting') = Cardinality(Posting) - 1
    BY <1>2, PostingFinite, FS_RemoveElement
  <2> QED BY <1>1, <2>1, <2>2, PostingFinite DEF WakeupsFrom, Sources, TypeOK
<1> QED BY <1>3, <1>5, <1>6, <1>7

-----------------------------------------------------------------------------
(***************************************************************************)
(* The end                                                                 *)
(***************************************************************************)
LEMMA ClosingKeeps ==
    ASSUME IInv, Closing \/ \E w \in Writers : Leave(w) PROVE IInv'
<1> USE DEF IInv
<1>1. PICK w \in Writers, s \in {"left", "flagged", "joining"} :
        /\ wpc[w] \in {"run", "flagged", "joining"} /\ Goto(w, s)
        /\ UNCHANGED <<queue, pending, lpc, missed>>
        /\ shutdown' \in BOOLEAN
        /\ \/ sem' = sem /\ (w = Main /\ s = "left" => wpc[w] = "joining")
                         /\ (w = Main /\ s = "flagged" => wpc[w] = "run")
                         /\ s # "joining"
           \/ sem' = sem + 1 /\ w = Main /\ wpc[w] = "flagged" /\ s = "joining"
  <2>1. ASSUME NEW w \in Writers, Leave(w)
        PROVE  wpc[w] = "run" /\ w # Main /\ Goto(w, "left")
               /\ UNCHANGED <<queue, pending, sem, shutdown, lpc, missed>>
    BY <2>1, MainAssumption DEF Leave
  <2>2. Main \in Writers
    BY DEF Writers
  <2>3. CASE \E w \in Writers : Leave(w)
    BY <2>1, <2>3 DEF TypeOK
  <2>4. CASE RequestShutdown
    BY <2>2, <2>4 DEF RequestShutdown, TypeOK
  <2>5. CASE PostShutdown
    BY <2>2, <2>5 DEF PostShutdown, TypeOK
  <2>6. CASE Join
    BY <2>2, <2>6 DEF Join, TypeOK
  <2> QED BY <2>3, <2>4, <2>5, <2>6 DEF Closing
<1>2. /\ wpc'[w] = s /\ \A u \in Writers \ {w} : wpc'[u] = wpc[u]
      /\ Posting' = Posting
  BY <1>1, OthersStay
<1>3. Busy' = Busy
  BY <1>1, <1>2 DEF Busy
<1>4. TypeOK'
  BY <1>1 DEF TypeOK, Goto
<1>5. Claimed'
  BY <1>1, <1>2, FullAssumption DEF Claimed, TypeOK
<1>6. FlagAnswered' /\ LineAnswered'
  BY <1>1, <1>2, <1>3 DEF FlagAnswered, LineAnswered, TypeOK
<1>7. WakeupsFrom'
  <2>1. Main \in Writers
    BY DEF Writers
  <2>2. CASE sem' = sem
    <3>1. Posted => Posted'
      BY <1>1, <1>2, <2>1 DEF Posted
    <3> QED BY <1>1, <1>2, <2>2, <3>1, PostingFinite DEF WakeupsFrom, Sources, TypeOK
  <2>3. CASE sem' = sem + 1 /\ w = Main /\ wpc[w] = "flagged" /\ s = "joining"
    <3>1. ~Posted /\ Posted'
      BY <1>2, <2>3 DEF Posted
    <3> QED BY <1>1, <1>2, <2>3, <3>1, PostingFinite DEF WakeupsFrom, Sources, TypeOK
  <2> QED BY <1>1, <2>2, <2>3
<1> QED BY <1>4, <1>5, <1>6, <1>7

-----------------------------------------------------------------------------
(***************************************************************************)
(* The logger thread                                                       *)
(***************************************************************************)
LEMMA LoggerKeeps == ASSUME IInv, LoggerThread PROVE IInv'
<1> USE DEF IInv
<1>1. wpc' = wpc /\ shutdown' = shutdown
  BY DEF LoggerThread, LoggerStart, TestShutdown, Wait, Take, Drained, ClearPending
<1>2. Posting' = Posting /\ Busy' = Busy /\ Posted' = Posted
  BY <1>1 DEF Posting, Busy, Posted
<1>3. Posting \subseteq Busy
  BY DEF Posting, Busy
<1>4. CASE LoggerStart \/ ClearPending
  <2>1. /\ lpc \in {"start", "clear"} /\ lpc' = "test" /\ pending' = FALSE
        /\ UNCHANGED <<queue, sem, missed>>
    BY <1>4 DEF LoggerStart, ClearPending
  <2>2. WakeupsFrom'
    BY <1>2, <2>1, PostingFinite DEF WakeupsFrom, Sources, TypeOK
  <2>3. TypeOK'
    BY <1>1, <2>1 DEF TypeOK
  <2>4. Claimed' /\ FlagAnswered' /\ LineAnswered'
    BY <1>1, <1>2, <2>1 DEF Claimed, FlagAnswered, LineAnswered
  <2> QED BY <2>2, <2>3, <2>4
<1>5. CASE TestShutdown
  <2>1. /\ lpc = "test" /\ lpc' \in {"exited", "wait"}
        /\ UNCHANGED <<queue, pending, sem, missed>>
    BY <1>5 DEF TestShutdown
  <2>2. WakeupsFrom'
    BY <1>2, <2>1, PostingFinite DEF WakeupsFrom, Sources, TypeOK
  <2>3. TypeOK'
    BY <1>1, <2>1 DEF TypeOK
  <2>4. Claimed' /\ FlagAnswered' /\ LineAnswered'
    BY <1>1, <1>2, <2>1 DEF Claimed, FlagAnswered, LineAnswered
  <2> QED BY <2>2, <2>3, <2>4
<1>6. CASE Wait
  <2>1. /\ lpc = "wait" /\ lpc' = "drain" /\ sem > 0 /\ sem' = sem - 1
        /\ missed' = FALSE /\ UNCHANGED <<queue, pending>>
    BY <1>6 DEF Wait
  <2>2. WakeupsFrom'
    BY <1>2, <2>1, PostingFinite DEF WakeupsFrom, Sources, TypeOK
  <2>3. TypeOK'
    <3>1. sem' \in Nat
      BY <2>1 DEF TypeOK
    <3> QED BY <1>1, <2>1, <3>1 DEF TypeOK
  <2>4. Claimed' /\ FlagAnswered' /\ LineAnswered'
    BY <1>1, <1>2, <2>1 DEF Claimed, FlagAnswered, LineAnswered
  <2> QED BY <2>2, <2>3, <2>4
<1>7. CASE Take
  <2>1. /\ lpc = "drain" /\ queue # <<>> /\ queue' = Tail(queue)
        /\ UNCHANGED <<pending, sem, lpc, missed>>
    BY <1>7 DEF Take, HeadFull
  <2>2. /\ queue' \in Seq(Writers \cup {Full}) /\ Len(queue') = Len(queue) - 1
        /\ \A i \in 1 .. Len(queue') : queue'[i] = queue[i + 1]
    BY <2>1 DEF TypeOK
  <2>3. TypeOK'
    BY <1>1, <2>1, <2>2, QSizeAssumption DEF TypeOK
  <2>4. Claimed'
    BY <1>1, <2>2 DEF Claimed, TypeOK
  <2>5. WakeupsFrom'
    BY <1>2, <2>1 DEF WakeupsFrom, Sources
  <2> QED
    BY <2>1, <2>3, <2>4, <2>5 DEF FlagAnswered, LineAnswered
<1>8. CASE Drained
  <2>1. /\ lpc = "drain" /\ lpc' = "clear" /\ ~HeadFull
        /\ UNCHANGED <<queue, pending, sem, missed>>
    BY <1>8 DEF Drained
  <2>2. ASSUME queue # <<>> PROVE Busy # {}
    <3>1. 1 \in 1 .. Len(queue) /\ queue[1] # Full /\ queue[1] \in Writers
      BY <2>1, <2>2 DEF HeadFull, TypeOK
    <3> QED BY <3>1 DEF Claimed, Busy
  <2>3. WakeupsFrom'
    BY <1>2, <2>1, PostingFinite DEF WakeupsFrom, Sources, TypeOK
  <2> QED
    BY <1>1, <1>2, <2>1, <2>2, <2>3 DEF TypeOK, Claimed, FlagAnswered, LineAnswered
<1> QED BY <1>4, <1>5, <1>6, <1>7, <1>8 DEF LoggerThread

-----------------------------------------------------------------------------
THEOREM Invariance == Spec => []IInv
<1>1. IInv /\ [Next]_vars => IInv'
  <2> SUFFICES ASSUME IInv, [Next]_vars PROVE IInv'
    OBVIOUS
  <2>1. CASE UNCHANGED vars
    BY <2>1 DEF vars, IInv, TypeOK, Claimed, FlagAnswered, LineAnswered, WakeupsFrom,
                Sources, Posted, Posting, Busy
  <2>2. ASSUME NEW w \in Writers, Drop(w) PROVE IInv'
    BY <2>1, <2>2 DEF Drop
  <2>3. CASE Next
    BY <2>2, <2>3, ClaimKeeps, FillKeeps, WakeKeeps, PostKeeps, ClosingKeeps,
       LoggerKeeps DEF Next, Logging
  <2> QED BY <2>1, <2>3
<1> QED BY <1>1, InitIInv, PTL DEF Spec

THEOREM TypeCorrect == Spec => []TypeOK
<1>1. IInv => TypeOK
  BY DEF IInv
<1> QED BY <1>1, Invariance, PTL

\* Whatever the logger has overlooked, the next line that gets into the queue
\* wakes it.
THEOREM FlagNotLeftBehind == Spec => []NextLineWakes
<1>1. IInv => NextLineWakes
  BY DEF IInv, FlagAnswered, NextLineWakes
<1> QED BY <1>1, Invariance, PTL

\* At most three wake-ups are ever under way.
THEOREM SemaphoreBounded == Spec => []WakeupsBounded
<1>1. IInv => WakeupsBounded
  BY PostingFinite DEF IInv, TypeOK, WakeupsFrom, WakeupsBounded, Sources
<1> QED BY <1>1, Invariance, PTL

\* The only lines a sleeping logger has not been woken for are those whose LOG
\* found the flag set after the logger's last look.
THEOREM GapIsTheOnlyOne == Spec => []OverlookedInGap
<1>1. IInv => OverlookedInGap
  BY DEF IInv, LineAnswered, OverlookedInGap, Busy
<1> QED BY <1>1, Invariance, PTL

-----------------------------------------------------------------------------
(***************************************************************************)
(* The end is not slept through                                            *)
(***************************************************************************)
Ending == {"flagged", "joining", "left"}

\* A thread in LOG neither comes to the end nor takes a wake-up.
LEMMA LoggingKeepsEnd ==
    ASSUME IInv, NeverSleepsThrough, FlagFirst, NEW w \in Writers,
           Logging(w) \/ Leave(w)
    PROVE  NeverSleepsThrough' /\ FlagFirst'
<1>1. Main \in Writers
  BY DEF Writers
<1>2. UNCHANGED <<shutdown, lpc>> /\ sem \in Nat /\ sem' \in {sem, sem + 1}
  BY DEF Logging, Claim, Drop, Fill, Wake, Post, Leave, vars, IInv, TypeOK
<1>3. wpc'[Main] = wpc[Main] \/ (wpc[Main] \notin Ending /\ wpc'[Main] \notin Ending)
  <2>1. CASE Leave(w)
    <3>1. w # Main /\ Goto(w, "left")
      BY <2>1, MainAssumption DEF Leave
    <3>2. \A u \in Writers \ {w} : wpc'[u] = wpc[u]
      BY <3>1, OthersStay DEF IInv
    <3> QED BY <1>1, <3>1, <3>2
  <2>2. CASE Drop(w)
    BY <2>2 DEF Drop, vars
  <2>3. CASE Claim(w) \/ Fill(w) \/ Wake(w) \/ Post(w)
    <3>1. PICK s \in {"fill", "wake", "run", "post"} : Goto(w, s)
      BY <2>3 DEF Claim, Fill, Wake, Post
    <3>2. wpc[w] \notin Ending
      BY <2>3 DEF Claim, Fill, Wake, Post, Ending
    <3>3. /\ wpc'[w] = s /\ \A u \in Writers \ {w} : wpc'[u] = wpc[u]
      BY <3>1, OthersStay DEF IInv
    <3> QED BY <1>1, <3>2, <3>3 DEF Ending
  <2> QED BY <2>1, <2>2, <2>3 DEF Logging
<1> QED BY <1>2, <1>3 DEF NeverSleepsThrough, FlagFirst, Posted, Ending

\* The end goes from the flag to the post to the join.
LEMMA ClosingKeepsEnd ==
    ASSUME IInv, NeverSleepsThrough, FlagFirst, Closing
    PROVE  NeverSleepsThrough' /\ FlagFirst'
<1>1. sem \in Nat /\ \A s : Goto(Main, s) => wpc'[Main] = s
  BY DEF Writers, Goto, IInv, TypeOK
<1>2. CASE RequestShutdown
  BY <1>1, <1>2 DEF RequestShutdown, NeverSleepsThrough, FlagFirst, Posted
<1>3. CASE PostShutdown
  BY <1>1, <1>3 DEF PostShutdown, NeverSleepsThrough, FlagFirst, Posted
<1>4. CASE Join
  BY <1>1, <1>4 DEF Join, NeverSleepsThrough, FlagFirst, Posted
<1> QED BY <1>2, <1>3, <1>4 DEF Closing

\* The logger goes to wait only if it finds the flag clear, before the post.
LEMMA LoggerKeepsEnd ==
    ASSUME NeverSleepsThrough, FlagFirst, LoggerThread
    PROVE  NeverSleepsThrough' /\ FlagFirst'
<1>1. UNCHANGED <<wpc, shutdown>>
  BY DEF LoggerThread, LoggerStart, TestShutdown, Wait, Take, Drained, ClearPending
<1>2. lpc' = "wait" => lpc = "test" /\ ~shutdown
  BY DEF LoggerThread, LoggerStart, TestShutdown, Wait, Take, Drained, ClearPending
<1>3. Posted => shutdown
  BY DEF FlagFirst, Posted
<1> QED BY <1>1, <1>2, <1>3 DEF NeverSleepsThrough, FlagFirst, Posted

\* log_system_shutdown never waits for a logger that nobody will wake.
THEOREM EndNotSleptThrough == Spec => [](NeverSleepsThrough /\ FlagFirst)
<1>1. Init => NeverSleepsThrough /\ FlagFirst
  BY DEF Init, NeverSleepsThrough, FlagFirst, Writers
<1>2. IInv /\ NeverSleepsThrough /\ FlagFirst /\ [Next]_vars
        => NeverSleepsThrough' /\ FlagFirst'
  <2>1. CASE UNCHANGED vars
    BY <2>1 DEF vars, NeverSleepsThrough, FlagFirst, Posted
  <2> QED BY <2>1, LoggingKeepsEnd, ClosingKeepsEnd, LoggerKeepsEnd DEF Next
<1> QED BY <1>1, <1>2, Invariance, PTL DEF Spec
=============================================================================
