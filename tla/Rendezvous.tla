----------------------------- MODULE Rendezvous -----------------------------
(***************************************************************************)
(* What a barrier promises: nobody is let through before everybody has     *)
(* arrived, and nobody arrives again before it was let through.  No rounds *)
(* are counted, so the module says the same of a barrier used for ever.    *)
(***************************************************************************)
CONSTANT Threads

VARIABLES
    arrived,    \* the threads that wait for the others
    released    \* the threads that are let through and have not returned

meetVars == <<arrived, released>>

MeetInit == arrived = {} /\ released = {}

Arrive(t) ==
    /\ t \notin arrived \cup released
    /\ arrived \cup {t} # Threads
    /\ arrived' = arrived \cup {t}
    /\ UNCHANGED released

\* The last thread to arrive returns at once.
Complete(t) ==
    /\ t \notin arrived \cup released
    /\ arrived \cup {t} = Threads
    /\ arrived' = {} /\ released' = arrived

Return(t) ==
    /\ t \in released
    /\ released' = released \ {t}
    /\ UNCHANGED arrived

MeetNext == \E t \in Threads : Arrive(t) \/ Complete(t) \/ Return(t)

MeetSpec == MeetInit /\ [][MeetNext]_meetVars
=============================================================================
