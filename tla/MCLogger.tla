------------------------------ MODULE MCLogger ------------------------------
(***************************************************************************)
(* Logger for TLC: two threads, main and a queue of three slots.           *)
(***************************************************************************)
EXTENDS Logger
CONSTANTS t1, t2

MCThreads == {t1, t2}
=============================================================================
