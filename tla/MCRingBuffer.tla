---------------------------- MODULE MCRingBuffer ----------------------------
(***************************************************************************)
(* RingBuffer for TLC: three threads, each free to call any of the four    *)
(* operations, on the smallest ring the code allows, with one value; the   *)
(* tickets go once round it and beyond.                                    *)
(***************************************************************************)
EXTENDS RingBuffer, TLC
CONSTANTS t1, t2, t3, v1

MCThreads == {t1, t2, t3}
MCValue   == {v1}
=============================================================================
