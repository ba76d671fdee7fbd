---------------------------- MODULE MCBaseMonitor ----------------------------
(***************************************************************************)
(* BaseMonitor with three threads and two levels of nesting: one thread     *)
(* inside, one blocked in synchronize() and one in wait() is the smallest   *)
(* set in which a wakeup can go to the wrong thread.                        *)
(***************************************************************************)
EXTENDS BaseMonitor

CONSTANTS t1, t2, t3

MCThreads == {t1, t2, t3}
=============================================================================
