----------------------------- MODULE MCTimerQueue -----------------------------
(***************************************************************************)
(* TimerQueue with one client, the thread (which starts timers too) and     *)
(* threadExit(): two of them can want the list while the third holds it.    *)
(* Two timers started three times make a list of three entries, inserted in *)
(* any order, with a timer started again while it is still on the list.     *)
(***************************************************************************)
EXTENDS TimerQueue

CONSTANTS c1, t1, t2

MCClients == {c1}
MCTimers == {t1, t2}
MCDelays == {0, 1}
=============================================================================
