------------------------------- MODULE Monitor -------------------------------
(***************************************************************************)
(* What a textus::base::Base promises to the threads that synchronize on    *)
(* it: a recursive monitor.  One thread at a time is inside; it may nest;   *)
(* a thread that calls wait() steps out with its nesting put aside and      *)
(* comes back with exactly that nesting.  Nothing here says how the promise *)
(* is kept: BaseMonitor is the code of Base.h, and it implements this.      *)
(***************************************************************************)
EXTENDS Naturals

CONSTANTS
  Threads,   \* the threads that use the object
  NoThread,  \* not in Threads: nobody
  MaxDepth   \* bound on the nesting of synchronize() in one thread

VARIABLES
  holder,    \* the thread inside, or NoThread
  level,     \* level[t]: how many times t has entered and not left
  parked     \* the threads that are in wait(), out of the monitor

vars == <<holder, level, parked>>

Init ==
  /\ holder = NoThread
  /\ level = [t \in Threads |-> 0]
  /\ parked = {}

\* A thread enters: the monitor is free, or the thread is inside already.
Enter(t) ==
  /\ holder \in {NoThread, t}
  /\ t \notin parked
  /\ level[t] < MaxDepth
  /\ holder' = t
  /\ level' = [level EXCEPT ![t] = @ + 1]
  /\ UNCHANGED parked

\* It leaves once; the monitor is free when it has left as often as entered.
Leave(t) ==
  /\ holder = t
  /\ level[t] > 0
  /\ level' = [level EXCEPT ![t] = @ - 1]
  /\ holder' = IF level[t] = 1 THEN NoThread ELSE t
  /\ UNCHANGED parked

\* It steps out to wait and keeps its nesting ...
Park(t) ==
  /\ holder = t
  /\ holder' = NoThread
  /\ parked' = parked \cup {t}
  /\ UNCHANGED level

\* ... and steps back in when nobody else is inside.
Unpark(t) ==
  /\ t \in parked
  /\ holder = NoThread
  /\ holder' = t
  /\ parked' = parked \ {t}
  /\ UNCHANGED level

Next == \E t \in Threads : Enter(t) \/ Leave(t) \/ Park(t) \/ Unpark(t)

Spec == Init /\ [][Next]_vars
=============================================================================
