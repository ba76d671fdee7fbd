------------------------------ MODULE TimerQueue ------------------------------
(***************************************************************************)
(* textus::event::TimerQueue (event/TimerQueue.h) and the two calls of a    *)
(* Timer that use it (event/Timer.cc): clients start, stop and drop timers  *)
(* while the thread of the queue sleeps until the first of them is due,     *)
(* collects the ones that are and calls their timeOut().                    *)
(*                                                                          *)
(* Three locks.  The monitor of a timer is held by timerStop(), by          *)
(* Event::post() around timerStart() and by the worker that drops the timer *)
(* of the event it takes.  Synchronized(queue), the list lock, is taken     *)
(* under it.  The mutex of the condition is taken under the list lock, by   *)
(* every caller, so what the thread does between allowSleep() and           *)
(* mutex.lock() is one step.  All three are read off pc.                    *)
(***************************************************************************)
EXTENDS Naturals, Sequences, FiniteSets

CONSTANTS
  Timers,     \* the timers of the program
  Clients,    \* the threads that start and stop them
  Thread,     \* the thread of the queue, in timerThreadLoop()
  Main,       \* the thread that calls threadExit()
  NoTimer,    \* in no call
  Delays,     \* the durations given to timerStart()
  MaxTime,    \* bound: the clock stops here, a later deadline is never reached
  MaxStarts   \* bound on the calls of timerStart()

ASSUME ActorsAssumption ==
  /\ Thread \notin Clients /\ Main \notin Clients /\ Thread # Main
  /\ NoTimer \notin Timers
ASSUME BoundsAssumption ==
  /\ Delays \subseteq Nat /\ MaxTime \in Nat /\ MaxStarts \in Nat
  /\ \A d \in Delays : d <= MaxTime

VARIABLES
  timer_list,   \* TimerQueue::timer_list
  end_time,     \* Timer::end_time
  tq,           \* Timer::tq is not NULL
  wake_up,      \* TimerQueue::wake_up
  should_exit,  \* TimerQueue::should_exit
  timeout,      \* the local of waitForTimeOut()
  expired,      \* the local of processTimeOuts()
  now,          \* Time::now()
  pc,           \* where each thread is
  call,         \* the call a thread is in: "start", "stop" or "drop"
  timer,        \* the timer it is about
  starts,       \* calls of timerStart() so far
  restarted     \* history: a timer still on the list was started again

listVars == <<timer_list, end_time, tq>>
loopVars == <<wake_up, should_exit, timeout, expired>>
callVars == <<pc, call, timer>>
vars == <<listVars, loopVars, callVars, now, starts, restarted>>

Actors == Clients \cup {Thread, Main}

\* Time::maxTime(), past every deadline.
Never == 2 * MaxTime + 1

\* idle      a client outside every call, Main before threadExit()
\* add       timerStart() has set the time, addTimer() is next
\* remove    timerStop() or processEvents() is about to call removeTimer()
\* wake      the list is changed, its lock held, wake() is next
\* exit, exitWake, join
\*           Main in threadExit(): before the first mutex, before wake(), after
\* loop, prepare, locked, asleep, collect, fire, again, exited
\*           the thread: the test of its loop, waitForTimeOut() before and after
\*           it has the mutex, in the condition.waitTimeOut, before and in
\*           processTimeOuts(), in a timeOut() that starts its timer again
PCs == {"idle", "add", "remove", "wake", "exit", "exitWake", "join", "loop", "prepare",
        "locked", "asleep", "collect", "fire", "again", "exited"}

OnList(t) == \E i \in DOMAIN timer_list : timer_list[i] = t

MonitorFree(t) == \A a \in Actors : timer[a] # t \/ pc[a] = "again"

\* Seeded fault: processTimeOuts() keeps the list lock while it calls timeOut().
ListFree_HeldWhileFiring ==
  /\ \A a \in Actors : pc[a] \notin {"wake", "exit", "exitWake"}
  /\ pc[Thread] \notin {"fire", "again"}

ListFree == \A a \in Actors : pc[a] \notin {"wake", "exit", "exitWake"}
MutexFree == pc[Thread] # "locked"

Init ==
  /\ timer_list = <<>>
  /\ end_time = [t \in Timers |-> 0]
  /\ tq = [t \in Timers |-> FALSE]
  /\ wake_up = FALSE
  /\ should_exit = FALSE
  /\ timeout = Never
  /\ expired = <<>>
  /\ now = 0
  /\ pc = [a \in Actors |-> IF a = Thread THEN "loop" ELSE "idle"]
  /\ call = [a \in Actors |-> "start"]
  /\ timer = [a \in Actors |-> NoTimer]
  /\ starts = 0
  /\ restarted = FALSE

-----------------------------------------------------------------------------
(* Clients, and the thread where a timeOut() posts its event again. *)

\* A call is over: its locks are released, the thread returns to its loop.
Return(a, p) == [p EXCEPT ![a] = IF a = Thread THEN "fire" ELSE "idle"]

\* Seeded fault: the duration is added to the old deadline.
SetTime_Accumulates(a, t, d) ==
  /\ MonitorFree(t)
  /\ end_time' = [end_time EXCEPT ![t] = @ + now + d]
  /\ tq' = [tq EXCEPT ![t] = TRUE]
  /\ restarted' = (restarted \/ OnList(t))
  /\ pc' = [pc EXCEPT ![a] = "add"]
  /\ call' = [call EXCEPT ![a] = "start"]
  /\ timer' = [timer EXCEPT ![a] = t]
  /\ UNCHANGED <<timer_list, loopVars, now>>

\* timerStart() under the monitor: the new time is set, on the list or not.
SetTime(a, t, d) ==
  /\ MonitorFree(t)
  /\ end_time' = [end_time EXCEPT ![t] = now + d]
  /\ tq' = [tq EXCEPT ![t] = TRUE]
  /\ restarted' = (restarted \/ OnList(t))
  /\ pc' = [pc EXCEPT ![a] = "add"]
  /\ call' = [call EXCEPT ![a] = "start"]
  /\ timer' = [timer EXCEPT ![a] = t]
  /\ UNCHANGED <<timer_list, loopVars, now>>

ClientStart(c, t, d) ==
  /\ pc[c] = "idle"
  /\ starts < MaxStarts
  /\ starts' = starts + 1
  /\ SetTime(c, t, d)

ThreadStart(d) ==
  /\ pc[Thread] = "again"
  /\ SetTime(Thread, timer[Thread], d)
  /\ UNCHANGED starts

\* Seeded fault: the search of addTimer() starts at the second entry.
InsertAt_SkipsFront(t, k) ==
  /\ k \in 1 .. Len(timer_list) + 1
  /\ \A i \in 2 .. k - 1 : end_time[timer_list[i]] <= end_time[t]
  /\ k = 1 => timer_list = <<>>
  /\ k <= Len(timer_list) => k = 1 \/ end_time[t] < end_time[timer_list[k]]

\* addTimer() puts t before the first entry whose time is later.
InsertAt(t, k) ==
  /\ k \in 1 .. Len(timer_list) + 1
  /\ \A i \in 1 .. k - 1 : end_time[timer_list[i]] <= end_time[t]
  /\ k <= Len(timer_list) => end_time[t] < end_time[timer_list[k]]

\* Seeded fault: addTimer() wakes the thread only when the list was empty.
NeedsWake_OnlyWhenEmpty(k) == timer_list = <<>>

\* newAlarmTime() is called where the first deadline has changed.
NeedsWake(k) == k = 1

\* addTimer(), up to its newAlarmTime().
AddTimer(a) ==
  /\ pc[a] = "add"
  /\ ListFree
  /\ \E k \in 1 .. Len(timer_list) + 1 :
        /\ InsertAt(timer[a], k)
        /\ timer_list' = [i \in 1 .. Len(timer_list) + 1 |->
                            IF i < k THEN timer_list[i]
                            ELSE IF i = k THEN timer[a] ELSE timer_list[i - 1]]
        /\ IF NeedsWake(k)
           THEN pc' = [pc EXCEPT ![a] = "wake"] /\ UNCHANGED timer
           ELSE pc' = Return(a, pc) /\ timer' = [timer EXCEPT ![a] = NoTimer]
  /\ UNCHANGED <<end_time, tq, loopVars, call, now, starts, restarted>>

\* timerStop(), and processEvents() of the worker that takes the event.
ClientStop(c, t, kind) ==
  /\ pc[c] = "idle"
  /\ MonitorFree(t)
  /\ IF kind = "stop" THEN tq[t] ELSE OnList(t)
  /\ pc' = [pc EXCEPT ![c] = "remove"]
  /\ call' = [call EXCEPT ![c] = kind]
  /\ timer' = [timer EXCEPT ![c] = t]
  /\ UNCHANGED <<listVars, loopVars, now, starts, restarted>>

\* erase() takes every entry of the timer out: the others stay, in their order.
Erase(t) ==
  LET others == {i \in DOMAIN timer_list : timer_list[i] # t} IN
  \E from \in [1 .. Cardinality(others) -> others] :
    /\ \A i, j \in DOMAIN from : i < j => from[i] < from[j]
    /\ timer_list' = [i \in DOMAIN from |-> timer_list[from[i]]]

\* removeTimer() erases, and always wakes.
RemoveTimer(c) ==
  /\ pc[c] = "remove"
  /\ ListFree
  /\ Erase(timer[c])
  /\ pc' = [pc EXCEPT ![c] = "wake"]
  /\ UNCHANGED <<end_time, tq, loopVars, call, timer, now, starts, restarted>>

\* Seeded fault: wake() sets wake_up and leaves out the signal.
Signal_None(p) == p

\* condition.signal(): the thread, if asleep, goes on to processTimeOuts().
Signal(p) == IF p[Thread] = "asleep" THEN [p EXCEPT ![Thread] = "collect"] ELSE p

\* wake(); then the locks are released, and timerStop() forgets the queue.
Wake(a) ==
  /\ pc[a] = "wake"
  /\ MutexFree
  /\ wake_up' = TRUE
  /\ pc' = Return(a, Signal(pc))
  /\ tq' = IF call[a] = "stop" THEN [tq EXCEPT ![timer[a]] = FALSE] ELSE tq
  /\ timer' = [timer EXCEPT ![a] = NoTimer]
  /\ call' = [call EXCEPT ![a] = "start"]
  /\ UNCHANGED <<timer_list, end_time, should_exit, timeout, expired, now, starts,
                 restarted>>

-----------------------------------------------------------------------------
(* The thread of the queue. *)

Goto(a, where) == pc' = [pc EXCEPT ![a] = where]

ThreadLoop ==
  /\ pc[Thread] = "loop"
  /\ Goto(Thread, IF should_exit THEN "exited" ELSE "prepare")
  /\ UNCHANGED <<listVars, loopVars, call, timer, now, starts, restarted>>

\* waitForTimeOut() under the list lock, until it has the mutex.
ThreadPrepare ==
  /\ pc[Thread] = "prepare"
  /\ ListFree
  /\ wake_up' = FALSE
  /\ timeout' = IF timer_list = <<>> THEN Never ELSE end_time[Head(timer_list)]
  /\ Goto(Thread, "locked")
  /\ UNCHANGED <<listVars, should_exit, expired, call, timer, now, starts, restarted>>

\* Seeded fault: the test before the wait forgets should_exit.
MaySleep_NoExitTest == ~wake_up

MaySleep == ~wake_up /\ ~should_exit

\* Its test, and the condition.waitTimeOut that lets go of the mutex.
ThreadWait ==
  /\ pc[Thread] = "locked"
  /\ Goto(Thread, IF MaySleep THEN "asleep" ELSE "collect")
  /\ UNCHANGED <<listVars, loopVars, call, timer, now, starts, restarted>>

\* The wait ends because the time has come.
ThreadTimedOut ==
  /\ pc[Thread] = "asleep"
  /\ timeout <= now
  /\ Goto(Thread, "collect")
  /\ UNCHANGED <<listVars, loopVars, call, timer, now, starts, restarted>>

\* Or for no reason: POSIX allows it, and so does threadWaiting().
ThreadSpurious ==
  /\ pc[Thread] = "asleep"
  /\ Goto(Thread, "collect")
  /\ UNCHANGED <<listVars, loopVars, call, timer, now, starts, restarted>>

Due(t) == now > end_time[t]

\* The loop of processTimeOuts() stops at the first entry that is not due.
DueCount(n) ==
  /\ \A i \in 1 .. n : Due(timer_list[i])
  /\ n < Len(timer_list) => ~Due(timer_list[n + 1])

\* processTimeOuts() under the list lock.
ThreadCollect ==
  /\ pc[Thread] = "collect"
  /\ ListFree
  /\ \E n \in 0 .. Len(timer_list) :
        /\ DueCount(n)
        /\ expired' = SubSeq(timer_list, 1, n)
        /\ timer_list' = SubSeq(timer_list, n + 1, Len(timer_list))
  /\ timeout' = Never
  /\ Goto(Thread, "fire")
  /\ UNCHANGED <<end_time, tq, wake_up, should_exit, call, timer, now, starts,
                 restarted>>

\* timeOut() of the next expired timer, without a lock.  That of an event
\* posts it (TimerEvent) or reposts it: the event starts its timer again.
ThreadFire ==
  /\ pc[Thread] = "fire"
  /\ expired # <<>>
  /\ expired' = Tail(expired)
  /\ \/ UNCHANGED <<pc, timer, starts>>
     \/ /\ starts < MaxStarts
        /\ starts' = starts + 1
        /\ timer' = [timer EXCEPT ![Thread] = Head(expired)]
        /\ Goto(Thread, "again")
  /\ UNCHANGED <<listVars, wake_up, should_exit, timeout, call, now, restarted>>

ThreadFired ==
  /\ pc[Thread] = "fire"
  /\ expired = <<>>
  /\ Goto(Thread, "loop")
  /\ UNCHANGED <<listVars, loopVars, call, timer, now, starts, restarted>>

-----------------------------------------------------------------------------
(* threadExit(), and the clock. *)

\* Synchronized(this).
ExitEnter ==
  /\ pc[Main] = "idle"
  /\ ListFree
  /\ Goto(Main, "exit")
  /\ UNCHANGED <<listVars, loopVars, call, timer, now, starts, restarted>>

\* setShouldExit(true) takes the mutex, lets it go,
ExitSet ==
  /\ pc[Main] = "exit"
  /\ MutexFree
  /\ should_exit' = TRUE
  /\ Goto(Main, "exitWake")
  /\ UNCHANGED <<listVars, wake_up, timeout, expired, call, timer, now, starts, restarted>>

\* and takes it again in wake().
ExitWake ==
  /\ pc[Main] = "exitWake"
  /\ MutexFree
  /\ wake_up' = TRUE
  /\ pc' = [Signal(pc) EXCEPT ![Main] = "join"]
  /\ UNCHANGED <<listVars, should_exit, timeout, expired, call, timer, now, starts,
                 restarted>>

\* timerQueueThread->join().
ExitJoin ==
  /\ pc[Main] = "join"
  /\ pc[Thread] = "exited"
  /\ Goto(Main, "exited")
  /\ UNCHANGED <<listVars, loopVars, call, timer, now, starts, restarted>>

Tick ==
  /\ now < MaxTime
  /\ now' = now + 1
  /\ UNCHANGED <<listVars, loopVars, callVars, starts, restarted>>

-----------------------------------------------------------------------------
Continue(a) == AddTimer(a) \/ RemoveTimer(a) \/ Wake(a)

Exiting == ExitSet \/ ExitWake \/ ExitJoin

ThreadStep ==
  \/ ThreadLoop \/ ThreadPrepare \/ ThreadWait \/ ThreadTimedOut \/ ThreadCollect
  \/ ThreadFire \/ ThreadFired \/ Continue(Thread)
  \/ \E d \in Delays : ThreadStart(d)

Next ==
  \/ \E c \in Clients :
       \/ Continue(c)
       \/ \E t \in Timers :
            \/ \E d \in Delays : ClientStart(c, t, d)
            \/ \E kind \in {"stop", "drop"} : ClientStop(c, t, kind)
  \/ ThreadStep \/ ThreadSpurious
  \/ ExitEnter \/ Exiting
  \/ Tick

Spec == Init /\ [][Next]_vars

\* Threads run, calls go on, a wait whose time has come ends, time passes.
\* Nobody has to start, stop or exit, and no wait has to end for no reason.
FairSpec ==
  /\ Spec
  /\ WF_vars(ThreadStep) /\ WF_vars(Exiting) /\ WF_vars(Tick)
  /\ \A c \in Clients : WF_vars(Continue(c))

-----------------------------------------------------------------------------
(* Properties. *)

TypeOK ==
  /\ timer_list \in Seq(Timers) /\ expired \in Seq(Timers)
  /\ end_time \in [Timers -> 0 .. 2 * MaxTime]
  /\ tq \in [Timers -> BOOLEAN]
  /\ wake_up \in BOOLEAN /\ should_exit \in BOOLEAN /\ restarted \in BOOLEAN
  /\ timeout \in 0 .. Never
  /\ now \in 0 .. MaxTime
  /\ pc \in [Actors -> PCs]
  /\ call \in [Actors -> {"start", "stop", "drop"}]
  /\ timer \in [Actors -> Timers \cup {NoTimer}]
  /\ starts \in 0 .. MaxStarts

\* A wake() that has yet to run.
WakeComing == \E a \in Actors : pc[a] \in {"wake", "exitWake"}

\* The thread never sleeps past a deadline on the list: it asked for a time no
\* later than any of them, or a wake() is on its way.  (timerStart() of a timer
\* that is still on the list changes a time in place, where addTimer() sees
\* only the new entry: then the promise is lost, hence restarted.)
NotSleptOver ==
  pc[Thread] = "asleep" /\ ~restarted
    => WakeComing \/ \A i \in DOMAIN timer_list : timeout <= end_time[timer_list[i]]

\* The list is ordered by deadline, which is what lets waitForTimeOut() look at
\* its first entry and processTimeOuts() stop at the first that is not due.
Sorted ==
  ~restarted => \A i, j \in DOMAIN timer_list :
                  i < j => end_time[timer_list[i]] <= end_time[timer_list[j]]

\* The thread never sleeps with should_exit set, unless the wake() that follows
\* setShouldExit() has yet to come.
ExitHeard == pc[Thread] = "asleep" /\ should_exit => pc[Main] = "exitWake"

\* On the list with a deadline the clock will pass.
Ringing(t) == OnList(t) /\ end_time[t] < MaxTime

\* Every timer on the list whose deadline the clock passes leaves it: it rings,
\* is stopped or is given a later deadline, unless the queue is told to exit
\* (or a restart has put the list out of order, behind whose front it waits).
EveryAlarmRings ==
  \A t \in Timers :
    Ringing(t) ~> (~Ringing(t) \/ should_exit \/ restarted)

\* Once threadExit() is called the thread ends, and threadExit() returns.
ThreadExits == pc[Main] = "exit" ~> pc[Main] = "exited"
=============================================================================
