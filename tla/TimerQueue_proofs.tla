-------------------------- MODULE TimerQueue_proofs --------------------------
(***************************************************************************)
(* TimerQueue, for any timers, clients, delays and bounds: the thread hears *)
(* of its end, the list stays sorted and no deadline on it is slept over.   *)
(*                                                                          *)
(* threadExit() sets should_exit in one turn of the mutex and signals in    *)
(* another, the thread tests it in a third: ExitInv.  A deadline that gets  *)
(* on the list after the thread has looked comes with a wake() or behind an *)
(* earlier one: AsksInTime, which needs Sorted, and Sorted that a timer is  *)
(* given a new time only off the list.                                      *)
(***************************************************************************)
EXTENDS TimerQueue, FiniteSetTheorems, SequenceTheorems, TLAPS

\* Where threadExit() is once it has set should_exit, and once it has signalled.
HasSet == {"exitWake", "join", "exited"}
HasSignalled == {"join", "exited"}

\* should_exit is set from setShouldExit() on, and from its wake() on the thread
\* does not sleep any more.
ExitInv ==
  /\ pc \in [Actors -> PCs]
  /\ should_exit <=> pc[Main] \in HasSet
  /\ pc[Main] \in HasSignalled => pc[Thread] # "asleep"

LEMMA InitExitInv == Init => ExitInv
BY ActorsAssumption DEF Init, ExitInv, HasSet, HasSignalled, PCs, Actors

\* A step that leaves Main where it is, should_exit as it is and puts nobody
\* to sleep keeps the invariant.
LEMMA AwakeKeeps ==
  ASSUME ExitInv, pc' \in [Actors -> PCs], should_exit' = should_exit,
         pc'[Main] = pc[Main], pc'[Thread] = "asleep" => pc[Thread] = "asleep"
  PROVE  ExitInv'
BY DEF ExitInv

\* The signal moves the thread, and only it.
LEMMA SignalWakes ==
  ASSUME ExitInv
  PROVE  /\ Signal(pc) \in [Actors -> PCs]
         /\ Signal(pc)[Thread] # "asleep"
         /\ \A a \in Actors \ {Thread} : Signal(pc)[a] = pc[a]
BY DEF ExitInv, Signal, PCs, Actors

\* The calls of timerStart() and timerStop(), made by a client or the thread.
LEMMA CallKeeps ==
  ASSUME ExitInv, NEW a \in Actors, a # Main,
         \/ Continue(a)
         \/ \E t \in Timers, d \in Delays : SetTime(a, t, d)
  PROVE  ExitInv'
<1>1. ASSUME NEW t \in Timers, NEW d \in Delays, SetTime(a, t, d)
      PROVE  ExitInv'
  <2>1. /\ pc' \in [Actors -> PCs] /\ pc'[Main] = pc[Main] /\ should_exit' = should_exit
        /\ pc'[Thread] = "asleep" => pc[Thread] = "asleep"
    BY <1>1, ActorsAssumption DEF ExitInv, SetTime, loopVars, PCs, Actors
  <2> QED BY <2>1, AwakeKeeps
<1>2. CASE AddTimer(a)
  <2>1. /\ pc' \in [Actors -> PCs] /\ pc'[Main] = pc[Main] /\ should_exit' = should_exit
        /\ pc'[Thread] = "asleep" => pc[Thread] = "asleep"
    BY <1>2, ActorsAssumption DEF ExitInv, AddTimer, Return, loopVars, PCs, Actors
  <2> QED BY <2>1, AwakeKeeps
<1>3. CASE RemoveTimer(a)
  <2>1. /\ pc' \in [Actors -> PCs] /\ pc'[Main] = pc[Main] /\ should_exit' = should_exit
        /\ pc'[Thread] = "asleep" => pc[Thread] = "asleep"
    BY <1>3, ActorsAssumption DEF ExitInv, RemoveTimer, loopVars, PCs, Actors
  <2> QED BY <2>1, AwakeKeeps
<1>4. CASE Wake(a)
  <2>1. /\ pc' = Return(a, Signal(pc)) /\ should_exit' = should_exit
    BY <1>4 DEF Wake
  <2>2. /\ pc' \in [Actors -> PCs] /\ pc'[Main] = pc[Main]
        /\ pc'[Thread] = "asleep" => pc[Thread] = "asleep"
    BY <2>1, SignalWakes, ActorsAssumption DEF Return, PCs, Actors
  <2> QED BY <2>1, <2>2, AwakeKeeps
<1> QED BY <1>1, <1>2, <1>3, <1>4 DEF Continue

\* The loop of the thread: it goes to sleep only where it sees no should_exit.
LEMMA ThreadKeeps ==
  ASSUME ExitInv, ThreadStep \/ ThreadSpurious
  PROVE  ExitInv'
<1>1. Thread \in Actors /\ Thread # Main /\ Main \in Actors
  BY ActorsAssumption DEF Actors
<1>2. CASE ThreadWait
  <2>1. pc'[Main] = pc[Main] /\ should_exit' = should_exit /\ pc' \in [Actors -> PCs]
    BY <1>1, <1>2 DEF ThreadWait, Goto, loopVars, ExitInv, PCs
  <2>2. pc'[Thread] = "asleep" => ~should_exit
    BY <1>1, <1>2 DEF ThreadWait, Goto, MaySleep, ExitInv
  <2> QED BY <2>1, <2>2 DEF ExitInv, HasSet, HasSignalled
<1>3. CASE Continue(Thread)
  BY <1>1, <1>3, CallKeeps
<1>4. ASSUME NEW d \in Delays, ThreadStart(d)
      PROVE  ExitInv'
  <2>1. /\ pc' = [pc EXCEPT ![Thread] = "add"] /\ should_exit' = should_exit
    BY <1>4 DEF ThreadStart, SetTime, loopVars
  <2>2. /\ pc' \in [Actors -> PCs] /\ pc'[Main] = pc[Main] /\ pc'[Thread] # "asleep"
    BY <1>1, <2>1 DEF ExitInv, PCs
  <2> QED BY <2>1, <2>2, AwakeKeeps
<1>5. CASE \/ ThreadLoop \/ ThreadPrepare \/ ThreadTimedOut \/ ThreadCollect
           \/ ThreadFire \/ ThreadFired \/ ThreadSpurious
  <2>1. /\ pc' \in [Actors -> PCs] /\ pc'[Main] = pc[Main] /\ should_exit' = should_exit
        /\ pc'[Thread] = "asleep" => pc[Thread] = "asleep"
    BY <1>1, <1>5 DEF ThreadLoop, ThreadPrepare, ThreadTimedOut, ThreadCollect, ThreadFire,
         ThreadFired, ThreadSpurious, Goto, loopVars, ExitInv, PCs
  <2> QED BY <2>1, AwakeKeeps
<1> QED BY <1>2, <1>3, <1>4, <1>5 DEF ThreadStep

\* threadExit() itself.
LEMMA MainKeeps ==
  ASSUME ExitInv, ExitEnter \/ Exiting
  PROVE  ExitInv'
<1>1. Thread \in Actors /\ Thread # Main /\ Main \in Actors
  BY ActorsAssumption DEF Actors
<1>2. CASE ExitEnter
  BY <1>1, <1>2 DEF ExitEnter, Goto, loopVars, ExitInv, HasSet, HasSignalled, PCs
<1>3. CASE ExitSet
  BY <1>1, <1>3 DEF ExitSet, Goto, ExitInv, HasSet, HasSignalled, PCs
<1>4. CASE ExitWake
  <2>1. pc' = [Signal(pc) EXCEPT ![Main] = "join"] /\ should_exit' = should_exit
    BY <1>4 DEF ExitWake
  <2>2. pc' \in [Actors -> PCs] /\ pc'[Main] = "join" /\ pc'[Thread] # "asleep"
    BY <1>1, <2>1, SignalWakes DEF PCs
  <2>3. should_exit
    BY <1>4 DEF ExitWake, ExitInv, HasSet
  <2> QED BY <2>1, <2>2, <2>3 DEF ExitInv, HasSet, HasSignalled
<1>5. CASE ExitJoin
  BY <1>1, <1>5 DEF ExitJoin, Goto, loopVars, ExitInv, HasSet, HasSignalled, PCs
<1> QED BY <1>2, <1>3, <1>4, <1>5 DEF Exiting

LEMMA NextExitInv == ExitInv /\ [Next]_vars => ExitInv'
<1> SUFFICES ASSUME ExitInv, [Next]_vars PROVE ExitInv'
  OBVIOUS
<1>1. ASSUME NEW c \in Clients, Continue(c) PROVE ExitInv'
  BY <1>1, CallKeeps, ActorsAssumption DEF Actors
<1>2. ASSUME NEW c \in Clients, NEW t \in Timers, NEW d \in Delays, ClientStart(c, t, d)
      PROVE  ExitInv'
  BY <1>2, CallKeeps, ActorsAssumption DEF ClientStart, Actors
<1>3. ASSUME NEW c \in Clients, NEW t \in Timers, NEW kind \in {"stop", "drop"},
             ClientStop(c, t, kind)
      PROVE  ExitInv'
  <2>1. /\ pc' \in [Actors -> PCs] /\ pc'[Main] = pc[Main] /\ should_exit' = should_exit
        /\ pc'[Thread] = "asleep" => pc[Thread] = "asleep"
    BY <1>3, ActorsAssumption DEF ClientStop, loopVars, ExitInv, PCs, Actors
  <2> QED BY <2>1, AwakeKeeps
<1>4. CASE ThreadStep \/ ThreadSpurious
  BY <1>4, ThreadKeeps
<1>5. CASE ExitEnter \/ Exiting
  BY <1>5, MainKeeps
<1>6. CASE Tick \/ UNCHANGED vars
  BY <1>6 DEF Tick, vars, loopVars, callVars, ExitInv
<1> QED BY <1>1, <1>2, <1>3, <1>4, <1>5, <1>6 DEF Next

\* The thread never sleeps with should_exit set unless the wake() of
\* setShouldExit() is still to come: threadExit() does not wait for ever for a
\* thread that slept through it (TimerQueue.h:144-148, 194-203).
THEOREM ExitIsHeard == Spec => []ExitHeard
<1>1. ExitInv => ExitHeard
  BY DEF ExitInv, ExitHeard, HasSet, HasSignalled
<1> QED BY <1>1, InitExitInv, NextExitInv, PTL DEF Spec

-----------------------------------------------------------------------------
(* The order of the list and the sleep of the thread. *)

Shapes ==
  /\ pc \in [Actors -> PCs]
  /\ timer_list \in Seq(Timers) /\ expired \in Seq(Timers)
  /\ end_time \in [Timers -> Nat]
  /\ now \in Nat /\ timeout \in Nat
  /\ timer \in [Actors -> Timers \cup {NoTimer}]
  /\ \A a \in Actors : pc[a] \in {"add", "again"} => timer[a] \in Timers

\* From the moment it has the mutex the thread asks for a time no later than
\* any deadline on the list, or is about to be woken.
AsksInTime ==
  pc[Thread] \in {"locked", "asleep"} /\ ~restarted
    => WakeComing \/ \A i \in DOMAIN timer_list : timeout <= end_time[timer_list[i]]

SleepInv == Shapes /\ Sorted /\ AsksInTime

LEMMA InitSleepInv == Init => SleepInv
<1> SUFFICES ASSUME Init PROVE SleepInv
  OBVIOUS
<1>1. pc \in [Actors -> PCs] /\ \A a \in Actors : pc[a] \in {"idle", "loop"}
  BY DEF Init, PCs
<1>2. Shapes
  BY <1>1, BoundsAssumption DEF Init, Shapes, Never
<1>3. Sorted /\ AsksInTime
  BY DEF Init, Sorted, AsksInTime
<1> QED BY <1>2, <1>3 DEF SleepInv

\* What a timer that is added does to the list: the entries in front of it are
\* no later, those behind it are, and the others stay in their order.
LEMMA AddKeepsSorted ==
  ASSUME Shapes, Sorted, NEW t \in Timers, NEW k \in 1 .. Len(timer_list) + 1, InsertAt(t, k),
         timer_list' = [i \in 1 .. Len(timer_list) + 1 |->
                          IF i < k THEN timer_list[i]
                          ELSE IF i = k THEN t ELSE timer_list[i - 1]],
         UNCHANGED <<end_time, restarted>>
  PROVE  timer_list' \in Seq(Timers) /\ Sorted'
<1> DEFINE n == Len(timer_list)
<1>1. /\ n \in Nat /\ DOMAIN timer_list = 1 .. n /\ \A i \in 1 .. n : timer_list[i] \in Timers
      /\ end_time \in [Timers -> Nat]
  BY DEF Shapes
<1>2. timer_list' \in [1 .. n + 1 -> Timers]
  BY <1>1
<1>3. timer_list' \in Seq(Timers)
  BY <1>1, <1>2
<1>4. ASSUME ~restarted, NEW i \in 1 .. n + 1, NEW j \in 1 .. n + 1, i < j
      PROVE  end_time[timer_list'[i]] <= end_time[timer_list'[j]]
  <2>1. \A x, y \in 1 .. n : x < y => end_time[timer_list[x]] <= end_time[timer_list[y]]
    BY <1>1, <1>4 DEF Sorted
  <2>2. /\ \A x \in 1 .. k - 1 : end_time[timer_list[x]] <= end_time[t]
        /\ k <= n => end_time[t] < end_time[timer_list[k]]
    BY DEF InsertAt
  <2>3. CASE j < k
    <3>1. timer_list'[i] = timer_list[i] /\ timer_list'[j] = timer_list[j]
          /\ i \in 1 .. n /\ j \in 1 .. n
      BY <1>1, <1>4, <2>3
    <3> QED BY <1>4, <2>1, <3>1
  <2>7. CASE i > k
    <3>1. timer_list'[i] = timer_list[i - 1] /\ timer_list'[j] = timer_list[j - 1]
          /\ i - 1 \in 1 .. n /\ j - 1 \in 1 .. n /\ i - 1 < j - 1
      BY <1>1, <1>4, <2>7
    <3> QED BY <2>1, <3>1
  <2>4. CASE j = k
    BY <1>1, <1>4, <2>2, <2>4
  <2>5. CASE i = k
    <3>1. timer_list'[i] = t /\ timer_list'[j] = timer_list[j - 1] /\ j - 1 \in k .. n
      BY <1>1, <1>4, <2>5
    <3>2. end_time[timer_list[k]] <= end_time[timer_list[j - 1]]
      BY <1>1, <2>1, <3>1
    <3> QED BY <1>1, <2>2, <3>1, <3>2
  <2>6. CASE i < k /\ k < j
    <3>1. timer_list'[i] = timer_list[i] /\ timer_list'[j] = timer_list[j - 1] /\ i < j - 1
          /\ j - 1 \in 1 .. n /\ i \in 1 .. n
      BY <1>1, <1>4, <2>6
    <3> QED BY <2>1, <3>1
  <2> QED BY <1>4, <2>3, <2>4, <2>5, <2>6, <2>7
<1>5. DOMAIN timer_list' = 1 .. n + 1
  BY <1>2
<1> QED BY <1>3, <1>4, <1>5 DEF Sorted

\* What erase() leaves is in the order it was in.
LEMMA EraseKeepsSorted ==
  ASSUME Shapes, Sorted, NEW t, Erase(t), UNCHANGED <<end_time, restarted>>
  PROVE  timer_list' \in Seq(Timers) /\ Sorted'
<1> DEFINE n == Len(timer_list)
           others == {i \in DOMAIN timer_list : timer_list[i] # t}
           c == Cardinality(others)
<1>1. /\ n \in Nat /\ DOMAIN timer_list = 1 .. n /\ \A i \in 1 .. n : timer_list[i] \in Timers
  BY DEF Shapes
<1>2. IsFiniteSet(others) /\ c \in Nat
  <2>1. IsFiniteSet(1 .. n) /\ others \subseteq 1 .. n
    BY <1>1, FS_Interval
  <2>2. IsFiniteSet(others)
    BY <2>1, FS_Subset
  <2> QED BY <2>2, FS_CardinalityType
<1>3. PICK from \in [1 .. c -> others] :
        /\ \A i, j \in DOMAIN from : i < j => from[i] < from[j]
        /\ timer_list' = [i \in DOMAIN from |-> timer_list[from[i]]]
  BY DEF Erase
<1> HIDE DEF c
<1>4. \A i \in 1 .. c : from[i] \in 1 .. n
  BY <1>1, <1>3
<1>5. timer_list' \in [1 .. c -> Timers]
  BY <1>1, <1>3, <1>4
<1>6. Sorted'
  BY <1>1, <1>3, <1>4 DEF Sorted
<1> QED BY <1>2, <1>5, <1>6

\* A step that leaves the list and what the thread asks for alone, and no
\* wake() undone.
LEMMA SleepGoesOn ==
  ASSUME AsksInTime, UNCHANGED <<timer_list, timeout>>, restarted => restarted',
         WakeComing => WakeComing',
         \A i \in DOMAIN timer_list :
           restarted' \/ end_time'[timer_list[i]] = end_time[timer_list[i]],
         pc'[Thread] \in {"locked", "asleep"} => pc[Thread] \in {"locked", "asleep"}
  PROVE  AsksInTime'
  BY DEF AsksInTime

\* timerStart(), of a client or of a timeOut() in the thread.
LEMMA SetTimeKeeps ==
  ASSUME SleepInv, NEW a \in Actors, pc[a] \in {"idle", "again"},
         NEW t \in Timers, NEW d \in Delays, SetTime(a, t, d)
  PROVE  SleepInv'
<1>1. /\ pc' = [pc EXCEPT ![a] = "add"] /\ timer' = [timer EXCEPT ![a] = t]
      /\ end_time' = [end_time EXCEPT ![t] = now + d] /\ now' = now
      /\ UNCHANGED <<timer_list, expired, timeout>>
      /\ restarted' = (restarted \/ OnList(t))
  BY DEF SetTime, loopVars
<1>2. pc \in [Actors -> PCs] /\ Thread \in Actors
  BY DEF SleepInv, Shapes, Actors
<1>3. Shapes'
  <2>1. d \in Nat
    BY BoundsAssumption
  <2>2. pc' \in [Actors -> PCs]
    BY <1>1, <1>2 DEF PCs
  <2>3. \A b \in Actors : pc'[b] \in {"add", "again"} => timer'[b] \in Timers
    BY <1>1, <1>2 DEF SleepInv, Shapes
  <2> QED BY <1>1, <2>1, <2>2, <2>3 DEF SleepInv, Shapes
<1>4. ASSUME NEW i \in DOMAIN timer_list, ~restarted'
      PROVE  end_time'[timer_list[i]] = end_time[timer_list[i]]
  <2>1. timer_list[i] # t
    BY <1>1, <1>4 DEF OnList
  <2>2. timer_list[i] \in Timers
    BY <1>4 DEF SleepInv, Shapes
  <2> QED BY <1>1, <2>1, <2>2 DEF SleepInv, Shapes
<1>5. Sorted'
  <2> SUFFICES ASSUME ~restarted', NEW i \in DOMAIN timer_list, NEW j \in DOMAIN timer_list,
                      i < j
               PROVE  end_time'[timer_list[i]] <= end_time'[timer_list[j]]
    BY <1>1 DEF Sorted
  <2>1. end_time[timer_list[i]] <= end_time[timer_list[j]]
    BY <1>1 DEF Sorted, SleepInv
  <2>2. /\ end_time'[timer_list[i]] = end_time[timer_list[i]]
        /\ end_time'[timer_list[j]] = end_time[timer_list[j]]
    BY <1>4
  <2> QED BY <2>1, <2>2
<1>6. WakeComing => WakeComing'
  BY <1>1, <1>2 DEF WakeComing
<1>7. AsksInTime'
  BY <1>1, <1>2, <1>4, <1>6, SleepGoesOn DEF SleepInv
<1> QED BY <1>3, <1>5, <1>7 DEF SleepInv

\* addTimer(): a deadline in front of all others comes with a wake().
LEMMA AddTimerKeeps ==
  ASSUME SleepInv, NEW a \in Actors, AddTimer(a)
  PROVE  SleepInv'
<1>1. PICK k \in 1 .. Len(timer_list) + 1 :
        /\ InsertAt(timer[a], k)
        /\ timer_list' = [i \in 1 .. Len(timer_list) + 1 |->
                            IF i < k THEN timer_list[i]
                            ELSE IF i = k THEN timer[a] ELSE timer_list[i - 1]]
        /\ IF k = 1
           THEN pc' = [pc EXCEPT ![a] = "wake"] /\ UNCHANGED timer
           ELSE pc' = Return(a, pc) /\ timer' = [timer EXCEPT ![a] = NoTimer]
  BY DEF AddTimer, NeedsWake
<1>2. UNCHANGED <<end_time, now, expired, timeout, restarted>> /\ pc[a] = "add"
  BY DEF AddTimer, loopVars
<1>3. pc \in [Actors -> PCs] /\ Thread \in Actors /\ timer[a] \in Timers
  BY <1>2 DEF SleepInv, Shapes, Actors
<1>4. timer_list' \in Seq(Timers) /\ Sorted'
  BY <1>1, <1>2, <1>3, AddKeepsSorted DEF SleepInv
<1>5. \E p \in {"wake", "fire", "idle"} : pc' = [pc EXCEPT ![a] = p]
  BY <1>1 DEF Return
<1>6. Shapes'
  <2>1. pc' \in [Actors -> PCs]
    BY <1>3, <1>5 DEF PCs
  <2>2. \A b \in Actors : pc'[b] \in {"add", "again"} => timer'[b] \in Timers
    BY <1>1, <1>3, <1>5 DEF SleepInv, Shapes
  <2>3. timer' \in [Actors -> Timers \cup {NoTimer}]
    BY <1>1 DEF SleepInv, Shapes
  <2> QED BY <1>2, <1>4, <2>1, <2>2, <2>3 DEF SleepInv, Shapes
<1>7. AsksInTime'
  <2> SUFFICES ASSUME pc'[Thread] \in {"locked", "asleep"}, ~restarted', ~WakeComing',
                      NEW i \in DOMAIN timer_list'
               PROVE  timeout <= end_time[timer_list'[i]]
    BY <1>2 DEF AsksInTime
  <2>1. a # Thread /\ pc[Thread] \in {"locked", "asleep"} /\ k # 1
    <3>1. pc'[a] # "wake"
      BY DEF WakeComing
    <3> QED BY <1>1, <1>2, <1>3, <1>5, <3>1
  <2>2. ~WakeComing
    BY <1>2, <1>3, <1>5 DEF WakeComing
  <2> DEFINE n == Len(timer_list)
  <2>3. /\ n \in Nat /\ DOMAIN timer_list = 1 .. n /\ DOMAIN timer_list' = 1 .. n + 1
        /\ \A j \in 1 .. n : end_time[timer_list[j]] \in Nat /\ timer_list[j] \in Timers
        /\ timeout \in Nat /\ end_time[timer[a]] \in Nat
    BY <1>1, <1>3 DEF SleepInv, Shapes
  <2>4. \A j \in 1 .. n : timeout <= end_time[timer_list[j]]
    BY <1>2, <2>1, <2>2, <2>3 DEF SleepInv, AsksInTime
  <2>5. k - 1 \in 1 .. n /\ end_time[timer_list[k - 1]] <= end_time[timer[a]]
    BY <1>1, <2>1, <2>3 DEF InsertAt
  <2>6. timeout <= end_time[timer[a]]
    BY <2>3, <2>4, <2>5
  <2>7. timer_list'[i] = timer[a] \/ \E j \in 1 .. n : timer_list'[i] = timer_list[j]
    BY <1>1, <2>3
  <2> QED BY <2>4, <2>6, <2>7
<1> QED BY <1>4, <1>6, <1>7 DEF SleepInv

\* removeTimer() always wakes.
LEMMA RemoveTimerKeeps ==
  ASSUME SleepInv, NEW a \in Actors, RemoveTimer(a)
  PROVE  SleepInv'
<1>1. /\ pc' = [pc EXCEPT ![a] = "wake"] /\ Erase(timer[a])
      /\ UNCHANGED <<end_time, now, expired, timeout, restarted, timer>>
  BY DEF RemoveTimer, loopVars
<1>2. timer_list' \in Seq(Timers) /\ Sorted'
  BY <1>1, EraseKeepsSorted DEF SleepInv
<1>3. Shapes'
  BY <1>1, <1>2 DEF SleepInv, Shapes, PCs
<1>4. WakeComing'
  BY <1>1 DEF WakeComing, SleepInv, Shapes
<1> QED BY <1>2, <1>3, <1>4 DEF SleepInv, AsksInTime

\* After wake() the thread is not asleep, nor was it in the mutex.
LEMMA WakeKeeps ==
  ASSUME SleepInv, NEW a \in Actors, Wake(a)
  PROVE  SleepInv'
<1>1. /\ pc' = Return(a, Signal(pc)) /\ timer' = [timer EXCEPT ![a] = NoTimer]
      /\ pc[a] = "wake" /\ pc[Thread] # "locked"
      /\ UNCHANGED <<timer_list, end_time, now, expired, timeout, restarted>>
  BY DEF Wake, MutexFree
<1>2. pc \in [Actors -> PCs] /\ Thread \in Actors
  BY DEF SleepInv, Shapes, Actors
<1>3. /\ Signal(pc) \in [Actors -> PCs]
      /\ Signal(pc)[Thread] \notin {"locked", "asleep", "add", "again"} \/ Signal(pc) = pc
      /\ Signal(pc)[Thread] \notin {"locked", "asleep"}
      /\ \A b \in Actors : b # Thread => Signal(pc)[b] = pc[b]
  BY <1>1, <1>2 DEF Signal, PCs
<1>4. /\ pc' \in [Actors -> PCs] /\ pc'[a] \in {"fire", "idle"}
      /\ \A b \in Actors : b # a => pc'[b] = Signal(pc)[b]
  BY <1>1, <1>3 DEF Return, PCs
<1>5. \A b \in Actors : pc'[b] \in {"add", "again"} => timer'[b] \in Timers
  BY <1>1, <1>2, <1>3, <1>4 DEF SleepInv, Shapes
<1>6. pc'[Thread] \notin {"locked", "asleep"}
  BY <1>2, <1>3, <1>4
<1>7. Shapes'
  BY <1>1, <1>4, <1>5 DEF SleepInv, Shapes
<1>8. Sorted'
  BY <1>1 DEF SleepInv, Sorted
<1> QED BY <1>6, <1>7, <1>8 DEF SleepInv, AsksInTime

\* waitForTimeOut(): the first deadline is the earliest.
LEMMA PrepareKeeps ==
  ASSUME SleepInv, ThreadPrepare
  PROVE  SleepInv'
<1>1. /\ pc' = [pc EXCEPT ![Thread] = "locked"]
      /\ timeout' = IF timer_list = <<>> THEN Never ELSE end_time[Head(timer_list)]
      /\ UNCHANGED <<timer_list, end_time, now, expired, restarted, timer>>
  BY DEF ThreadPrepare, Goto, listVars
<1> DEFINE n == Len(timer_list)
<1>2. /\ n \in Nat /\ DOMAIN timer_list = 1 .. n
      /\ \A j \in 1 .. n : end_time[timer_list[j]] \in Nat
      /\ timer_list # <<>> => 1 \in 1 .. n /\ Head(timer_list) = timer_list[1]
      /\ timer_list = <<>> => n = 0
  BY DEF SleepInv, Shapes
<1>3. Never \in Nat
  BY BoundsAssumption DEF Never
<1>4. timeout' \in Nat
  BY <1>1, <1>2, <1>3
<1>5. Shapes'
  BY <1>1, <1>4 DEF SleepInv, Shapes, PCs
<1>6. Sorted'
  BY <1>1 DEF SleepInv, Sorted
<1>7. ~restarted => \A j \in 1 .. n : timeout' <= end_time[timer_list[j]]
  <2> SUFFICES ASSUME ~restarted, NEW j \in 1 .. n
               PROVE  timeout' <= end_time[timer_list[j]]
    OBVIOUS
  <2>1. timeout' = end_time[timer_list[1]]
    BY <1>1, <1>2
  <2>2. CASE j = 1
    BY <1>2, <2>1, <2>2
  <2>3. CASE 1 < j
    BY <1>2, <2>1, <2>3 DEF SleepInv, Sorted
  <2> QED BY <1>2, <2>2, <2>3
<1>8. AsksInTime'
  BY <1>1, <1>2, <1>7 DEF AsksInTime
<1> QED BY <1>5, <1>6, <1>8 DEF SleepInv

\* processTimeOuts() takes the beginning of the list off.
LEMMA CollectKeeps ==
  ASSUME SleepInv, ThreadCollect
  PROVE  SleepInv'
<1>1. PICK m \in 0 .. Len(timer_list) :
        /\ expired' = SubSeq(timer_list, 1, m)
        /\ timer_list' = SubSeq(timer_list, m + 1, Len(timer_list))
  BY DEF ThreadCollect
<1>2. /\ pc' = [pc EXCEPT ![Thread] = "fire"] /\ timeout' = Never
      /\ UNCHANGED <<end_time, now, restarted, timer>>
  BY DEF ThreadCollect, Goto
<1> DEFINE n == Len(timer_list)
<1>3. /\ n \in Nat /\ timer_list \in Seq(Timers) /\ DOMAIN timer_list = 1 .. n
  BY DEF SleepInv, Shapes
<1>4. /\ expired' \in Seq(Timers) /\ timer_list' \in Seq(Timers)
      /\ Len(timer_list') = n - m
      /\ \A i \in 1 .. n - m : timer_list'[i] = timer_list[m + i]
  <2>1. /\ 1 \in 1 .. n + 1 /\ m \in 0 .. n /\ m + 1 \in 1 .. n + 1 /\ n \in 0 .. n
        /\ n - (m + 1) + 1 = n - m /\ m \in Nat
    BY <1>3
  <2>2. expired' \in Seq(Timers)
    BY <1>1, <1>3, <2>1, SubSeqProperties
  <2>3. /\ timer_list' \in Seq(Timers)
        /\ Len(timer_list') = IF m + 1 <= n THEN n - (m + 1) + 1 ELSE 0
        /\ \A i \in 1 .. n - (m + 1) + 1 : timer_list'[i] = timer_list[(m + 1) + i - 1]
    BY <1>1, <1>3, <2>1, SubSeqProperties
  <2> HIDE DEF n
  <2>4. \A i \in 1 .. n - m : (m + 1) + i - 1 = m + i
    BY <1>3, <2>1
  <2> QED BY <1>3, <2>1, <2>2, <2>3, <2>4
<1>5. Sorted'
  <2> SUFFICES ASSUME ~restarted, NEW i \in 1 .. n - m, NEW j \in 1 .. n - m, i < j
               PROVE  end_time[timer_list'[i]] <= end_time[timer_list'[j]]
    BY <1>2, <1>4 DEF Sorted
  <2>1. m + i \in 1 .. n /\ m + j \in 1 .. n /\ m + i < m + j
    BY <1>1, <1>3
  <2> QED BY <1>3, <1>4, <2>1 DEF SleepInv, Sorted
<1>6. Never \in Nat
  BY BoundsAssumption DEF Never
<1>7. Shapes'
  BY <1>2, <1>4, <1>6 DEF SleepInv, Shapes, PCs
<1>8. AsksInTime'
  BY <1>2 DEF AsksInTime, SleepInv, Shapes, Actors
<1> QED BY <1>5, <1>7, <1>8 DEF SleepInv

\* The other steps of the thread.
LEMMA LoopKeeps ==
  ASSUME SleepInv,
         \/ ThreadLoop \/ ThreadWait \/ ThreadTimedOut \/ ThreadSpurious
         \/ ThreadFire \/ ThreadFired
  PROVE  SleepInv'
<1>1. /\ UNCHANGED <<timer_list, end_time, now, restarted, timeout>>
      /\ \A b \in Actors : b # Thread => pc'[b] = pc[b] /\ timer'[b] = timer[b]
  BY DEF ThreadLoop, ThreadWait, ThreadTimedOut, ThreadSpurious, ThreadFire, ThreadFired,
     Goto, listVars, loopVars, SleepInv, Shapes
<1>2. Thread \in Actors /\ pc \in [Actors -> PCs]
  BY DEF Actors, SleepInv, Shapes
<1>3. pc' \in [Actors -> PCs]
  BY <1>2 DEF ThreadLoop, ThreadWait, ThreadTimedOut, ThreadSpurious, ThreadFire,
     ThreadFired, Goto, PCs
<1>4. expired' \in Seq(Timers) /\ timer' \in [Actors -> Timers \cup {NoTimer}]
  <2>1. CASE ThreadFire
    <3>1. expired \in Seq(Timers) /\ expired # <<>>
      BY <2>1 DEF ThreadFire, SleepInv, Shapes
    <3>2. Head(expired) \in Timers /\ Tail(expired) \in Seq(Timers)
      BY <3>1
    <3>3. timer' = timer \/ timer' = [timer EXCEPT ![Thread] = Head(expired)]
      BY <2>1 DEF ThreadFire
    <3>4. expired' = Tail(expired) /\ timer \in [Actors -> Timers \cup {NoTimer}]
      BY <2>1 DEF ThreadFire, SleepInv, Shapes
    <3> QED BY <3>2, <3>3, <3>4
  <2>2. CASE ThreadLoop \/ ThreadWait \/ ThreadTimedOut \/ ThreadSpurious \/ ThreadFired
    BY <2>2 DEF ThreadLoop, ThreadWait, ThreadTimedOut, ThreadSpurious, ThreadFired,
       loopVars, SleepInv, Shapes
  <2> QED BY <2>1, <2>2
<1>5. pc'[Thread] \in {"add", "again"} => timer'[Thread] \in Timers
  BY <1>2 DEF ThreadLoop, ThreadWait, ThreadTimedOut, ThreadSpurious, ThreadFire,
     ThreadFired, Goto, SleepInv, Shapes
<1>6. Shapes'
  BY <1>1, <1>3, <1>4, <1>5 DEF SleepInv, Shapes
<1>7. Sorted'
  BY <1>1 DEF SleepInv, Sorted
<1>8. pc[Thread] \notin {"wake", "exitWake"}
  BY DEF ThreadLoop, ThreadWait, ThreadTimedOut, ThreadSpurious, ThreadFire, ThreadFired
<1>9. WakeComing => WakeComing'
  BY <1>1, <1>8 DEF WakeComing
<1>10. pc'[Thread] \in {"locked", "asleep"} => pc[Thread] \in {"locked", "asleep"}
  BY <1>2 DEF ThreadLoop, ThreadWait, ThreadTimedOut, ThreadSpurious, ThreadFire,
     ThreadFired, Goto
<1>11. AsksInTime'
  BY <1>1, <1>9, <1>10, SleepGoesOn DEF SleepInv
<1> QED BY <1>6, <1>7, <1>11 DEF SleepInv

\* threadExit().
LEMMA ExitKeeps ==
  ASSUME SleepInv, ExitEnter \/ Exiting
  PROVE  SleepInv'
<1>1. Thread \in Actors /\ Main \in Actors /\ Thread # Main /\ pc \in [Actors -> PCs]
  BY ActorsAssumption DEF Actors, SleepInv, Shapes
<1>2. UNCHANGED <<timer_list, end_time, now, restarted, timeout, expired, timer>>
  BY DEF ExitEnter, Exiting, ExitSet, ExitWake, ExitJoin, listVars, loopVars
<1>3. Sorted'
  BY <1>2 DEF SleepInv, Sorted
<1>4. CASE ExitWake
  <2>1. pc' = [Signal(pc) EXCEPT ![Main] = "join"] /\ pc[Thread] # "locked"
    BY <1>4 DEF ExitWake, MutexFree
  <2>2. /\ Signal(pc) \in [Actors -> PCs]
        /\ Signal(pc)[Thread] \notin {"locked", "asleep"}
        /\ \A b \in Actors : Signal(pc)[b] = pc[b] \/ Signal(pc)[b] = "collect"
    BY <1>1, <2>1 DEF Signal, PCs
  <2>3. /\ pc' \in [Actors -> PCs] /\ pc'[Thread] \notin {"locked", "asleep"}
        /\ \A b \in Actors : pc'[b] = pc[b] \/ pc'[b] \in {"collect", "join"}
    BY <1>1, <2>1, <2>2 DEF PCs
  <2>4. Shapes'
    BY <1>2, <2>3 DEF SleepInv, Shapes
  <2> QED BY <1>3, <2>3, <2>4 DEF SleepInv, AsksInTime
<1>5. CASE ExitEnter \/ ExitSet \/ ExitJoin
  <2>1. /\ pc[Main] \notin {"wake", "exitWake"}
        /\ \E p \in {"exit", "exitWake", "exited"} : pc' = [pc EXCEPT ![Main] = p]
    BY <1>5 DEF ExitEnter, ExitSet, ExitJoin, Goto
  <2>2. Shapes'
    BY <1>1, <1>2, <2>1 DEF SleepInv, Shapes, PCs
  <2>3. WakeComing => WakeComing'
    BY <1>1, <2>1 DEF WakeComing
  <2>4. AsksInTime'
    BY <1>1, <1>2, <2>1, <2>3, SleepGoesOn DEF SleepInv
  <2> QED BY <1>3, <2>2, <2>4 DEF SleepInv
<1> QED BY <1>4, <1>5 DEF Exiting

LEMMA NextSleepInv == SleepInv /\ [Next]_vars => SleepInv'
<1> SUFFICES ASSUME SleepInv, [Next]_vars PROVE SleepInv'
  OBVIOUS
<1>0. Thread \in Actors /\ Clients \subseteq Actors /\ pc \in [Actors -> PCs]
      /\ Thread \notin Clients
  BY ActorsAssumption DEF Actors, SleepInv, Shapes
<1>1. ASSUME NEW a \in Actors, Continue(a) PROVE SleepInv'
  BY <1>1, AddTimerKeeps, RemoveTimerKeeps, WakeKeeps DEF Continue
<1>2. ASSUME NEW c \in Clients, NEW t \in Timers, NEW d \in Delays, ClientStart(c, t, d)
      PROVE  SleepInv'
  BY <1>0, <1>2, SetTimeKeeps DEF ClientStart
<1>3. ASSUME NEW d \in Delays, ThreadStart(d) PROVE SleepInv'
  <2>1. pc[Thread] = "again" /\ SetTime(Thread, timer[Thread], d)
    BY <1>3 DEF ThreadStart
  <2>2. timer[Thread] \in Timers
    BY <1>0, <2>1 DEF SleepInv, Shapes
  <2> QED BY <1>0, <2>1, <2>2, SetTimeKeeps
<1>4. ASSUME NEW c \in Clients, NEW t \in Timers, NEW kind \in {"stop", "drop"},
             ClientStop(c, t, kind)
      PROVE  SleepInv'
  <2>1. /\ pc[c] = "idle" /\ pc' = [pc EXCEPT ![c] = "remove"]
        /\ timer' = [timer EXCEPT ![c] = t]
        /\ UNCHANGED <<timer_list, end_time, now, restarted, timeout, expired>>
    BY <1>4 DEF ClientStop, listVars, loopVars
  <2>2. \A b \in Actors : pc'[b] \in {"add", "again"} => timer'[b] \in Timers
    BY <1>0, <2>1 DEF SleepInv, Shapes
  <2>3. Shapes'
    BY <1>0, <2>1, <2>2 DEF SleepInv, Shapes, PCs
  <2>4. Sorted'
    BY <2>1 DEF SleepInv, Sorted
  <2>5. WakeComing => WakeComing'
    BY <1>0, <2>1 DEF WakeComing
  <2>6. AsksInTime'
    BY <1>0, <2>1, <2>5, SleepGoesOn DEF SleepInv
  <2> QED BY <2>3, <2>4, <2>6 DEF SleepInv
<1>5. CASE ThreadPrepare
  BY <1>5, PrepareKeeps
<1>6. CASE ThreadCollect
  BY <1>6, CollectKeeps
<1>7. CASE \/ ThreadLoop \/ ThreadWait \/ ThreadTimedOut \/ ThreadSpurious
           \/ ThreadFire \/ ThreadFired
  BY <1>7, LoopKeeps
<1>8. CASE ExitEnter \/ Exiting
  BY <1>8, ExitKeeps
<1>9. CASE Tick \/ UNCHANGED vars
  <2>1. /\ UNCHANGED <<timer_list, end_time, restarted, timeout, expired, pc, timer>>
        /\ now' \in Nat
    BY <1>9 DEF Tick, vars, listVars, loopVars, callVars, SleepInv, Shapes
  <2>2. Shapes' /\ Sorted'
    BY <2>1 DEF SleepInv, Shapes, Sorted
  <2>3. AsksInTime'
    BY <2>1 DEF SleepInv, AsksInTime, WakeComing
  <2> QED BY <2>2, <2>3 DEF SleepInv
<1> QED
  BY <1>0, <1>1, <1>2, <1>3, <1>4, <1>5, <1>6, <1>7, <1>8, <1>9 DEF Next, ThreadStep

\* The list of timers is in the order of their deadlines, as addTimer() leaves
\* it and processTimeOuts() relies on, until a timer on it is started again
\* (TimerQueue.h:74-105, 152-169).
THEOREM SortedHolds == Spec => []Sorted
<1>1. SleepInv => Sorted
  BY DEF SleepInv
<1> QED BY <1>1, InitSleepInv, NextSleepInv, PTL DEF Spec

\* The thread never sleeps past a deadline on the list, until a timer on it is
\* started again (TimerQueue.h:107-150).
THEOREM NotSleptOverHolds == Spec => []NotSleptOver
<1>1. SleepInv => NotSleptOver
  BY DEF SleepInv, AsksInTime, NotSleptOver
<1> QED BY <1>1, InitSleepInv, NextSleepInv, PTL DEF Spec

-----------------------------------------------------------------------------
(* The bounds of the numbers and the other types.  That a timer is started  *)
(* or added with a timer in hand is part of Shapes.                         *)

Bounded ==
  /\ end_time \in [Timers -> 0 .. 2 * MaxTime]
  /\ tq \in [Timers -> BOOLEAN]
  /\ wake_up \in BOOLEAN /\ should_exit \in BOOLEAN /\ restarted \in BOOLEAN
  /\ timeout \in 0 .. Never
  /\ now \in 0 .. MaxTime
  /\ call \in [Actors -> {"start", "stop", "drop"}]
  /\ starts \in 0 .. MaxStarts

LEMMA InitBounded == Init => Bounded
<1> SUFFICES ASSUME Init PROVE Bounded
  OBVIOUS
<1>1. /\ 0 \in 0 .. 2 * MaxTime /\ Never \in 0 .. Never
      /\ 0 \in 0 .. MaxTime /\ 0 \in 0 .. MaxStarts
  BY BoundsAssumption DEF Never
<1> QED BY <1>1 DEF Init, Bounded

\* A deadline is no later than the longest delay after the last time.
LEMMA SetTimeBounded ==
  ASSUME Shapes, Bounded, NEW a \in Actors, NEW t \in Timers, NEW d \in Delays,
         SetTime(a, t, d), starts' \in 0 .. MaxStarts
  PROVE  Bounded'
<1>1. d \in Nat /\ d <= MaxTime /\ now \in 0 .. MaxTime /\ MaxTime \in Nat
  BY BoundsAssumption DEF Bounded
<1>2. now + d \in 0 .. 2 * MaxTime
  BY <1>1
<1>3. /\ end_time' = [end_time EXCEPT ![t] = now + d]
      /\ tq' = [tq EXCEPT ![t] = TRUE]
      /\ restarted' = (restarted \/ OnList(t))
      /\ call' = [call EXCEPT ![a] = "start"]
      /\ UNCHANGED <<wake_up, should_exit, timeout, now>>
  BY DEF SetTime, loopVars
<1>4. end_time' \in [Timers -> 0 .. 2 * MaxTime]
  BY <1>2, <1>3 DEF Bounded
<1>5. tq' \in [Timers -> BOOLEAN] /\ call' \in [Actors -> {"start", "stop", "drop"}]
  BY <1>3 DEF Bounded
<1>6. restarted' \in BOOLEAN
  BY <1>3
<1> QED BY <1>3, <1>4, <1>5, <1>6 DEF Bounded

LEMMA WakeBounded ==
  ASSUME Shapes, Bounded, NEW a \in Actors, Wake(a) PROVE Bounded'
<1>1. tq' \in [Timers -> BOOLEAN]
  <2>1. tq' = [tq EXCEPT ![timer[a]] = FALSE] \/ tq' = tq
    BY DEF Wake
  <2> QED BY <2>1 DEF Bounded
<1>2. call' \in [Actors -> {"start", "stop", "drop"}]
  BY DEF Wake, Bounded
<1> QED BY <1>1, <1>2 DEF Wake, Bounded

LEMMA PrepareBounded ==
  ASSUME Shapes, Bounded, ThreadPrepare PROVE Bounded'
<1>1. timeout' \in 0 .. Never
  <2>1. CASE timer_list = <<>>
    BY <2>1, BoundsAssumption DEF ThreadPrepare, Never
  <2>2. CASE timer_list # <<>>
    <3>1. Head(timer_list) \in Timers
      BY <2>2 DEF Shapes
    <3>2. end_time[Head(timer_list)] \in 0 .. 2 * MaxTime
      BY <3>1 DEF Bounded
    <3>3. end_time[Head(timer_list)] \in 0 .. Never
      BY <3>2, BoundsAssumption DEF Never
    <3> QED BY <2>2, <3>3 DEF ThreadPrepare
  <2> QED BY <2>1, <2>2
<1> QED BY <1>1 DEF ThreadPrepare, Bounded, listVars

LEMMA NextBounded ==
  ASSUME Shapes, Bounded, [Next]_vars PROVE Bounded'
<1>0. Thread \in Actors /\ Clients \subseteq Actors
  BY DEF Actors
<1>1. ASSUME NEW a \in Actors, Continue(a) PROVE Bounded'
  <2>1. CASE AddTimer(a)
    BY <2>1 DEF AddTimer, Bounded, loopVars
  <2>2. CASE RemoveTimer(a)
    BY <2>2 DEF RemoveTimer, Bounded, loopVars
  <2> QED BY <1>1, <2>1, <2>2, WakeBounded DEF Continue
<1>2. ASSUME NEW c \in Clients, NEW t \in Timers, NEW d \in Delays, ClientStart(c, t, d)
      PROVE  Bounded'
  <2>1. starts' \in 0 .. MaxStarts
    BY <1>2, BoundsAssumption DEF ClientStart, Bounded
  <2> QED BY <1>0, <1>2, <2>1, SetTimeBounded DEF ClientStart
<1>3. ASSUME NEW d \in Delays, ThreadStart(d) PROVE Bounded'
  <2>1. timer[Thread] \in Timers
    BY <1>0, <1>3 DEF ThreadStart, Shapes
  <2>2. starts' \in 0 .. MaxStarts
    BY <1>3 DEF ThreadStart, Bounded
  <2> QED BY <1>0, <1>3, <2>1, <2>2, SetTimeBounded DEF ThreadStart
<1>4. ASSUME NEW c \in Clients, NEW t \in Timers, NEW kind \in {"stop", "drop"},
             ClientStop(c, t, kind)
      PROVE  Bounded'
  <2>1. call' = [call EXCEPT ![c] = kind]
    BY <1>4 DEF ClientStop
  <2>2. call' \in [Actors -> {"start", "stop", "drop"}]
    BY <2>1 DEF Bounded
  <2> QED BY <1>4, <2>2 DEF ClientStop, Bounded, listVars, loopVars
<1>5. CASE ThreadCollect
  <2>1. timeout' \in 0 .. Never
    BY <1>5, BoundsAssumption DEF ThreadCollect, Never
  <2> QED BY <1>5, <2>1 DEF ThreadCollect, Bounded
<1>6. CASE ThreadFire
  <2>1. starts' \in 0 .. MaxStarts
    BY <1>6, BoundsAssumption DEF ThreadFire, Bounded
  <2> QED BY <1>6, <2>1 DEF ThreadFire, Bounded, listVars
<1>7. CASE ThreadLoop \/ ThreadWait \/ ThreadTimedOut \/ ThreadSpurious \/ ThreadFired
           \/ ExitEnter \/ ExitJoin \/ UNCHANGED vars
  BY <1>7 DEF ThreadLoop, ThreadWait, ThreadTimedOut, ThreadSpurious, ThreadFired,
     ExitEnter, ExitJoin, vars, listVars, loopVars, callVars, Bounded
<1>8. CASE ExitSet \/ ExitWake
  BY <1>8 DEF ExitSet, ExitWake, listVars, Bounded
<1>9. CASE Tick
  <2>1. now' \in 0 .. MaxTime
    BY <1>9, BoundsAssumption DEF Tick, Bounded
  <2> QED BY <1>9, <2>1 DEF Tick, listVars, loopVars, callVars, Bounded
<1> QED
  BY <1>0, <1>1, <1>2, <1>3, <1>4, <1>5, <1>6, <1>7, <1>8, <1>9, PrepareBounded
  DEF Next, ThreadStep, Exiting

\* The list and what has expired hold timers only, no deadline lies past the
\* longest delay after the last time, and the thread asks for one of these or
\* for no time at all.
THEOREM TimerTypes == Spec => []TypeOK
<1>1. SleepInv /\ Bounded => TypeOK
  BY DEF SleepInv, Shapes, Bounded, TypeOK
<1>2. SleepInv /\ Bounded /\ [Next]_vars => SleepInv' /\ Bounded'
  BY NextSleepInv, NextBounded DEF SleepInv
<1> QED BY <1>1, <1>2, InitSleepInv, InitBounded, PTL DEF Spec
=============================================================================
