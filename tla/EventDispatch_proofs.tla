------------------------- MODULE EventDispatch_proofs -------------------------
(***************************************************************************)
(* EventDispatch: the process does not die of its events before a shutdown. *)
(* Two things end it: die() in repost(), of an event that is late a second  *)
(* time, and the stack overflow of getQueue() and defaultQueue() when no    *)
(* queue is left.  Proved for any events, clients, workers and bounds, as   *)
(* long as no event stays queued for its default time-out.                  *)
(***************************************************************************)
EXTENDS EventDispatch, FiniteSetTheorems, TLAPS

\* Where an actor can be.
Places ==
  {"idle", "toPost", "resolve", "push", "signal", "posted", "overflow", "toClose",
   "closing", "asleep", "scan", "taken", "do_it", "done", "exited", "fire", "erase",
   "die", "started", "stopWorkers", "exitLock", "stopOthers", "down"}

\* An expired timer has not fired yet, or it is the one being posted: so none
\* is found late, and repost() is never called.
TimersFirst ==
  /\ expired \subseteq Events
  /\ \A e \in expired : first_time_out[e] \/ (ev[Timer] = e /\ pc[Timer] # "fire")
  /\ pc[Timer] # "erase"
  /\ \A a \in Actors : pc[a] # "die"

\* Before a shutdown the round robin has a queue for whoever posts.
QueuesLeft ==
  ~shutdown_started =>
    /\ pc[Main] = "idle"
    /\ queues \in Seq(Workers) /\ queues # <<>>
    /\ \A a \in Actors : pc[a] # "overflow"

Shapes ==
  /\ pc \in [Actors -> Places]
  /\ ev = [a \in Actors |-> ev[a]]
  /\ first_time_out \in [Events -> BOOLEAN]

AliveInv == Shapes /\ TimersFirst /\ QueuesLeft

\* SetToSeq() of the workers, whichever order it chooses, has all of them.
LEMMA WorkersInOrder ==
  SetToSeq(Workers) \in Seq(Workers) /\ (Workers # {} => SetToSeq(Workers) # <<>>)
<1> DEFINE n == Cardinality(Workers)
<1>1. n \in Nat /\ (Workers # {} => n # 0) /\ ExistsBijection(1 .. n, Workers)
  BY ActorsAssumption, FS_CardinalityType, FS_EmptySet
<1>2. PICK f \in [1 .. n -> Workers] : IsInjective(f)
  BY <1>1 DEF ExistsBijection, Bijection, Injection
<1>3. SetToSeq(Workers) \in [1 .. n -> Workers]
  BY <1>2 DEF SetToSeq
<1> QED BY <1>1, <1>3

LEMMA InitAlive ==
  ASSUME Workers # {}, Init
  PROVE  AliveInv
<1>1. Shapes
  BY DEF Init, Shapes, Places
<1>2. TimersFirst
  BY ActorsAssumption DEF Init, TimersFirst, Actors
<1>3. QueuesLeft
  BY WorkersInOrder, ActorsAssumption DEF Init, QueuesLeft, Actors
<1> QED BY <1>1, <1>2, <1>3 DEF AliveInv

\* What most steps do: they leave the expired timers alone, move the timer
\* thread, if at all, away from its list, and lead nobody to die() or, before a
\* shutdown, to the overflow.
LEMMA HarmlessKeeps ==
  ASSUME AliveInv,
         pc' \in [Actors -> Places], ev' = [a \in Actors |-> ev'[a]],
         first_time_out' = first_time_out, expired' = expired,
         ev'[Timer] = ev[Timer], shutdown_started' = shutdown_started,
         ~shutdown_started =>
           queues' \in Seq(Workers) /\ queues' # <<>> /\ pc'[Main] = pc[Main],
         pc'[Timer] = pc[Timer] \/ pc'[Timer] \notin {"fire", "erase"},
         \A x \in Actors :
           pc'[x] = pc[x] \/ (pc'[x] # "die" /\ (shutdown_started \/ pc'[x] # "overflow"))
  PROVE  AliveInv'
<1>1. Timer \in Actors /\ Main \in Actors
  BY DEF Actors
<1>2. Shapes'
  BY DEF AliveInv, Shapes
<1>3. TimersFirst'
  BY <1>1 DEF AliveInv, TimersFirst
<1>4. QueuesLeft'
  BY <1>1 DEF AliveInv, QueuesLeft
<1> QED BY <1>2, <1>3, <1>4 DEF AliveInv

\* An actor other than Main goes to a harmless place, and nothing else changes
\* that AliveInv speaks of.
LEMMA GotoKeeps ==
  ASSUME AliveInv, NEW a \in Actors \ {Main}, NEW place \in Places \ {"fire", "erase", "die"},
         shutdown_started \/ place # "overflow",
         pc' = [pc EXCEPT ![a] = place],
         ev' = ev \/ (a # Timer /\ \E e : ev' = [ev EXCEPT ![a] = e]),
         UNCHANGED <<first_time_out, expired, shutdown_started>>,
         queues' = queues \/ (queues # <<>> /\ queues' = Rotated(queues))
  PROVE  AliveInv'
<1>1. Timer \in Actors /\ Main \in Actors /\ Timer # Main
  BY ActorsAssumption DEF Actors
<1>2. pc' \in [Actors -> Places] /\ pc'[Main] = pc[Main]
  BY <1>1 DEF AliveInv, Shapes
<1>3. ev' = [x \in Actors |-> ev'[x]] /\ ev'[Timer] = ev[Timer]
  BY <1>1 DEF AliveInv, Shapes
<1>4. ~shutdown_started => queues' \in Seq(Workers) /\ queues' # <<>>
  BY DEF AliveInv, QueuesLeft, Rotated
<1>5. pc'[Timer] = pc[Timer] \/ pc'[Timer] \notin {"fire", "erase"}
  BY <1>1 DEF AliveInv, Shapes
<1>6. \A x \in Actors :
        pc'[x] = pc[x] \/ (pc'[x] # "die" /\ (shutdown_started \/ pc'[x] # "overflow"))
  BY DEF AliveInv, Shapes
<1> QED BY <1>2, <1>3, <1>4, <1>5, <1>6, HarmlessKeeps

\* A signal moves its worker to the test of its loop, or nobody.
LEMMA SignalMoves ==
  ASSUME AliveInv, NEW q
  PROVE  /\ Signalled(pc, q) \in [Actors -> Places]
         /\ \A x \in Actors : \/ Signalled(pc, q)[x] = pc[x]
                              \/ pc[x] = "asleep" /\ Signalled(pc, q)[x] = "idle"
BY DEF AliveInv, Shapes, Signalled, Places

\* post(), by a client, a worker or the timer thread.
LEMMA PostKeeps ==
  ASSUME AliveInv, NEW a \in Actors \ {Main}, Post(a)
  PROVE  AliveInv'
<1> USE DEF eventVars, queueVars, timerVars, stopVars, history, Goto
<1>1. CASE PostEnter(a)
  <2>1. PICK place \in {"posted", "resolve"} : pc' = [pc EXCEPT ![a] = place]
    BY <1>1 DEF PostEnter
  <2> QED BY <1>1, <2>1, GotoKeeps DEF PostEnter, Places
<1>2. CASE PostResolve(a)
  <2>1. CASE dest[a] = NoQueue /\ queues = <<>>
    BY <1>2, <2>1, GotoKeeps DEF PostResolve, Places, AliveInv, QueuesLeft
  <2>2. CASE ~(dest[a] = NoQueue /\ queues = <<>>)
    <3>1. PICK place \in {"posted", "push"} : pc' = [pc EXCEPT ![a] = place]
      BY <1>2, <2>2 DEF PostResolve
    <3>2. queues' = queues \/ (queues # <<>> /\ queues' = Rotated(queues))
      BY <1>2, <2>2 DEF PostResolve
    <3> QED BY <1>2, <3>1, <3>2, GotoKeeps DEF PostResolve, Places
  <2> QED BY <2>1, <2>2
<1>3. CASE PostPush(a)
  BY <1>3, GotoKeeps DEF PostPush, Places
<1>4. CASE PostSignal(a)
  <2>1. pc' = [Signalled(pc, dest[a]) EXCEPT ![a] = "posted"]
    BY <1>4 DEF PostSignal
  <2>2. pc' \in [Actors -> Places] /\ pc'[a] = "posted"
        /\ \A x \in Actors \ {a} : pc'[x] = pc[x] \/ (pc[x] = "asleep" /\ pc'[x] = "idle")
    BY <2>1, SignalMoves DEF Places
  <2>3. Timer \in Actors /\ Main \in Actors
    BY DEF Actors
  <2>4. ~shutdown_started =>
          queues' \in Seq(Workers) /\ queues' # <<>> /\ pc'[Main] = pc[Main]
    BY <1>4, <2>2, <2>3 DEF PostSignal, AliveInv, QueuesLeft
  <2> QED BY <1>4, <2>2, <2>3, <2>4, HarmlessKeeps DEF PostSignal, AliveInv, Shapes
<1>5. CASE PostReturn(a) /\ a \in Queues
  <2>1. a # Timer /\ pc' = [pc EXCEPT ![a] = "done"] /\ UNCHANGED <<ev, expired>>
    BY <1>5, ActorsAssumption DEF PostReturn
  <2> QED BY <1>5, <2>1, GotoKeeps DEF PostReturn, Places
<1>6. CASE PostReturn(a) /\ a \notin Queues /\ a # Timer
  <2>1. pc' = [pc EXCEPT ![a] = "idle"] /\ ev' = [ev EXCEPT ![a] = Nobody] /\ expired' = expired
    BY <1>6 DEF PostReturn
  <2> QED BY <1>6, <2>1, GotoKeeps DEF PostReturn, Places
<1>7. CASE PostReturn(a) /\ a = Timer
  <2>1. PICK place \in {"fire", "idle"} : pc' = [pc EXCEPT ![Timer] = place]
    BY <1>7, ActorsAssumption DEF PostReturn
  <2>2. /\ expired' = expired \ {ev[Timer]} /\ ev' = [ev EXCEPT ![Timer] = Nobody]
        /\ UNCHANGED <<first_time_out, queues, shutdown_started>>
    BY <1>7, ActorsAssumption DEF PostReturn
  <2>3. Timer \in Actors /\ Main \in Actors /\ Timer # Main
    BY ActorsAssumption DEF Actors
  <2>4. Shapes'
    BY <2>1, <2>2, <2>3 DEF AliveInv, Shapes, Places
  <2>5. TimersFirst'
    BY <2>1, <2>2, <2>3 DEF AliveInv, Shapes, TimersFirst
  <2>6. QueuesLeft'
    BY <2>1, <2>2, <2>3 DEF AliveInv, Shapes, QueuesLeft
  <2> QED BY <2>4, <2>5, <2>6 DEF AliveInv
<1> QED BY <1>1, <1>2, <1>3, <1>4, <1>5, <1>6, <1>7 DEF Post

\* The calls of a client besides post().
LEMMA ClientKeeps ==
  ASSUME AliveInv, NEW c \in Clients,
         \/ \E e \in Events : \/ \E q \in {NoQueue} \cup ToSet(queues) : ClientPost(c, e, q)
                             \/ ClientClose(c, e)
                             \/ \E q \in {NoQueue} \cup Workers : ClientTimerStart(c, e, q)
         \/ Client(c)
  PROVE  AliveInv'
<1> USE DEF eventVars, queueVars, timerVars, stopVars, history, Goto
<1>1. c \in Actors \ {Main} /\ c # Timer
  BY ActorsAssumption DEF Actors
<1>2. ASSUME NEW e \in Events, NEW q, ClientPost(c, e, q) PROVE AliveInv'
  <2>1. CASE UNCHANGED <<pc, ev>>
    BY <1>2, <2>1 DEF ClientPost, AliveInv, Shapes, TimersFirst, QueuesLeft
  <2>2. CASE pc' = [pc EXCEPT ![c] = "toPost"] /\ ev' = [ev EXCEPT ![c] = e]
    BY <1>1, <1>2, <2>2, GotoKeeps DEF ClientPost, Places
  <2> QED BY <1>2, <2>1, <2>2 DEF ClientPost
<1>3. ASSUME NEW e \in Events, ClientClose(c, e) PROVE AliveInv'
  BY <1>1, <1>3, GotoKeeps DEF ClientClose, Places
<1>4. ASSUME NEW e \in Events, NEW q, ClientTimerStart(c, e, q) PROVE AliveInv'
  BY <1>4 DEF ClientTimerStart, AliveInv, Shapes, TimersFirst, QueuesLeft
<1>5. CASE Post(c)
  BY <1>1, <1>5, PostKeeps
<1>6. CASE CloseEnter(c)
  BY <1>1, <1>6, GotoKeeps DEF CloseEnter, Places
<1>7. CASE CloseRemove(c)
  BY <1>1, <1>7, GotoKeeps DEF CloseRemove, Places
<1> QED BY <1>2, <1>3, <1>4, <1>5, <1>6, <1>7 DEF Client

\* A worker, or the fail-safe thread.
LEMMA WorkerKeeps ==
  ASSUME AliveInv, NEW q \in Queues, Worker(q) \/ WorkerSpurious(q)
  PROVE  AliveInv'
<1> USE DEF eventVars, queueVars, timerVars, stopVars, history, Goto
<1>1. q \in Actors \ {Main} /\ q # Timer
  BY ActorsAssumption DEF Actors
<1>2. CASE WorkerLoop(q)
  <2>1. PICK place \in {"exited", "asleep", "scan"} : pc' = [pc EXCEPT ![q] = place]
    BY <1>2 DEF WorkerLoop
  <2> QED BY <1>1, <1>2, <2>1, GotoKeeps DEF WorkerLoop, Places
<1>3. CASE WorkerSpurious(q) \/ WorkerScanEnd(q)
  BY <1>1, <1>3, GotoKeeps DEF WorkerSpurious, WorkerScanEnd, Places
<1>4. CASE WorkerTake(q)
  <2>1. ev' = [ev EXCEPT ![q] = Head(list[q])] /\ pc' = [pc EXCEPT ![q] = "taken"]
    BY <1>4 DEF WorkerTake
  <2> QED BY <1>1, <1>4, <2>1, GotoKeeps DEF WorkerTake, Places
<1>5. CASE WorkerHandle(q)
  <2>1. PICK place \in {"done", "do_it"} : pc' = [pc EXCEPT ![q] = place]
    BY <1>5 DEF WorkerHandle
  <2> QED BY <1>1, <1>5, <2>1, GotoKeeps DEF WorkerHandle, Places
<1>6. CASE WorkerDoIt(q)
  <2>1. PICK place \in {"done", "toPost"} : pc' = [pc EXCEPT ![q] = place]
    BY <1>6 DEF WorkerDoIt
  <2> QED BY <1>1, <1>6, <2>1, GotoKeeps DEF WorkerDoIt, Places
<1>7. CASE WorkerDone(q)
  BY <1>1, <1>7, GotoKeeps DEF WorkerDone, Places
<1>8. CASE Post(q)
  BY <1>1, <1>8, PostKeeps
<1> QED BY <1>2, <1>3, <1>4, <1>5, <1>6, <1>7, <1>8 DEF Worker

\* The timer thread: without overdue events it never gets to repost().
LEMMA TimerKeeps ==
  ASSUME AliveInv, ~Overdue,
         TimerThread \/ \E S \in (SUBSET Due) \ {{}} : TimerExpire(S)
  PROVE  AliveInv'
<1> USE DEF eventVars, queueVars, timerVars, stopVars, history, Goto
<1>1. Timer \in Actors \ {Main} /\ Main \in Actors
  BY ActorsAssumption DEF Actors
<1>2. ASSUME NEW S \in SUBSET Due, TimerExpire(S) PROVE AliveInv'
  <2>1. /\ pc' = [pc EXCEPT ![Timer] = "fire"] /\ expired' = S
        /\ UNCHANGED <<ev, first_time_out, queues, shutdown_started>>
    BY <1>2 DEF TimerExpire
  <2>2. \A e \in S : e \in Events /\ first_time_out[e]
    BY <1>2 DEF Due, AliveInv, TimersFirst
  <2>3. Shapes'
    BY <1>1, <2>1 DEF AliveInv, Shapes, Places
  <2>4. TimersFirst'
    BY <1>1, <2>1, <2>2 DEF AliveInv, Shapes, TimersFirst
  <2>5. QueuesLeft'
    BY <1>1, <2>1 DEF AliveInv, Shapes, QueuesLeft
  <2> QED BY <2>3, <2>4, <2>5 DEF AliveInv
<1>3. ASSUME NEW e \in expired, TimerFirst(e) PROVE AliveInv'
  <2>1. /\ pc' = [pc EXCEPT ![Timer] = "toPost"] /\ ev' = [ev EXCEPT ![Timer] = e]
        /\ first_time_out' = [first_time_out EXCEPT ![e] = FALSE]
        /\ UNCHANGED <<expired, queues, shutdown_started>>
    BY <1>3 DEF TimerFirst
  <2>2. pc[Timer] = "fire" /\ e \in Events
    BY <1>3 DEF TimerFirst, AliveInv, TimersFirst
  <2>3. Shapes'
    BY <1>1, <2>1, <2>2 DEF AliveInv, Shapes, Places
  <2>4. TimersFirst'
    BY <1>1, <2>1, <2>2 DEF AliveInv, Shapes, TimersFirst
  <2>5. QueuesLeft'
    BY <1>1, <2>1 DEF AliveInv, Shapes, QueuesLeft
  <2> QED BY <2>3, <2>4, <2>5 DEF AliveInv
<1>4. ASSUME NEW e \in expired, TimerLate(e) PROVE FALSE
  BY <1>4 DEF TimerLate, AliveInv, TimersFirst
<1>5. CASE TimerErase
  BY <1>5 DEF TimerErase, AliveInv, TimersFirst
<1>6. CASE TimerExit
  BY <1>1, <1>6, GotoKeeps DEF TimerExit, Places
<1>7. CASE Post(Timer)
  BY <1>1, <1>7, PostKeeps
<1> QED BY <1>2, <1>3, <1>4, <1>5, <1>6, <1>7 DEF TimerThread

\* Main: once it has begun, only the timers matter.
LEMMA MainKeeps ==
  ASSUME AliveInv, ShutdownBegin \/ Shutdown
  PROVE  AliveInv'
<1> USE DEF eventVars, queueVars, timerVars, stopVars, history, Goto
<1>1. Timer \in Actors /\ Main \in Actors /\ Timer # Main
  BY ActorsAssumption DEF Actors
<1>2. shutdown_started' /\ UNCHANGED <<ev, first_time_out, expired>>
  BY DEF AliveInv, QueuesLeft, ShutdownBegin, Shutdown, ExitBegin, ExitLock, JoinWorkers,
         TimerThreadExit, JoinOthers
<1>3. /\ pc' \in [Actors -> Places]
      /\ \A x \in Actors \ {Main} : pc'[x] = pc[x] \/ (pc[x] = "asleep" /\ pc'[x] = "idle")
      /\ pc'[Main] # "die"
  <2>1. ASSUME NEW place \in Places \ {"die"}, NEW q,
               pc' = [Signalled(pc, q) EXCEPT ![Main] = place]
        PROVE  <1>3!1 /\ <1>3!2 /\ <1>3!3
    BY <1>1, <2>1, SignalMoves
  <2>2. ASSUME NEW place \in Places \ {"die"}, pc' = [pc EXCEPT ![Main] = place]
        PROVE  <1>3!1 /\ <1>3!2 /\ <1>3!3
    BY <1>1, <2>2 DEF AliveInv, Shapes
  <2>3. CASE ExitLock
    BY <2>1, <2>3 DEF ExitLock, Places
  <2>4. CASE TimerThreadExit
    BY <1>1, <2>4 DEF TimerThreadExit, AliveInv, Shapes, TimersFirst
  <2>5. CASE ShutdownBegin
    BY <2>2, <2>5 DEF ShutdownBegin, Places
  <2>6. ASSUME NEW q \in Queues, ExitBegin(q) PROVE <1>3!1 /\ <1>3!2 /\ <1>3!3
    BY <2>2, <2>6 DEF ExitBegin, Places
  <2>7. CASE JoinWorkers \/ JoinOthers
    BY <2>2, <2>7 DEF JoinWorkers, JoinOthers, Places
  <2> QED BY <2>3, <2>4, <2>5, <2>6, <2>7 DEF Shutdown
<1>4. Shapes'
  BY <1>2, <1>3 DEF AliveInv, Shapes
<1>5. TimersFirst'
  BY <1>1, <1>2, <1>3 DEF AliveInv, TimersFirst
<1> QED BY <1>2, <1>4, <1>5 DEF AliveInv, QueuesLeft

LEMMA NextAlive ==
  ASSUME ~Overdue
  PROVE  AliveInv /\ [Next]_vars => AliveInv'
<1> SUFFICES ASSUME AliveInv, [Next]_vars PROVE AliveInv'
  OBVIOUS
<1>1. CASE Finished \/ UNCHANGED vars
  BY <1>1 DEF Finished, vars, eventVars, timerVars, stopVars, AliveInv, Shapes, TimersFirst,
              QueuesLeft
<1> QED BY <1>1, ClientKeeps, WorkerKeeps, TimerKeeps, MainKeeps DEF Next

\* For any events, clients, workers and bounds: if there is a worker and no
\* event stays queued for its default time-out, no thread dies or overflows its
\* stack before TextusShutdown (Event.cc:83-98,
\* RoundRobinEventQueueScheduler.h:42-51).
THEOREM AliveUntilShutdown ==
  ASSUME ~Overdue, Workers # {}
  PROVE  Spec => []CrashOnlyInShutdown
<1>1. Init => AliveInv
  BY InitAlive
<1>2. AliveInv /\ [Next]_vars => AliveInv'
  BY NextAlive
<1>3. AliveInv => CrashOnlyInShutdown
  BY DEF AliveInv, TimersFirst, QueuesLeft, CrashOnlyInShutdown, Crashed
<1> QED BY <1>1, <1>2, <1>3, PTL DEF Spec
=============================================================================
