---------------------------- MODULE EventDispatch ----------------------------
(***************************************************************************)
(* textus::event: events posted to queues, the worker threads that run      *)
(* them, the timer thread, close() and the shutdown of all of them          *)
(* (event/Event.cc, EventQueue.h and .cc, TimerEvent, TimerQueue.h,         *)
(* RoundRobinEventQueueScheduler.h, threads/, base/init/Init.cc).           *)
(*                                                                          *)
(* The grain is the locks.  An event is a Base, and Synchronized(event) is  *)
(* the recursive monitor of module Monitor, of which only the owner matters *)
(* here (evOwner).  A queue's mutex is held for more than one step by its   *)
(* own worker only, in processEvents, while pc is "scan": Locked(q).  The   *)
(* timer list has a lock of its own inside which nothing else is locked, so *)
(* every operation on it is one step.                                       *)
(*                                                                          *)
(* A worker is named by its queue: EventQueueThread gives each thread one.  *)
(***************************************************************************)
EXTENDS Naturals, Sequences, FiniteSets, SequencesExt

CONSTANTS
  Events,       \* the events of the program
  TimerEvents,  \* those of class TimerEvent; the others are plain Events
  Clients,      \* threads that post and close events
  Workers,      \* the WorkerThreads, and the queue of each
  FailSafe,     \* the fail-safe thread, and its queue
  Timer,        \* the timer thread
  Main,         \* the thread that runs TextusShutdown
  Nobody,       \* no owner, no event
  NoQueue,      \* a null EventQueue pointer
  Overlap,      \* {"post", "close"}: what clients call on an event in use
  Overdue,      \* TRUE: an event may stay queued for its default time-out
  MaxCalls,     \* bound on the calls of each client
  MaxPosts,     \* bound on the posts of each event
  MaxFires      \* bound on expirations of timers

ASSUME EventsAssumption == TimerEvents \subseteq Events
ASSUME BoundsAssumption == {MaxCalls, MaxPosts, MaxFires} \subseteq Nat

Queues == Workers \cup {FailSafe}
Actors == Clients \cup Queues \cup {Timer, Main}

ASSUME ActorsAssumption ==
  /\ Clients \cap Queues = {} /\ {Timer, Main} \cap (Clients \cup Queues) = {}
  /\ Timer # Main /\ FailSafe \notin Workers /\ IsFiniteSet(Workers)
  /\ NoQueue \notin Queues /\ Nobody \notin Actors \cup Events

VARIABLES
  evOwner,        \* who is in Synchronized(event)
  list,           \* EventQueue::event_list of each queue
  should_quit,    \* EventQueue::should_quit of each queue
  current_queue,  \* Event::current_queue
  preferred_queue,\* Event::preferred_queue
  reposted,       \* Event::reposted
  first_time_out, \* TimerEvent::first_time_out; FALSE in a plain Event
  timer_list,     \* the events on the TimerQueue
  expired,        \* the local list of processTimeOuts
  queues,         \* RoundRobinEventQueueScheduler::queues
  shutdown_started,
  timer_exit,     \* TimerQueue::should_exit
  pc, ev, dest,   \* each actor: where it is, the event and the queue in hand
  calls,          \* calls made by each client
  posts, handled, \* times each event was put on a queue by a post; was run
  closed,         \* close() has returned and nobody has posted the event since
  doubled,        \* the event was posted while it was on a queue
  fires           \* expirations so far

eventVars == <<current_queue, preferred_queue, reposted, first_time_out>>
queueVars == <<list, should_quit>>
timerVars == <<timer_list, expired, fires>>
stopVars  == <<queues, shutdown_started, timer_exit>>
history   == <<posts, handled, closed, doubled>>
vars == <<evOwner, eventVars, queueVars, timerVars, stopVars, history, pc, ev,
          dest, calls>>

Init ==
  /\ evOwner = [e \in Events |-> Nobody]
  /\ list = [q \in Queues |-> <<>>]
  /\ should_quit = [q \in Queues |-> FALSE]
  /\ current_queue = [e \in Events |-> NoQueue]
  /\ preferred_queue = [e \in Events |-> NoQueue]
  /\ reposted = [e \in Events |-> FALSE]
  /\ first_time_out = [e \in Events |-> e \in TimerEvents]
  /\ timer_list = {}
  /\ expired = {}
  /\ fires = 0
  /\ queues = SetToSeq(Workers)
  /\ shutdown_started = FALSE
  /\ timer_exit = FALSE
  /\ posts = [e \in Events |-> 0]
  /\ handled = [e \in Events |-> 0]
  /\ closed = [e \in Events |-> FALSE]
  /\ doubled = [e \in Events |-> FALSE]
  /\ pc = [a \in Actors |-> "idle"]
  /\ ev = [a \in Actors |-> Nobody]
  /\ dest = [a \in Actors |-> NoQueue]
  /\ calls = [c \in Clients |-> 0]

Goto(a, place) == pc' = [pc EXCEPT ![a] = place]

\* The mutex of a queue is held across steps: its worker is in processEvents.
Locked(q) == pc[q] = "scan"

\* RoundRobinEventQueueScheduler::shutdown holds the scheduler's monitor.
SchedulerHeld == pc[Main] \in {"stopWorkers", "exitLock"} /\ queues # <<>>

\* Synchronized(event) may be entered: it is free or already mine.
Enterable(a, e) == evOwner[e] \in {Nobody, a}

Lock(e, a) == evOwner' = [evOwner EXCEPT ![e] = a]
Unlock(e) == evOwner' = [evOwner EXCEPT ![e] = Nobody]

\* Seeded fault: the signal is lost.
Signalled_Lost(p, q) == p

\* condition.signal() of a queue: its worker leaves condition.wait.
Signalled(p, q) == IF p[q] = "asleep" THEN [p EXCEPT ![q] = "idle"] ELSE p

\* Where an event is on a queue.
Slots(q, e) == {i \in DOMAIN list[q] : list[q][i] = e}

\* Seeded faults: nothing is erased; an entry is nulled, not erased.
Erase_Not(q, e) == UNCHANGED list
Erase_Nulled(q, e) ==
  list' = [list EXCEPT ![q] = [i \in DOMAIN @ |-> IF @[i] = e THEN Nobody ELSE @[i]]]

\* ReferenceList::erase(k) takes every occurrence out; the others stay, in order.
Erase(q, e) ==
  LET others == DOMAIN list[q] \ Slots(q, e) IN
  \E from \in [1 .. Cardinality(others) -> others] :
    /\ \A i, j \in DOMAIN from : i < j => from[i] < from[j]
    /\ list' = [list EXCEPT ![q] = [i \in DOMAIN from |-> list[q][from[i]]]]

\* Seeded fault: the event keeps pointing at the queue it left.
OffQueue_Forgotten(e) == current_queue

\* current_queue = NULL.
OffQueue(e) == [current_queue EXCEPT ![e] = NoQueue]

\* Seeded fault: the queue that was used is not put back.
Rotated_Dropped(qs) == Tail(qs)

\* The round robin: the front goes to the back.
Rotated(qs) == Append(Tail(qs), Head(qs))

\* The event is not queued, not being run, and nobody is calling it.
Unused(e) ==
  /\ current_queue[e] = NoQueue
  /\ \A a \in Actors : ev[a] # e
  /\ e \notin timer_list \cup expired

-----------------------------------------------------------------------------
(* Event::post, run by a client, by a handler for its own event, and by the *)
(* timer thread.  dest is the queue argument, NoQueue when it is null.      *)

\* A client calls post(), or post(queue) with a queue the scheduler gave it;
\* the second tests shutdown_started before it synchronizes.
ClientPost(c, e, q) ==
  /\ pc[c] = "idle"
  /\ calls[c] < MaxCalls /\ posts[e] < MaxPosts
  /\ e \notin TimerEvents
  /\ "post" \in Overlap \/ Unused(e)
  /\ calls' = [calls EXCEPT ![c] = @ + 1]
  /\ \/ q # NoQueue /\ shutdown_started /\ UNCHANGED <<pc, ev, dest>>
     \/ /\ q = NoQueue \/ ~shutdown_started
        /\ Goto(c, "toPost")
        /\ ev' = [ev EXCEPT ![c] = e]
        /\ dest' = [dest EXCEPT ![c] = q]
  /\ UNCHANGED <<evOwner, eventVars, queueVars, timerVars, stopVars, history>>

\* Synchronized(this); with the test of shutdown_started that follows it in
\* the calls of post() and repost().
PostEnter(a) ==
  LET e == ev[a] IN
  /\ pc[a] = "toPost"
  /\ Enterable(a, e)
  /\ Lock(e, a)
  /\ IF shutdown_started /\ dest[a] = NoQueue
     THEN Goto(a, "posted") /\ UNCHANGED dest
     ELSE /\ Goto(a, "resolve")
          /\ dest' = [dest EXCEPT ![a] = IF @ = NoQueue THEN preferred_queue[e] ELSE @]
  /\ UNCHANGED <<ev, calls, eventVars, queueVars, timerVars, stopVars, history>>

\* A null queue becomes defaultQueue(): the next of the round robin.  With no
\* queue left, getQueue and defaultQueue call each other without end.  The
\* timer is armed before EventQueue::post tests shutdown_started again.
PostResolve(a) ==
  LET e == ev[a]
      default == dest[a] = NoQueue
      q == IF default THEN Head(queues) ELSE dest[a]
  IN
  /\ pc[a] = "resolve"
  /\ default => ~SchedulerHeld
  /\ doubled' = [doubled EXCEPT ![e] =
                   @ \/ (current_queue[e] # NoQueue /\ dest[a] # FailSafe)]
  /\ IF default /\ queues = <<>>
     THEN /\ Goto(a, "overflow")
          /\ UNCHANGED <<dest, queues, current_queue, timer_list>>
     ELSE /\ dest' = [dest EXCEPT ![a] = q]
          /\ queues' = IF default THEN Rotated(queues) ELSE queues
          /\ current_queue' = [current_queue EXCEPT ![e] = q]
          /\ timer_list' = timer_list \cup {e}
          /\ Goto(a, IF shutdown_started THEN "posted" ELSE "push")
  /\ UNCHANGED <<evOwner, preferred_queue, reposted, first_time_out, ev, calls,
                 queueVars, expired, fires, shutdown_started, timer_exit, posts, handled,
                 closed>>

\* EventQueue::post under the lock of the queue.  A repost moves the event, so
\* only a post by a client, by a handler or by a TimerEvent counts in posts.
PostPush(a) ==
  LET e == ev[a]  q == dest[a] IN
  /\ pc[a] = "push"
  /\ ~Locked(q)
  /\ list' = [list EXCEPT ![q] = Append(@, e)]
  /\ posts' = [posts EXCEPT ![e] = IF q = FailSafe THEN @ ELSE @ + 1]
  /\ closed' = [closed EXCEPT ![e] = @ /\ a = Timer]
  /\ Goto(a, "signal")
  /\ UNCHANGED <<evOwner, eventVars, should_quit, timerVars, stopVars, handled,
                 doubled, ev, dest, calls>>

\* condition.signal() after the lock is released.
PostSignal(a) ==
  /\ pc[a] = "signal"
  /\ pc' = [Signalled(pc, dest[a]) EXCEPT ![a] = "posted"]
  /\ UNCHANGED <<evOwner, eventVars, queueVars, timerVars, stopVars, history, ev,
                 dest, calls>>

\* post() returns.  A handler keeps the event; the others leave it.
PostReturn(a) ==
  /\ pc[a] = "posted"
  /\ dest' = [dest EXCEPT ![a] = NoQueue]
  /\ \/ a \in Queues /\ Goto(a, "done") /\ UNCHANGED <<evOwner, ev, expired>>
     \/ /\ a \notin Queues
        /\ Unlock(ev[a])
        /\ ev' = [ev EXCEPT ![a] = Nobody]
        /\ expired' = IF a = Timer THEN expired \ {ev[a]} ELSE expired
        /\ Goto(a, IF a = Timer /\ expired' # {} THEN "fire" ELSE "idle")
  /\ UNCHANGED <<eventVars, queueVars, timer_list, fires, stopVars, history, calls>>

Post(a) ==
  PostEnter(a) \/ PostResolve(a) \/ PostPush(a) \/ PostSignal(a) \/ PostReturn(a)

-----------------------------------------------------------------------------
(* Event::close and TimerEvent::timerStart, by a client. *)

ClientClose(c, e) ==
  /\ pc[c] = "idle"
  /\ calls[c] < MaxCalls
  /\ "close" \in Overlap
  /\ calls' = [calls EXCEPT ![c] = @ + 1]
  /\ ev' = [ev EXCEPT ![c] = e]
  /\ Goto(c, "toClose")
  /\ UNCHANGED <<evOwner, eventVars, queueVars, timerVars, stopVars, history, dest>>

\* Synchronized(this); timerStop().
CloseEnter(c) ==
  LET e == ev[c] IN
  /\ pc[c] = "toClose"
  /\ Enterable(c, e)
  /\ Lock(e, c)
  /\ timer_list' = timer_list \ {e}
  /\ Goto(c, "closing")
  /\ UNCHANGED <<eventVars, queueVars, expired, fires, stopVars, history, ev, dest, calls>>

\* current_queue->remove(this), under the lock of the queue; then it is over.
CloseRemove(c) ==
  LET e == ev[c]  q == current_queue[e] IN
  /\ pc[c] = "closing"
  /\ \/ q = NoQueue /\ UNCHANGED list
     \/ q # NoQueue /\ ~Locked(q) /\ Erase(q, e)
  /\ current_queue' = OffQueue(e)
  /\ closed' = [closed EXCEPT ![e] = TRUE]
  /\ Unlock(e)
  /\ ev' = [ev EXCEPT ![c] = Nobody]
  /\ Goto(c, "idle")
  /\ UNCHANGED <<preferred_queue, reposted, first_time_out, should_quit, timerVars,
                 stopVars, posts, handled, doubled, dest, calls>>

\* A TimerEvent is started, once, by its creator, whose thread has a preferred
\* queue or none.
ClientTimerStart(c, e, q) ==
  /\ pc[c] = "idle"
  /\ calls[c] < MaxCalls
  /\ first_time_out[e] /\ ~closed[e] /\ Unused(e)
  /\ calls' = [calls EXCEPT ![c] = @ + 1]
  /\ preferred_queue' = [preferred_queue EXCEPT ![e] = q]
  /\ timer_list' = timer_list \cup {e}
  /\ UNCHANGED <<evOwner, current_queue, reposted, first_time_out, queueVars, expired,
                 fires, stopVars, history, pc, ev, dest>>

Client(c) == Post(c) \/ CloseEnter(c) \/ CloseRemove(c)

-----------------------------------------------------------------------------
(* A worker: threadLoop, waitForEvent and processEvents of its queue. *)

\* threadLoop tests should_quit, waitForEvent waits while there is nothing;
\* with something to do processEvents takes the lock.
WorkerLoop(q) ==
  /\ pc[q] = "idle"
  /\ Goto(q, IF should_quit[q] THEN "exited"
             ELSE IF list[q] = <<>> THEN "asleep" ELSE "scan")
  /\ UNCHANGED <<evOwner, eventVars, queueVars, timerVars, stopVars, history, ev,
                 dest, calls>>

\* condition.wait may return by itself.
WorkerSpurious(q) ==
  /\ pc[q] = "asleep"
  /\ Goto(q, "idle")
  /\ UNCHANGED <<evOwner, eventVars, queueVars, timerVars, stopVars, history, ev,
                 dest, calls>>

\* The loop of processEvents ends and unlocks.
WorkerScanEnd(q) ==
  /\ pc[q] = "scan"
  /\ should_quit[q] \/ list[q] = <<>>
  /\ Goto(q, "idle")
  /\ UNCHANGED <<evOwner, eventVars, queueVars, timerVars, stopVars, history, ev,
                 dest, calls>>

\* Its body: Synchronized(front) is entered with the queue still locked; then
\* the event is popped and the queue unlocked.
WorkerTake(q) ==
  LET e == Head(list[q]) IN
  /\ pc[q] = "scan"
  /\ ~should_quit[q] /\ list[q] # <<>>
  /\ Enterable(q, e)
  /\ Lock(e, q)
  /\ list' = [list EXCEPT ![q] = Tail(@)]
  /\ ev' = [ev EXCEPT ![q] = e]
  /\ Goto(q, "taken")
  /\ UNCHANGED <<eventVars, should_quit, timerVars, stopVars, history, dest, calls>>

\* removeTimer(ev), current_queue = NULL, and Event::handle up to do_it.
WorkerHandle(q) ==
  LET e == ev[q] IN
  /\ pc[q] = "taken"
  /\ timer_list' = timer_list \ {e}
  /\ current_queue' = OffQueue(e)
  /\ IF shutdown_started
     THEN Goto(q, "done") /\ UNCHANGED <<preferred_queue, handled>>
     ELSE /\ preferred_queue' = [preferred_queue EXCEPT ![e] = NoQueue]
          /\ handled' = [handled EXCEPT ![e] = @ + 1]
          /\ Goto(q, "do_it")
  /\ UNCHANGED <<evOwner, reposted, first_time_out, queueVars, expired, fires, stopVars,
                 posts, closed, doubled, ev, dest, calls>>

\* do_it returns, or posts its event again.
WorkerDoIt(q) ==
  /\ pc[q] = "do_it"
  /\ \/ Goto(q, "done")
     \/ posts[ev[q]] < MaxPosts /\ Goto(q, "toPost")
  /\ UNCHANGED <<evOwner, eventVars, queueVars, timerVars, stopVars, history, ev,
                 dest, calls>>

\* ~Synchronizer of the event, and the lock of the queue again.
WorkerDone(q) ==
  /\ pc[q] = "done"
  /\ Unlock(ev[q])
  /\ ev' = [ev EXCEPT ![q] = Nobody]
  /\ Goto(q, "scan")
  /\ UNCHANGED <<eventVars, queueVars, timerVars, stopVars, history, dest, calls>>

Worker(q) ==
  \/ WorkerLoop(q) \/ WorkerScanEnd(q) \/ WorkerTake(q) \/ WorkerHandle(q)
  \/ WorkerDoIt(q) \/ WorkerDone(q) \/ Post(q)

-----------------------------------------------------------------------------
(* The timer thread: timerThreadLoop and processTimeOuts. *)

\* Whose time may be up: a started TimerEvent, and any queued event if Overdue.
Due == {e \in Events : e \in timer_list /\ (Overdue \/ first_time_out[e])}

\* The timers whose time is up leave the list together, under its lock.
TimerExpire(S) ==
  /\ pc[Timer] = "idle" /\ ~timer_exit
  /\ fires < MaxFires
  /\ fires' = fires + 1
  /\ timer_list' = timer_list \ S
  /\ expired' = S
  /\ Goto(Timer, "fire")
  /\ UNCHANGED <<evOwner, eventVars, queueVars, stopVars, history, ev, dest, calls>>

\* timeOut() of one of them.  TimerEvent::timeOut: the first time it posts.
TimerFirst(e) ==
  /\ pc[Timer] = "fire" /\ e \in expired
  /\ first_time_out[e]
  /\ first_time_out' = [first_time_out EXCEPT ![e] = FALSE]
  /\ ev' = [ev EXCEPT ![Timer] = e]
  /\ Goto(Timer, "toPost")
  /\ UNCHANGED <<evOwner, current_queue, preferred_queue, reposted, queueVars, timerVars,
                 stopVars, history, dest, calls>>

\* Event::timeOut: synchronized, nothing to do unless the event is queued.
TimerLate(e) ==
  /\ pc[Timer] = "fire" /\ e \in expired
  /\ ~first_time_out[e]
  /\ Enterable(Timer, e)
  /\ Lock(e, Timer)
  /\ ev' = [ev EXCEPT ![Timer] = e]
  /\ Goto(Timer, IF current_queue[e] = NoQueue THEN "posted" ELSE "erase")
  /\ UNCHANGED <<eventVars, queueVars, timerVars, stopVars, history, dest, calls>>

\* EventQueue::timeOut erases it from its queue; repost sends it to the
\* fail-safe queue, and gives up the process the second time.
TimerErase ==
  LET e == ev[Timer]  q == current_queue[e] IN
  /\ pc[Timer] = "erase"
  /\ ~Locked(q)
  /\ Erase(q, e)
  /\ IF reposted[e]
     THEN Goto(Timer, "die") /\ UNCHANGED <<reposted, dest>>
     ELSE /\ reposted' = [reposted EXCEPT ![e] = TRUE]
          /\ dest' = [dest EXCEPT ![Timer] = FailSafe]
          /\ Goto(Timer, IF shutdown_started THEN "posted" ELSE "resolve")
  /\ UNCHANGED <<evOwner, current_queue, preferred_queue, first_time_out, should_quit,
                 timerVars, stopVars, history, ev, calls>>

TimerExit ==
  /\ pc[Timer] = "idle" /\ timer_exit
  /\ Goto(Timer, "exited")
  /\ UNCHANGED <<evOwner, eventVars, queueVars, timerVars, stopVars, history, ev,
                 dest, calls>>

TimerThread ==
  \/ \E e \in expired : TimerFirst(e) \/ TimerLate(e)
  \/ TimerErase \/ TimerExit \/ Post(Timer)

-----------------------------------------------------------------------------
(* TextusShutdown: the workers by priority first, then the fail-safe and the *)
(* timer thread, which have the same priority, in either order.              *)

ShutdownBegin ==
  /\ pc[Main] = "idle"
  /\ shutdown_started' = TRUE
  /\ Goto(Main, "started")
  /\ UNCHANGED <<evOwner, eventVars, queueVars, timerVars, queues, timer_exit, history,
                 ev, dest, calls>>

\* EventQueue::threadExit(q), called by RoundRobinEventQueueScheduler::shutdown
\* and by failSafeThreadStop: should_quit is set, at first without the lock.
ExitBegin(q) ==
  /\ \/ pc[Main] \in {"started", "stopWorkers"} /\ queues # <<>> /\ q = Head(queues)
     \/ /\ pc[Main] = "stopOthers" /\ q = FailSafe /\ ~should_quit[FailSafe]
        /\ timer_exit => pc[Timer] = "exited"
  /\ should_quit' = [should_quit EXCEPT ![q] = TRUE]
  /\ dest' = [dest EXCEPT ![Main] = q]
  /\ Goto(Main, "exitLock")
  /\ UNCHANGED <<evOwner, eventVars, list, timerVars, stopVars, history, ev, calls>>

\* ... and again with it; then the worker is signalled, and shutdown() pops
\* the queue from the round robin.
ExitLock ==
  LET q == dest[Main] IN
  /\ pc[Main] = "exitLock"
  /\ ~Locked(q)
  /\ should_quit' = [should_quit EXCEPT ![q] = TRUE]
  /\ pc' = [Signalled(pc, q) EXCEPT
              ![Main] = IF q = FailSafe THEN "stopOthers" ELSE "stopWorkers"]
  /\ queues' = IF q = FailSafe THEN queues ELSE Tail(queues)
  /\ dest' = [dest EXCEPT ![Main] = NoQueue]
  /\ UNCHANGED <<evOwner, eventVars, list, timerVars, shutdown_started, timer_exit,
                 history, ev, calls>>

\* join() of every worker.
JoinWorkers ==
  /\ pc[Main] = "stopWorkers" /\ queues = <<>>
  /\ \A q \in Workers : pc[q] = "exited"
  /\ Goto(Main, "stopOthers")
  /\ UNCHANGED <<evOwner, eventVars, queueVars, timerVars, stopVars, history, ev,
                 dest, calls>>

\* TimerQueue::threadExit: should_exit and wake().
TimerThreadExit ==
  /\ pc[Main] = "stopOthers" /\ ~timer_exit
  /\ should_quit[FailSafe] => pc[FailSafe] = "exited"
  /\ timer_exit' = TRUE
  /\ UNCHANGED <<evOwner, eventVars, queueVars, timerVars, queues, shutdown_started,
                 history, pc, ev, dest, calls>>

\* join() of the fail-safe and the timer thread.
JoinOthers ==
  /\ pc[Main] = "stopOthers"
  /\ pc[FailSafe] = "exited" /\ pc[Timer] = "exited"
  /\ Goto(Main, "down")
  /\ UNCHANGED <<evOwner, eventVars, queueVars, timerVars, stopVars, history, ev,
                 dest, calls>>

Shutdown ==
  (\E q \in Queues : ExitBegin(q)) \/ ExitLock \/ JoinWorkers \/ TimerThreadExit \/ JoinOthers

-----------------------------------------------------------------------------
\* die() or a stack overflow ends the process: the thread takes no more steps,
\* others may take a few before it is gone.
Crashed == \E a \in Actors : pc[a] \in {"die", "overflow"}

\* Nothing is left to do: the process is down, or gone.
Finished ==
  /\ Crashed \/ (pc[Main] = "down" /\ \A c \in Clients : pc[c] = "idle")
  /\ UNCHANGED vars

Next ==
  \/ \E c \in Clients :
       \/ \E e \in Events :
            \/ \E q \in {NoQueue} \cup ToSet(queues) : ClientPost(c, e, q)
            \/ ClientClose(c, e)
            \/ \E q \in {NoQueue} \cup Workers : ClientTimerStart(c, e, q)
       \/ Client(c)
  \/ \E q \in Queues : Worker(q) \/ WorkerSpurious(q)
  \/ \E S \in (SUBSET Due) \ {{}} : TimerExpire(S)
  \/ TimerThread
  \/ ShutdownBegin
  \/ Shutdown
  \/ Finished

Spec == Init /\ [][Next]_vars

\* Threads run; time passes, so a timer that may expire does.  Nobody has to
\* call, and nothing has to shut down.
Fairness ==
  /\ \A c \in Clients : WF_vars(Client(c))
  /\ \A q \in Queues : WF_vars(Worker(q))
  /\ WF_vars(\E S \in (SUBSET Due) \ {{}} : TimerExpire(S))
  /\ WF_vars(TimerThread)
  /\ WF_vars(Shutdown)

FairSpec == Spec /\ Fairness

-----------------------------------------------------------------------------
TypeOK ==
  /\ evOwner \in [Events -> Actors \cup {Nobody}]
  /\ list \in [Queues -> Seq(Events)]
  /\ should_quit \in [Queues -> BOOLEAN]
  /\ current_queue \in [Events -> Queues \cup {NoQueue}]
  /\ preferred_queue \in [Events -> Workers \cup {NoQueue}]
  /\ reposted \in [Events -> BOOLEAN]
  /\ first_time_out \in [Events -> BOOLEAN]
  /\ timer_list \cup expired \subseteq Events
  /\ queues \in Seq(Workers)
  /\ {shutdown_started, timer_exit} \subseteq BOOLEAN
  /\ ev \in [Actors -> Events \cup {Nobody}]
  /\ dest \in [Actors -> Queues \cup {NoQueue}]
  /\ calls \in [Clients -> 0..MaxCalls]
  /\ posts \in [Events -> Nat] /\ handled \in [Events -> Nat]
  /\ closed \in [Events -> BOOLEAN] /\ doubled \in [Events -> BOOLEAN]
  /\ fires \in 0..MaxFires

\* An event that nobody is calling is on the queue it remembers, once, and on
\* no other: what close() and timeOut() need to find it again, although they
\* race with the worker and with one another (Event.cc:41-48, 71, 126-133).  An
\* event posted while it is queued is the one Event.cc:60-63 warns about: it
\* remembers the second queue only, and nothing is promised of it any more.
CurrentQueueAccurate ==
  \A e \in Events : evOwner[e] = Nobody /\ ~shutdown_started /\ ~doubled[e] =>
    \A q \in Queues :
      Cardinality(Slots(q, e)) = IF q = current_queue[e] THEN 1 ELSE 0

\* An event runs no more often than it was posted, however often it is moved
\* to the fail-safe queue, timed out late or posted again (EventQueue.h:91-102).
HandledAtMostPosted ==
  \A e \in Events : handled[e] <= posts[e]

\* Once close() has returned the event is on no queue and is not run, until it
\* is posted again: "Remove the event from the queue and deactivate it."
\* (Event.h:98, Event.cc:126-133).  An event posted while queued is excepted.
ClosedStaysQuiet ==
  \A e \in Events : closed[e] /\ ~doubled[e] =>
    /\ \A q \in Queues : Slots(q, e) = {}
    /\ \A q \in Queues : ev[q] = e => pc[q] \notin {"taken", "do_it"}

\* The process dies of its events only in a shutdown: the round robin never
\* runs out of queues before (RoundRobinEventQueueScheduler.h:42-51).
CrashOnlyInShutdown == Crashed => shutdown_started

\* What has been posted is run, unless the process is shut down: no wakeup of a
\* worker is lost between its test and its wait (EventQueue.h:68-78, 106-112).
EveryPostHandled ==
  \A e \in Events :
    posts[e] > handled[e] ~> (posts[e] = handled[e] \/ shutdown_started)

\* A shutdown ends: every worker, the fail-safe and the timer thread see their
\* flag, wherever it catches them (EventQueue.h:114-131, TimerQueue.h:194-230).
ShutdownEnds == shutdown_started ~> (pc[Main] = "down" \/ Crashed)

\* No thread holds an event and waits for the lock of a queue whose worker
\* holds that lock and waits for the event: what "Lock order is Event, then
\* EventQueue" (Event.h:27, EventQueue.h:27) is there to rule out.
NoCircularWait ==
  ~ \E a \in Actors, q \in Queues :
      /\ \/ pc[a] = "push" /\ dest[a] = q
         \/ pc[a] \in {"closing", "erase"} /\ current_queue[ev[a]] = q
      /\ Locked(q) /\ list[q] # <<>> /\ ~should_quit[q]
      /\ evOwner[Head(list[q])] = a
=============================================================================
