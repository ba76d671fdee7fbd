----------------------------- MODULE BaseMonitor -----------------------------
(***************************************************************************)
(* textus::base::Base as a monitor (base/Base.h): synchronize,              *)
(* desynchronize, trySync, wait and signal of one object, called by any     *)
(* number of threads through Synchronized(obj).                             *)
(*                                                                          *)
(* Every one of these functions does its work under the object's mutex, so  *)
(* the region between LOCK and its release is one step.  condition.wait     *)
(* gives the mutex up: a call that blocks is therefore several steps, and   *)
(* pc records where a thread is between them.  condition.signal() is a      *)
(* pthread_cond_broadcast, and condition.wait may return without one (the   *)
(* pthread contract, and Condition::wait skips the pthread call after it    *)
(* has run the thread's waiting tasks).                                     *)
(***************************************************************************)
EXTENDS Naturals

CONSTANTS
  Threads,   \* the threads that use the object
  NoThread,  \* ThreadID::invalid()
  MaxDepth   \* bound on the nesting of synchronize() in one thread

ASSUME NoThreadAssumption == NoThread \notin Threads
ASSUME MaxDepthAssumption == MaxDepth \in Nat \ {0}

VARIABLES
  sync_thread_id,  \* Base::sync_thread_id
  sync_count,      \* Base::sync_count
  pc,              \* where each thread is
  calling,         \* "sync" or "wait": the call that runs synchronize()
  scount,          \* the local scount of wait(); its sid is always the caller
  depth            \* synchronize() calls returned and not yet undone

vars == <<sync_thread_id, sync_count, pc, calling, scount, depth>>

\* run         outside every function of the object
\* syncBlocked in the condition.wait of synchronize()
\* syncWoken   that wait has returned, the loop is about to test again
\* waitEnter   in wait(), synchronized, before its LOCK
\* waitFirst   in the condition.wait of wait(), for the first time
\* waitAgain   in it again, after finding sync_count > 0
\* waitWoken   that wait has returned, the loop is about to test
\* waitExit    in wait(), nesting restored, before ~Synchronizer
PCs == {"run", "syncBlocked", "syncWoken", "waitEnter", "waitFirst",
        "waitAgain", "waitWoken", "waitExit"}

\* The threads that have put their nesting aside.
SteppedOut == {"waitFirst", "waitAgain", "waitWoken"}

Init ==
  /\ sync_thread_id = NoThread
  /\ sync_count = 0
  /\ pc = [t \in Threads |-> "run"]
  /\ calling = [t \in Threads |-> "sync"]
  /\ scount = [t \in Threads |-> 0]
  /\ depth = [t \in Threads |-> 0]

\* Seeded fault: pthread_cond_signal, which wakes one of them.
Broadcast_WakesOne(p) ==
  LET asleep == {t \in Threads : p[t] \in {"syncBlocked", "waitFirst", "waitAgain"}}
  IN  [t \in Threads |->
         IF asleep = {} \/ t # CHOOSE u \in asleep : TRUE THEN p[t]
         ELSE IF p[t] = "syncBlocked" THEN "syncWoken" ELSE "waitWoken"]

\* Seeded fault: the broadcast is left out.
Broadcast_Silent(p) == p

\* pthread_cond_broadcast: every thread in a condition.wait gets to test.
Broadcast(p) ==
  [t \in Threads |-> IF p[t] = "syncBlocked" THEN "syncWoken"
                     ELSE IF p[t] \in {"waitFirst", "waitAgain"} THEN "waitWoken"
                     ELSE p[t]]

\* The loop condition of synchronize(): nobody inside, or it is me.
MayEnter(t) == sync_count = 0 \/ sync_thread_id = t

\* The end of synchronize(): count one more, own the object.
Acquire(t, next) ==
  /\ sync_count' = sync_count + 1
  /\ sync_thread_id' = t
  /\ depth' = [depth EXCEPT ![t] = @ + 1]
  /\ pc' = [pc EXCEPT ![t] = next]

AfterSync(call) == IF call = "wait" THEN "waitEnter" ELSE "run"

\* synchronize() up to its first condition.wait, called by Synchronized(obj)
\* or as the first line of wait().
Synchronize(t, call) ==
  /\ pc[t] = "run"
  /\ depth[t] < MaxDepth
  /\ calling' = [calling EXCEPT ![t] = call]
  /\ \/ /\ MayEnter(t)
        /\ Acquire(t, AfterSync(call))
     \/ /\ ~MayEnter(t)
        /\ pc' = [pc EXCEPT ![t] = "syncBlocked"]
        /\ UNCHANGED <<sync_thread_id, sync_count, depth>>
  /\ UNCHANGED scount

\* Seeded fault: an if where synchronize() has a while.
SyncRetry_TestsOnce(t) ==
  /\ pc[t] = "syncWoken"
  /\ Acquire(t, AfterSync(calling[t]))
  /\ UNCHANGED <<calling, scount>>

\* One more turn of its while loop.
SyncRetry(t) ==
  /\ pc[t] = "syncWoken"
  /\ \/ /\ MayEnter(t)
        /\ Acquire(t, AfterSync(calling[t]))
     \/ /\ ~MayEnter(t)
        /\ pc' = [pc EXCEPT ![t] = "syncBlocked"]
        /\ UNCHANGED <<sync_thread_id, sync_count, depth>>
  /\ UNCHANGED <<calling, scount>>

\* trySync() that succeeds; one that fails changes nothing.
TrySync(t) ==
  /\ pc[t] = "run"
  /\ depth[t] < MaxDepth
  /\ MayEnter(t)
  /\ Acquire(t, "run")
  /\ UNCHANGED <<calling, scount>>

\* desynchronize(), by ~Synchronizer, in the body of a thread or on the way
\* out of wait().  depth, not ownership, is the guard: scopes end when they
\* end, and the assert of the code is the invariant OwnerAsserted.
Desynchronize(t) ==
  /\ pc[t] \in {"run", "waitExit"}
  /\ depth[t] > 0
  /\ depth' = [depth EXCEPT ![t] = @ - 1]
  /\ sync_count' = sync_count - 1
  /\ \/ /\ sync_count = 1
        /\ sync_thread_id' = NoThread
        /\ pc' = Broadcast([pc EXCEPT ![t] = "run"])
     \/ /\ sync_count # 1
        /\ pc' = [pc EXCEPT ![t] = "run"]
        /\ UNCHANGED sync_thread_id
  /\ UNCHANGED <<calling, scount>>

\* Seeded fault: the count is cleared before it is saved.
WaitRelease_SavesLate(t) ==
  /\ pc[t] = "waitEnter"
  /\ sync_thread_id' = NoThread
  /\ sync_count' = 0
  /\ scount' = [scount EXCEPT ![t] = sync_count']
  /\ pc' = [Broadcast(pc) EXCEPT ![t] = "waitFirst"]
  /\ UNCHANGED <<calling, depth>>

\* Seeded fault: the owner is left in place for the time of the wait.
WaitRelease_KeepsOwner(t) ==
  /\ pc[t] = "waitEnter"
  /\ scount' = [scount EXCEPT ![t] = sync_count]
  /\ sync_count' = 0
  /\ pc' = [Broadcast(pc) EXCEPT ![t] = "waitFirst"]
  /\ UNCHANGED <<sync_thread_id, calling, depth>>

\* wait() between its LOCK and its first condition.wait.
WaitRelease(t) ==
  /\ pc[t] = "waitEnter"
  /\ scount' = [scount EXCEPT ![t] = sync_count]
  /\ sync_thread_id' = NoThread
  /\ sync_count' = 0
  /\ pc' = [Broadcast(pc) EXCEPT ![t] = "waitFirst"]
  /\ UNCHANGED <<calling, depth>>

\* Seeded fault: wait() that takes the object back without testing it.
WaitRetry_NoTest(t) ==
  /\ pc[t] = "waitWoken"
  /\ sync_count' = scount[t]
  /\ sync_thread_id' = t
  /\ pc' = [pc EXCEPT ![t] = "waitExit"]
  /\ UNCHANGED <<calling, scount, depth>>

\* The test of its do-while, and the restoring of the nesting.
WaitRetry(t) ==
  /\ pc[t] = "waitWoken"
  /\ \/ /\ sync_count > 0
        /\ pc' = [pc EXCEPT ![t] = "waitAgain"]
        /\ UNCHANGED <<sync_thread_id, sync_count>>
     \/ /\ sync_count = 0
        /\ sync_count' = scount[t]
        /\ sync_thread_id' = t
        /\ pc' = [pc EXCEPT ![t] = "waitExit"]
  /\ UNCHANGED <<calling, scount, depth>>

\* signal(): anybody may, synchronized or not.
Signal(t) ==
  /\ pc[t] = "run"
  /\ pc' = Broadcast(pc)
  /\ UNCHANGED <<sync_thread_id, sync_count, calling, scount, depth>>

\* A condition.wait that returns by itself.
SpuriousWakeup(t) ==
  /\ pc[t] \in {"syncBlocked", "waitFirst", "waitAgain"}
  /\ pc' = [pc EXCEPT ![t] = IF @ = "syncBlocked" THEN "syncWoken" ELSE "waitWoken"]
  /\ UNCHANGED <<sync_thread_id, sync_count, calling, scount, depth>>

Next ==
  \E t \in Threads :
    \/ \E call \in {"sync", "wait"} : Synchronize(t, call)
    \/ SyncRetry(t)
    \/ TrySync(t)
    \/ Desynchronize(t)
    \/ WaitRelease(t)
    \/ WaitRetry(t)
    \/ Signal(t)
    \/ SpuriousWakeup(t)

Spec == Init /\ [][Next]_vars

\* A thread that has been woken, or is in the middle of wait(), runs on.
\* Nothing makes a thread enter, leave, signal or wake spuriously.
Fairness ==
  \A t \in Threads :
    WF_vars(SyncRetry(t)) /\ WF_vars(WaitRelease(t)) /\ WF_vars(WaitRetry(t))

FairSpec == Spec /\ Fairness

-----------------------------------------------------------------------------
\* In its own synchronized scopes, and not stepped out of them by wait().
Inside(t) == depth[t] > 0 /\ pc[t] \notin SteppedOut

TypeOK ==
  /\ sync_thread_id \in Threads \cup {NoThread}
  /\ sync_count \in Nat
  /\ pc \in [Threads -> PCs]
  /\ calling \in [Threads -> {"sync", "wait"}]
  /\ scount \in [Threads -> Nat]
  /\ depth \in [Threads -> Nat]

\* Two threads are never in the synchronized scopes of one object together,
\* although wait() hands the object over in the middle of a scope
\* (Base.h:98-129, 190-216, 405-423).
MutualExclusion ==
  \A t, u \in Threads : Inside(t) /\ Inside(u) => t = u

\* The asserts of desynchronize() and synchronize(): a thread in its scopes
\* is the recorded owner and the count is exactly its nesting, also after a
\* wait() during which others nested to other depths (Base.h:127, 195, 418).
OwnerAsserted ==
  \A t \in Threads :
    Inside(t) => sync_thread_id = t /\ sync_count = depth[t]

\* No lost wakeup: a thread asleep in synchronize(), or asleep again in wait()
\* after it was notified, sleeps because somebody is inside, whose last
\* desynchronize() or wait() will wake it (Base.h:102-113, 414-417).
NoLostWakeup ==
  \A t \in Threads :
    pc[t] \in {"syncBlocked", "waitAgain"} => sync_count > 0

\* The object changes hands only through being free: no step takes it from
\* one thread and gives it to another (Base.h:200, 410).
ReleasedBeforeTaken ==
  [][ sync_thread_id # NoThread /\ sync_thread_id' # sync_thread_id
        => sync_thread_id' = NoThread ]_vars

\* A free object that a thread waits to enter, for the first time or back
\* from wait(), does not stay free (Base.h:201, 411 broadcast).
FreeIsTaken ==
  (sync_count = 0
     /\ \E t \in Threads : pc[t] \in {"syncBlocked", "syncWoken", "waitWoken", "waitAgain"})
  ~> (sync_count > 0)

\* Where a thread is says what it holds: a thread that blocks in synchronize()
\* has nothing, a thread in wait() has its nesting, and a thread that stepped
\* out has it saved.
Positions ==
  \A t \in Threads :
    /\ pc[t] \in {"syncBlocked", "syncWoken"} => depth[t] = 0
    /\ pc[t] \in {"waitEnter", "waitExit"} \cup SteppedOut => depth[t] > 0
    /\ pc[t] \in SteppedOut => scount[t] = depth[t]

\* Nobody is recorded as the owner who is not inside.
OwnerInside ==
  /\ sync_thread_id = NoThread => sync_count = 0
  /\ \A t \in Threads : sync_thread_id = t => Inside(t)

\* Why a wakeup is never lost and the owner never wrong, for any step and any
\* thread: the inductive invariant of this module.
MonitorInv ==
  TypeOK /\ Positions /\ OwnerAsserted /\ OwnerInside /\ NoLostWakeup

\* The monitor this code implements.
Abstract == INSTANCE Monitor WITH
  holder <- sync_thread_id,
  level <- depth,
  parked <- {t \in Threads : pc[t] \in SteppedOut}

\* Every behaviour of Base is a behaviour of the recursive monitor of module
\* Monitor: blocking, retrying, broadcasts and spurious wakeups are stutters.
ImplementsMonitor == Abstract!Spec
=============================================================================
