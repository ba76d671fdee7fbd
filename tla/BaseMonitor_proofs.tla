-------------------------- MODULE BaseMonitor_proofs --------------------------
(***************************************************************************)
(* The guarantees of module BaseMonitor for every set of threads and every  *)
(* bound on nesting.  MonitorInv is inductive; mutual exclusion, the        *)
(* asserts of Base.h, the absence of lost wakeups and the refinement of     *)
(* module Monitor follow from it.                                           *)
(***************************************************************************)
EXTENDS BaseMonitor, TLAPS

\* A broadcast moves a thread only from asleep to awake, and leaves no thread
\* asleep.
LEMMA BroadcastWakes ==
  ASSUME NEW p \in [Threads -> PCs]
  PROVE  /\ Broadcast(p) \in [Threads -> PCs]
         /\ \A t \in Threads :
              /\ Broadcast(p)[t] \notin {"syncBlocked", "waitFirst", "waitAgain"}
              /\ Broadcast(p)[t] = "syncWoken" <=> p[t] \in {"syncBlocked", "syncWoken"}
              /\ Broadcast(p)[t] \in SteppedOut <=> p[t] \in SteppedOut
              /\ p[t] \notin {"syncBlocked", "waitFirst", "waitAgain"}
                   => Broadcast(p)[t] = p[t]
BY DEF Broadcast, PCs, SteppedOut

\* The state every object is constructed in satisfies the invariant.
LEMMA InitMonitorInv == Init => MonitorInv
BY NoThreadAssumption
   DEF Init, MonitorInv, TypeOK, Positions, OwnerAsserted, OwnerInside,
       NoLostWakeup, Inside, PCs, SteppedOut

\* Taking the object, by a thread that may, keeps the invariant.
LEMMA AcquireKeeps ==
  ASSUME MonitorInv, NEW t \in Threads, NEW next \in {"run", "waitEnter"},
         pc[t] \in {"run", "syncWoken"}, MayEnter(t), Acquire(t, next),
         calling' \in [Threads -> {"sync", "wait"}], UNCHANGED scount
  PROVE  MonitorInv'
<1> USE NoThreadAssumption
<1>1. TypeOK'
  <2>1. TypeOK /\ next \in PCs
    BY DEF MonitorInv, PCs
  <2> QED BY <2>1 DEF TypeOK, Acquire
<1>2. ~Inside(t) => sync_count = 0
  BY DEF MonitorInv, TypeOK, OwnerInside, MayEnter
<1>3. sync_count = 0 => \A u \in Threads : ~Inside(u)
  BY DEF MonitorInv, TypeOK, OwnerAsserted, Inside
<1>4. depth[t] = sync_count
  BY <1>2 DEF MonitorInv, TypeOK, OwnerAsserted, Inside, SteppedOut
<1>5. \A u \in Threads : Inside(u) => u = t
  BY <1>3 DEF MonitorInv, TypeOK, OwnerAsserted, OwnerInside, MayEnter
<1>6. Positions'
  BY DEF MonitorInv, TypeOK, Positions, Acquire, SteppedOut
<1>7. OwnerAsserted'
  BY <1>4, <1>5 DEF MonitorInv, TypeOK, OwnerAsserted, Acquire, Inside, SteppedOut
<1>8. OwnerInside'
  BY DEF MonitorInv, TypeOK, OwnerInside, Acquire, Inside, SteppedOut
<1>9. NoLostWakeup'
  BY DEF MonitorInv, TypeOK, NoLostWakeup, Acquire
<1> QED BY <1>1, <1>6, <1>7, <1>8, <1>9 DEF MonitorInv

\* Blocking keeps the invariant: whoever blocks saw somebody else inside.
LEMMA BlockKeeps ==
  ASSUME MonitorInv, NEW t \in Threads, pc[t] \in {"run", "syncWoken"},
         ~MayEnter(t), pc' = [pc EXCEPT ![t] = "syncBlocked"],
         calling' \in [Threads -> {"sync", "wait"}],
         UNCHANGED <<sync_thread_id, sync_count, depth, scount>>
  PROVE  MonitorInv'
<1> USE NoThreadAssumption
<1>1. depth[t] = 0 /\ sync_count > 0
  BY DEF MonitorInv, TypeOK, MayEnter, OwnerAsserted, Inside, SteppedOut
<1> QED
  BY <1>1 DEF MonitorInv, TypeOK, Positions, OwnerAsserted, OwnerInside,
              NoLostWakeup, Inside, SteppedOut, PCs

\* Every action keeps the invariant.
LEMMA NextMonitorInv == MonitorInv /\ [Next]_vars => MonitorInv'
<1> SUFFICES ASSUME MonitorInv, [Next]_vars PROVE MonitorInv'
  OBVIOUS
<1> USE NoThreadAssumption
<1> TypeOK
  BY DEF MonitorInv
<1>1. ASSUME NEW t \in Threads, NEW call \in {"sync", "wait"}, Synchronize(t, call)
      PROVE  MonitorInv'
  <2>1. AfterSync(call) \in {"run", "waitEnter"}
    BY DEF AfterSync
  <2>2. calling' \in [Threads -> {"sync", "wait"}] /\ UNCHANGED scount /\ pc[t] = "run"
    BY <1>1 DEF Synchronize, TypeOK
  <2>3. CASE MayEnter(t)
    BY <1>1, <2>1, <2>2, <2>3, AcquireKeeps DEF Synchronize
  <2>4. CASE ~MayEnter(t)
    BY <1>1, <2>2, <2>4, BlockKeeps DEF Synchronize
  <2> QED BY <2>3, <2>4
<1>2. ASSUME NEW t \in Threads, SyncRetry(t)
      PROVE  MonitorInv'
  <2>1. AfterSync(calling[t]) \in {"run", "waitEnter"}
    BY DEF AfterSync
  <2>2. calling' \in [Threads -> {"sync", "wait"}] /\ UNCHANGED scount /\ pc[t] = "syncWoken"
    BY <1>2 DEF SyncRetry, TypeOK
  <2>3. CASE MayEnter(t)
    BY <1>2, <2>1, <2>2, <2>3, AcquireKeeps DEF SyncRetry
  <2>4. CASE ~MayEnter(t)
    BY <1>2, <2>2, <2>4, BlockKeeps DEF SyncRetry
  <2> QED BY <2>3, <2>4
<1>3. ASSUME NEW t \in Threads, TrySync(t)
      PROVE  MonitorInv'
  <2>1. calling' \in [Threads -> {"sync", "wait"}] /\ UNCHANGED scount /\ pc[t] = "run"
    BY <1>3 DEF TrySync, TypeOK
  <2> QED BY <1>3, <2>1, AcquireKeeps DEF TrySync
<1>4. ASSUME NEW t \in Threads, Desynchronize(t)
      PROVE  MonitorInv'
  <2> DEFINE p == [pc EXCEPT ![t] = "run"]
  <2>1. Inside(t) /\ sync_thread_id = t /\ sync_count = depth[t]
    BY <1>4 DEF Desynchronize, Inside, SteppedOut, MonitorInv, OwnerAsserted
  <2>2. \A u \in Threads : Inside(u) => u = t
    BY <2>1 DEF MonitorInv, OwnerAsserted
  <2>3. p \in [Threads -> PCs]
    BY DEF TypeOK, PCs
  <2>4. CASE sync_count = 1
    <3>1. pc' = Broadcast(p) /\ sync_thread_id' = NoThread /\ sync_count' = 0
      BY <1>4, <2>4 DEF Desynchronize, TypeOK
    <3>2. depth' = [depth EXCEPT ![t] = 0] /\ UNCHANGED <<calling, scount>>
      BY <1>4, <2>1, <2>4 DEF Desynchronize, TypeOK
    <3> HIDE DEF p
    <3>3. pc' \in [Threads -> PCs]
          /\ \A u \in Threads :
               /\ pc'[u] \notin {"syncBlocked", "waitFirst", "waitAgain"}
               /\ pc'[u] = "syncWoken" <=> p[u] \in {"syncBlocked", "syncWoken"}
               /\ pc'[u] \in SteppedOut <=> p[u] \in SteppedOut
               /\ p[u] \notin {"syncBlocked", "waitFirst", "waitAgain"} => pc'[u] = p[u]
      BY <3>1, <2>3, BroadcastWakes
    <3>4. p[t] = "run" /\ \A u \in Threads \ {t} : p[u] = pc[u]
      BY DEF p, TypeOK
    <3>5. TypeOK'
      BY <3>1, <3>2, <3>3 DEF TypeOK
    <3>6. Positions'
      BY <3>2, <3>3, <3>4 DEF MonitorInv, Positions, TypeOK, SteppedOut
    <3>7. \A u \in Threads : ~Inside(u)'
      BY <2>2, <3>2, <3>3, <3>4 DEF Inside, TypeOK
    <3>8. OwnerAsserted' /\ OwnerInside'
      BY <3>1, <3>7 DEF OwnerAsserted, OwnerInside
    <3>9. NoLostWakeup'
      BY <3>3 DEF NoLostWakeup
    <3> QED BY <3>5, <3>6, <3>8, <3>9 DEF MonitorInv
  <2>5. CASE sync_count # 1
    <3>1. pc' = p /\ UNCHANGED <<sync_thread_id, calling, scount>>
      BY <1>4, <2>5 DEF Desynchronize
    <3>2. sync_count' = sync_count - 1 /\ sync_count' \in Nat /\ sync_count' > 0
          /\ depth' = [depth EXCEPT ![t] = @ - 1]
      <4>1. sync_count' = sync_count - 1 /\ depth' = [depth EXCEPT ![t] = @ - 1]
            /\ depth[t] > 0
        BY <1>4 DEF Desynchronize
      <4> QED BY <2>1, <2>5, <4>1 DEF TypeOK
    <3>3. TypeOK'
      BY <2>1, <2>3, <3>1, <3>2 DEF TypeOK
    <3>4. Positions'
      BY <3>1, <3>2 DEF MonitorInv, Positions, TypeOK, SteppedOut
    <3>5. OwnerAsserted' /\ OwnerInside'
      BY <2>1, <2>2, <3>1, <3>2
         DEF MonitorInv, OwnerAsserted, OwnerInside, Inside, TypeOK, SteppedOut
    <3>6. NoLostWakeup'
      BY <3>2 DEF NoLostWakeup
    <3> QED BY <3>3, <3>4, <3>5, <3>6 DEF MonitorInv
  <2> QED BY <2>4, <2>5
<1>5. ASSUME NEW t \in Threads, WaitRelease(t)
      PROVE  MonitorInv'
  <2>1. Inside(t) /\ sync_thread_id = t /\ sync_count = depth[t]
    BY <1>5 DEF WaitRelease, Inside, SteppedOut, MonitorInv, OwnerAsserted, Positions
  <2>2. \A u \in Threads : Inside(u) => u = t
    BY <2>1 DEF MonitorInv, OwnerAsserted
  <2> DEFINE p == Broadcast(pc)
  <2>3. p \in [Threads -> PCs]
        /\ \A u \in Threads :
             /\ p[u] \notin {"syncBlocked", "waitFirst", "waitAgain"}
             /\ p[u] = "syncWoken" <=> pc[u] \in {"syncBlocked", "syncWoken"}
             /\ p[u] \in SteppedOut <=> pc[u] \in SteppedOut
             /\ pc[u] \notin {"syncBlocked", "waitFirst", "waitAgain"} => p[u] = pc[u]
    BY BroadcastWakes DEF TypeOK
  <2>4. /\ pc' = [p EXCEPT ![t] = "waitFirst"]
        /\ scount' = [scount EXCEPT ![t] = depth[t]]
        /\ sync_thread_id' = NoThread /\ sync_count' = 0
        /\ UNCHANGED <<calling, depth>>
        /\ pc[t] = "waitEnter"
    BY <1>5, <2>1 DEF WaitRelease
  <2> HIDE DEF p
  <2>5. pc' \in [Threads -> PCs] /\ pc'[t] = "waitFirst"
        /\ \A u \in Threads \ {t} : pc'[u] = p[u]
    BY <2>3, <2>4 DEF PCs
  <2>6. TypeOK'
    BY <2>4, <2>5 DEF TypeOK
  <2>7. Positions'
    BY <2>3, <2>4, <2>5 DEF MonitorInv, Positions, TypeOK, SteppedOut
  <2>8. \A u \in Threads : ~Inside(u)'
    BY <2>2, <2>3, <2>4, <2>5 DEF Inside, SteppedOut
  <2>9. OwnerAsserted' /\ OwnerInside'
    BY <2>4, <2>8 DEF OwnerAsserted, OwnerInside
  <2>10. NoLostWakeup'
    BY <2>3, <2>5 DEF NoLostWakeup
  <2> QED BY <2>6, <2>7, <2>9, <2>10 DEF MonitorInv
<1>6. ASSUME NEW t \in Threads, WaitRetry(t)
      PROVE  MonitorInv'
  <2>1. pc[t] \in SteppedOut /\ depth[t] > 0 /\ scount[t] = depth[t]
    BY <1>6 DEF WaitRetry, SteppedOut, MonitorInv, Positions
  <2>2. CASE sync_count > 0
    <3>1. pc' = [pc EXCEPT ![t] = "waitAgain"]
          /\ UNCHANGED <<sync_thread_id, sync_count, calling, scount, depth>>
      BY <1>6, <2>2 DEF WaitRetry
    <3> QED BY <2>1, <2>2, <3>1
            DEF MonitorInv, TypeOK, Positions, OwnerAsserted, OwnerInside,
                NoLostWakeup, Inside, SteppedOut, PCs
  <2>3. CASE sync_count = 0
    <3>1. /\ pc' = [pc EXCEPT ![t] = "waitExit"]
          /\ sync_count' = depth[t] /\ sync_thread_id' = t
          /\ UNCHANGED <<calling, scount, depth>>
      BY <1>6, <2>1, <2>3 DEF WaitRetry
    <3>2. \A u \in Threads : ~Inside(u)
      BY <2>3 DEF MonitorInv, OwnerAsserted, Inside, TypeOK
    <3> QED BY <2>1, <3>1, <3>2
            DEF MonitorInv, TypeOK, Positions, OwnerAsserted, OwnerInside,
                NoLostWakeup, Inside, SteppedOut, PCs
  <2> QED BY <2>2, <2>3 DEF TypeOK
<1>7. ASSUME NEW t \in Threads, Signal(t)
      PROVE  MonitorInv'
  <2>1. pc' = Broadcast(pc)
        /\ UNCHANGED <<sync_thread_id, sync_count, calling, scount, depth>>
    BY <1>7 DEF Signal
  <2>2. pc' \in [Threads -> PCs]
        /\ \A u \in Threads :
             /\ pc'[u] \notin {"syncBlocked", "waitFirst", "waitAgain"}
             /\ pc'[u] = "syncWoken" <=> pc[u] \in {"syncBlocked", "syncWoken"}
             /\ pc'[u] \in SteppedOut <=> pc[u] \in SteppedOut
             /\ pc[u] \notin {"syncBlocked", "waitFirst", "waitAgain"} => pc'[u] = pc[u]
    BY <2>1, BroadcastWakes DEF TypeOK
  <2> QED BY <2>1, <2>2
          DEF MonitorInv, TypeOK, Positions, OwnerAsserted, OwnerInside,
              NoLostWakeup, Inside, SteppedOut
<1>8. ASSUME NEW t \in Threads, SpuriousWakeup(t)
      PROVE  MonitorInv'
  BY <1>8 DEF SpuriousWakeup, MonitorInv, TypeOK, Positions, OwnerAsserted,
              OwnerInside, NoLostWakeup, Inside, SteppedOut, PCs
<1>9. CASE UNCHANGED vars
  BY <1>9 DEF vars, MonitorInv, TypeOK, Positions, OwnerAsserted, OwnerInside,
              NoLostWakeup, Inside
<1> QED
  BY <1>1, <1>2, <1>3, <1>4, <1>5, <1>6, <1>7, <1>8, <1>9 DEF Next

-----------------------------------------------------------------------------
\* Types, owner and counts are right in every reachable state (Base.h:98-216).
THEOREM MonitorInvariant == Spec => []MonitorInv
<1>1. Init => MonitorInv
  BY InitMonitorInv
<1>2. MonitorInv /\ [Next]_vars => MonitorInv'
  BY NextMonitorInv
<1> QED BY <1>1, <1>2, PTL DEF Spec

\* No two threads are in the synchronized scopes of an object together, for any
\* number of threads, any nesting and any use of wait (Base.h:98-129, 405-423).
THEOREM Exclusion == Spec => []MutualExclusion
<1>1. MonitorInv => MutualExclusion
  BY DEF MonitorInv, OwnerAsserted, MutualExclusion
<1> QED BY <1>1, MonitorInvariant, PTL

\* The asserts of synchronize(), desynchronize() and wait() never fire, and
\* wait() gives back the nesting it took (Base.h:127, 195, 418-421).
THEOREM AssertsHold == Spec => []OwnerAsserted
<1>1. MonitorInv => OwnerAsserted
  BY DEF MonitorInv
<1> QED BY <1>1, MonitorInvariant, PTL

\* A thread asleep in synchronize(), or asleep again in wait(), always has
\* somebody inside who will wake it (Base.h:102-113, 201, 411-417).
THEOREM WakeupsKept == Spec => []NoLostWakeup
<1>1. MonitorInv => NoLostWakeup
  BY DEF MonitorInv
<1> QED BY <1>1, MonitorInvariant, PTL

\* The object goes from one thread to another only through being free, because
\* each function takes it only when it is free or its own (Base.h:103-113, 180).
THEOREM FreeBetweenOwners == Spec => ReleasedBeforeTaken
<1> DEFINE Step == sync_thread_id # NoThread /\ sync_thread_id' # sync_thread_id
                     => sync_thread_id' = NoThread
<1>1. MonitorInv /\ [Next]_vars => [Step]_vars
  <2> SUFFICES ASSUME MonitorInv, [Next]_vars, sync_thread_id # NoThread,
                      sync_thread_id' # sync_thread_id
               PROVE  sync_thread_id' = NoThread
    OBVIOUS
  <2>1. sync_count # 0
    BY DEF MonitorInv, TypeOK, OwnerAsserted, OwnerInside, Inside
  <2> QED
    BY <2>1 DEF MonitorInv, TypeOK, Next, vars, Synchronize, SyncRetry, TrySync, MayEnter,
                Acquire, Desynchronize, WaitRelease, WaitRetry, Signal, SpuriousWakeup
<1> QED BY <1>1, MonitorInvariant, PTL DEF Spec, ReleasedBeforeTaken

-----------------------------------------------------------------------------
\* The threads Monitor sees as parked.
Parked == {t \in Threads : pc[t] \in SteppedOut}

\* Every step of the code is a step of the abstract monitor or no step at all.
LEMMA StepRefines == MonitorInv /\ [Next]_vars => [Abstract!Next]_(Abstract!vars)
<1> SUFFICES ASSUME MonitorInv, [Next]_vars
             PROVE  Abstract!Next \/ UNCHANGED <<sync_thread_id, depth, Parked>>
  BY DEF Abstract!vars, Parked
<1> TypeOK
  BY DEF MonitorInv
<1> USE NoThreadAssumption
<1>1. ASSUME NEW t \in Threads, NEW next \in {"run", "waitEnter"},
             pc[t] \in {"run", "syncWoken"}, depth[t] < MaxDepth,
             MayEnter(t), Acquire(t, next)
      PROVE  Abstract!Enter(t)
  <2>1. sync_thread_id \in {NoThread, t}
    BY <1>1 DEF MayEnter, MonitorInv, OwnerAsserted, OwnerInside, Inside, TypeOK
  <2>2. Parked' = Parked /\ t \notin Parked
    BY <1>1 DEF Acquire, Parked, SteppedOut, TypeOK
  <2> QED BY <1>1, <2>1, <2>2 DEF Abstract!Enter, Acquire, Parked
<1>2. ASSUME NEW t \in Threads, NEW call \in {"sync", "wait"}, Synchronize(t, call)
      PROVE  Abstract!Enter(t) \/ UNCHANGED <<sync_thread_id, depth, Parked>>
  <2>1. AfterSync(call) \in {"run", "waitEnter"}
    BY DEF AfterSync
  <2>2. CASE MayEnter(t)
    BY <1>1, <1>2, <2>1, <2>2 DEF Synchronize
  <2>3. CASE ~MayEnter(t)
    BY <1>2, <2>3 DEF Synchronize, Parked, SteppedOut, TypeOK
  <2> QED BY <2>2, <2>3
<1>3. ASSUME NEW t \in Threads, SyncRetry(t)
      PROVE  Abstract!Enter(t) \/ UNCHANGED <<sync_thread_id, depth, Parked>>
  <2>1. AfterSync(calling[t]) \in {"run", "waitEnter"}
    BY DEF AfterSync
  <2>2. CASE MayEnter(t)
    <3>1. depth[t] < MaxDepth
      BY <1>3, MaxDepthAssumption DEF SyncRetry, MonitorInv, Positions
    <3> QED BY <1>1, <1>3, <2>1, <2>2, <3>1 DEF SyncRetry
  <2>3. CASE ~MayEnter(t)
    BY <1>3, <2>3 DEF SyncRetry, Parked, SteppedOut, TypeOK
  <2> QED BY <2>2, <2>3
<1>4. ASSUME NEW t \in Threads, TrySync(t)
      PROVE  Abstract!Enter(t)
  BY <1>1, <1>4 DEF TrySync
<1>5. ASSUME NEW t \in Threads, Desynchronize(t)
      PROVE  Abstract!Leave(t)
  <2>1. sync_thread_id = t /\ sync_count = depth[t] /\ depth[t] > 0
    BY <1>5 DEF Desynchronize, Inside, SteppedOut, MonitorInv, OwnerAsserted
  <2>2. Parked' = Parked
    <3> DEFINE p == [pc EXCEPT ![t] = "run"]
    <3>1. p \in [Threads -> PCs] /\ pc[t] \notin SteppedOut
      BY <1>5 DEF TypeOK, PCs, Desynchronize, SteppedOut
    <3>2. {u \in Threads : p[u] \in SteppedOut} = Parked
      BY <3>1 DEF TypeOK, Parked, SteppedOut
    <3>3. pc' = p \/ pc' = Broadcast(p)
      BY <1>5 DEF Desynchronize
    <3> HIDE DEF p
    <3> QED BY <3>1, <3>2, <3>3, BroadcastWakes DEF Parked
  <2>3. /\ depth' = [depth EXCEPT ![t] = @ - 1]
        /\ sync_thread_id' = IF depth[t] = 1 THEN NoThread ELSE t
    BY <1>5, <2>1 DEF Desynchronize
  <2> QED BY <2>1, <2>2, <2>3 DEF Abstract!Leave, Parked
<1>6. ASSUME NEW t \in Threads, WaitRelease(t)
      PROVE  Abstract!Park(t)
  <2>1. sync_thread_id = t
    BY <1>6 DEF WaitRelease, Inside, SteppedOut, MonitorInv, OwnerAsserted, Positions
  <2>2. Parked' = Parked \cup {t}
    <3> DEFINE p == Broadcast(pc)
    <3>1. p \in [Threads -> PCs] /\ \A u \in Threads : p[u] \in SteppedOut <=> pc[u] \in SteppedOut
      BY BroadcastWakes DEF TypeOK
    <3>2. pc' = [p EXCEPT ![t] = "waitFirst"]
      BY <1>6 DEF WaitRelease
    <3> HIDE DEF p
    <3> QED BY <3>1, <3>2 DEF Parked, SteppedOut
  <2> QED BY <1>6, <2>1, <2>2 DEF Abstract!Park, WaitRelease, Parked
<1>7. ASSUME NEW t \in Threads, WaitRetry(t)
      PROVE  Abstract!Unpark(t) \/ UNCHANGED <<sync_thread_id, depth, Parked>>
  <2>1. t \in Parked
    BY <1>7 DEF WaitRetry, Parked, SteppedOut
  <2>2. CASE sync_count > 0
    BY <1>7, <2>2 DEF WaitRetry, Parked, SteppedOut, TypeOK
  <2>3. CASE sync_count = 0
    <3>1. sync_thread_id = NoThread
      BY <2>3 DEF MonitorInv, OwnerAsserted, OwnerInside, Inside, TypeOK
    <3>2. pc' = [pc EXCEPT ![t] = "waitExit"] /\ sync_thread_id' = t /\ depth' = depth
      BY <1>7, <2>3 DEF WaitRetry
    <3>3. Parked' = Parked \ {t}
      BY <3>2 DEF Parked, SteppedOut, TypeOK
    <3> QED BY <2>1, <3>1, <3>2, <3>3 DEF Abstract!Unpark, Parked
  <2> QED BY <2>2, <2>3 DEF TypeOK
<1>8. ASSUME NEW t \in Threads, Signal(t)
      PROVE  UNCHANGED <<sync_thread_id, depth, Parked>>
  <2>1. Parked' = Parked
    BY <1>8, BroadcastWakes DEF Signal, Parked, TypeOK
  <2> QED BY <1>8, <2>1 DEF Signal
<1>9. ASSUME NEW t \in Threads, SpuriousWakeup(t)
      PROVE  UNCHANGED <<sync_thread_id, depth, Parked>>
  BY <1>9 DEF SpuriousWakeup, Parked, SteppedOut, TypeOK
<1>10. CASE UNCHANGED vars
  BY <1>10 DEF vars, Parked
<1> QED
  BY <1>2, <1>3, <1>4, <1>5, <1>6, <1>7, <1>8, <1>9, <1>10 DEF Next, Abstract!Next

\* Base.h implements the recursive monitor of module Monitor: the promise every
\* class that derives from Base relies on when it writes Synchronized(this).
THEOREM Refinement == Spec => ImplementsMonitor
<1>1. Init => Abstract!Init
  BY DEF Init, Abstract!Init, SteppedOut
<1> QED
  BY <1>1, StepRefines, MonitorInvariant, PTL DEF Spec, Abstract!Spec, ImplementsMonitor

\* The fields of a Base and the places of its threads stay what they are: the
\* count is never negative, nor beyond the bound on nesting (Base.h:98-216).
THEOREM TypesHold == Spec => []TypeOK
<1>1. MonitorInv => TypeOK
  BY DEF MonitorInv
<1> QED BY <1>1, MonitorInvariant, PTL
=============================================================================
