--------------------------- MODULE EventRaces_proofs ---------------------------
(***************************************************************************)
(* EventDispatch, for any events, clients, workers and bounds: an event is  *)
(* where it remembers to be, runs no more often than it was posted, and is  *)
(* quiet once it is closed.                                                 *)
(*                                                                          *)
(* What an event's monitor protects is only consistent where nobody is in   *)
(* it; so the invariant says of each place of a thread inside what holds    *)
(* there.  Typed says which places there are and what a thread has in hand, *)
(* LocksOK that whoever is inside has the event in hand, alone.  Kept is of *)
(* one event: its entries on the queues (OnCurrent, OnlyThere), the posts   *)
(* still to be handled (Counted), and what closing it rules out (Quiet).    *)
(***************************************************************************)
EXTENDS EventDispatch_proofs, FunctionTheorems

\* Where each kind of thread can be.
PostPlaces == {"toPost", "resolve", "push", "signal", "posted", "overflow"}
ClientPlaces == PostPlaces \cup {"idle", "toClose", "closing"}
WorkerPlaces ==
  PostPlaces \cup {"idle", "asleep", "scan", "taken", "do_it", "done", "exited"}
TimerPlaces == PostPlaces \cup {"idle", "fire", "erase", "die", "exited"}
MainPlaces == {"idle", "started", "stopWorkers", "exitLock", "stopOthers", "down"}

\* Where a thread has an event in hand, and where it is in its monitor.
HandPlaces ==
  PostPlaces \cup {"toClose", "closing", "taken", "do_it", "done", "erase", "die"}
Holds(a) ==
  \/ pc[a] \in HandPlaces \ {"toPost", "toClose"}
  \/ pc[a] = "toPost" /\ a \in Queues

PlacesOK ==
  /\ pc = [a \in Actors |-> pc[a]]
  /\ \A c \in Clients : pc[c] \in ClientPlaces
  /\ \A q \in Queues : pc[q] \in WorkerPlaces
  /\ pc[Timer] \in TimerPlaces
  /\ pc[Main] \in MainPlaces

HandsOK == \A a \in Actors : pc[a] \in HandPlaces => ev[a] \in Events

\* Only repost() names the fail-safe queue, and only of an event that is late.
DestsOK ==
  /\ \A a \in Clients \cup Queues : dest[a] # FailSafe
  /\ dest[Timer] = FailSafe => pc[Timer] \in {"resolve", "push", "signal", "posted"}
  /\ pc[Timer] \in {"toPost", "resolve", "push"} /\ dest[Timer] # FailSafe =>
       ev[Timer] \in TimerEvents
  /\ \A e \in Events : first_time_out[e] => e \in TimerEvents
  /\ \A a \in Actors : pc[a] \in {"push", "signal", "exitLock"} => dest[a] \in Queues
  /\ pc[Main] = "exitLock" /\ dest[Main] # FailSafe => queues # <<>>

Typed == TypeOK /\ PlacesOK /\ HandsOK /\ DestsOK

LocksOK ==
  \A a \in Actors :
    /\ Holds(a) => evOwner[ev[a]] = a
    /\ \A e \in Events : evOwner[e] = a => Holds(a) /\ ev[a] = e

\* a has taken e off its queue, or not put it on one yet.
Moves(a, e) ==
  /\ ev[a] = e
  /\ \/ pc[a] \in {"push", "taken", "die"}
     \/ pc[a] = "resolve" /\ dest[a] = FailSafe
Moving(e) == \E a \in Actors : Moves(a, e)

\* a has a post of e in hand that has been counted and not yet been handled.
Carries(a, e) ==
  /\ ev[a] = e
  /\ \/ pc[a] = "taken"
     \/ pc[a] \in {"resolve", "push"} /\ dest[a] = FailSafe

\* The posts of e that may still be handled: entries of queues, and hands.
Pending(e) ==
  {p \in Actors \X Nat :
     \/ p[1] \in Queues /\ p[2] \in Slots(p[1], e)
     \/ p[2] = 0 /\ Carries(p[1], e)}

Counted(e) ==
  /\ IsFiniteSet(Pending(e))
  /\ handled[e] + Cardinality(Pending(e)) <= posts[e]

OnCurrent(e) ==
  ~shutdown_started /\ current_queue[e] # NoQueue /\ ~Moving(e) =>
    Slots(current_queue[e], e) # {}

OnlyThere(e) ==
  ~doubled[e] =>
    \A q \in Queues : \A i \in Slots(q, e) :
      current_queue[e] = q /\ ~Moving(e) /\ \A j \in Slots(q, e) : i = j

Aims(e) ==
  \A a \in Actors : ev[a] = e =>
    /\ pc[a] = "push" => current_queue[e] = dest[a]
    /\ pc[a] = "erase" => current_queue[e] # NoQueue

Quiet(e) ==
  closed[e] /\ ~doubled[e] /\ e \notin TimerEvents =>
    /\ \A q \in Queues : Slots(q, e) = {}
    /\ \A q \in Queues : ev[q] = e => pc[q] \notin {"taken", "do_it"}
    /\ ~Carries(Timer, e)
    /\ \/ current_queue[e] = NoQueue \/ shutdown_started
       \/ \E a \in Actors \ {Timer} : ev[a] = e /\ pc[a] = "push"

Kept(e) == Counted(e) /\ OnCurrent(e) /\ OnlyThere(e) /\ Aims(e) /\ Quiet(e)

EventInv == Typed /\ LocksOK /\ \A e \in Events : Kept(e)

-----------------------------------------------------------------------------
(* Types, places, and what a thread has in hand. *)

\* A thread that takes no step: but a worker may be woken.
Bystander(x) ==
  /\ ev'[x] = ev[x] /\ dest'[x] = dest[x]
  /\ pc'[x] = pc[x] \/ (x \in Queues /\ pc[x] = "asleep" /\ pc'[x] = "idle")

\* Only a takes a step, and goes to a place of its kind.
StepOf(a) ==
  /\ pc' = [x \in Actors |-> pc'[x]]
  /\ \A x \in Actors \ {a} : Bystander(x)
  /\ a \in Clients => pc'[a] \in ClientPlaces
  /\ a \in Queues => pc'[a] \in WorkerPlaces
  /\ a = Timer => pc'[a] \in TimerPlaces
  /\ a = Main => pc'[a] \in MainPlaces

\* What a then has in hand.
HandOf(a) ==
  /\ pc'[a] \in HandPlaces => ev'[a] \in Events
  /\ a \in Clients \cup Queues => dest'[a] # FailSafe
  /\ a = Timer => /\ dest'[a] = FailSafe => pc'[a] \in {"resolve", "push", "signal", "posted"}
                  /\ pc'[a] \in {"toPost", "resolve", "push"} /\ dest'[a] # FailSafe =>
                       ev'[a] \in TimerEvents
  /\ pc'[a] \in {"push", "signal", "exitLock"} => dest'[a] \in Queues

LEMMA ActorKinds ==
  /\ Clients \subseteq Actors /\ Queues \subseteq Actors /\ Timer \in Actors /\ Main \in Actors
  /\ Workers \subseteq Queues /\ FailSafe \in Queues /\ FailSafe \notin Workers
  /\ Timer \notin Clients \cup Queues /\ Main \notin Clients \cup Queues /\ Timer # Main
  /\ \A c \in Clients : c \notin Queues
  /\ Nobody \notin Actors /\ Nobody \notin Events /\ NoQueue \notin Queues
  /\ \A a \in Actors : a \in Clients \/ a \in Queues \/ a = Timer \/ a = Main
BY ActorsAssumption DEF Actors, Queues

LEMMA PlacesOfKinds ==
  /\ "asleep" \notin HandPlaces /\ "idle" \notin HandPlaces
  /\ "idle" \in WorkerPlaces
  /\ "push" \notin MainPlaces
BY DEF HandPlaces, PostPlaces, WorkerPlaces, MainPlaces

LEMMA StepTyped ==
  ASSUME Typed, NEW a \in Actors, StepOf(a), HandOf(a), TypeOK',
         \A e \in Events : first_time_out'[e] => first_time_out[e],
         pc'[Main] = "exitLock" /\ dest'[Main] # FailSafe => queues' # <<>>
  PROVE  Typed'
<1>1. PlacesOK'
  BY ActorKinds, PlacesOfKinds DEF Typed, PlacesOK, StepOf, Bystander
<1>2. HandsOK'
  BY PlacesOfKinds DEF Typed, HandsOK, StepOf, Bystander, HandOf
<1>3. DestsOK'
  <2>1. \A x \in Clients \cup Queues : dest'[x] # FailSafe
    BY ActorKinds DEF Typed, DestsOK, StepOf, Bystander, HandOf
  <2>2. \A x \in Actors : pc'[x] \in {"push", "signal", "exitLock"} => dest'[x] \in Queues
    BY ActorKinds DEF Typed, DestsOK, StepOf, Bystander, HandOf
  <2>3. /\ dest'[Timer] = FailSafe => pc'[Timer] \in {"resolve", "push", "signal", "posted"}
        /\ pc'[Timer] \in {"toPost", "resolve", "push"} /\ dest'[Timer] # FailSafe =>
             ev'[Timer] \in TimerEvents
    BY ActorKinds DEF Typed, DestsOK, StepOf, Bystander, HandOf
  <2> QED BY <2>1, <2>2, <2>3 DEF Typed, DestsOK
<1> QED BY <1>1, <1>2, <1>3 DEF Typed

LEMMA GotoStep ==
  ASSUME Typed, NEW a \in Actors, NEW place, pc' = [pc EXCEPT ![a] = place],
         ev' = ev \/ \E e : ev' = [ev EXCEPT ![a] = e],
         dest' = dest \/ \E q : dest' = [dest EXCEPT ![a] = q],
         a \in Clients => place \in ClientPlaces,
         a \in Queues => place \in WorkerPlaces,
         a = Timer => place \in TimerPlaces,
         a = Main => place \in MainPlaces
  PROVE  StepOf(a) /\ pc'[a] = place
BY DEF Typed, PlacesOK, TypeOK, StepOf, Bystander

LEMMA SignalStep ==
  ASSUME Typed, NEW a \in Actors, NEW place, NEW q, pc' = [Signalled(pc, q) EXCEPT ![a] = place],
         ev' = ev, dest' = dest \/ \E r : dest' = [dest EXCEPT ![a] = r],
         a \in Clients => place \in ClientPlaces,
         a \in Queues => place \in WorkerPlaces,
         a = Main => place \in MainPlaces,
         a = Timer => place \in TimerPlaces
  PROVE  StepOf(a) /\ pc'[a] = place
<1>1. /\ Signalled(pc, q) = [x \in Actors |-> Signalled(pc, q)[x]]
      /\ \A x \in Actors : \/ Signalled(pc, q)[x] = pc[x]
                           \/ pc[x] = "asleep" /\ Signalled(pc, q)[x] = "idle"
  BY DEF Typed, PlacesOK, Signalled
<1>2. \A x \in Actors : pc[x] = "asleep" => x \in Queues
  BY ActorKinds DEF Typed, PlacesOK, ClientPlaces, PostPlaces, TimerPlaces, MainPlaces
<1> QED BY <1>1, <1>2 DEF Typed, TypeOK, StepOf, Bystander

\* Where each step of post() leads is open to whoever posts.
LEMMA PostPlacesOpen ==
  /\ PostPlaces \subseteq ClientPlaces /\ PostPlaces \subseteq WorkerPlaces
  /\ PostPlaces \subseteq TimerPlaces /\ PostPlaces \subseteq HandPlaces
BY DEF ClientPlaces, WorkerPlaces, TimerPlaces, HandPlaces

LEMMA RotatedSeq ==
  ASSUME NEW S, NEW qs \in Seq(S), qs # <<>>
  PROVE  Rotated(qs) \in Seq(S) /\ Rotated(qs) # <<>>
<1>1. Head(qs) \in S /\ Tail(qs) \in Seq(S)
  OBVIOUS
<1>2. /\ Append(Tail(qs), Head(qs)) \in Seq(S)
      /\ Len(Append(Tail(qs), Head(qs))) = Len(Tail(qs)) + 1
  BY <1>1
<1>3. Len(Tail(qs)) + 1 # 0 /\ Len(<<>>) = 0
  BY <1>1
<1> QED BY <1>2, <1>3 DEF Rotated

LEMMA PostTyped ==
  ASSUME Typed, NEW a \in Actors \ {Main}, Post(a)
  PROVE  Typed' /\ StepOf(a)
<1> USE DEF eventVars, queueVars, timerVars, stopVars, history, Goto
<1>1. CASE PostEnter(a)
  <2>1. PICK place \in {"posted", "resolve"} :
          /\ pc' = [pc EXCEPT ![a] = place] /\ ev' = ev
          /\ \/ dest' = dest /\ place = "posted"
             \/ dest' = [dest EXCEPT ![a] = IF @ = NoQueue THEN preferred_queue[ev[a]] ELSE @]
    BY <1>1 DEF PostEnter
  <2>2. pc[a] = "toPost" /\ ev[a] \in Events
    BY <1>1 DEF PostEnter, Typed, HandsOK, HandPlaces, PostPlaces
  <2>3. StepOf(a) /\ pc'[a] = place
    BY <2>1, GotoStep, PostPlacesOpen DEF PostPlaces
  <2>4. dest' \in [Actors -> Queues \cup {NoQueue}] /\ dest'[a] # FailSafe
    <3>1. /\ dest \in [Actors -> Queues \cup {NoQueue}]
          /\ preferred_queue[ev[a]] \in Queues \cup {NoQueue}
          /\ preferred_queue[ev[a]] # FailSafe
      BY <2>2, ActorKinds DEF Typed, TypeOK
    <3>2. dest[a] # FailSafe
      BY <2>2, ActorKinds DEF Typed, DestsOK
    <3> QED BY <2>1, <3>1, <3>2
  <2>5. HandOf(a)
    <3>1. a = Timer => ev[a] \in TimerEvents
      BY <2>2 DEF Typed, DestsOK
    <3>2. pc'[a] \notin {"push", "signal", "exitLock"}
      BY <2>3
    <3> QED BY <2>1, <2>2, <2>4, <3>1, <3>2 DEF HandOf
  <2>6. TypeOK'
    BY <1>1, <2>1, <2>2, <2>4 DEF PostEnter, Lock, Typed, TypeOK
  <2>7. pc'[Main] = pc[Main] /\ dest'[Main] = dest[Main] /\ queues' = queues
    BY <1>1, <2>1, ActorKinds DEF PostEnter, Typed, PlacesOK, TypeOK
  <2> QED BY <1>1, <2>3, <2>5, <2>6, <2>7, StepTyped DEF PostEnter, Typed, DestsOK
<1>2. CASE PostResolve(a)
  <2>1. pc[a] = "resolve" /\ ev[a] \in Events /\ ev' = ev
    BY <1>2 DEF PostResolve, Typed, HandsOK, HandPlaces, PostPlaces
  <2>2. CASE dest[a] = NoQueue /\ queues = <<>>
    <3>1. /\ pc' = [pc EXCEPT ![a] = "overflow"]
          /\ UNCHANGED <<dest, queues, current_queue, timer_list>>
      BY <1>2, <2>2 DEF PostResolve
    <3>2. StepOf(a) /\ pc'[a] = "overflow"
      BY <2>1, <3>1, GotoStep, PostPlacesOpen DEF PostPlaces
    <3>3. HandOf(a)
      BY <2>1, <2>2, <3>1, <3>2, ActorKinds DEF HandOf, Typed, DestsOK
    <3>4. TypeOK'
      BY <1>2, <3>1 DEF PostResolve, Typed, TypeOK
    <3>5. pc'[Main] = pc[Main] /\ dest'[Main] = dest[Main] /\ queues' = queues
      BY <3>1, ActorKinds DEF Typed, PlacesOK, TypeOK
    <3> QED BY <1>2, <3>2, <3>3, <3>4, <3>5, StepTyped DEF PostResolve, Typed, DestsOK
  <2>3. CASE ~(dest[a] = NoQueue /\ queues = <<>>)
    <3> DEFINE q == IF dest[a] = NoQueue THEN Head(queues) ELSE dest[a]
    <3>1. PICK place \in {"posted", "push"} : pc' = [pc EXCEPT ![a] = place]
      BY <1>2, <2>3 DEF PostResolve
    <3>2. /\ dest' = [dest EXCEPT ![a] = q]
          /\ queues' = IF dest[a] = NoQueue THEN Rotated(queues) ELSE queues
          /\ current_queue' = [current_queue EXCEPT ![ev[a]] = q]
          /\ timer_list' = timer_list \cup {ev[a]}
      BY <1>2, <2>3 DEF PostResolve
    <3>3. q \in Queues /\ (q = FailSafe <=> dest[a] = FailSafe)
      BY <2>3, ActorKinds DEF Typed, TypeOK
    <3>4. queues' \in Seq(Workers) /\ (queues' = <<>> => queues = <<>>)
      BY <2>3, <3>2, RotatedSeq DEF Typed, TypeOK
    <3> HIDE DEF q
    <3>5. StepOf(a) /\ pc'[a] = place
      BY <2>1, <3>1, <3>2, GotoStep, PostPlacesOpen DEF PostPlaces
    <3>6. dest'[a] = q /\ ev'[a] = ev[a]
      BY <2>1, <3>2 DEF Typed, TypeOK
    <3>7. HandOf(a)
      BY <2>1, <3>1, <3>3, <3>5, <3>6, ActorKinds DEF HandOf, Typed, DestsOK
    <3>8. TypeOK'
      BY <1>2, <2>1, <3>2, <3>3, <3>4 DEF PostResolve, Typed, TypeOK
    <3>9. pc'[Main] = pc[Main] /\ dest'[Main] = dest[Main]
      BY <3>1, <3>2, ActorKinds DEF Typed, PlacesOK, TypeOK
    <3> QED BY <1>2, <3>4, <3>5, <3>7, <3>8, <3>9, StepTyped DEF PostResolve, Typed, DestsOK
  <2> QED BY <2>2, <2>3
<1>3. CASE PostPush(a)
  <2>1. pc[a] = "push" /\ ev[a] \in Events /\ dest[a] \in Queues
    BY <1>3 DEF PostPush, Typed, HandsOK, DestsOK, HandPlaces, PostPlaces
  <2>2. pc' = [pc EXCEPT ![a] = "signal"] /\ UNCHANGED <<ev, dest, queues, first_time_out>>
    BY <1>3 DEF PostPush
  <2>3. StepOf(a) /\ pc'[a] = "signal"
    BY <2>2, GotoStep, PostPlacesOpen DEF PostPlaces
  <2>4. HandOf(a)
    BY <2>1, <2>2, <2>3, ActorKinds DEF HandOf, Typed, DestsOK
  <2>5. TypeOK'
    <3>1. list' \in [Queues -> Seq(Events)]
      BY <1>3, <2>1 DEF PostPush, Typed, TypeOK
    <3>2. posts' \in [Events -> Nat] /\ closed' \in [Events -> BOOLEAN]
      BY <1>3, <2>1 DEF PostPush, Typed, TypeOK
    <3> QED BY <1>3, <3>1, <3>2 DEF PostPush, Typed, TypeOK
  <2>6. pc'[Main] = pc[Main] /\ dest'[Main] = dest[Main]
    BY <2>2, ActorKinds DEF Typed, PlacesOK, TypeOK
  <2> QED BY <2>2, <2>3, <2>4, <2>5, <2>6, StepTyped DEF Typed, DestsOK
<1>4. CASE PostSignal(a)
  <2>1. pc[a] = "signal" /\ ev[a] \in Events
    BY <1>4 DEF PostSignal, Typed, HandsOK, HandPlaces, PostPlaces
  <2>2. /\ pc' = [Signalled(pc, dest[a]) EXCEPT ![a] = "posted"]
        /\ UNCHANGED <<ev, dest, queues, first_time_out>>
    BY <1>4 DEF PostSignal
  <2>3. StepOf(a) /\ pc'[a] = "posted"
    BY <2>2, SignalStep, PostPlacesOpen DEF PostPlaces
  <2>4. HandOf(a)
    BY <2>1, <2>2, <2>3, ActorKinds DEF HandOf, Typed, DestsOK
  <2>5. TypeOK'
    BY <1>4 DEF PostSignal, Typed, TypeOK
  <2>6. pc'[Main] = pc[Main] /\ dest'[Main] = dest[Main]
    BY <2>2, <2>3, ActorKinds DEF StepOf, Bystander
  <2> QED BY <2>2, <2>3, <2>4, <2>5, <2>6, StepTyped DEF Typed, DestsOK
<1>5. CASE PostReturn(a)
  <2>1. pc[a] = "posted" /\ ev[a] \in Events
    BY <1>5 DEF PostReturn, Typed, HandsOK, HandPlaces, PostPlaces
  <2>2. PICK place \in {"done", "fire", "idle"} :
          /\ pc' = [pc EXCEPT ![a] = place] /\ (place = "done" <=> a \in Queues)
          /\ (place = "fire" => a = Timer)
    BY <1>5, ActorKinds DEF PostReturn
  <2>3. /\ dest' = [dest EXCEPT ![a] = NoQueue] /\ UNCHANGED <<queues, first_time_out>>
        /\ \/ ev' = ev
           \/ a \notin Queues /\ ev' = [ev EXCEPT ![a] = Nobody]
    BY <1>5 DEF PostReturn
  <2>4. StepOf(a) /\ pc'[a] = place
    <3>1. /\ a \in Clients => place \in ClientPlaces
          /\ a \in Queues => place \in WorkerPlaces
          /\ a = Timer => place \in TimerPlaces
      BY <2>2, ActorKinds DEF ClientPlaces, WorkerPlaces, TimerPlaces
    <3> QED BY <2>2, <2>3, <3>1, GotoStep
  <2>5. HandOf(a)
    BY <2>1, <2>2, <2>3, <2>4, ActorKinds DEF HandOf, HandPlaces, PostPlaces, Typed, TypeOK
  <2>6. TypeOK'
    BY <1>5, <2>1, <2>3 DEF PostReturn, Unlock, Typed, TypeOK
  <2>7. pc'[Main] = pc[Main] /\ dest'[Main] = dest[Main]
    BY <2>4, ActorKinds, PlacesOfKinds DEF StepOf, Bystander
  <2> QED BY <2>3, <2>4, <2>5, <2>6, <2>7, StepTyped DEF Typed, DestsOK
<1> QED BY <1>1, <1>2, <1>3, <1>4, <1>5 DEF Post

LEMMA OtherTyped ==
  ASSUME Typed, NEW a \in Actors \ {Main}, StepOf(a), HandOf(a), TypeOK',
         \A e \in Events : first_time_out'[e] => first_time_out[e],
         queues' = queues
  PROVE  Typed'
<1>1. pc'[Main] = pc[Main] /\ dest'[Main] = dest[Main]
  BY ActorKinds DEF StepOf, Bystander
<1> QED BY <1>1, StepTyped DEF Typed, DestsOK

\* What Erase() leaves: n entries, each from a place of its own.
LeftBy(q, e, n, from) ==
  /\ from \in Bijection(1 .. n, DOMAIN list[q] \ Slots(q, e))
  /\ list' = [list EXCEPT ![q] = [i \in 1 .. n |-> list[q][from[i]]]]

LEMMA EraseShifts ==
  ASSUME Typed, NEW q \in Queues, NEW e, Erase(q, e)
  PROVE  \E n \in Nat : \E from : LeftBy(q, e, n, from)
<1> DEFINE others == DOMAIN list[q] \ Slots(q, e)
           n == Cardinality(others)
<1>1. list[q] \in Seq(Events)
  BY DEF Typed, TypeOK
<1>2. IsFiniteSet(others) /\ n \in Nat
  <2>1. DOMAIN list[q] = 1 .. Len(list[q]) /\ Len(list[q]) \in Int /\ 1 \in Int
    BY <1>1
  <2>2. IsFiniteSet(DOMAIN list[q])
    BY <2>1, FS_Interval
  <2> QED BY <2>2, FS_Difference, FS_CardinalityType
<1>3. PICK from \in [1 .. n -> others] :
        /\ \A i, j \in DOMAIN from : i < j => from[i] < from[j]
        /\ list' = [list EXCEPT ![q] = [i \in DOMAIN from |-> list[q][from[i]]]]
  BY DEF Erase
<1> HIDE DEF n
<1>4. DOMAIN from = 1 .. n
  BY <1>3
<1>5. from \in Injection(1 .. n, others)
  <2> SUFFICES ASSUME NEW i \in 1 .. n, NEW j \in 1 .. n, from[i] = from[j]
               PROVE  i = j
    BY <1>3, Fun_IsInj
  <2>1. others \subseteq Nat
    BY <1>1
  <2>2. from[i] \in Nat
    BY <1>3, <2>1
  <2>3. ~(from[i] < from[j]) /\ ~(from[j] < from[i])
    BY <2>2
  <2> QED BY <1>2, <1>3, <1>4, <2>3
<1>6. from \in Surjection(1 .. n, others)
  <2>1. IsFiniteSet(1 .. n) /\ Cardinality(1 .. n) = n
    BY <1>2, FS_Interval
  <2> QED BY <1>2, <1>5, <2>1, FS_Injection DEF n
<1>7. from \in Bijection(1 .. n, others)
  BY <1>5, <1>6 DEF Bijection
<1>8. LeftBy(q, e, n, from)
  BY <1>3, <1>4, <1>7 DEF LeftBy
<1> QED BY <1>2, <1>8

LEMMA EraseTyped ==
  ASSUME Typed, NEW q \in Queues, NEW e, Erase(q, e)
  PROVE  list' \in [Queues -> Seq(Events)]
<1>0. PICK n \in Nat : \E from : LeftBy(q, e, n, from)
  BY EraseShifts
<1>1. PICK from : LeftBy(q, e, n, from)
  BY <1>0
<1>2. /\ from \in [1 .. n -> DOMAIN list[q] \ Slots(q, e)]
      /\ list' = [list EXCEPT ![q] = [i \in 1 .. n |-> list[q][from[i]]]]
  BY <1>1, Fun_BijectionProperties DEF LeftBy
<1>3. list \in [Queues -> Seq(Events)] /\ \A i \in DOMAIN list[q] : list[q][i] \in Events
  BY DEF Typed, TypeOK
<1>4. \A i \in 1 .. n : list[q][from[i]] \in Events
  BY <1>2, <1>3
<1>5. [i \in 1 .. n |-> list[q][from[i]]] \in Seq(Events)
  BY <1>4
<1> QED BY <1>2, <1>3, <1>5

ClientCall(c, e) ==
  \/ \E q \in {NoQueue} \cup ToSet(queues) : ClientPost(c, e, q)
  \/ ClientClose(c, e)
  \/ \E q \in {NoQueue} \cup Workers : ClientTimerStart(c, e, q)

LEMMA ClientTyped ==
  ASSUME Typed, NEW c \in Clients, (\E e \in Events : ClientCall(c, e)) \/ Client(c)
  PROVE  Typed' /\ StepOf(c)
<1> USE DEF eventVars, queueVars, timerVars, stopVars, history, Goto
<1>0. c \in Actors \ {Main} /\ c \notin Queues /\ c # Timer
  BY ActorKinds
<1>1. ASSUME NEW e \in Events, NEW q \in {NoQueue} \cup ToSet(queues), ClientPost(c, e, q)
      PROVE  Typed' /\ StepOf(c)
  <2>1. q \in Queues \cup {NoQueue} /\ q # FailSafe
    <3>1. queues \in Seq(Workers)
      BY DEF Typed, TypeOK
    <3>2. \A i \in DOMAIN queues : queues[i] \in Workers
      BY <3>1
    <3> QED BY <3>2, ActorKinds DEF ToSet
  <2>2. PICK place \in {"idle", "toPost"} :
          /\ pc' = [pc EXCEPT ![c] = place]
          /\ \/ ev' = ev /\ dest' = dest /\ place = "idle"
             \/ ev' = [ev EXCEPT ![c] = e] /\ dest' = [dest EXCEPT ![c] = q]
    <3>1. pc = [pc EXCEPT ![c] = "idle"]
      BY <1>0, <1>1 DEF ClientPost, Typed, PlacesOK
    <3> QED BY <1>1, <3>1 DEF ClientPost
  <2>3. StepOf(c) /\ pc'[c] = place
    BY <1>0, <2>2, GotoStep, PostPlacesOpen DEF ClientPlaces, PostPlaces
  <2>4. calls' \in [Clients -> 0 .. MaxCalls]
    BY <1>1, BoundsAssumption DEF ClientPost, Typed, TypeOK
  <2>5. TypeOK'
    BY <1>0, <1>1, <2>1, <2>2, <2>4 DEF ClientPost, Typed, TypeOK
  <2>6. HandOf(c)
    BY <1>0, <2>1, <2>2, <2>3, ActorKinds DEF HandOf, Typed, TypeOK, DestsOK, HandPlaces, PostPlaces
  <2> QED BY <1>0, <1>1, <2>3, <2>5, <2>6, OtherTyped DEF ClientPost
<1>2. ASSUME NEW e \in Events, ClientClose(c, e)
      PROVE  Typed' /\ StepOf(c)
  <2>1. /\ pc' = [pc EXCEPT ![c] = "toClose"] /\ ev' = [ev EXCEPT ![c] = e]
        /\ dest' = dest
    BY <1>2 DEF ClientClose
  <2>2. StepOf(c) /\ pc'[c] = "toClose"
    BY <1>0, <2>1, GotoStep DEF ClientPlaces
  <2>3. calls' \in [Clients -> 0 .. MaxCalls]
    BY <1>2, BoundsAssumption DEF ClientClose, Typed, TypeOK
  <2>4. TypeOK'
    BY <1>0, <1>2, <2>1, <2>3 DEF ClientClose, Typed, TypeOK
  <2>5. HandOf(c)
    BY <1>0, <2>1, <2>2 DEF HandOf, Typed, TypeOK, DestsOK
  <2> QED BY <1>0, <1>2, <2>2, <2>4, <2>5, OtherTyped DEF ClientClose
<1>3. ASSUME NEW e \in Events, NEW q \in {NoQueue} \cup Workers, ClientTimerStart(c, e, q)
      PROVE  Typed' /\ StepOf(c)
  <2>1. StepOf(c) /\ HandOf(c)
    BY <1>0, <1>3 DEF ClientTimerStart, StepOf, Bystander, HandOf, Typed, PlacesOK, HandsOK, DestsOK
  <2>2. calls' \in [Clients -> 0 .. MaxCalls]
    BY <1>3, BoundsAssumption DEF ClientTimerStart, Typed, TypeOK
  <2>3. TypeOK'
    BY <1>3, <2>2 DEF ClientTimerStart, Typed, TypeOK
  <2> QED BY <1>0, <1>3, <2>1, <2>3, OtherTyped DEF ClientTimerStart
<1>4. CASE CloseEnter(c)
  <2>1. pc[c] = "toClose" /\ ev[c] \in Events
    BY <1>0, <1>4 DEF CloseEnter, Typed, HandsOK, HandPlaces
  <2>2. pc' = [pc EXCEPT ![c] = "closing"] /\ ev' = ev /\ dest' = dest
    BY <1>4 DEF CloseEnter
  <2>3. StepOf(c) /\ pc'[c] = "closing"
    BY <1>0, <2>2, GotoStep DEF ClientPlaces
  <2>4. TypeOK'
    BY <1>0, <1>4, <2>1 DEF CloseEnter, Lock, Typed, TypeOK
  <2>5. HandOf(c)
    BY <1>0, <2>1, <2>2, <2>3 DEF HandOf, Typed, DestsOK
  <2> QED BY <1>0, <1>4, <2>3, <2>4, <2>5, OtherTyped DEF CloseEnter
<1>5. CASE CloseRemove(c)
  <2>1. pc[c] = "closing" /\ ev[c] \in Events
    BY <1>0, <1>5 DEF CloseRemove, Typed, HandsOK, HandPlaces
  <2>2. pc' = [pc EXCEPT ![c] = "idle"] /\ ev' = [ev EXCEPT ![c] = Nobody] /\ dest' = dest
    BY <1>5 DEF CloseRemove
  <2>3. StepOf(c) /\ pc'[c] = "idle"
    BY <1>0, <2>2, GotoStep DEF ClientPlaces
  <2>4. list' \in [Queues -> Seq(Events)]
    <3>1. CASE list' = list
      BY <3>1 DEF Typed, TypeOK
    <3>2. CASE current_queue[ev[c]] # NoQueue /\ Erase(current_queue[ev[c]], ev[c])
      <4>1. current_queue[ev[c]] \in Queues
        BY <2>1, <3>2 DEF Typed, TypeOK
      <4> QED BY <3>2, <4>1, EraseTyped
    <3> QED BY <1>5, <3>1, <3>2 DEF CloseRemove
  <2>5. TypeOK'
    BY <1>0, <1>5, <2>1, <2>4 DEF CloseRemove, Unlock, OffQueue, Typed, TypeOK
  <2>6. HandOf(c)
    BY <1>0, <2>2, <2>3, PlacesOfKinds DEF HandOf, Typed, DestsOK
  <2> QED BY <1>0, <1>5, <2>3, <2>5, <2>6, OtherTyped DEF CloseRemove
<1> QED BY <1>0, <1>1, <1>2, <1>3, <1>4, <1>5, PostTyped DEF ClientCall, Client

LEMMA WorkerTyped ==
  ASSUME Typed, NEW q \in Queues, Worker(q) \/ WorkerSpurious(q)
  PROVE  Typed' /\ StepOf(q)
<1> USE DEF eventVars, queueVars, timerVars, stopVars, history, Goto
<1>0. q \in Actors \ {Main} /\ q \notin Clients /\ q # Timer
  BY ActorKinds
<1>1. CASE WorkerLoop(q) \/ WorkerSpurious(q) \/ WorkerScanEnd(q)
  <2>1. PICK place \in {"idle", "exited", "asleep", "scan"} : pc' = [pc EXCEPT ![q] = place]
    BY <1>1 DEF WorkerLoop, WorkerSpurious, WorkerScanEnd
  <2>2. UNCHANGED <<ev, dest, calls, eventVars, queueVars, timerVars, stopVars, history,
                    evOwner>>
    BY <1>1 DEF WorkerLoop, WorkerSpurious, WorkerScanEnd
  <2>3. StepOf(q) /\ pc'[q] = place
    BY <1>0, <2>1, <2>2, GotoStep DEF WorkerPlaces
  <2>4. HandOf(q)
    BY <1>0, <2>1, <2>2, <2>3 DEF HandOf, HandPlaces, PostPlaces, Typed, DestsOK
  <2> QED BY <1>0, <2>2, <2>3, <2>4, OtherTyped DEF Typed, TypeOK
<1>2. CASE WorkerTake(q)
  <2> DEFINE e == Head(list[q])
  <2>1. e \in Events /\ Tail(list[q]) \in Seq(Events)
    BY <1>2 DEF WorkerTake, Typed, TypeOK
  <2> HIDE DEF e
  <2>2. pc' = [pc EXCEPT ![q] = "taken"] /\ ev' = [ev EXCEPT ![q] = e] /\ dest' = dest
    BY <1>2 DEF WorkerTake, e
  <2>3. StepOf(q) /\ pc'[q] = "taken"
    BY <1>0, <2>2, GotoStep DEF WorkerPlaces
  <2>4. evOwner' = [evOwner EXCEPT ![e] = q] /\ list' = [list EXCEPT ![q] = Tail(list[q])]
    BY <1>2 DEF WorkerTake, Lock, e
  <2>5. TypeOK'
    BY <1>0, <1>2, <2>1, <2>2, <2>4 DEF WorkerTake, Typed, TypeOK
  <2>6. HandOf(q)
    BY <1>0, <2>1, <2>2, <2>3 DEF HandOf, Typed, TypeOK, DestsOK
  <2> QED BY <1>0, <1>2, <2>3, <2>5, <2>6, OtherTyped DEF WorkerTake
<1>3. CASE WorkerHandle(q)
  <2>1. pc[q] = "taken" /\ ev[q] \in Events
    BY <1>0, <1>3 DEF WorkerHandle, Typed, HandsOK, HandPlaces
  <2>2. PICK place \in {"done", "do_it"} : pc' = [pc EXCEPT ![q] = place]
    BY <1>3 DEF WorkerHandle
  <2>3. ev' = ev /\ dest' = dest
    BY <1>3 DEF WorkerHandle
  <2>4. StepOf(q) /\ pc'[q] = place
    BY <1>0, <2>2, <2>3, GotoStep DEF WorkerPlaces
  <2>5. handled' \in [Events -> Nat]
    <3>1. \/ handled' = handled
          \/ handled' = [handled EXCEPT ![ev[q]] = @ + 1]
      BY <1>3 DEF WorkerHandle
    <3>2. handled \in [Events -> Nat]
      BY DEF Typed, TypeOK
    <3> QED BY <2>1, <3>1, <3>2
  <2>6. preferred_queue' \in [Events -> Workers \cup {NoQueue}]
    <3>1. \/ preferred_queue' = preferred_queue
          \/ preferred_queue' = [preferred_queue EXCEPT ![ev[q]] = NoQueue]
      BY <1>3 DEF WorkerHandle
    <3>2. preferred_queue \in [Events -> Workers \cup {NoQueue}]
      BY DEF Typed, TypeOK
    <3> QED BY <2>1, <3>1, <3>2
  <2>7. TypeOK'
    BY <1>3, <2>1, <2>5, <2>6 DEF WorkerHandle, OffQueue, Typed, TypeOK
  <2>8. HandOf(q)
    BY <1>0, <2>1, <2>2, <2>3, <2>4 DEF HandOf, Typed, DestsOK
  <2> QED BY <1>0, <1>3, <2>4, <2>7, <2>8, OtherTyped DEF WorkerHandle
<1>4. CASE WorkerDoIt(q)
  <2>1. pc[q] = "do_it" /\ ev[q] \in Events
    BY <1>0, <1>4 DEF WorkerDoIt, Typed, HandsOK, HandPlaces
  <2>2. PICK place \in {"done", "toPost"} : pc' = [pc EXCEPT ![q] = place]
    BY <1>4 DEF WorkerDoIt
  <2>3. UNCHANGED <<ev, dest, calls, eventVars, queueVars, timerVars, stopVars, history,
                    evOwner>>
    BY <1>4 DEF WorkerDoIt
  <2>4. StepOf(q) /\ pc'[q] = place
    BY <1>0, <2>2, <2>3, GotoStep DEF WorkerPlaces, PostPlaces
  <2>5. HandOf(q)
    BY <1>0, <2>1, <2>2, <2>3, <2>4 DEF HandOf, Typed, DestsOK
  <2> QED BY <1>0, <2>3, <2>4, <2>5, OtherTyped DEF Typed, TypeOK
<1>5. CASE WorkerDone(q)
  <2>1. pc[q] = "done" /\ ev[q] \in Events
    BY <1>0, <1>5 DEF WorkerDone, Typed, HandsOK, HandPlaces
  <2>2. pc' = [pc EXCEPT ![q] = "scan"] /\ ev' = [ev EXCEPT ![q] = Nobody] /\ dest' = dest
    BY <1>5 DEF WorkerDone
  <2>3. StepOf(q) /\ pc'[q] = "scan"
    BY <1>0, <2>2, GotoStep DEF WorkerPlaces
  <2>4. TypeOK'
    BY <1>0, <1>5, <2>1, <2>2 DEF WorkerDone, Unlock, Typed, TypeOK
  <2>5. HandOf(q)
    BY <1>0, <2>2, <2>3 DEF HandOf, HandPlaces, PostPlaces, Typed, DestsOK
  <2> QED BY <1>0, <1>5, <2>3, <2>4, <2>5, OtherTyped DEF WorkerDone
<1> QED BY <1>0, <1>1, <1>2, <1>3, <1>4, <1>5, PostTyped DEF Worker

LEMMA TimerTyped ==
  ASSUME Typed, TimerThread \/ \E S \in (SUBSET Due) \ {{}} : TimerExpire(S)
  PROVE  Typed' /\ StepOf(Timer)
<1> USE DEF eventVars, queueVars, timerVars, stopVars, history, Goto
<1>0. Timer \in Actors \ {Main} /\ Timer \notin Clients \cup Queues
  BY ActorKinds
<1>1. ASSUME NEW S \in (SUBSET Due) \ {{}}, TimerExpire(S)
      PROVE  Typed' /\ StepOf(Timer)
  <2>1. pc' = [pc EXCEPT ![Timer] = "fire"] /\ ev' = ev /\ dest' = dest
    BY <1>1 DEF TimerExpire
  <2>2. StepOf(Timer) /\ pc'[Timer] = "fire"
    BY <1>0, <2>1, GotoStep DEF TimerPlaces
  <2>3. pc[Timer] = "idle"
    BY <1>1 DEF TimerExpire
  <2>4. fires' \in 0 .. MaxFires /\ S \subseteq Events
    BY <1>1, BoundsAssumption DEF TimerExpire, Typed, TypeOK, Due
  <2>5. TypeOK'
    BY <1>1, <2>4 DEF TimerExpire, Typed, TypeOK
  <2>6. HandOf(Timer)
    BY <1>0, <2>1, <2>2, <2>3 DEF HandOf, HandPlaces, PostPlaces, Typed, DestsOK
  <2> QED BY <1>0, <1>1, <2>2, <2>5, <2>6, OtherTyped DEF TimerExpire
<1>2. ASSUME NEW e \in expired, TimerFirst(e)
      PROVE  Typed' /\ StepOf(Timer)
  <2>1. e \in Events
    BY DEF Typed, TypeOK
  <2>2. pc[Timer] = "fire" /\ first_time_out[e] /\ e \in TimerEvents
    BY <1>2, <2>1 DEF TimerFirst, Typed, DestsOK
  <2>3. /\ pc' = [pc EXCEPT ![Timer] = "toPost"] /\ ev' = [ev EXCEPT ![Timer] = e]
        /\ dest' = dest /\ first_time_out' = [first_time_out EXCEPT ![e] = FALSE]
    BY <1>2 DEF TimerFirst
  <2>4. StepOf(Timer) /\ pc'[Timer] = "toPost"
    BY <1>0, <2>3, GotoStep DEF TimerPlaces, PostPlaces
  <2>5. TypeOK'
    BY <1>0, <1>2, <2>1, <2>3 DEF TimerFirst, Typed, TypeOK
  <2>6. HandOf(Timer)
    <3>1. ev'[Timer] = e /\ dest'[Timer] = dest[Timer]
      BY <1>0, <2>3 DEF Typed, TypeOK
    <3>2. dest[Timer] # FailSafe
      BY <2>2 DEF Typed, DestsOK
    <3> QED BY <1>0, <2>1, <2>2, <2>4, <3>1, <3>2 DEF HandOf
  <2>7. \A f \in Events : first_time_out'[f] => first_time_out[f]
    BY <2>1, <2>3 DEF Typed, TypeOK
  <2> QED BY <1>0, <1>2, <2>4, <2>5, <2>6, <2>7, OtherTyped DEF TimerFirst
<1>3. ASSUME NEW e \in expired, TimerLate(e)
      PROVE  Typed' /\ StepOf(Timer)
  <2>1. e \in Events /\ pc[Timer] = "fire"
    BY <1>3 DEF TimerLate, Typed, TypeOK
  <2>2. PICK place \in {"posted", "erase"} : pc' = [pc EXCEPT ![Timer] = place]
    BY <1>3 DEF TimerLate
  <2>3. ev' = [ev EXCEPT ![Timer] = e] /\ dest' = dest
    BY <1>3 DEF TimerLate
  <2>4. StepOf(Timer) /\ pc'[Timer] = place
    BY <1>0, <2>2, <2>3, GotoStep DEF TimerPlaces, PostPlaces
  <2>5. TypeOK'
    BY <1>0, <1>3, <2>1, <2>3 DEF TimerLate, Lock, Typed, TypeOK
  <2>6. HandOf(Timer)
    BY <1>0, <2>1, <2>2, <2>3, <2>4 DEF HandOf, Typed, TypeOK, DestsOK
  <2> QED BY <1>0, <1>3, <2>4, <2>5, <2>6, OtherTyped DEF TimerLate
<1>4. CASE TimerErase
  <2> DEFINE e == ev[Timer]
  <2>1. pc[Timer] = "erase" /\ e \in Events /\ ev' = ev
    BY <1>0, <1>4 DEF TimerErase, Typed, HandsOK, HandPlaces
  <2>2. PICK place \in {"die", "posted", "resolve"} :
          /\ pc' = [pc EXCEPT ![Timer] = place]
          /\ \/ place = "die" /\ dest' = dest
             \/ place # "die" /\ dest' = [dest EXCEPT ![Timer] = FailSafe]
    BY <1>4 DEF TimerErase
  <2>3. StepOf(Timer) /\ pc'[Timer] = place
    BY <1>0, <2>1, <2>2, GotoStep DEF TimerPlaces, PostPlaces
  <2>4. list' \in [Queues -> Seq(Events)]
    <3>1. CASE current_queue[e] \in Queues
      BY <1>4, <3>1, EraseTyped DEF TimerErase
    <3>2. CASE current_queue[e] \notin Queues
      <4>1. list = [q \in Queues |-> list[q]]
        BY DEF Typed, TypeOK
      <4>2. \A l : [list EXCEPT ![current_queue[e]] = l] = list
        BY <3>2, <4>1
      <4>3. list' = list
        BY <1>4, <4>2 DEF TimerErase, Erase
      <4> QED BY <4>3 DEF Typed, TypeOK
    <3> QED BY <3>1, <3>2
  <2>5. TypeOK'
    <3>1. reposted' \in [Events -> BOOLEAN]
      BY <1>4, <2>1 DEF TimerErase, Typed, TypeOK
    <3>2. dest' \in [Actors -> Queues \cup {NoQueue}]
      BY <2>2, ActorKinds DEF Typed, TypeOK
    <3>3. UNCHANGED <<evOwner, current_queue, preferred_queue, first_time_out, should_quit,
                      timerVars, stopVars, history, ev, calls>>
      BY <1>4 DEF TimerErase
    <3> QED BY <2>4, <3>1, <3>2, <3>3 DEF Typed, TypeOK
  <2>6. HandOf(Timer)
    BY <1>0, <2>1, <2>2, <2>3, ActorKinds DEF HandOf, Typed, TypeOK, DestsOK
  <2> QED BY <1>0, <1>4, <2>3, <2>5, <2>6, OtherTyped DEF TimerErase
<1>5. CASE TimerExit
  <2>1. pc[Timer] = "idle" /\ pc' = [pc EXCEPT ![Timer] = "exited"] /\ ev' = ev /\ dest' = dest
    BY <1>5 DEF TimerExit
  <2>2. StepOf(Timer) /\ pc'[Timer] = "exited"
    BY <1>0, <2>1, GotoStep DEF TimerPlaces
  <2>3. HandOf(Timer)
    BY <1>0, <2>1, <2>2 DEF HandOf, HandPlaces, PostPlaces, Typed, DestsOK
  <2>4. TypeOK'
    BY <1>5 DEF TimerExit, Typed, TypeOK
  <2> QED BY <1>0, <1>5, <2>2, <2>3, <2>4, OtherTyped DEF TimerExit
<1> QED BY <1>0, <1>1, <1>2, <1>3, <1>4, <1>5, PostTyped DEF TimerThread

LEMMA MainTyped ==
  ASSUME Typed, ShutdownBegin \/ Shutdown
  PROVE  Typed' /\ StepOf(Main)
<1> USE DEF eventVars, queueVars, timerVars, stopVars, history, Goto
<1>0. Main \in Actors /\ Main \notin Clients \cup Queues /\ Main # Timer
  BY ActorKinds
<1>1. CASE ShutdownBegin \/ JoinWorkers \/ JoinOthers
  <2>1. PICK place \in {"started", "stopOthers", "down"} : pc' = [pc EXCEPT ![Main] = place]
    BY <1>1 DEF ShutdownBegin, JoinWorkers, JoinOthers
  <2>2. /\ UNCHANGED <<ev, dest, calls, eventVars, queueVars, timerVars, queues, timer_exit,
                       history, evOwner>>
        /\ shutdown_started' = shutdown_started \/ shutdown_started' = TRUE
    BY <1>1 DEF ShutdownBegin, JoinWorkers, JoinOthers
  <2>3. StepOf(Main) /\ pc'[Main] = place
    BY <1>0, <2>1, <2>2, GotoStep DEF MainPlaces
  <2>4. HandOf(Main)
    BY <1>0, <2>1, <2>3 DEF HandOf, HandPlaces, PostPlaces
  <2>5. TypeOK'
    BY <2>2 DEF Typed, TypeOK
  <2> QED BY <1>0, <2>1, <2>2, <2>3, <2>4, <2>5, StepTyped
<1>2. ASSUME NEW q \in Queues, ExitBegin(q)
      PROVE  Typed' /\ StepOf(Main)
  <2>1. /\ pc' = [pc EXCEPT ![Main] = "exitLock"] /\ ev' = ev
        /\ dest' = [dest EXCEPT ![Main] = q]
    BY <1>2 DEF ExitBegin
  <2>2. StepOf(Main) /\ pc'[Main] = "exitLock"
    BY <1>0, <2>1, GotoStep DEF MainPlaces
  <2>3. HandOf(Main)
    BY <1>0, <2>1, <2>2 DEF HandOf, HandPlaces, PostPlaces, Typed, TypeOK
  <2>4. TypeOK'
    BY <1>0, <1>2, <2>1 DEF ExitBegin, Typed, TypeOK
  <2>5. dest'[Main] # FailSafe => queues' # <<>>
    BY <1>0, <1>2, <2>1 DEF ExitBegin, Typed, TypeOK
  <2> QED BY <1>0, <1>2, <2>2, <2>3, <2>4, <2>5, StepTyped DEF ExitBegin
<1>3. CASE ExitLock
  <2> DEFINE place == IF dest[Main] = FailSafe THEN "stopOthers" ELSE "stopWorkers"
  <2>1. place \in MainPlaces /\ place \notin HandPlaces \cup {"exitLock"}
    BY DEF MainPlaces, HandPlaces, PostPlaces
  <2>2. pc[Main] = "exitLock" /\ dest[Main] \in Queues
    BY <1>0, <1>3 DEF ExitLock, Typed, DestsOK
  <2>3. /\ pc' = [Signalled(pc, dest[Main]) EXCEPT ![Main] = place] /\ ev' = ev
        /\ dest' = [dest EXCEPT ![Main] = NoQueue]
    BY <1>3 DEF ExitLock
  <2> HIDE DEF place
  <2>4. StepOf(Main) /\ pc'[Main] = place
    BY <1>0, <2>1, <2>3, SignalStep
  <2>5. HandOf(Main)
    BY <1>0, <2>1, <2>4, PlacesOfKinds DEF HandOf, HandPlaces, PostPlaces
  <2>6. queues' \in Seq(Workers)
    <3>1. CASE queues' = queues
      BY <3>1 DEF Typed, TypeOK
    <3>2. CASE queues' = Tail(queues) /\ dest[Main] # FailSafe
      BY <2>2, <3>2 DEF Typed, TypeOK, DestsOK
    <3> QED BY <1>3, <3>1, <3>2 DEF ExitLock
  <2>7. TypeOK'
    <3>1. should_quit' \in [Queues -> BOOLEAN]
      BY <1>3, <2>2 DEF ExitLock, Typed, TypeOK
    <3>2. dest' \in [Actors -> Queues \cup {NoQueue}]
      BY <1>0, <2>3 DEF Typed, TypeOK
    <3>3. UNCHANGED <<evOwner, eventVars, list, timerVars, shutdown_started, timer_exit,
                      history, ev, calls>>
      BY <1>3 DEF ExitLock
    <3> QED BY <2>6, <3>1, <3>2, <3>3 DEF Typed, TypeOK
  <2> QED BY <1>0, <1>3, <2>1, <2>4, <2>5, <2>7, StepTyped DEF ExitLock
<1>4. CASE TimerThreadExit
  <2>1. UNCHANGED <<pc, ev, dest>>
    BY <1>4 DEF TimerThreadExit
  <2>2. pc[Main] = "stopOthers"
    BY <1>4 DEF TimerThreadExit
  <2>3. StepOf(Main) /\ HandOf(Main)
    BY <1>0, <2>1, <2>2 DEF StepOf, Bystander, HandOf, Typed, PlacesOK, HandsOK, HandPlaces, PostPlaces
  <2>4. TypeOK'
    BY <1>4 DEF TimerThreadExit, Typed, TypeOK
  <2> QED BY <1>0, <1>4, <2>1, <2>2, <2>3, <2>4, StepTyped DEF TimerThreadExit
<1> QED BY <1>1, <1>2, <1>3, <1>4 DEF Shutdown

\* Every step is of one actor, or none.
LEMMA NextTyped ==
  ASSUME Typed, [Next]_vars
  PROVE  Typed' /\ (UNCHANGED vars \/ \E a \in Actors : StepOf(a))
<1>1. CASE \E c \in Clients : (\E e \in Events : ClientCall(c, e)) \/ Client(c)
  BY <1>1, ClientTyped, ActorKinds
<1>2. CASE \E q \in Queues : Worker(q) \/ WorkerSpurious(q)
  BY <1>2, WorkerTyped, ActorKinds
<1>3. CASE TimerThread \/ \E S \in (SUBSET Due) \ {{}} : TimerExpire(S)
  BY <1>3, TimerTyped, ActorKinds
<1>4. CASE ShutdownBegin \/ Shutdown
  BY <1>4, MainTyped, ActorKinds
<1>5. CASE UNCHANGED vars
  BY <1>5 DEF vars, eventVars, queueVars, timerVars, stopVars, history, Typed, TypeOK,
              PlacesOK, HandsOK, DestsOK
<1>6. \/ \E c \in Clients : (\E e \in Events : ClientCall(c, e)) \/ Client(c)
      \/ \E q \in Queues : Worker(q) \/ WorkerSpurious(q)
      \/ TimerThread \/ \E S \in (SUBSET Due) \ {{}} : TimerExpire(S)
      \/ ShutdownBegin \/ Shutdown
      \/ UNCHANGED vars
  BY DEF Next, Finished, ClientCall
<1> QED BY <1>1, <1>2, <1>3, <1>4, <1>5, <1>6

LEMMA InitTyped == Init => Typed
<1> SUFFICES ASSUME Init PROVE Typed
  OBVIOUS
<1>1. TypeOK
  <2>1. first_time_out \in [Events -> BOOLEAN]
    BY DEF Init
  <2>2. /\ list \in [Queues -> Seq(Events)]
        /\ calls \in [Clients -> 0 .. MaxCalls] /\ fires \in 0 .. MaxFires
    BY BoundsAssumption DEF Init
  <2>3. queues \in Seq(Workers)
    BY WorkersInOrder DEF Init
  <2> QED BY <2>1, <2>2, <2>3 DEF Init, TypeOK
<1>2. PlacesOK
  BY ActorKinds DEF Init, PlacesOK, ClientPlaces, WorkerPlaces, TimerPlaces, MainPlaces
<1>3. HandsOK
  BY DEF Init, HandsOK, HandPlaces, PostPlaces
<1>4. DestsOK
  BY ActorKinds DEF Init, DestsOK
<1> QED BY <1>1, <1>2, <1>3, <1>4 DEF Typed

-----------------------------------------------------------------------------
(* The monitors: a step keeps the one its thread is in, or enters one that is *)
(* free, or leaves its own.                                                   *)

Stays(a) ==
  /\ evOwner' = evOwner
  /\ Holds(a)' <=> Holds(a)
  /\ Holds(a) => ev'[a] = ev[a]

Enters(a) ==
  \E e \in Events :
    /\ Enterable(a, e) /\ Lock(e, a)
    /\ Holds(a)' /\ ev'[a] = e
    /\ Holds(a) => ev[a] = e

Leaves(a) ==
  /\ Holds(a) /\ ~Holds(a)'
  /\ Unlock(ev[a])

LEMMA HeldInHand ==
  ASSUME Typed, NEW a \in Actors, Holds(a)
  PROVE  ev[a] \in Events
BY DEF Typed, HandsOK, Holds, HandPlaces, PostPlaces

LEMMA LockStep ==
  ASSUME Typed, LocksOK, NEW a \in Actors, StepOf(a), Stays(a) \/ Enters(a) \/ Leaves(a)
  PROVE  LocksOK'
<1>1. \A x \in Actors \ {a} : (Holds(x)' <=> Holds(x)) /\ ev'[x] = ev[x]
  BY DEF StepOf, Bystander, Holds, HandPlaces, PostPlaces
<1>2. \A x \in Actors : Holds(x) => ev[x] \in Events /\ evOwner[ev[x]] = x
  BY HeldInHand DEF LocksOK
<1>3. \A x \in Actors : \A e \in Events : evOwner[e] = x => Holds(x) /\ ev[x] = e
  BY DEF LocksOK
<1>4. evOwner = [e \in Events |-> evOwner[e]] /\ Nobody \notin Actors
  BY ActorKinds DEF Typed, TypeOK
<1> HIDE DEF Holds
<1>5. CASE Stays(a)
  BY <1>1, <1>2, <1>3, <1>5 DEF Stays, LocksOK
<1>6. CASE Enters(a)
  <2>1. PICK e \in Events :
          /\ evOwner[e] \in {Nobody, a} /\ evOwner' = [evOwner EXCEPT ![e] = a]
          /\ Holds(a)' /\ ev'[a] = e /\ (Holds(a) => ev[a] = e)
    BY <1>6 DEF Enters, Enterable, Lock
  <2>2. ASSUME NEW x \in Actors \ {a}, Holds(x)'
        PROVE  evOwner'[ev'[x]] = x
    <3>1. Holds(x) /\ ev'[x] = ev[x] /\ ev[x] \in Events /\ evOwner[ev[x]] = x
      BY <1>1, <1>2, <2>2
    <3>2. ev[x] # e
      BY <1>4, <2>1, <3>1
    <3> QED BY <1>4, <2>1, <3>1, <3>2
  <2>3. ASSUME NEW x \in Actors, NEW f \in Events, evOwner'[f] = x
        PROVE  Holds(x)' /\ ev'[x] = f
    <3>1. CASE f = e
      BY <1>4, <2>1, <2>3, <3>1
    <3>2. CASE f # e
      <4>1. evOwner[f] = x
        BY <1>4, <2>1, <2>3, <3>2
      <4>2. Holds(x) /\ ev[x] = f
        BY <1>3, <4>1
      <4>3. x # a
        BY <2>1, <3>2, <4>2
      <4> QED BY <1>1, <4>2, <4>3
    <3> QED BY <3>1, <3>2
  <2>4. evOwner'[ev'[a]] = a
    BY <1>4, <2>1
  <2> QED BY <2>2, <2>3, <2>4 DEF LocksOK
<1>7. CASE Leaves(a)
  <2>1. /\ Holds(a) /\ ~Holds(a)' /\ ev[a] \in Events /\ evOwner[ev[a]] = a
        /\ evOwner' = [evOwner EXCEPT ![ev[a]] = Nobody]
    BY <1>2, <1>7 DEF Leaves, Unlock
  <2>2. ASSUME NEW x \in Actors, Holds(x)'
        PROVE  evOwner'[ev'[x]] = x
    <3>1. x # a /\ Holds(x) /\ ev'[x] = ev[x] /\ ev[x] \in Events /\ evOwner[ev[x]] = x
      BY <1>1, <1>2, <2>1, <2>2
    <3> QED BY <1>4, <2>1, <3>1
  <2>3. ASSUME NEW x \in Actors, NEW f \in Events, evOwner'[f] = x
        PROVE  Holds(x)' /\ ev'[x] = f
    <3>1. f # ev[a] /\ evOwner[f] = x
      BY <1>4, <2>1, <2>3
    <3>2. Holds(x) /\ ev[x] = f
      BY <1>3, <3>1
    <3>3. x # a
      BY <3>1, <3>2
    <3> QED BY <1>1, <3>2, <3>3
  <2> QED BY <2>2, <2>3 DEF LocksOK
<1> QED BY <1>5, <1>6, <1>7

Locks(a) == Stays(a) \/ Enters(a) \/ Leaves(a)

LEMMA PostLocks ==
  ASSUME Typed, NEW a \in Actors \ {Main}, Post(a)
  PROVE  Locks(a)
<1> USE DEF Goto, Holds, HandPlaces, PostPlaces
<1>0. /\ pc = [x \in Actors |-> pc[x]] /\ ev = [x \in Actors |-> ev[x]]
      /\ pc[a] \in PostPlaces => ev[a] \in Events
  BY DEF Typed, PlacesOK, TypeOK, HandsOK
<1>1. CASE PostEnter(a)
  <2>1. /\ pc[a] = "toPost" /\ ev' = ev /\ Enterable(a, ev[a]) /\ Lock(ev[a], a)
        /\ \E place \in {"posted", "resolve"} : pc' = [pc EXCEPT ![a] = place]
    BY <1>1 DEF PostEnter
  <2>2. Holds(a)'
    BY <1>0, <2>1
  <2> QED BY <1>0, <2>1, <2>2 DEF Locks, Enters
<1>2. CASE PostResolve(a) \/ PostPush(a)
  <2>1. /\ pc[a] \in {"resolve", "push"} /\ ev' = ev /\ evOwner' = evOwner
        /\ \E place \in {"overflow", "posted", "push", "signal"} :
             pc' = [pc EXCEPT ![a] = place]
    BY <1>2 DEF PostResolve, PostPush
  <2> QED BY <1>0, <2>1 DEF Locks, Stays
<1>3. CASE PostSignal(a)
  <2>1. pc[a] = "signal" /\ ev' = ev /\ evOwner' = evOwner /\ pc'[a] = "posted"
    BY <1>0, <1>3 DEF PostSignal, Signalled
  <2> QED BY <1>0, <2>1 DEF Locks, Stays
<1>4. CASE PostReturn(a)
  <2>1. CASE a \in Queues
    <3>1. pc[a] = "posted" /\ ev' = ev /\ evOwner' = evOwner /\ pc'[a] = "done"
      BY <1>0, <1>4, <2>1 DEF PostReturn
    <3> QED BY <3>1 DEF Locks, Stays
  <2>2. CASE a \notin Queues
    <3>1. /\ pc[a] = "posted" /\ Unlock(ev[a])
          /\ \E place \in {"fire", "idle"} : pc' = [pc EXCEPT ![a] = place]
      BY <1>4, <2>2 DEF PostReturn
    <3> QED BY <1>0, <2>2, <3>1 DEF Locks, Leaves
  <2> QED BY <2>1, <2>2
<1> QED BY <1>1, <1>2, <1>3, <1>4 DEF Post

LEMMA ClientLocks ==
  ASSUME Typed, NEW c \in Clients, (\E e \in Events : ClientCall(c, e)) \/ Client(c)
  PROVE  Locks(c)
<1> USE DEF Goto, Holds, HandPlaces, PostPlaces
<1>0. /\ pc = [x \in Actors |-> pc[x]] /\ ev = [x \in Actors |-> ev[x]]
      /\ pc[c] \in HandPlaces => ev[c] \in Events
      /\ c \in Actors \ {Main} /\ c \notin Queues
  BY ActorKinds DEF Typed, PlacesOK, TypeOK, HandsOK
<1>1. CASE \E e \in Events : ClientCall(c, e)
  <2>1. /\ pc[c] = "idle" /\ evOwner' = evOwner
        /\ pc' = pc \/ \E place \in {"toPost", "toClose"} : pc' = [pc EXCEPT ![c] = place]
    BY <1>1 DEF ClientCall, ClientPost, ClientClose, ClientTimerStart
  <2> QED BY <1>0, <2>1 DEF Locks, Stays
<1>2. CASE CloseEnter(c)
  <2>1. /\ pc[c] = "toClose" /\ ev' = ev /\ Enterable(c, ev[c]) /\ Lock(ev[c], c)
        /\ pc'[c] = "closing"
    BY <1>0, <1>2 DEF CloseEnter
  <2>2. Holds(c)'
    BY <2>1
  <2> QED BY <1>0, <2>1, <2>2 DEF Locks, Enters
<1>3. CASE CloseRemove(c)
  <2>1. pc[c] = "closing" /\ Unlock(ev[c]) /\ pc'[c] = "idle"
    BY <1>0, <1>3 DEF CloseRemove
  <2> QED BY <2>1 DEF Locks, Leaves
<1> QED BY <1>0, <1>1, <1>2, <1>3, PostLocks DEF Client

LEMMA WorkerLocks ==
  ASSUME Typed, NEW q \in Queues, Worker(q) \/ WorkerSpurious(q)
  PROVE  Locks(q)
<1> USE DEF Goto, Holds, HandPlaces, PostPlaces
<1>0. /\ pc = [x \in Actors |-> pc[x]] /\ ev = [x \in Actors |-> ev[x]]
      /\ pc[q] \in HandPlaces => ev[q] \in Events
      /\ q \in Actors \ {Main}
  BY ActorKinds DEF Typed, PlacesOK, TypeOK, HandsOK
<1>1. CASE WorkerLoop(q) \/ WorkerSpurious(q) \/ WorkerScanEnd(q)
  <2>1. /\ pc[q] \in {"idle", "asleep", "scan"} /\ evOwner' = evOwner
        /\ \E place \in {"idle", "exited", "asleep", "scan"} : pc' = [pc EXCEPT ![q] = place]
    BY <1>1 DEF WorkerLoop, WorkerSpurious, WorkerScanEnd
  <2> QED BY <1>0, <2>1 DEF Locks, Stays
<1>2. CASE WorkerTake(q)
  <2> DEFINE e == Head(list[q])
  <2>1. e \in Events
    BY <1>2 DEF WorkerTake, Typed, TypeOK
  <2>2. /\ pc[q] = "scan" /\ Enterable(q, e) /\ Lock(e, q)
        /\ ev' = [ev EXCEPT ![q] = e] /\ pc' = [pc EXCEPT ![q] = "taken"]
    BY <1>2 DEF WorkerTake
  <2> HIDE DEF e
  <2>3. Holds(q)' /\ ~Holds(q) /\ ev'[q] = e
    BY <1>0, <2>2
  <2> QED BY <2>1, <2>2, <2>3 DEF Locks, Enters
<1>3. CASE WorkerHandle(q) \/ WorkerDoIt(q)
  <2>1. /\ pc[q] \in {"taken", "do_it"} /\ ev' = ev /\ evOwner' = evOwner
        /\ \E place \in {"done", "do_it", "toPost"} : pc' = [pc EXCEPT ![q] = place]
    BY <1>3 DEF WorkerHandle, WorkerDoIt
  <2> QED BY <1>0, <2>1 DEF Locks, Stays
<1>4. CASE WorkerDone(q)
  <2>1. pc[q] = "done" /\ Unlock(ev[q]) /\ pc'[q] = "scan"
    BY <1>0, <1>4 DEF WorkerDone
  <2> QED BY <2>1 DEF Locks, Leaves
<1> QED BY <1>0, <1>1, <1>2, <1>3, <1>4, PostLocks DEF Worker

LEMMA TimerLocks ==
  ASSUME Typed, TimerThread \/ \E S \in (SUBSET Due) \ {{}} : TimerExpire(S)
  PROVE  Locks(Timer)
<1> USE DEF Goto, Holds, HandPlaces, PostPlaces
<1>0. /\ pc = [x \in Actors |-> pc[x]] /\ ev = [x \in Actors |-> ev[x]]
      /\ pc[Timer] \in HandPlaces => ev[Timer] \in Events
      /\ Timer \in Actors \ {Main} /\ Timer \notin Queues
  BY ActorKinds DEF Typed, PlacesOK, TypeOK, HandsOK
<1>1. CASE \/ \E S \in (SUBSET Due) \ {{}} : TimerExpire(S)
           \/ \E e \in expired : TimerFirst(e)
           \/ TimerExit
  <2>1. /\ pc[Timer] \in {"idle", "fire"} /\ evOwner' = evOwner
        /\ \E place \in {"fire", "toPost", "exited"} : pc' = [pc EXCEPT ![Timer] = place]
    BY <1>1 DEF TimerExpire, TimerFirst, TimerExit
  <2> QED BY <1>0, <2>1 DEF Locks, Stays
<1>2. ASSUME NEW e \in expired, TimerLate(e)
      PROVE  Locks(Timer)
  <2>1. /\ e \in Events /\ pc[Timer] = "fire" /\ Enterable(Timer, e) /\ Lock(e, Timer)
        /\ ev' = [ev EXCEPT ![Timer] = e]
        /\ \E place \in {"posted", "erase"} : pc' = [pc EXCEPT ![Timer] = place]
    BY <1>2 DEF TimerLate, Typed, TypeOK
  <2>2. Holds(Timer)' /\ ~Holds(Timer) /\ ev'[Timer] = e
    BY <1>0, <2>1
  <2> QED BY <2>1, <2>2 DEF Locks, Enters
<1>3. CASE TimerErase
  <2>1. /\ pc[Timer] = "erase" /\ ev' = ev /\ evOwner' = evOwner
        /\ \E place \in {"die", "posted", "resolve"} : pc' = [pc EXCEPT ![Timer] = place]
    BY <1>3 DEF TimerErase
  <2> QED BY <1>0, <2>1 DEF Locks, Stays
<1> QED BY <1>0, <1>1, <1>2, <1>3, PostLocks DEF TimerThread

LEMMA MainLocks ==
  ASSUME Typed, ShutdownBegin \/ Shutdown
  PROVE  Locks(Main)
<1>1. ~Holds(Main)
  BY ActorKinds DEF Typed, PlacesOK, MainPlaces, Holds, HandPlaces, PostPlaces
<1>2. ~Holds(Main)'
  BY MainTyped, ActorKinds DEF Typed, PlacesOK, MainPlaces, Holds, HandPlaces, PostPlaces
<1>3. evOwner' = evOwner
  BY DEF ShutdownBegin, Shutdown, ExitBegin, ExitLock, JoinWorkers, TimerThreadExit, JoinOthers
<1> QED BY <1>1, <1>2, <1>3 DEF Locks, Stays

-----------------------------------------------------------------------------
(* Entries of queues. *)

\* Slots() in the next state.
After(q, e) == {i \in DOMAIN list'[q] : list'[q][i] = e}

LEMMA AfterIsSlots ==
  \A q, e : After(q, e) = Slots(q, e)'
BY DEF After, Slots

\* The entries of f stay, maybe elsewhere on their queues.
Shifted(f) ==
  \E g : \A q \in Queues :
    /\ \A i \in After(q, f) : g[q][i] \in Slots(q, f)
    /\ \A i, j \in After(q, f) : g[q][i] = g[q][j] => i = j
    /\ Slots(q, f) # {} => After(q, f) # {}

LEMMA SlotsOfSeq ==
  ASSUME Typed, NEW q \in Queues, NEW f
  PROVE  /\ Slots(q, f) = {i \in 1 .. Len(list[q]) : list[q][i] = f}
         /\ Len(list[q]) \in Nat /\ Slots(q, f) \subseteq Nat /\ 0 \notin Slots(q, f)
BY DEF Typed, TypeOK, Slots

LEMMA AfterOfSeq ==
  ASSUME Typed', NEW q \in Queues, NEW f
  PROVE  After(q, f) \subseteq Nat /\ 0 \notin After(q, f)
<1>1. list'[q] \in Seq(Events)
  BY DEF Typed, TypeOK
<1>2. DOMAIN list'[q] \subseteq Nat /\ 0 \notin DOMAIN list'[q]
  BY <1>1
<1> QED BY <1>2 DEF After

LEMMA SameLists ==
  ASSUME Typed, list' = list, NEW f
  PROVE  Shifted(f) /\ \A q \in Queues : After(q, f) = Slots(q, f)
<1>1. \A q \in Queues : After(q, f) = Slots(q, f) /\ Slots(q, f) \subseteq Nat
  BY SlotsOfSeq DEF Slots, After
<1>2. DEFINE g == [q \in Queues |-> [i \in Nat |-> i]]
<1>3. \A q \in Queues, i \in Nat : g[q][i] = i
  OBVIOUS
<1> HIDE DEF g
<1>4. \A q \in Queues :
        /\ \A i \in After(q, f) : g[q][i] \in Slots(q, f)
        /\ \A i, j \in After(q, f) : g[q][i] = g[q][j] => i = j
        /\ Slots(q, f) # {} => After(q, f) # {}
  BY <1>1, <1>3
<1> QED BY <1>1, <1>4 DEF Shifted

LEMMA SlotsAppended ==
  ASSUME Typed, NEW q \in Queues, NEW e \in Events,
         list' = [list EXCEPT ![q] = Append(@, e)]
  PROVE  /\ \A r \in Queues \ {q} : \A f : After(r, f) = Slots(r, f)
         /\ \A f : f # e => After(q, f) = Slots(q, f)
         /\ After(q, e) = Slots(q, e) \cup {Len(list[q]) + 1}
         /\ Len(list[q]) \in Nat /\ Len(list[q]) + 1 \notin Slots(q, e)
<1>1. list \in [Queues -> Seq(Events)] /\ list[q] \in Seq(Events)
  BY DEF Typed, TypeOK
<1>2. list'[q] = Append(list[q], e) /\ \A r \in Queues \ {q} : list'[r] = list[r]
  BY <1>1
<1>3. /\ DOMAIN list'[q] = 1 .. (Len(list[q]) + 1) /\ DOMAIN list[q] = 1 .. Len(list[q])
      /\ \A i \in 1 .. Len(list[q]) : list'[q][i] = list[q][i]
      /\ list'[q][Len(list[q]) + 1] = e /\ Len(list[q]) \in Nat
  BY <1>1, <1>2
<1>4. \A r \in Queues \ {q} : \A f : After(r, f) = Slots(r, f)
  BY <1>2 DEF Slots, After
<1>5. \A f : f # e => After(q, f) = Slots(q, f)
  BY <1>3 DEF Slots, After
<1>6. After(q, e) = Slots(q, e) \cup {Len(list[q]) + 1} /\ Len(list[q]) + 1 \notin Slots(q, e)
  BY <1>3 DEF Slots, After
<1> QED BY <1>3, <1>4, <1>5, <1>6

LEMMA SlotsTailed ==
  ASSUME Typed, NEW q \in Queues, list[q] # <<>>,
         list' = [list EXCEPT ![q] = Tail(@)]
  PROVE  /\ \A r \in Queues \ {q} : \A f : After(r, f) = Slots(r, f)
         /\ \A f : \A i \in After(q, f) : i \in Nat \ {0} /\ i + 1 \in Slots(q, f)
         /\ \A f : \A i \in Slots(q, f) : i # 1 => i - 1 \in After(q, f)
         /\ 1 \in Slots(q, Head(list[q])) /\ \A f : 1 \in Slots(q, f) => f = Head(list[q])
<1>1. list \in [Queues -> Seq(Events)] /\ list[q] \in Seq(Events)
  BY DEF Typed, TypeOK
<1>2. list'[q] = Tail(list[q]) /\ \A r \in Queues \ {q} : list'[r] = list[r]
  BY <1>1
<1>3. /\ DOMAIN list'[q] = 1 .. (Len(list[q]) - 1) /\ DOMAIN list[q] = 1 .. Len(list[q])
      /\ \A i \in 1 .. (Len(list[q]) - 1) : list'[q][i] = list[q][i + 1]
      /\ Len(list[q]) \in Nat /\ Len(list[q]) # 0
      /\ Head(list[q]) = list[q][1]
  BY <1>1, <1>2
<1>4. \A r \in Queues \ {q} : \A f : After(r, f) = Slots(r, f)
  BY <1>2 DEF Slots, After
<1>5. \A f : \A i \in After(q, f) : i \in Nat \ {0} /\ i + 1 \in Slots(q, f)
  BY <1>3 DEF Slots, After
<1>6. \A f : \A i \in Slots(q, f) : i # 1 => i - 1 \in After(q, f)
  <2> SUFFICES ASSUME NEW f, NEW i \in Slots(q, f), i # 1 PROVE i - 1 \in After(q, f)
    OBVIOUS
  <2>1. i \in 1 .. Len(list[q]) /\ list[q][i] = f
    BY <1>3 DEF Slots, After
  <2>2. i - 1 \in 1 .. (Len(list[q]) - 1) /\ (i - 1) + 1 = i
    BY <1>3, <2>1
  <2> QED BY <1>3, <2>1, <2>2 DEF Slots, After
<1>7. 1 \in Slots(q, Head(list[q])) /\ \A f : 1 \in Slots(q, f) => f = Head(list[q])
  BY <1>3 DEF Slots, After
<1> QED BY <1>4, <1>5, <1>6, <1>7

LEMMA SlotsLeft ==
  ASSUME Typed, NEW q \in Queues, NEW e, NEW n \in Nat, NEW from, LeftBy(q, e, n, from)
  PROVE  /\ \A r \in Queues \ {q} : \A f : After(r, f) = Slots(r, f)
         /\ After(q, e) = {}
         /\ \A f : \A i \in After(q, f) : i \in 1 .. n /\ from[i] \in Slots(q, f)
         /\ \A i, j \in 1 .. n : from[i] = from[j] => i = j
         /\ \A f : f # e /\ Slots(q, f) # {} => After(q, f) # {}
<1>1. list \in [Queues -> Seq(Events)]
  BY DEF Typed, TypeOK
<1>2. /\ list'[q] = [i \in 1 .. n |-> list[q][from[i]]]
      /\ \A r \in Queues \ {q} : list'[r] = list[r]
  BY <1>1 DEF LeftBy
<1>3. /\ from \in [1 .. n -> DOMAIN list[q] \ Slots(q, e)]
      /\ \A i, j \in 1 .. n : from[i] = from[j] => i = j
      /\ \A k \in DOMAIN list[q] \ Slots(q, e) : \E i \in 1 .. n : from[i] = k
  BY Fun_BijectionProperties DEF LeftBy
<1>4. \A r \in Queues \ {q} : \A f : After(r, f) = Slots(r, f)
  BY <1>2 DEF Slots, After
<1>5. \A f : After(q, f) = {i \in 1 .. n : list[q][from[i]] = f}
  BY <1>2 DEF Slots, After
<1>6. \A f : \A i \in After(q, f) : i \in 1 .. n /\ from[i] \in Slots(q, f)
  <2> SUFFICES ASSUME NEW f, NEW i \in After(q, f)
               PROVE  i \in 1 .. n /\ from[i] \in Slots(q, f)
    OBVIOUS
  <2>1. i \in 1 .. n /\ list[q][from[i]] = f
    BY <1>5
  <2>2. from[i] \in DOMAIN list[q]
    BY <1>3, <2>1
  <2> QED BY <2>1, <2>2 DEF Slots, After
<1>7. After(q, e) = {}
  <2> SUFFICES ASSUME NEW i \in After(q, e) PROVE FALSE
    OBVIOUS
  <2>1. i \in 1 .. n /\ from[i] \in Slots(q, e)
    BY <1>6
  <2> QED BY <1>3, <2>1
<1>8. \A f : f # e /\ Slots(q, f) # {} => After(q, f) # {}
  <2> SUFFICES ASSUME NEW f, f # e, NEW k \in Slots(q, f) PROVE After(q, f) # {}
    OBVIOUS
  <2>1. k \in DOMAIN list[q] \ Slots(q, e) /\ list[q][k] = f
    BY DEF Slots, After
  <2>2. PICK i \in 1 .. n : from[i] = k
    BY <1>3, <2>1
  <2> QED BY <1>5, <2>1, <2>2
<1> QED BY <1>3, <1>4, <1>6, <1>7, <1>8

LEMMA AppendShifts ==
  ASSUME Typed, NEW q \in Queues, NEW e \in Events,
         list' = [list EXCEPT ![q] = Append(@, e)], NEW f, f # e
  PROVE  Shifted(f)
<1>1. \A r \in Queues : After(r, f) = Slots(r, f) /\ Slots(r, f) \subseteq Nat
  BY SlotsAppended, SlotsOfSeq
<1> DEFINE g == [r \in Queues |-> [i \in Nat |-> i]]
<1>2. \A r \in Queues, i \in Nat : g[r][i] = i
  OBVIOUS
<1> HIDE DEF g
<1>3. \A r \in Queues :
        /\ \A i \in After(r, f) : g[r][i] \in Slots(r, f)
        /\ \A i, j \in After(r, f) : g[r][i] = g[r][j] => i = j
        /\ Slots(r, f) # {} => After(r, f) # {}
  BY <1>1, <1>2
<1> QED BY <1>3 DEF Shifted

LEMMA TailShifts ==
  ASSUME Typed, NEW q \in Queues, list[q] # <<>>,
         list' = [list EXCEPT ![q] = Tail(@)], NEW f, f # Head(list[q])
  PROVE  Shifted(f)
<1> DEFINE g == [r \in Queues |-> [i \in Nat |-> IF r = q THEN i + 1 ELSE i]]
<1>1. \A r \in Queues, i \in Nat : g[r][i] = IF r = q THEN i + 1 ELSE i
  OBVIOUS
<1> HIDE DEF g
<1>2. \A r \in Queues \ {q} : After(r, f) = Slots(r, f)
  BY SlotsTailed
<1>3. \A r \in Queues : Slots(r, f) \subseteq Nat
  BY SlotsOfSeq
<1>4. \A i \in After(q, f) : i \in Nat /\ i + 1 \in Slots(q, f)
  BY SlotsTailed
<1>5. Slots(q, f) # {} => After(q, f) # {}
  BY SlotsTailed
<1>6. /\ \A i \in After(q, f) : g[q][i] \in Slots(q, f)
      /\ \A i, j \in After(q, f) : g[q][i] = g[q][j] => i = j
      /\ Slots(q, f) # {} => After(q, f) # {}
  <2>1. \A i \in Nat : g[q][i] = i + 1
    BY <1>1
  <2>2. \A i \in After(q, f) : g[q][i] \in Slots(q, f)
    BY <1>4, <2>1
  <2>3. \A i, j \in Nat : i + 1 = j + 1 => i = j
    OBVIOUS
  <2>4. \A i, j \in After(q, f) : g[q][i] = g[q][j] => i = j
    BY <1>4, <2>1, <2>3
  <2> QED BY <1>5, <2>2, <2>4
<1>7. \A r \in Queues \ {q} :
        /\ \A i \in After(r, f) : g[r][i] \in Slots(r, f)
        /\ \A i, j \in After(r, f) : g[r][i] = g[r][j] => i = j
        /\ Slots(r, f) # {} => After(r, f) # {}
  BY <1>1, <1>2, <1>3
<1> QED BY <1>6, <1>7 DEF Shifted

LEMMA EraseLeaves ==
  ASSUME Typed, NEW q \in Queues, NEW e, Erase(q, e)
  PROVE  /\ \A r \in Queues \ {q} : After(r, e) = Slots(r, e)
         /\ After(q, e) = {}
         /\ \A f : f # e => Shifted(f)
<1>0. PICK n \in Nat : \E from : LeftBy(q, e, n, from)
  BY EraseShifts
<1>1. PICK from : LeftBy(q, e, n, from)
  BY <1>0
<1>2. /\ \A r \in Queues \ {q} : \A f : After(r, f) = Slots(r, f)
      /\ After(q, e) = {}
      /\ \A f : \A i \in After(q, f) : i \in 1 .. n /\ from[i] \in Slots(q, f)
      /\ \A i, j \in 1 .. n : from[i] = from[j] => i = j
      /\ \A f : f # e /\ Slots(q, f) # {} => After(q, f) # {}
  BY <1>1, SlotsLeft
<1>3. ASSUME NEW f, f # e PROVE Shifted(f)
  <2> DEFINE g == [r \in Queues |-> [i \in Nat |-> IF r = q THEN from[i] ELSE i]]
  <2>1. \A r \in Queues, i \in Nat : g[r][i] = IF r = q THEN from[i] ELSE i
    OBVIOUS
  <2> HIDE DEF g
  <2>2. \A r \in Queues : Slots(r, f) \subseteq Nat
    BY SlotsOfSeq
  <2>3. \A i \in 1 .. n : i \in Nat
    OBVIOUS
  <2>4. /\ \A i \in After(q, f) : g[q][i] \in Slots(q, f)
        /\ \A i, j \in After(q, f) : g[q][i] = g[q][j] => i = j
        /\ Slots(q, f) # {} => After(q, f) # {}
    BY <1>2, <1>3, <2>1, <2>3
  <2>5. \A r \in Queues \ {q} :
          /\ \A i \in After(r, f) : g[r][i] \in Slots(r, f)
          /\ \A i, j \in After(r, f) : g[r][i] = g[r][j] => i = j
          /\ Slots(r, f) # {} => After(r, f) # {}
    BY <1>2, <2>1, <2>2
  <2> QED BY <2>4, <2>5 DEF Shifted
<1> QED BY <1>2, <1>3

-----------------------------------------------------------------------------
(* What is kept of each event. *)

\* The posts still pending come from different posts pending before.
LEMMA CountedMap ==
  ASSUME NEW f, Counted(f), NEW h,
         \A p \in Pending(f)' : h[p] \in Pending(f),
         \A p1, p2 \in Pending(f)' : h[p1] = h[p2] => p1 = p2,
         handled'[f] = handled[f], posts'[f] = posts[f],
         handled[f] \in Nat, posts[f] \in Nat
  PROVE  Counted(f)'
<1> DEFINE k == [p \in Pending(f)' |-> h[p]]
<1>1. k \in Injection(Pending(f)', Pending(f))
  <2>1. k \in [Pending(f)' -> Pending(f)]
    OBVIOUS
  <2>2. \A p1, p2 \in Pending(f)' : k[p1] = k[p2] => p1 = p2
    OBVIOUS
  <2> HIDE DEF k
  <2> QED BY <2>1, <2>2, Fun_IsInj
<1>2. IsFiniteSet(Pending(f)) /\ handled[f] + Cardinality(Pending(f)) <= posts[f]
  BY DEF Counted
<1>3. /\ IsFiniteSet(Pending(f)')
      /\ Cardinality(Pending(f)') <= Cardinality(Pending(f))
  BY <1>1, <1>2, FS_Injection
<1>4. Cardinality(Pending(f)) \in Nat /\ Cardinality(Pending(f)') \in Nat
  BY <1>2, <1>3, FS_CardinalityType
<1>5. handled'[f] + Cardinality(Pending(f)') <= posts'[f]
  BY <1>2, <1>3, <1>4
<1> QED BY <1>3, <1>5 DEF Counted

\* Moves(), Carries() and Pending() in the next state.
MovesAfter(a, e) ==
  /\ ev'[a] = e
  /\ \/ pc'[a] \in {"push", "taken", "die"}
     \/ pc'[a] = "resolve" /\ dest'[a] = FailSafe
CarriesAfter(a, e) ==
  /\ ev'[a] = e
  /\ \/ pc'[a] = "taken"
     \/ pc'[a] \in {"resolve", "push"} /\ dest'[a] = FailSafe
PendingAfter(f) ==
  {p \in Actors \X Nat :
     \/ p[1] \in Queues /\ p[2] \in After(p[1], f)
     \/ p[2] = 0 /\ CarriesAfter(p[1], f)}

LEMMA PendingAfterIs ==
  \A f : PendingAfter(f) = Pending(f)'
BY DEF PendingAfter, Pending, CarriesAfter, Carries, After, Slots

LEMMA CountedShift ==
  ASSUME Typed, Typed', NEW f \in Events, Counted(f), Shifted(f),
         \A x \in Actors : CarriesAfter(x, f) => Carries(x, f),
         handled'[f] = handled[f], posts'[f] = posts[f]
  PROVE  Counted(f)'
<1>1. PICK g : \A q \in Queues :
        /\ \A i \in After(q, f) : g[q][i] \in Slots(q, f)
        /\ \A i, j \in After(q, f) : g[q][i] = g[q][j] => i = j
        /\ Slots(q, f) # {} => After(q, f) # {}
  BY DEF Shifted
<1> DEFINE h == [p \in Actors \X Nat |-> IF p[2] = 0 THEN p ELSE <<p[1], g[p[1]][p[2]]>>]
<1>2. \A p \in Actors \X Nat :
        h[p] = IF p[2] = 0 THEN p ELSE <<p[1], g[p[1]][p[2]]>>
  OBVIOUS
<1> HIDE DEF h
<1>3. Pending(f)' = PendingAfter(f)
  BY PendingAfterIs
<1>4. \A q \in Queues : /\ Slots(q, f) \subseteq Nat /\ 0 \notin Slots(q, f)
                       /\ After(q, f) \subseteq Nat /\ 0 \notin After(q, f)
  BY SlotsOfSeq, AfterOfSeq
<1>5. \A p \in PendingAfter(f) : p[2] = 0 =>
        p \in Actors \X Nat /\ Carries(p[1], f) /\ h[p] = p
  BY <1>2, <1>4 DEF PendingAfter
<1>6. \A p \in PendingAfter(f) : p[2] # 0 =>
        /\ p \in Actors \X Nat /\ p[1] \in Queues /\ p[2] \in After(p[1], f)
        /\ h[p] = <<p[1], g[p[1]][p[2]]>> /\ g[p[1]][p[2]] \in Slots(p[1], f)
  BY <1>1, <1>2 DEF PendingAfter
<1>7. \A p \in PendingAfter(f) : h[p] \in Pending(f)
  <2> SUFFICES ASSUME NEW p \in PendingAfter(f) PROVE h[p] \in Pending(f)
    OBVIOUS
  <2>1. CASE p[2] = 0
    BY <1>5, <2>1 DEF Pending
  <2>2. CASE p[2] # 0
    <3>1. /\ p[1] \in Queues /\ h[p] = <<p[1], g[p[1]][p[2]]>>
          /\ g[p[1]][p[2]] \in Slots(p[1], f)
      BY <1>6, <2>2
    <3> QED BY <1>4, <3>1, ActorKinds DEF Pending
  <2> QED BY <2>1, <2>2
<1>8. \A p1, p2 \in PendingAfter(f) : h[p1] = h[p2] => p1 = p2
  <2> SUFFICES ASSUME NEW p1 \in PendingAfter(f), NEW p2 \in PendingAfter(f), h[p1] = h[p2]
               PROVE  p1 = p2
    OBVIOUS
  <2>1. CASE p1[2] = 0 /\ p2[2] = 0
    BY <1>5, <2>1
  <2>2. CASE p1[2] = 0 /\ p2[2] # 0
    BY <1>4, <1>5, <1>6, <2>2
  <2>3. CASE p1[2] # 0 /\ p2[2] = 0
    BY <1>4, <1>5, <1>6, <2>3
  <2>4. CASE p1[2] # 0 /\ p2[2] # 0
    <3>1. p1[1] = p2[1] /\ g[p1[1]][p1[2]] = g[p2[1]][p2[2]]
      BY <1>6, <2>4
    <3>2. p1[2] = p2[2]
      BY <1>1, <1>6, <2>4, <3>1
    <3> QED BY <1>6, <2>4, <3>1, <3>2
  <2> QED BY <2>1, <2>2, <2>3, <2>4
<1> QED BY <1>3, <1>7, <1>8, CountedMap DEF Typed, TypeOK

\* A thread that holds no event, or not this one.
Inside == HandPlaces \ {"toPost", "toClose"}

\* Nobody but a is in the monitor of e when a is, or nobody is.
LEMMA Alone ==
  ASSUME Typed, LocksOK, NEW a \in Actors, StepOf(a), NEW e \in Events,
         evOwner[e] \in {Nobody, a}
  PROVE  \A x \in Actors \ {a} :
           /\ ev'[x] = ev[x] /\ dest'[x] = dest[x]
           /\ ev[x] = e => pc[x] \notin Inside /\ pc'[x] \notin Inside
           /\ ~Moves(x, e) /\ ~MovesAfter(x, e) /\ ~Carries(x, e) /\ ~CarriesAfter(x, e)
<1>1. {"push", "taken", "die", "resolve"} \subseteq Inside
      /\ "asleep" \notin Inside /\ "idle" \notin Inside
  BY DEF Inside, HandPlaces, PostPlaces
<1>2. \A x \in Actors \ {a} : ev'[x] = ev[x] /\ dest'[x] = dest[x]
  BY DEF StepOf, Bystander
<1>3. \A x \in Actors \ {a} : ev[x] = e => pc[x] \notin Inside /\ pc'[x] \notin Inside
  <2> SUFFICES ASSUME NEW x \in Actors \ {a}, ev[x] = e
               PROVE  pc[x] \notin Inside /\ pc'[x] \notin Inside
    OBVIOUS
  <2>1. pc[x] \notin Inside
    BY ActorKinds DEF LocksOK, Holds, Inside
  <2> QED BY <1>1, <2>1 DEF StepOf, Bystander
<1> QED BY <1>1, <1>2, <1>3 DEF Moves, MovesAfter, Carries, CarriesAfter

\* The books of f: an event posted twice stays so, and a shutdown goes on.
SameBooks(f) ==
  /\ current_queue'[f] = current_queue[f] /\ closed'[f] = closed[f]
  /\ posts'[f] = posts[f] /\ handled'[f] = handled[f]
  /\ doubled[f] => doubled'[f]
  /\ shutdown_started => shutdown_started'

\* A step that has nothing to do with f.
Passes(a, f) ==
  /\ \/ pc'[a] = pc[a] /\ ev'[a] = ev[a] /\ dest'[a] = dest[a]
     \/ ~Moves(a, f) /\ ~MovesAfter(a, f)
  /\ ev'[a] = f /\ pc'[a] = "erase" => current_queue[f] # NoQueue
  /\ ev'[a] = f /\ pc'[a] = "do_it" => ev[a] = f /\ pc[a] = "do_it"

LEMMA KeptFrame ==
  ASSUME Typed, Typed', NEW a \in Actors, StepOf(a), NEW f \in Events, Kept(f),
         Shifted(f), SameBooks(f), Passes(a, f)
  PROVE  Kept(f)'
<1>1. \A x \in Actors : MovesAfter(x, f) <=> Moves(x, f)
  BY DEF Passes, StepOf, Bystander, Moves, MovesAfter
<1>2. \A x \in Actors : CarriesAfter(x, f) <=> Carries(x, f)
  BY DEF Passes, StepOf, Bystander, Moves, MovesAfter, Carries, CarriesAfter
<1>3. Moving(f)' <=> Moving(f)
  BY <1>1 DEF Moving, Moves, MovesAfter
<1>4. Counted(f)'
  BY <1>2, CountedShift DEF Kept, SameBooks
<1>5. PICK g : \A q \in Queues :
        /\ \A i \in After(q, f) : g[q][i] \in Slots(q, f)
        /\ \A i, j \in After(q, f) : g[q][i] = g[q][j] => i = j
        /\ Slots(q, f) # {} => After(q, f) # {}
  BY DEF Shifted
<1>6. OnCurrent(f)'
  <2>1. ~shutdown_started' /\ current_queue'[f] # NoQueue /\ ~Moving(f)' =>
          After(current_queue'[f], f) # {}
    BY <1>3, <1>5 DEF Kept, OnCurrent, SameBooks, Typed, TypeOK
  <2> QED BY <2>1 DEF OnCurrent, After, Slots
<1>7. OnlyThere(f)'
  <2>1. ~doubled'[f] => \A q \in Queues : \A i \in After(q, f) :
          current_queue'[f] = q /\ ~Moving(f)' /\ \A j \in After(q, f) : i = j
    BY <1>3, <1>5 DEF Kept, OnlyThere, SameBooks
  <2> QED BY <2>1 DEF OnlyThere, After, Slots
<1>8. Aims(f)'
  <2> SUFFICES ASSUME NEW x \in Actors, ev'[x] = f
               PROVE  /\ pc'[x] = "push" => current_queue'[f] = dest'[x]
                      /\ pc'[x] = "erase" => current_queue'[f] # NoQueue
    BY DEF Aims
  <2>1. CASE x # a
    BY <2>1 DEF StepOf, Bystander, Kept, Aims, SameBooks
  <2>2. CASE x = a
    BY <2>2 DEF Passes, Moves, MovesAfter, Kept, Aims, SameBooks
  <2> QED BY <2>1, <2>2
<1>9. Quiet(f)'
  <2> SUFFICES ASSUME closed'[f], ~doubled'[f], f \notin TimerEvents
               PROVE  /\ \A q \in Queues : After(q, f) = {}
                      /\ \A q \in Queues : ev'[q] = f => pc'[q] \notin {"taken", "do_it"}
                      /\ ~CarriesAfter(Timer, f)
                      /\ \/ current_queue'[f] = NoQueue \/ shutdown_started'
                         \/ \E x \in Actors \ {Timer} : ev'[x] = f /\ pc'[x] = "push"
    BY DEF Quiet, After, Slots, Carries, CarriesAfter
  <2>1. closed[f] /\ ~doubled[f]
    BY DEF SameBooks
  <2>2. /\ \A q \in Queues : Slots(q, f) = {}
        /\ \A q \in Queues : ev[q] = f => pc[q] \notin {"taken", "do_it"}
        /\ ~Carries(Timer, f)
        /\ \/ current_queue[f] = NoQueue \/ shutdown_started
           \/ \E x \in Actors \ {Timer} : ev[x] = f /\ pc[x] = "push"
    BY <2>1 DEF Kept, Quiet
  <2>3. \A q \in Queues : After(q, f) = {}
    BY <1>5, <2>2
  <2>4. ASSUME NEW q \in Queues, ev'[q] = f PROVE pc'[q] \notin {"taken", "do_it"}
    <3>1. CASE q = a
      BY <2>2, <2>4, <3>1, <1>1, ActorKinds DEF Passes, Moves, MovesAfter
    <3>2. CASE q # a
      BY <2>2, <2>4, <3>2, ActorKinds DEF StepOf, Bystander
    <3> QED BY <3>1, <3>2
  <2>5. ~CarriesAfter(Timer, f)
    BY <1>2, <2>2, ActorKinds
  <2>6. (\E x \in Actors \ {Timer} : ev[x] = f /\ pc[x] = "push") =>
           \E x \in Actors \ {Timer} : ev'[x] = f /\ pc'[x] = "push"
    <3> SUFFICES ASSUME NEW x \in Actors \ {Timer}, ev[x] = f, pc[x] = "push"
                 PROVE  ev'[x] = f /\ pc'[x] = "push"
      OBVIOUS
    <3> QED BY DEF Passes, StepOf, Bystander, Moves
  <2> QED BY <2>2, <2>3, <2>4, <2>5, <2>6 DEF SameBooks
<1> QED BY <1>4, <1>6, <1>7, <1>8, <1>9 DEF Kept

-----------------------------------------------------------------------------
(* The steps that move an event.  In each, e is the event in hand: its thread *)
(* is alone in the monitor of e.                                              *)

\* Nobody else holds e while a does.
AloneWith(a, e) ==
  \A x \in Actors \ {a} :
    /\ ev'[x] = ev[x] /\ dest'[x] = dest[x]
    /\ ev[x] = e => pc[x] \notin Inside /\ pc'[x] \notin Inside
    /\ ~Moves(x, e) /\ ~MovesAfter(x, e) /\ ~Carries(x, e) /\ ~CarriesAfter(x, e)

\* What remains to be shown of the event in hand once its entries are counted:
\* what OnCurrent, OnlyThere, Aims and Quiet then say.
KeptAfter(e) ==
  /\ ~shutdown_started' /\ current_queue'[e] # NoQueue
       /\ ~(\E x \in Actors : MovesAfter(x, e)) => After(current_queue'[e], e) # {}
  /\ ~doubled'[e] =>
       \A q \in Queues : \A i \in After(q, e) :
         /\ current_queue'[e] = q /\ ~(\E x \in Actors : MovesAfter(x, e))
         /\ \A j \in After(q, e) : i = j
  /\ \A x \in Actors : ev'[x] = e =>
       /\ pc'[x] = "push" => current_queue'[e] = dest'[x]
       /\ pc'[x] = "erase" => current_queue'[e] # NoQueue
  /\ closed'[e] /\ ~doubled'[e] /\ e \notin TimerEvents =>
       /\ \A q \in Queues : After(q, e) = {}
       /\ \A q \in Queues : ev'[q] = e => pc'[q] \notin {"taken", "do_it"}
       /\ ~CarriesAfter(Timer, e)
       /\ \/ current_queue'[e] = NoQueue \/ shutdown_started'
          \/ \E x \in Actors \ {Timer} : ev'[x] = e /\ pc'[x] = "push"

LEMMA KeptAfterIs ==
  ASSUME NEW e \in Events, Counted(e)', KeptAfter(e)
  PROVE  Kept(e)'
<1>1. Moving(e)' <=> \E x \in Actors : MovesAfter(x, e)
  BY DEF Moving, Moves, MovesAfter
<1>2. OnCurrent(e)'
  BY <1>1 DEF OnCurrent, KeptAfter, After, Slots
<1>3. OnlyThere(e)'
  BY <1>1 DEF OnlyThere, KeptAfter, After, Slots
<1>4. Aims(e)'
  BY DEF Aims, KeptAfter
<1>5. Quiet(e)'
  BY DEF Quiet, KeptAfter, After, Slots, Carries, CarriesAfter
<1> QED BY <1>2, <1>3, <1>4, <1>5 DEF Kept

LEMMA KeptResolve ==
  ASSUME EventInv, Typed', NEW a \in Actors \ {Main}, StepOf(a), PostResolve(a),
         NEW e \in Events, ev[a] = e
  PROVE  \A f \in Events : Kept(f)'
<1> DEFINE q == IF dest[a] = NoQueue THEN Head(queues) ELSE dest[a]
<1>1. /\ Typed /\ LocksOK /\ \A f \in Events : Kept(f)
  BY DEF EventInv
<1>2. /\ pc[a] = "resolve" /\ evOwner[e] = a /\ ev' = ev /\ list' = list
      /\ UNCHANGED <<closed, posts, handled, shutdown_started>>
      /\ doubled' = [doubled EXCEPT ![e] =
                      @ \/ (current_queue[e] # NoQueue /\ dest[a] # FailSafe)]
  <2>1. pc[a] = "resolve" /\ Holds(a)
    BY DEF PostResolve, Holds, HandPlaces, PostPlaces
  <2> QED BY <1>1, <2>1 DEF PostResolve, LocksOK, queueVars, timerVars, history
<1>3. AloneWith(a, e)
  BY <1>1, <1>2, Alone DEF AloneWith
<1>4. \A f \in Events : Shifted(f) /\ (\A r \in Queues : After(r, f) = Slots(r, f))
  BY <1>1, <1>2, SameLists
<1>5. doubled'[e] = (doubled[e] \/ (current_queue[e] # NoQueue /\ dest[a] # FailSafe))
      /\ \A f \in Events : f # e => doubled'[f] = doubled[f]
  BY <1>1, <1>2 DEF Typed, TypeOK
<1>6. CASE dest[a] = NoQueue /\ queues = <<>>
  <2>1. pc'[a] = "overflow" /\ dest' = dest /\ current_queue' = current_queue
    BY <1>1, <1>6 DEF PostResolve, Goto, Typed, PlacesOK
  <2>2. ~Moves(a, e) /\ dest[a] # FailSafe
    BY <1>2, <1>6, ActorKinds DEF Moves
  <2> SUFFICES ASSUME NEW f \in Events PROVE Kept(f)'
    OBVIOUS
  <2>3. Passes(a, f)
    BY <1>2, <2>1, <2>2, <1>6, ActorKinds DEF Passes, MovesAfter, Moves
  <2>4. SameBooks(f)
    BY <1>2, <1>5, <2>1 DEF SameBooks
  <2> QED BY <1>1, <1>4, <2>3, <2>4, KeptFrame
<1>7. CASE ~(dest[a] = NoQueue /\ queues = <<>>)
  <2>1. /\ dest' = [dest EXCEPT ![a] = q]
        /\ current_queue' = [current_queue EXCEPT ![e] = q]
        /\ pc' = [pc EXCEPT ![a] = IF shutdown_started THEN "posted" ELSE "push"]
    BY <1>7 DEF PostResolve, Goto
  <2>2. q \in Queues /\ (q = FailSafe <=> dest[a] = FailSafe)
    BY <1>1, <1>7, ActorKinds DEF Typed, TypeOK
  <2> HIDE DEF q
  <2>3. /\ dest'[a] = q /\ current_queue'[e] = q
        /\ pc'[a] = IF shutdown_started THEN "posted" ELSE "push"
        /\ \A f \in Events : f # e => current_queue'[f] = current_queue[f]
    BY <1>1, <1>2, <2>1 DEF Typed, TypeOK, PlacesOK
  <2>4. ASSUME NEW f \in Events, f # e PROVE Kept(f)'
    <3>1. Passes(a, f)
      BY <1>2, <2>4 DEF Passes, MovesAfter, Moves
    <3>2. SameBooks(f)
      BY <1>2, <1>5, <2>3, <2>4 DEF SameBooks
    <3> QED BY <1>1, <1>4, <3>1, <3>2, KeptFrame
  <2>5. Kept(e)'
    <3>1. ev[a] = e /\ ev'[a] = e
      BY <1>2
    <3>2. /\ (Moves(a, e) <=> dest[a] = FailSafe) /\ (Carries(a, e) <=> dest[a] = FailSafe)
          /\ (MovesAfter(a, e) <=> ~shutdown_started)
          /\ (CarriesAfter(a, e) => dest[a] = FailSafe)
      BY <1>2, <2>2, <2>3, <3>1 DEF Moves, Carries, MovesAfter, CarriesAfter
    <3>3. Counted(e)'
      <4>1. \A x \in Actors : CarriesAfter(x, e) => Carries(x, e)
        BY <1>3, <3>2 DEF AloneWith
      <4> QED BY <1>1, <1>2, <1>4, <4>1, CountedShift DEF Kept
    <3>4. ~doubled'[e] => \A r \in Queues : After(r, e) = {}
      <4> SUFFICES ASSUME ~doubled'[e], NEW r \in Queues, NEW i \in Slots(r, e)
                   PROVE  FALSE
        BY <1>2, <1>4
      <4>1. current_queue[e] = r /\ ~Moving(e)
        BY <1>1, <1>2, <1>5 DEF Kept, OnlyThere
      <4>2. dest[a] = FailSafe
        BY <1>5, <4>1, ActorKinds
      <4> QED BY <3>2, <4>1, <4>2 DEF Moving
    <3>5. dest[a] = FailSafe => a = Timer
      BY <1>1, ActorKinds DEF Typed, DestsOK
    <3>6. a = Timer /\ e \notin TimerEvents => dest[a] = FailSafe
      BY <1>1, <1>2, <3>1 DEF Typed, DestsOK
    <3>7. ASSUME closed'[e], ~doubled'[e], e \notin TimerEvents
          PROVE  /\ a # Timer
                 /\ \A r \in Queues : ev'[r] = e => pc'[r] \notin {"taken", "do_it"}
                 /\ ~CarriesAfter(Timer, e)
                 /\ \/ shutdown_started'
                    \/ \E x \in Actors \ {Timer} : ev'[x] = e /\ pc'[x] = "push"
      <4>1. ~Carries(Timer, e)
        BY <1>1, <1>2, <1>5, <3>7 DEF Kept, Quiet
      <4>2. a # Timer
        BY <3>2, <3>6, <3>7, <4>1
      <4>3. \A r \in Queues : ev'[r] = e => pc'[r] \notin {"taken", "do_it"}
        <5> SUFFICES ASSUME NEW r \in Queues, ev'[r] = e
                     PROVE  pc'[r] \notin {"taken", "do_it"}
          OBVIOUS
        <5>1. CASE r = a
          BY <2>3, <5>1
        <5>2. CASE r # a
          BY <1>3, <5>2, ActorKinds DEF AloneWith, Inside, HandPlaces, PostPlaces
        <5> QED BY <5>1, <5>2
      <4>4. ~CarriesAfter(Timer, e)
        BY <1>3, <4>2, ActorKinds DEF AloneWith
      <4> QED BY <1>2, <2>3, <3>1, <4>2, <4>3, <4>4
    <3>8. \A x \in Actors : ev'[x] = e =>
            /\ pc'[x] = "push" => current_queue'[e] = dest'[x]
            /\ pc'[x] = "erase" => current_queue'[e] # NoQueue
      <4> SUFFICES ASSUME NEW x \in Actors, ev'[x] = e
                   PROVE  /\ pc'[x] = "push" => current_queue'[e] = dest'[x]
                          /\ pc'[x] = "erase" => current_queue'[e] # NoQueue
        OBVIOUS
      <4>1. CASE x = a
        BY <2>3, <4>1
      <4>2. CASE x # a
        BY <1>3, <4>2 DEF AloneWith, Inside, HandPlaces, PostPlaces
      <4> QED BY <4>1, <4>2
    <3>9. ~shutdown_started' => \E x \in Actors : MovesAfter(x, e)
      BY <1>2, <3>2
    <3>10. KeptAfter(e)
      BY <3>4, <3>7, <3>8, <3>9 DEF KeptAfter
    <3> QED BY <1>2, <3>3, <3>10, KeptAfterIs
  <2> QED BY <2>4, <2>5
<1> QED BY <1>6, <1>7

\* Where a is, and where those are that it is alone with.
LEMMA AloneAims ==
  ASSUME Typed, NEW a \in Actors, NEW e, AloneWith(a, e)
  PROVE  /\ ~(\E x \in Actors \ {a} : ev'[x] = e /\ pc'[x] \in {"push", "erase", "taken", "do_it"})
         /\ (\E x \in Actors : MovesAfter(x, e)) <=> MovesAfter(a, e)
         /\ Moving(e) <=> Moves(a, e)
BY DEF AloneWith, Inside, HandPlaces, PostPlaces, Moving

LEMMA PushCounted ==
  ASSUME EventInv, Typed', NEW a \in Actors \ {Main}, PostPush(a),
         NEW e \in Events, ev[a] = e, AloneWith(a, e)
  PROVE  Counted(e)'
<1> DEFINE q == dest[a]
           n == Len(list[q]) + 1
           new == <<q, n>>
<1>1. Typed /\ Counted(e)
  BY DEF EventInv, Kept
<1>2. /\ pc[a] = "push" /\ ev'[a] = e /\ pc'[a] = "signal" /\ q \in Queues
      /\ list' = [list EXCEPT ![q] = Append(@, e)]
      /\ handled' = handled
      /\ posts'[e] = IF q = FailSafe THEN posts[e] ELSE posts[e] + 1
      /\ posts[e] \in Nat /\ handled[e] \in Nat
  BY <1>1 DEF PostPush, Goto, Typed, TypeOK, PlacesOK, DestsOK
<1> HIDE DEF q
<1>3. /\ \A r \in Queues \ {q} : After(r, e) = Slots(r, e)
      /\ After(q, e) = Slots(q, e) \cup {n} /\ n \notin Slots(q, e)
      /\ n \in Nat /\ n # 0
  <2>1. list' = [list EXCEPT ![q] = Append(@, e)] /\ q \in Queues
    BY <1>2
  <2>2. /\ \A r \in Queues \ {q} : After(r, e) = Slots(r, e)
        /\ After(q, e) = Slots(q, e) \cup {n} /\ n \notin Slots(q, e)
        /\ Len(list[q]) \in Nat
    BY <1>1, <2>1, SlotsAppended
  <2>3. n \in Nat /\ n # 0
    BY <2>2
  <2> QED BY <2>2, <2>3
<1>4. \A r \in Queues : 0 \notin Slots(r, e) /\ 0 \notin After(r, e)
  BY <1>1, SlotsOfSeq, AfterOfSeq
<1>5. /\ \A x \in Actors : CarriesAfter(x, e) <=> Carries(x, e) /\ x # a
      /\ Carries(a, e) <=> q = FailSafe
  BY <1>2 DEF AloneWith, Carries, CarriesAfter, q
<1> HIDE DEF n
<1>6. PendingAfter(e) = (Pending(e) \ {<<a, 0>>}) \cup {new}
  <2>1. ASSUME NEW p \in Actors \X Nat, p[2] = 0
        PROVE  p \in PendingAfter(e) <=> p \in (Pending(e) \ {<<a, 0>>}) \cup {new}
    <3>1. p = <<a, 0>> <=> p[1] = a
      BY <2>1
    <3>2. p # new
      BY <1>3, <2>1
    <3> QED BY <1>4, <1>5, <2>1, <3>1, <3>2 DEF PendingAfter, Pending
  <2>2. ASSUME NEW p \in Actors \X Nat, p[2] # 0
        PROVE  p \in PendingAfter(e) <=> p \in (Pending(e) \ {<<a, 0>>}) \cup {new}
    <3>1. p # <<a, 0>>
      BY <2>2
    <3>2. p = new <=> p[1] = q /\ p[2] = n
      BY <1>3
    <3> QED BY <1>2, <1>3, <2>2, <3>1, <3>2 DEF PendingAfter, Pending
  <2>3. new \in Actors \X Nat
    BY <1>2, <1>3, ActorKinds
  <2>4. PendingAfter(e) \subseteq Actors \X Nat /\ Pending(e) \subseteq Actors \X Nat
    BY DEF PendingAfter, Pending
  <2> QED BY <2>1, <2>2, <2>3, <2>4
<1>7. <<a, 0>> \in Pending(e) <=> q = FailSafe
  BY <1>4, <1>5 DEF Pending
<1>8. new \notin Pending(e)
  BY <1>3 DEF Pending
<1>9. IsFiniteSet(Pending(e)) /\ Cardinality(Pending(e)) \in Nat
      /\ handled[e] + Cardinality(Pending(e)) <= posts[e]
  BY <1>1, FS_CardinalityType DEF Counted
<1>10. /\ IsFiniteSet(Pending(e) \ {<<a, 0>>})
       /\ Cardinality(Pending(e) \ {<<a, 0>>}) =
            IF q = FailSafe THEN Cardinality(Pending(e)) - 1 ELSE Cardinality(Pending(e))
  BY <1>7, <1>9, FS_RemoveElement
<1>11. /\ IsFiniteSet(PendingAfter(e))
       /\ Cardinality(PendingAfter(e)) = Cardinality(Pending(e) \ {<<a, 0>>}) + 1
  BY <1>6, <1>8, <1>10, FS_AddElement
<1>12. handled'[e] + Cardinality(PendingAfter(e)) <= posts'[e]
  BY <1>2, <1>9, <1>10, <1>11
<1> QED BY <1>11, <1>12, PendingAfterIs DEF Counted

LEMMA KeptPush ==
  ASSUME EventInv, Typed', NEW a \in Actors \ {Main}, StepOf(a), PostPush(a),
         NEW e \in Events, ev[a] = e
  PROVE  \A f \in Events : Kept(f)'
<1> DEFINE q == dest[a]
<1>1. /\ Typed /\ LocksOK /\ \A f \in Events : Kept(f)
  BY DEF EventInv
<1>2. /\ pc[a] = "push" /\ evOwner[e] = a /\ ev' = ev /\ dest' = dest /\ q \in Queues
      /\ list' = [list EXCEPT ![q] = Append(@, e)]
      /\ UNCHANGED <<current_queue, handled, doubled, shutdown_started>>
      /\ posts' = [posts EXCEPT ![e] = IF q = FailSafe THEN @ ELSE @ + 1]
      /\ closed' = [closed EXCEPT ![e] = @ /\ a = Timer]
  <2>1. pc[a] = "push" /\ Holds(a)
    BY DEF PostPush, Holds, HandPlaces, PostPlaces
  <2> QED BY <1>1, <2>1
          DEF PostPush, LocksOK, Typed, DestsOK, eventVars, timerVars, stopVars, history
<1>3. /\ pc'[a] = "signal"
      /\ closed'[e] = (closed[e] /\ a = Timer)
      /\ \A f \in Events : f # e => posts'[f] = posts[f] /\ closed'[f] = closed[f]
  BY <1>1, <1>2 DEF PostPush, Goto, Typed, TypeOK, PlacesOK
<1>4. AloneWith(a, e)
  BY <1>1, <1>2, Alone DEF AloneWith
<1> HIDE DEF q
<1>5. ASSUME NEW f \in Events, f # e PROVE Kept(f)'
  <2>1. Shifted(f)
    BY <1>1, <1>2, <1>5, AppendShifts
  <2>2. Passes(a, f)
    BY <1>2, <1>5 DEF Passes, MovesAfter, Moves
  <2>3. SameBooks(f)
    BY <1>2, <1>3, <1>5 DEF SameBooks
  <2> QED BY <1>1, <2>1, <2>2, <2>3, KeptFrame
<1>6. Kept(e)'
  <2>1. Counted(e)'
    BY <1>4, PushCounted
  <2>2. /\ \A r \in Queues \ {q} : After(r, e) = Slots(r, e)
        /\ \E n : After(q, e) = Slots(q, e) \cup {n}
    BY <1>1, <1>2, SlotsAppended
  <2>3. Moves(a, e) /\ ~MovesAfter(a, e) /\ current_queue[e] = q
    BY <1>1, <1>2, <1>3 DEF Moves, MovesAfter, Kept, Aims, q
  <2>4. Moving(e) /\ ~(\E x \in Actors : MovesAfter(x, e))
    BY <1>1, <1>4, <2>3, AloneAims
  <2>5. ~doubled'[e] => \A r \in Queues : Slots(r, e) = {}
    BY <1>1, <1>2, <2>4 DEF Kept, OnlyThere
  <2>6. ~doubled'[e] => \A r \in Queues : \A i \in After(r, e) :
          current_queue'[e] = r /\ \A j \in After(r, e) : i = j
    BY <1>2, <2>2, <2>3, <2>5
  <2>7. After(current_queue'[e], e) # {}
    BY <1>2, <2>2, <2>3
  <2>8. \A x \in Actors : ev'[x] = e => pc'[x] # "push" /\ pc'[x] # "erase"
    BY <1>1, <1>3, <1>4, AloneAims
  <2>9. ~(closed'[e] /\ ~doubled'[e] /\ e \notin TimerEvents)
    <3> SUFFICES ASSUME closed[e], a = Timer, ~doubled[e], e \notin TimerEvents
                 PROVE  FALSE
      BY <1>2, <1>3
    <3>1. dest[Timer] = FailSafe
      BY <1>1, <1>2 DEF Typed, DestsOK
    <3>2. Carries(Timer, e)
      BY <1>2, <3>1 DEF Carries
    <3> QED BY <1>1, <3>2 DEF Kept, Quiet
  <2>10. KeptAfter(e)
    BY <2>4, <2>6, <2>7, <2>8, <2>9 DEF KeptAfter
  <2> QED BY <2>1, <2>10, KeptAfterIs
<1> QED BY <1>5, <1>6

\* Fewer entries, and no new hand: nothing more is pending.
LEMMA CountedLess ==
  ASSUME Typed, Typed', NEW e \in Events, Counted(e),
         \A r \in Queues : After(r, e) \subseteq Slots(r, e),
         \A x \in Actors : CarriesAfter(x, e) => Carries(x, e),
         NEW p \in Actors \X Nat,
         \/ handled'[e] = handled[e]
         \/ handled'[e] = handled[e] + 1 /\ p \in Pending(e) /\ p \notin PendingAfter(e),
         posts'[e] = posts[e]
  PROVE  Counted(e)'
<1>1. PendingAfter(e) \subseteq Pending(e)
  BY DEF PendingAfter, Pending
<1>2. IsFiniteSet(Pending(e)) /\ Cardinality(Pending(e)) \in Nat
      /\ handled[e] + Cardinality(Pending(e)) <= posts[e]
      /\ handled[e] \in Nat /\ posts[e] \in Nat
  BY FS_CardinalityType DEF Counted, Typed, TypeOK
<1>3. IsFiniteSet(PendingAfter(e)) /\ Cardinality(PendingAfter(e)) <= Cardinality(Pending(e))
      /\ Cardinality(PendingAfter(e)) \in Nat
  BY <1>1, <1>2, FS_Subset, FS_CardinalityType
<1>4. CASE handled'[e] = handled[e]
  <2>1. handled'[e] + Cardinality(PendingAfter(e)) <= posts'[e]
    BY <1>2, <1>3, <1>4
  <2> QED BY <1>3, <2>1, PendingAfterIs DEF Counted
<1>5. CASE handled'[e] = handled[e] + 1 /\ p \in Pending(e) /\ p \notin PendingAfter(e)
  <2>1. PendingAfter(e) \subseteq Pending(e) \ {p}
    BY <1>1, <1>5
  <2>2. /\ IsFiniteSet(Pending(e) \ {p})
        /\ Cardinality(Pending(e) \ {p}) = Cardinality(Pending(e)) - 1
    BY <1>2, <1>5, FS_RemoveElement
  <2>3. Cardinality(PendingAfter(e)) <= Cardinality(Pending(e)) - 1
    BY <2>1, <2>2, FS_Subset
  <2>4. handled'[e] + Cardinality(PendingAfter(e)) <= posts'[e]
    BY <1>2, <1>3, <1>5, <2>3
  <2> QED BY <1>3, <2>4, PendingAfterIs DEF Counted
<1> QED BY <1>4, <1>5

LEMMA KeptCloseRemove ==
  ASSUME EventInv, Typed', NEW c \in Clients, StepOf(c), CloseRemove(c),
         NEW e \in Events, ev[c] = e
  PROVE  \A f \in Events : Kept(f)'
<1> DEFINE q == current_queue[e]
<1>1. /\ Typed /\ LocksOK /\ \A f \in Events : Kept(f)
  BY DEF EventInv
<1>0. c \in Actors /\ c \notin Queues /\ c # Timer
  BY ActorKinds
<1>2. /\ pc[c] = "closing" /\ evOwner[e] = c
      /\ \/ q = NoQueue /\ list' = list
         \/ q # NoQueue /\ Erase(q, e)
      /\ current_queue' = [current_queue EXCEPT ![e] = NoQueue]
      /\ closed' = [closed EXCEPT ![e] = TRUE]
      /\ UNCHANGED <<posts, handled, doubled, shutdown_started>>
      /\ pc'[c] = "idle" /\ ev'[c] = Nobody
  <2>1. pc[c] = "closing" /\ Holds(c)
    BY DEF CloseRemove, Holds, HandPlaces
  <2> QED BY <1>0, <1>1, <2>1
          DEF CloseRemove, LocksOK, OffQueue, Goto, Typed, TypeOK, PlacesOK, stopVars
<1>3. /\ current_queue'[e] = NoQueue
      /\ \A f \in Events : f # e => current_queue'[f] = current_queue[f] /\ closed'[f] = closed[f]
  BY <1>1, <1>2 DEF Typed, TypeOK
<1>4. AloneWith(c, e)
  BY <1>0, <1>1, <1>2, Alone DEF AloneWith
<1>5. q # NoQueue => q \in Queues
  BY <1>1 DEF Typed, TypeOK
<1> HIDE DEF q
<1>6. ASSUME NEW f \in Events, f # e PROVE Kept(f)'
  <2>1. Shifted(f)
    BY <1>1, <1>2, <1>5, <1>6, EraseLeaves, SameLists
  <2>2. Passes(c, f)
    BY <1>2, <1>6, ActorKinds DEF Passes, MovesAfter, Moves
  <2>3. SameBooks(f)
    BY <1>2, <1>3, <1>6 DEF SameBooks
  <2> QED BY <1>0, <1>1, <2>1, <2>2, <2>3, KeptFrame
<1>7. Kept(e)'
  <2>1. \A r \in Queues : After(r, e) \subseteq Slots(r, e) /\ (r = q => After(r, e) = {})
    <3>1. CASE q = NoQueue /\ list' = list
      BY <1>1, <3>1, SameLists, ActorKinds
    <3>2. CASE q \in Queues /\ Erase(q, e)
      BY <1>1, <3>2, EraseLeaves
    <3> QED BY <1>2, <1>5, <3>1, <3>2
  <2>2. ~MovesAfter(c, e) /\ ~CarriesAfter(c, e) /\ ~Moves(c, e)
    BY <1>2 DEF MovesAfter, CarriesAfter, Moves
  <2>3. Counted(e)'
    <3>1. \A x \in Actors : CarriesAfter(x, e) => Carries(x, e)
      BY <1>4, <2>2 DEF AloneWith
    <3>2. <<c, 0>> \in Actors \X Nat /\ Counted(e)
      BY <1>0, <1>1 DEF Kept
    <3> QED BY <1>1, <1>2, <2>1, <3>1, <3>2, CountedLess
  <2>4. ~doubled'[e] => \A r \in Queues : After(r, e) = {}
    <3> SUFFICES ASSUME ~doubled[e], NEW r \in Queues, NEW i \in After(r, e)
                 PROVE  FALSE
      BY <1>2
    <3>1. r # q /\ i \in Slots(r, e)
      BY <2>1
    <3>2. r = q
      BY <1>1, <3>1 DEF Kept, OnlyThere, q
    <3> QED BY <3>1, <3>2
  <2>5. \A x \in Actors : ev'[x] = e =>
          pc'[x] # "push" /\ pc'[x] # "erase" /\ pc'[x] \notin {"taken", "do_it"}
    <3>1. \A x \in Actors \ {c} : ev'[x] = e =>
            pc'[x] # "push" /\ pc'[x] # "erase" /\ pc'[x] \notin {"taken", "do_it"}
      BY <1>0, <1>1, <1>4, AloneAims
    <3> QED BY <1>2, <3>1, ActorKinds
  <2>6. ~CarriesAfter(Timer, e)
    BY <1>0, <1>4, ActorKinds DEF AloneWith
  <2>7. KeptAfter(e)
    BY <1>3, <2>4, <2>5, <2>6, ActorKinds DEF KeptAfter
  <2> QED BY <2>3, <2>7, KeptAfterIs
<1> QED BY <1>6, <1>7

LEMMA KeptHandle ==
  ASSUME EventInv, Typed', NEW q \in Queues, StepOf(q), WorkerHandle(q),
         NEW e \in Events, ev[q] = e
  PROVE  \A f \in Events : Kept(f)'
<1>1. /\ Typed /\ LocksOK /\ \A f \in Events : Kept(f)
  BY DEF EventInv
<1>0. q \in Actors /\ q # Timer
  BY ActorKinds
<1>2. /\ pc[q] = "taken" /\ evOwner[e] = q /\ ev' = ev /\ list' = list
      /\ current_queue' = [current_queue EXCEPT ![e] = NoQueue]
      /\ handled' = handled \/ handled' = [handled EXCEPT ![e] = @ + 1]
      /\ UNCHANGED <<posts, closed, doubled, shutdown_started>>
      /\ pc'[q] \in {"done", "do_it"}
  <2>1. pc[q] = "taken" /\ Holds(q)
    BY DEF WorkerHandle, Holds, HandPlaces
  <2>2. /\ UNCHANGED <<ev, list, posts, closed, doubled, shutdown_started>>
        /\ current_queue' = [current_queue EXCEPT ![e] = NoQueue]
        /\ handled' = handled \/ handled' = [handled EXCEPT ![e] = @ + 1]
        /\ \E place \in {"done", "do_it"} : pc' = [pc EXCEPT ![q] = place]
    BY DEF WorkerHandle, OffQueue, Goto, queueVars, stopVars
  <2> QED BY <1>0, <1>1, <2>1, <2>2 DEF LocksOK, Typed, PlacesOK
<1>3. /\ current_queue'[e] = NoQueue
      /\ handled'[e] = handled[e] \/ handled'[e] = handled[e] + 1
      /\ \A f \in Events : f # e => current_queue'[f] = current_queue[f] /\ handled'[f] = handled[f]
  BY <1>1, <1>2 DEF Typed, TypeOK
<1>4. AloneWith(q, e)
  BY <1>0, <1>1, <1>2, Alone DEF AloneWith
<1>5. \A f \in Events : Shifted(f) /\ (\A r \in Queues : After(r, f) = Slots(r, f))
  BY <1>1, <1>2, SameLists
<1>6. ASSUME NEW f \in Events, f # e PROVE Kept(f)'
  <2>1. Passes(q, f)
    BY <1>2, <1>6 DEF Passes, MovesAfter, Moves
  <2>2. SameBooks(f)
    BY <1>2, <1>3, <1>6 DEF SameBooks
  <2> QED BY <1>0, <1>1, <1>5, <2>1, <2>2, KeptFrame
<1>7. Kept(e)'
  <2>1. /\ Moves(q, e) /\ Carries(q, e) /\ ~MovesAfter(q, e) /\ ~CarriesAfter(q, e)
    BY <1>2 DEF Moves, Carries, MovesAfter, CarriesAfter
  <2>2. Counted(e)'
    <3>1. \A x \in Actors : CarriesAfter(x, e) => Carries(x, e)
      BY <1>4, <2>1 DEF AloneWith
    <3>2. /\ <<q, 0>> \in Actors \X Nat /\ Counted(e)
          /\ <<q, 0>> \in Pending(e)
      BY <1>0, <1>1, <2>1 DEF Kept, Pending
    <3>3. <<q, 0>> \notin PendingAfter(e)
      BY <2>1, AfterOfSeq DEF PendingAfter
    <3> QED BY <1>1, <1>2, <1>3, <1>5, <3>1, <3>2, <3>3, CountedLess
  <2>3. Moving(e)
    BY <1>0, <2>1 DEF Moving
  <2>4. ~doubled'[e] => \A r \in Queues : After(r, e) = {}
    BY <1>1, <1>2, <1>5, <2>3 DEF Kept, OnlyThere
  <2>5. \A x \in Actors : ev'[x] = e => pc'[x] # "push" /\ pc'[x] # "erase"
    BY <1>0, <1>1, <1>2, <1>4, AloneAims
  <2>6. ~(closed'[e] /\ ~doubled'[e] /\ e \notin TimerEvents)
    BY <1>1, <1>2 DEF Kept, Quiet
  <2>7. KeptAfter(e)
    BY <1>3, <2>4, <2>5, <2>6 DEF KeptAfter
  <2> QED BY <2>2, <2>7, KeptAfterIs
<1> QED BY <1>6, <1>7

LEMMA KeptTake ==
  ASSUME EventInv, Typed', NEW q \in Queues, StepOf(q), WorkerTake(q),
         NEW e \in Events, e = Head(list[q])
  PROVE  \A f \in Events : Kept(f)'
<1>1. /\ Typed /\ LocksOK /\ \A f \in Events : Kept(f)
  BY DEF EventInv
<1>0. q \in Actors /\ q # Timer
  BY ActorKinds
<1>2. /\ pc[q] = "scan" /\ list[q] # <<>> /\ evOwner[e] \in {Nobody, q}
      /\ list' = [list EXCEPT ![q] = Tail(@)]
      /\ UNCHANGED <<current_queue, posts, handled, closed, doubled, shutdown_started>>
      /\ pc'[q] = "taken" /\ ev'[q] = e
  BY <1>0, <1>1 DEF WorkerTake, Enterable, Goto, Typed, TypeOK, PlacesOK, eventVars, stopVars,
                    history
<1>3. AloneWith(q, e)
  BY <1>0, <1>1, <1>2, Alone DEF AloneWith
<1>4. ASSUME NEW f \in Events, f # e PROVE Kept(f)'
  <2>1. Shifted(f)
    BY <1>1, <1>2, <1>4, TailShifts
  <2>2. Passes(q, f)
    BY <1>2, <1>4 DEF Passes, MovesAfter, Moves
  <2>3. SameBooks(f)
    BY <1>2 DEF SameBooks
  <2> QED BY <1>0, <1>1, <2>1, <2>2, <2>3, KeptFrame
<1>5. Kept(e)'
  <2>1. /\ \A r \in Queues \ {q} : After(r, e) = Slots(r, e)
        /\ \A i \in After(q, e) : i \in Nat \ {0} /\ i + 1 \in Slots(q, e)
        /\ 1 \in Slots(q, e)
    BY <1>1, <1>2, SlotsTailed
  <2>2. MovesAfter(q, e) /\ CarriesAfter(q, e)
    BY <1>2 DEF MovesAfter, CarriesAfter
  <2>3. Counted(e)'
    <3> DEFINE h == [p \in Actors \X Nat |-> IF p[1] = q THEN <<q, p[2] + 1>> ELSE p]
    <3>1. \A p \in Actors \X Nat : h[p] = IF p[1] = q THEN <<q, p[2] + 1>> ELSE p
      OBVIOUS
    <3> HIDE DEF h
    <3>2. \A p \in PendingAfter(e) :
            /\ p \in Actors \X Nat
            /\ p[1] # q => p[1] \in Queues /\ p[2] \in Slots(p[1], e)
            /\ p[1] = q => p[2] + 1 \in Slots(q, e)
      <4> SUFFICES ASSUME NEW p \in PendingAfter(e)
                   PROVE  /\ p \in Actors \X Nat
                          /\ p[1] # q => p[1] \in Queues /\ p[2] \in Slots(p[1], e)
                          /\ p[1] = q => p[2] + 1 \in Slots(q, e)
        OBVIOUS
      <4>1. /\ p \in Actors \X Nat
            /\ \/ p[1] \in Queues /\ p[2] \in After(p[1], e)
               \/ p[2] = 0 /\ CarriesAfter(p[1], e)
        BY DEF PendingAfter
      <4>2. CASE p[1] = q
        <5>1. CASE p[2] = 0
          <6>1. p[2] + 1 = 1
            BY <5>1
          <6> QED BY <2>1, <4>1, <4>2, <6>1
        <5>2. CASE p[2] # 0
          BY <2>1, <4>1, <4>2, <5>2
        <5> QED BY <5>1, <5>2
      <4>3. CASE p[1] # q
        <5>1. ~CarriesAfter(p[1], e)
          BY <1>3, <4>1, <4>3 DEF AloneWith
        <5> QED BY <2>1, <4>1, <4>3, <5>1
      <4> QED BY <4>2, <4>3
    <3>3. \A p \in PendingAfter(e) : h[p] \in Pending(e)
      <4> SUFFICES ASSUME NEW p \in PendingAfter(e) PROVE h[p] \in Pending(e)
        OBVIOUS
      <4>1. CASE p[1] = q
        <5>1. p[2] \in Nat /\ h[p] = <<q, p[2] + 1>> /\ p[2] + 1 \in Slots(q, e)
          BY <3>1, <3>2, <4>1
        <5>2. p[2] + 1 \in Nat
          BY <5>1
        <5>3. <<q, p[2] + 1>> \in Pending(e)
          BY <1>0, <5>1, <5>2 DEF Pending
        <5> QED BY <5>1, <5>3
      <4>2. CASE p[1] # q
        <5>1. h[p] = p /\ p[1] \in Queues /\ p[2] \in Slots(p[1], e) /\ p \in Actors \X Nat
          BY <3>1, <3>2, <4>2
        <5> QED BY <5>1 DEF Pending
      <4> QED BY <4>1, <4>2
    <3>4. \A p1, p2 \in PendingAfter(e) : h[p1] = h[p2] => p1 = p2
      <4> SUFFICES ASSUME NEW p1 \in PendingAfter(e), NEW p2 \in PendingAfter(e), h[p1] = h[p2]
                   PROVE  p1 = p2
        OBVIOUS
      <4>1. p1 \in Actors \X Nat /\ p2 \in Actors \X Nat
        BY <3>2
      <4>2. \A p \in Actors \X Nat :
              h[p][1] = p[1] /\ h[p][2] = IF p[1] = q THEN p[2] + 1 ELSE p[2]
        <5> SUFFICES ASSUME NEW p \in Actors \X Nat
                     PROVE  h[p][1] = p[1] /\ h[p][2] = IF p[1] = q THEN p[2] + 1 ELSE p[2]
          OBVIOUS
        <5>1. CASE p[1] = q
          <6>1. h[p] = <<q, p[2] + 1>>
            BY <3>1, <5>1
          <6> QED BY <5>1, <6>1
        <5>2. CASE p[1] # q
          BY <3>1, <5>2
        <5> QED BY <5>1, <5>2
      <4>3. p1[1] = p2[1]
        BY <4>1, <4>2
      <4>4. p1[2] \in Nat /\ p2[2] \in Nat /\ (p1[2] = p2[2] \/ p1[2] + 1 = p2[2] + 1)
        BY <4>1, <4>2, <4>3
      <4>5. p1[2] = p2[2]
        BY <4>4
      <4> QED BY <4>1, <4>3, <4>5
    <3>5. Counted(e) /\ handled[e] \in Nat /\ posts[e] \in Nat
      BY <1>1 DEF Kept, Typed, TypeOK
    <3>6. Pending(e)' = PendingAfter(e)
      BY PendingAfterIs
    <3> QED BY <1>2, <3>3, <3>4, <3>5, <3>6, CountedMap
  <2>4. ~doubled'[e] => \A r \in Queues : After(r, e) = {}
    <3> SUFFICES ASSUME ~doubled[e], NEW r \in Queues, NEW i \in After(r, e)
                 PROVE  FALSE
      BY <1>2
    <3>1. current_queue[e] = q /\ \A j \in Slots(q, e) : j = 1
      BY <1>1, <2>1 DEF Kept, OnlyThere
    <3>2. CASE r = q
      <4>1. i + 1 = 1 /\ i \in Nat \ {0}
        BY <2>1, <3>1, <3>2
      <4> QED BY <4>1
    <3>3. CASE r # q
      BY <1>1, <2>1, <3>1, <3>3 DEF Kept, OnlyThere
    <3> QED BY <3>2, <3>3
  <2>5. \A x \in Actors : ev'[x] = e => pc'[x] # "push" /\ pc'[x] # "erase"
    BY <1>0, <1>1, <1>2, <1>3, AloneAims
  <2>6. ~(closed'[e] /\ ~doubled'[e] /\ e \notin TimerEvents)
    BY <1>1, <1>2, <2>1 DEF Kept, Quiet
  <2>7. KeptAfter(e)
    BY <1>0, <2>2, <2>4, <2>5, <2>6 DEF KeptAfter
  <2> QED BY <2>3, <2>7, KeptAfterIs
<1> QED BY <1>4, <1>5

LEMMA KeptErase ==
  ASSUME EventInv, Typed', StepOf(Timer), TimerErase,
         NEW e \in Events, ev[Timer] = e
  PROVE  \A f \in Events : Kept(f)'
<1> DEFINE q == current_queue[e]
<1>1. /\ Typed /\ LocksOK /\ \A f \in Events : Kept(f)
  BY DEF EventInv
<1>0. Timer \in Actors /\ Timer \notin Queues
  BY ActorKinds
<1>2. /\ pc[Timer] = "erase" /\ evOwner[e] = Timer /\ Erase(q, e) /\ ev' = ev
      /\ UNCHANGED <<current_queue, posts, handled, closed, doubled, shutdown_started>>
      /\ \/ pc'[Timer] = "die"
         \/ shutdown_started /\ pc'[Timer] = "posted"
         \/ ~shutdown_started /\ pc'[Timer] = "resolve" /\ dest'[Timer] = FailSafe
  <2>1. pc[Timer] = "erase" /\ Holds(Timer)
    BY DEF TimerErase, Holds, HandPlaces
  <2> QED BY <1>0, <1>1, <2>1
          DEF TimerErase, LocksOK, Goto, Typed, TypeOK, PlacesOK, stopVars, history
<1>3. AloneWith(Timer, e)
  BY <1>0, <1>1, <1>2, Alone DEF AloneWith
<1>4. q \in Queues
  BY <1>0, <1>1, <1>2 DEF Kept, Aims, Typed, TypeOK
<1>5. ASSUME NEW f \in Events, f # e PROVE Kept(f)'
  <2>1. Shifted(f)
    BY <1>1, <1>2, <1>4, <1>5, EraseLeaves
  <2>2. Passes(Timer, f)
    BY <1>2, <1>5 DEF Passes, MovesAfter, Moves
  <2>3. SameBooks(f)
    BY <1>2 DEF SameBooks
  <2> QED BY <1>0, <1>1, <2>1, <2>2, <2>3, KeptFrame
<1>6. Kept(e)'
  <2>1. /\ \A r \in Queues \ {q} : After(r, e) = Slots(r, e)
        /\ After(q, e) = {}
    BY <1>1, <1>2, <1>4, EraseLeaves
  <2>2. ~Moves(Timer, e)
    BY <1>2 DEF Moves
  <2>3. Counted(e)'
    <3>1. Counted(e) /\ handled[e] \in Nat /\ posts[e] \in Nat
      BY <1>1 DEF Kept, Typed, TypeOK
    <3>2. CASE ~CarriesAfter(Timer, e)
      <4>1. \A x \in Actors : CarriesAfter(x, e) => Carries(x, e)
        BY <1>3, <3>2 DEF AloneWith
      <4>2. \A r \in Queues : After(r, e) \subseteq Slots(r, e)
        BY <2>1
      <4>3. <<Timer, 0>> \in Actors \X Nat
        BY <1>0
      <4> QED BY <1>1, <1>2, <3>1, <4>1, <4>2, <4>3, CountedLess
    <3>3. CASE CarriesAfter(Timer, e)
      <4>1. ~shutdown_started /\ ~Moving(e)
        BY <1>0, <1>1, <1>2, <1>3, <2>2, <3>3, AloneAims DEF CarriesAfter
      <4>2. PICK i \in Slots(q, e) : TRUE
        BY <1>1, <1>4, <4>1, ActorKinds DEF Kept, OnCurrent
      <4> DEFINE h == [p \in Actors \X Nat |-> IF p[2] = 0 THEN <<q, i>> ELSE p]
      <4>3. \A p \in Actors \X Nat : h[p] = IF p[2] = 0 THEN <<q, i>> ELSE p
        OBVIOUS
      <4> HIDE DEF h, q
      <4>4. \A p \in PendingAfter(e) :
              /\ p \in Actors \X Nat
              /\ p[2] # 0 => p[1] \in Queues \ {q} /\ p[2] \in Slots(p[1], e)
              /\ p[2] = 0 => p = <<Timer, 0>>
        <5> SUFFICES ASSUME NEW p \in PendingAfter(e)
                     PROVE  /\ p \in Actors \X Nat
                            /\ p[2] # 0 => p[1] \in Queues \ {q} /\ p[2] \in Slots(p[1], e)
                            /\ p[2] = 0 => p = <<Timer, 0>>
          OBVIOUS
        <5>1. /\ p \in Actors \X Nat
              /\ \/ p[1] \in Queues /\ p[2] \in After(p[1], e)
                 \/ p[2] = 0 /\ CarriesAfter(p[1], e)
          BY DEF PendingAfter
        <5>2. CASE p[2] = 0
          <6>1. CarriesAfter(p[1], e)
            BY <5>1, <5>2, AfterOfSeq
          <6>2. p[1] = Timer
            BY <1>3, <5>1, <6>1 DEF AloneWith
          <6> QED BY <5>1, <5>2, <6>2
        <5>3. CASE p[2] # 0
          <6>1. p[1] \in Queues /\ p[2] \in After(p[1], e)
            BY <5>1, <5>3
          <6>2. p[1] # q
            BY <2>1, <6>1
          <6> QED BY <2>1, <5>1, <5>3, <6>1, <6>2
        <5> QED BY <5>2, <5>3
      <4>5. \A p \in PendingAfter(e) : h[p] \in Pending(e)
        <5> SUFFICES ASSUME NEW p \in PendingAfter(e) PROVE h[p] \in Pending(e)
          OBVIOUS
        <5>1. CASE p[2] = 0
          <6>1. h[p] = <<q, i>> /\ q \in Actors /\ i \in Nat
            BY <1>1, <1>4, <4>2, <4>3, <4>4, <5>1, ActorKinds, SlotsOfSeq
          <6> QED BY <1>4, <4>2, <6>1 DEF Pending
        <5>2. CASE p[2] # 0
          BY <4>3, <4>4, <5>2 DEF Pending
        <5> QED BY <5>1, <5>2
      <4>6. \A p1, p2 \in PendingAfter(e) : h[p1] = h[p2] => p1 = p2
        <5> SUFFICES ASSUME NEW p1 \in PendingAfter(e), NEW p2 \in PendingAfter(e), h[p1] = h[p2]
                     PROVE  p1 = p2
          OBVIOUS
        <5>1. /\ h[p1] = IF p1[2] = 0 THEN <<q, i>> ELSE p1
              /\ h[p2] = IF p2[2] = 0 THEN <<q, i>> ELSE p2
          BY <4>3, <4>4
        <5>2. \A p \in PendingAfter(e) : p[2] # 0 => p # <<q, i>>
          BY <4>4
        <5>3. CASE p1[2] = 0
          BY <4>4, <5>1, <5>2, <5>3
        <5>4. CASE p1[2] # 0
          BY <4>4, <5>1, <5>2, <5>4
        <5> QED BY <5>3, <5>4
      <4>7. Pending(e)' = PendingAfter(e)
        BY PendingAfterIs
      <4> QED BY <1>2, <3>1, <4>5, <4>6, <4>7, CountedMap
    <3> QED BY <3>2, <3>3
  <2>4. ~doubled'[e] => \A r \in Queues : After(r, e) = {}
    <3> SUFFICES ASSUME ~doubled[e], NEW r \in Queues \ {q}, NEW i \in Slots(r, e)
                 PROVE  FALSE
      BY <1>2, <2>1
    <3> QED BY <1>1 DEF Kept, OnlyThere
  <2>5. \A x \in Actors : ev'[x] = e => pc'[x] # "push" /\ pc'[x] # "erase"
    BY <1>0, <1>1, <1>2, <1>3, AloneAims
  <2>6. shutdown_started' \/ \E x \in Actors : MovesAfter(x, e)
    BY <1>0, <1>2 DEF MovesAfter
  <2>7. ASSUME closed'[e], ~doubled'[e], e \notin TimerEvents
        PROVE  /\ shutdown_started' /\ ~CarriesAfter(Timer, e)
               /\ \A r \in Queues : ev'[r] = e => pc'[r] \notin {"taken", "do_it"}
    <3>1. shutdown_started
      <4>1. \A x \in Actors \ {Timer} : ev[x] = e => pc[x] # "push"
        BY <1>3 DEF AloneWith, Inside, HandPlaces, PostPlaces
      <4> QED BY <1>1, <1>2, <1>4, <2>7, <4>1, ActorKinds DEF Kept, Quiet
    <3>2. \A r \in Queues : ev'[r] = e => pc'[r] \notin {"taken", "do_it"}
      BY <1>0, <1>1, <1>3, AloneAims, ActorKinds
    <3> QED BY <1>2, <3>1, <3>2 DEF CarriesAfter
  <2>8. KeptAfter(e)
    BY <2>4, <2>5, <2>6, <2>7 DEF KeptAfter
  <2> QED BY <2>3, <2>8, KeptAfterIs
<1> QED BY <1>5, <1>6

-----------------------------------------------------------------------------
(* The other steps pass every event by. *)

\* A step that moves no event: the queues are as they were, and a thread that
\* goes on holding an event has not just put it on its way.
Aside(a) ==
  /\ list' = list
  /\ UNCHANGED <<current_queue, posts, handled, closed, doubled>>
  /\ shutdown_started => shutdown_started'
  /\ \/ pc'[a] = pc[a] /\ ev'[a] = ev[a] /\ dest'[a] = dest[a]
     \/ /\ pc[a] \notin {"push", "taken", "die"}
        /\ pc[a] = "resolve" => dest[a] # FailSafe
        /\ pc'[a] \notin {"push", "taken", "die"}
        /\ pc'[a] = "resolve" => dest'[a] # FailSafe
  /\ pc'[a] = "erase" /\ ev'[a] \in Events => current_queue[ev'[a]] # NoQueue
  /\ pc'[a] = "do_it" => ev'[a] = ev[a] /\ pc[a] = "do_it"

LEMMA KeptAside ==
  ASSUME EventInv, Typed', NEW a \in Actors, StepOf(a), Aside(a)
  PROVE  \A f \in Events : Kept(f)'
<1> SUFFICES ASSUME NEW f \in Events PROVE Kept(f)'
  OBVIOUS
<1>1. Typed /\ Kept(f)
  BY DEF EventInv
<1>2. Shifted(f)
  BY <1>1, SameLists DEF Aside
<1>3. SameBooks(f)
  BY DEF Aside, SameBooks
<1>4. Passes(a, f)
  BY DEF Aside, Passes, Moves, MovesAfter
<1> QED BY <1>1, <1>2, <1>3, <1>4, KeptFrame

LEMMA PostKept ==
  ASSUME EventInv, NEW a \in Actors \ {Main}, Post(a)
  PROVE  \A f \in Events : Kept(f)'
<1> USE DEF eventVars, queueVars, timerVars, stopVars, history, Goto
<1>1. Typed /\ Typed' /\ StepOf(a) /\ pc = [x \in Actors |-> pc[x]] /\ ev = [x \in Actors |-> ev[x]]
      /\ dest = [x \in Actors |-> dest[x]]
  BY PostTyped DEF EventInv, Typed, PlacesOK, TypeOK
<1>2. pc[a] \in PostPlaces => ev[a] \in Events
  BY <1>1, PostPlacesOpen DEF Typed, HandsOK
<1>3. CASE PostEnter(a)
  <2>1. /\ pc[a] = "toPost" /\ pc'[a] \in {"posted", "resolve"}
        /\ dest'[a] \in {dest[a], preferred_queue[ev[a]]}
    BY <1>1, <1>3 DEF PostEnter
  <2>2. dest[a] # FailSafe
    BY <1>1, <2>1, ActorKinds DEF Typed, DestsOK
  <2>3. preferred_queue[ev[a]] # FailSafe
    BY <1>1, <1>2, <2>1, ActorKinds DEF Typed, TypeOK, PostPlaces
  <2>4. Aside(a)
    BY <1>3, <2>1, <2>2, <2>3 DEF PostEnter, Aside
  <2> QED BY <1>1, <2>4, KeptAside
<1>4. CASE PostSignal(a)
  <2>1. pc[a] = "signal" /\ pc'[a] = "posted"
    BY <1>1, <1>4 DEF PostSignal, Signalled
  <2>2. Aside(a)
    BY <1>4, <2>1 DEF PostSignal, Aside
  <2> QED BY <1>1, <2>2, KeptAside
<1>5. CASE PostReturn(a)
  <2>1. pc[a] = "posted" /\ \E place \in {"done", "fire", "idle"} : pc' = [pc EXCEPT ![a] = place]
    BY <1>5 DEF PostReturn
  <2>2. pc'[a] \in {"done", "fire", "idle"}
    BY <1>1, <2>1
  <2>3. Aside(a)
    BY <1>5, <2>1, <2>2 DEF PostReturn, Aside
  <2> QED BY <1>1, <2>3, KeptAside
<1>6. CASE PostResolve(a) \/ PostPush(a)
  <2>1. ev[a] \in Events
    BY <1>2, <1>6 DEF PostResolve, PostPush, PostPlaces
  <2>2. PICK e \in Events : ev[a] = e
    BY <2>1
  <2> QED BY <1>1, <1>6, <2>2, KeptResolve, KeptPush
<1> QED BY <1>3, <1>4, <1>5, <1>6 DEF Post

LEMMA ClientKept ==
  ASSUME EventInv, NEW c \in Clients, (\E e \in Events : ClientCall(c, e)) \/ Client(c)
  PROVE  \A f \in Events : Kept(f)'
<1> USE DEF eventVars, queueVars, timerVars, stopVars, history, Goto
<1>1. Typed /\ Typed' /\ StepOf(c) /\ pc = [x \in Actors |-> pc[x]] /\ c \in Actors \ {Main}
  BY ClientTyped, ActorKinds DEF EventInv, Typed, PlacesOK
<1>2. ASSUME NEW e \in Events, ClientCall(c, e) PROVE \A f \in Events : Kept(f)'
  <2>1. /\ pc[c] = "idle"
        /\ pc' = pc \/ \E place \in {"toPost", "toClose"} : pc' = [pc EXCEPT ![c] = place]
        /\ list' = list /\ UNCHANGED <<current_queue, posts, handled, closed, doubled,
                                       shutdown_started>>
    BY <1>2 DEF ClientCall, ClientPost, ClientClose, ClientTimerStart
  <2>2. pc'[c] \in {"idle", "toPost", "toClose"}
    BY <1>1, <2>1
  <2>3. Aside(c)
    BY <2>1, <2>2 DEF Aside
  <2> QED BY <1>1, <2>3, KeptAside
<1>3. CASE CloseEnter(c)
  <2>1. pc[c] = "toClose" /\ pc'[c] = "closing"
    BY <1>1, <1>3 DEF CloseEnter
  <2>2. Aside(c)
    BY <1>3, <2>1 DEF CloseEnter, Aside
  <2> QED BY <1>1, <2>2, KeptAside
<1>4. CASE CloseRemove(c)
  <2>1. PICK e \in Events : ev[c] = e
    BY <1>1, <1>4 DEF CloseRemove, Typed, HandsOK, HandPlaces
  <2> QED BY <1>1, <1>4, <2>1, KeptCloseRemove
<1> QED BY <1>1, <1>2, <1>3, <1>4, PostKept DEF Client

LEMMA WorkerKept ==
  ASSUME EventInv, NEW q \in Queues, Worker(q) \/ WorkerSpurious(q)
  PROVE  \A f \in Events : Kept(f)'
<1> USE DEF eventVars, queueVars, timerVars, stopVars, history, Goto
<1>1. Typed /\ Typed' /\ StepOf(q) /\ pc = [x \in Actors |-> pc[x]] /\ q \in Actors \ {Main}
  BY WorkerTyped, ActorKinds DEF EventInv, Typed, PlacesOK
<1>2. CASE \/ WorkerLoop(q) \/ WorkerSpurious(q) \/ WorkerScanEnd(q)
           \/ WorkerDoIt(q) \/ WorkerDone(q)
  <2>1. /\ pc[q] \in {"idle", "asleep", "scan", "do_it", "done"}
        /\ \E place \in {"idle", "exited", "asleep", "scan", "done", "toPost"} :
             pc' = [pc EXCEPT ![q] = place]
        /\ list' = list /\ UNCHANGED <<current_queue, posts, handled, closed, doubled,
                                       shutdown_started>>
    BY <1>2 DEF WorkerLoop, WorkerSpurious, WorkerScanEnd, WorkerDoIt, WorkerDone
  <2>2. pc'[q] \in {"idle", "exited", "asleep", "scan", "done", "toPost"}
    BY <1>1, <2>1
  <2>3. Aside(q)
    BY <2>1, <2>2 DEF Aside
  <2> QED BY <1>1, <2>3, KeptAside
<1>3. CASE WorkerTake(q)
  <2>1. Head(list[q]) \in Events
    BY <1>1, <1>3 DEF WorkerTake, Typed, TypeOK
  <2>2. PICK e \in Events : e = Head(list[q])
    BY <2>1
  <2> QED BY <1>1, <1>3, <2>2, KeptTake
<1>4. CASE WorkerHandle(q)
  <2>1. PICK e \in Events : ev[q] = e
    BY <1>1, <1>4 DEF WorkerHandle, Typed, HandsOK, HandPlaces
  <2> QED BY <1>1, <1>4, <2>1, KeptHandle
<1> QED BY <1>1, <1>2, <1>3, <1>4, PostKept DEF Worker

LEMMA TimerKept ==
  ASSUME EventInv, TimerThread \/ \E S \in (SUBSET Due) \ {{}} : TimerExpire(S)
  PROVE  \A f \in Events : Kept(f)'
<1> USE DEF eventVars, queueVars, timerVars, stopVars, history, Goto
<1>1. /\ Typed /\ Typed' /\ StepOf(Timer) /\ pc = [x \in Actors |-> pc[x]]
      /\ ev = [x \in Actors |-> ev[x]] /\ Timer \in Actors \ {Main}
  BY TimerTyped, ActorKinds DEF EventInv, Typed, PlacesOK, TypeOK
<1>2. CASE \/ \E S \in (SUBSET Due) \ {{}} : TimerExpire(S)
           \/ \E e \in expired : TimerFirst(e)
           \/ TimerExit
  <2>1. /\ pc[Timer] \in {"idle", "fire"}
        /\ \E place \in {"fire", "toPost", "exited"} : pc' = [pc EXCEPT ![Timer] = place]
        /\ list' = list /\ UNCHANGED <<current_queue, posts, handled, closed, doubled,
                                       shutdown_started>>
    BY <1>2 DEF TimerExpire, TimerFirst, TimerExit
  <2>2. pc'[Timer] \in {"fire", "toPost", "exited"}
    BY <1>1, <2>1
  <2>3. Aside(Timer)
    BY <2>1, <2>2 DEF Aside
  <2> QED BY <1>1, <2>3, KeptAside
<1>3. ASSUME NEW e \in expired, TimerLate(e) PROVE \A f \in Events : Kept(f)'
  <2>1. /\ pc[Timer] = "fire"
        /\ pc' = [pc EXCEPT ![Timer] = IF current_queue[e] = NoQueue THEN "posted" ELSE "erase"]
        /\ ev' = [ev EXCEPT ![Timer] = e]
        /\ list' = list /\ UNCHANGED <<current_queue, posts, handled, closed, doubled,
                                       shutdown_started>>
    BY <1>3 DEF TimerLate
  <2>2. ev'[Timer] = e /\ pc'[Timer] = IF current_queue[e] = NoQueue THEN "posted" ELSE "erase"
    BY <1>1, <2>1
  <2>3. Aside(Timer)
    BY <2>1, <2>2 DEF Aside
  <2> QED BY <1>1, <2>3, KeptAside
<1>4. CASE TimerErase
  <2>1. PICK e \in Events : ev[Timer] = e
    BY <1>1, <1>4 DEF TimerErase, Typed, HandsOK, HandPlaces
  <2> QED BY <1>1, <1>4, <2>1, KeptErase
<1> QED BY <1>1, <1>2, <1>3, <1>4, PostKept DEF TimerThread

LEMMA MainKept ==
  ASSUME EventInv, ShutdownBegin \/ Shutdown
  PROVE  \A f \in Events : Kept(f)'
<1>1. Typed /\ Typed' /\ StepOf(Main) /\ Main \in Actors
  BY MainTyped, ActorKinds DEF EventInv
<1>2. pc[Main] \in MainPlaces /\ pc'[Main] \in MainPlaces
  BY <1>1 DEF Typed, PlacesOK
<1>3. /\ list' = list /\ UNCHANGED <<current_queue, posts, handled, closed, doubled>>
      /\ shutdown_started' = shutdown_started \/ shutdown_started' = TRUE
  BY DEF ShutdownBegin, Shutdown, ExitBegin, ExitLock, JoinWorkers, TimerThreadExit, JoinOthers,
         eventVars, queueVars, timerVars, stopVars, history
<1>4. Aside(Main)
  BY <1>2, <1>3 DEF Aside, MainPlaces
<1> QED BY <1>1, <1>4, KeptAside

-----------------------------------------------------------------------------
(* The invariant, and what follows from it. *)

LEMMA NextLocks ==
  ASSUME EventInv, Next
  PROVE  LocksOK'
<1>0. Typed /\ LocksOK
  BY DEF EventInv
<1>1. ASSUME NEW a \in Actors, StepOf(a), Locks(a) PROVE LocksOK'
  BY <1>0, <1>1, LockStep DEF Locks
<1>2. CASE \E c \in Clients : (\E e \in Events : ClientCall(c, e)) \/ Client(c)
  BY <1>0, <1>1, <1>2, ClientTyped, ClientLocks, ActorKinds
<1>3. CASE \E q \in Queues : Worker(q) \/ WorkerSpurious(q)
  BY <1>0, <1>1, <1>3, WorkerTyped, WorkerLocks, ActorKinds
<1>4. CASE TimerThread \/ \E S \in (SUBSET Due) \ {{}} : TimerExpire(S)
  BY <1>0, <1>1, <1>4, TimerTyped, TimerLocks, ActorKinds
<1>5. CASE ShutdownBegin \/ Shutdown
  BY <1>0, <1>1, <1>5, MainTyped, MainLocks, ActorKinds
<1>6. CASE Finished
  BY <1>0, <1>6 DEF Finished, vars, LocksOK, Holds
<1> QED BY <1>2, <1>3, <1>4, <1>5, <1>6 DEF Next, ClientCall

LEMMA StutterKept ==
  ASSUME EventInv, UNCHANGED vars
  PROVE  EventInv'
<1>1. /\ evOwner' = evOwner /\ list' = list /\ pc' = pc /\ ev' = ev /\ dest' = dest
      /\ UNCHANGED <<current_queue, posts, handled, closed, doubled, shutdown_started>>
  BY DEF vars, eventVars, queueVars, timerVars, stopVars, history
<1>2. Typed'
  BY NextTyped DEF EventInv
<1>3. LocksOK'
  BY <1>1 DEF EventInv, LocksOK, Holds
<1>4. ASSUME NEW f \in Events PROVE Kept(f)'
  <2>1. StepOf(Main) /\ Aside(Main)
    BY <1>1 DEF StepOf, Bystander, Aside, EventInv, Typed, PlacesOK, MainPlaces
  <2> QED BY <1>2, <2>1, KeptAside, ActorKinds
<1> QED BY <1>2, <1>3, <1>4 DEF EventInv

LEMMA NextEvent == EventInv /\ [Next]_vars => EventInv'
<1> SUFFICES ASSUME EventInv, Next PROVE EventInv'
  BY StutterKept
<1>1. Typed'
  BY NextTyped DEF EventInv
<1>2. LocksOK'
  BY NextLocks
<1>3. \A f \in Events : Kept(f)'
  <2>1. CASE \E c \in Clients : (\E e \in Events : ClientCall(c, e)) \/ Client(c)
    BY <2>1, ClientKept
  <2>2. CASE \E q \in Queues : Worker(q) \/ WorkerSpurious(q)
    BY <2>2, WorkerKept
  <2>3. CASE TimerThread \/ \E S \in (SUBSET Due) \ {{}} : TimerExpire(S)
    BY <2>3, TimerKept
  <2>4. CASE ShutdownBegin \/ Shutdown
    BY <2>4, MainKept
  <2>5. CASE Finished
    BY <2>5, StutterKept DEF Finished, EventInv
  <2> QED BY <2>1, <2>2, <2>3, <2>4, <2>5 DEF Next, ClientCall
<1> QED BY <1>1, <1>2, <1>3 DEF EventInv

LEMMA InitEvent == Init => EventInv
<1> SUFFICES ASSUME Init PROVE EventInv
  OBVIOUS
<1>1. Typed
  BY InitTyped
<1>2. \A a \in Actors : ~Holds(a) /\ ev[a] = Nobody
  BY DEF Init, Holds, HandPlaces, PostPlaces
<1>3. LocksOK
  BY <1>2, ActorKinds DEF LocksOK, Init
<1>4. ASSUME NEW f \in Events PROVE Kept(f)
  <2>1. \A q \in Queues : Slots(q, f) = {}
    BY DEF Init, Slots
  <2>2. \A a \in Actors : ev[a] # f
    BY <1>2, ActorKinds
  <2>3. Pending(f) = {}
    BY <2>1, <2>2 DEF Pending, Carries
  <2>4. Counted(f)
    BY <2>3, FS_EmptySet DEF Counted, Init
  <2>5. OnCurrent(f) /\ Quiet(f)
    BY DEF OnCurrent, Quiet, Init
  <2>6. OnlyThere(f) /\ Aims(f)
    BY <2>1, <2>2 DEF OnlyThere, Aims
  <2> QED BY <2>4, <2>5, <2>6 DEF Kept
<1> QED BY <1>1, <1>3, <1>4 DEF EventInv

\* The inductive invariant holds: every thread is where its kind can be, with
\* what it then needs in hand; monitors exclude; and of each event the queues,
\* current_queue, the posts and the threads on their way agree.
THEOREM EventInvariant == Spec => []EventInv
<1>1. Init => EventInv
  BY InitEvent
<1>2. EventInv /\ [Next]_vars => EventInv'
  BY NextEvent
<1> QED BY <1>1, <1>2, PTL DEF Spec

\* Every variable of the event system has its type: a queue holds events only,
\* current_queue is a queue or null, the round robin holds workers' queues, for
\* any events, threads and bounds.
THEOREM EventTypes == Spec => []TypeOK
<1>1. EventInv => TypeOK
  BY DEF EventInv, Typed
<1> QED BY <1>1, EventInvariant, PTL

LEMMA HeldWhileMoved ==
  ASSUME EventInv, NEW e \in Events, evOwner[e] = Nobody
  PROVE  ~Moving(e)
<1> SUFFICES ASSUME NEW a \in Actors, Moves(a, e) PROVE FALSE
  BY DEF Moving
<1>1. Holds(a) /\ ev[a] = e
  BY DEF Moves, Holds, HandPlaces, PostPlaces
<1> QED BY <1>1, ActorKinds DEF EventInv, LocksOK

\* An event nobody is calling is on the queue it remembers, once, and on no
\* other, whatever posts, closes, time-outs and workers did to it: as long as
\* it was not posted while queued, and until a shutdown.
THEOREM EventOnItsQueue == Spec => []CurrentQueueAccurate
<1>1. ASSUME EventInv, NEW e \in Events, evOwner[e] = Nobody, ~shutdown_started, ~doubled[e],
             NEW q \in Queues
      PROVE  Cardinality(Slots(q, e)) = IF q = current_queue[e] THEN 1 ELSE 0
  <2>1. /\ ~Moving(e) /\ OnCurrent(e)
        /\ \A i \in Slots(q, e) : current_queue[e] = q /\ \A j \in Slots(q, e) : i = j
    BY <1>1, HeldWhileMoved DEF EventInv, Kept, OnlyThere
  <2>2. CASE q = current_queue[e]
    <3>1. PICK i \in Slots(q, e) : TRUE
      BY <1>1, <2>1, <2>2, ActorKinds DEF OnCurrent
    <3>2. Slots(q, e) = {i}
      BY <2>1
    <3> QED BY <2>2, <3>2, FS_Singleton
  <2>3. CASE q # current_queue[e]
    <3>1. Slots(q, e) = {}
      BY <2>1, <2>3
    <3> QED BY <2>3, <3>1, FS_EmptySet
  <2> QED BY <2>2, <2>3
<1>2. EventInv => CurrentQueueAccurate
  BY <1>1 DEF CurrentQueueAccurate
<1> QED BY <1>2, EventInvariant, PTL

\* An event is run no more often than it was posted: late or moved to the
\* fail-safe queue, posted again by its handler or closed, each post is one
\* entry of a queue or one thread's hand, and is handled once.
THEOREM NeverRunTooOften == Spec => []HandledAtMostPosted
<1>1. ASSUME EventInv, NEW e \in Events
      PROVE  handled[e] <= posts[e]
  <2>1. /\ IsFiniteSet(Pending(e)) /\ handled[e] + Cardinality(Pending(e)) <= posts[e]
        /\ handled[e] \in Nat /\ posts[e] \in Nat
    BY <1>1 DEF EventInv, Kept, Counted, Typed, TypeOK
  <2>2. Cardinality(Pending(e)) \in Nat
    BY <2>1, FS_CardinalityType
  <2> QED BY <2>1, <2>2
<1>2. EventInv => HandledAtMostPosted
  BY <1>1 DEF HandledAtMostPosted
<1> QED BY <1>2, EventInvariant, PTL

\* ClosedStaysQuiet, of the events that are no TimerEvents.
PlainStaysQuiet ==
  \A e \in Events \ TimerEvents : closed[e] /\ ~doubled[e] =>
    /\ \A q \in Queues : Slots(q, e) = {}
    /\ \A q \in Queues : ev[q] = e => pc[q] \notin {"taken", "do_it"}

\* Once close() of a plain event has returned it is on no queue and is not run,
\* until it is posted again.  A TimerEvent is excepted: its time-out posts it
\* without a test, whether it has been closed or not (TimerEvent.cc:30-38).
THEOREM ClosedPlainEventQuiet == Spec => []PlainStaysQuiet
<1>1. EventInv => PlainStaysQuiet
  BY DEF EventInv, Kept, Quiet, PlainStaysQuiet
<1> QED BY <1>1, EventInvariant, PTL

\* So every closed event stays quiet in a program that has no TimerEvents.
THEOREM ClosedEventQuiet ==
  ASSUME TimerEvents = {}
  PROVE  Spec => []ClosedStaysQuiet
<1>1. PlainStaysQuiet => ClosedStaysQuiet
  BY DEF PlainStaysQuiet, ClosedStaysQuiet
<1> QED BY <1>1, ClosedPlainEventQuiet, PTL
=============================================================================
