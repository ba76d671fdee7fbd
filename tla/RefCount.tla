------------------------------- MODULE RefCount -------------------------------
(***************************************************************************)
(* The reference counts of one Base (base/Base.h): ref(), deref(),          *)
(* weakRef(), weakDeref() and the weakDelete() that deref() calls with the  *)
(* mutex released.                                                          *)
(*                                                                          *)
(* A thread gets at the object through a holder, an AutoWeakDeref in another*)
(* object: in that object's monitor it reads the pointer and takes a        *)
(* reference (ServerActor::act, the reader's event factories).  weakDelete()*)
(* closes the holders in Closed, in their monitors (Actor::close()); the    *)
(* others go when their own users drop them.                                *)
(*                                                                          *)
(* What is done in the mutex is one step.  The one place where deref()      *)
(* counts without the mutex, after a weakDelete() that returned false, is   *)
(* two: it reads, and it writes.                                            *)
(***************************************************************************)
EXTENDS Integers, FiniteSets

CONSTANTS
  Threads,
  Owners,   \* the threads that have a reference at the start
  Holders,  \* the weak references
  Closed,   \* those weakDelete() closes
  MaxRefs   \* bound on the references taken through holders

ASSUME SetsAssumption ==
  /\ IsFiniteSet(Threads) /\ Owners \subseteq Threads /\ Owners # {}
  /\ IsFiniteSet(Holders) /\ Closed \subseteq Holders
ASSUME MaxRefsAssumption == MaxRefs \in Nat

VARIABLES
  ref_count, weak_ref_count,
  strong,    \* the threads whose reference is counted
  attached,  \* the holders that point to the object
  pc,        \* where each thread is in deref()
  todo,      \* the holders weakDelete() has still to close
  count,     \* what a thread read of ref_count without the mutex
  deletes,   \* how often the destructor ran
  loose,     \* history: a thread went round its loop without the mutex
  refs       \* references taken through holders

vars == <<ref_count, weak_ref_count, strong, attached, pc, todo, count, deletes, loose, refs>>

Init ==
  /\ ref_count = Cardinality(Owners)
  /\ weak_ref_count = Cardinality(Holders)
  /\ strong = Owners
  /\ attached = Holders
  /\ pc = [t \in Threads |-> "out"]
  /\ todo = [t \in Threads |-> {}]
  /\ count = [t \in Threads |-> 0]
  /\ deletes = 0
  /\ loose = FALSE
  /\ refs = 0

-----------------------------------------------------------------------------
At(t, here) == pc[t] = here
Goto(t, there) == pc' = [pc EXCEPT ![t] = there]

\* Seeded fault: the test for new references is left out.
Resurrected_WeakOnly == weak_ref_count # 0

\* "See if we have been ressurected."
Resurrected == ref_count > 1 \/ weak_ref_count # 0

\* Seeded fault: weakDelete() forgets its holders.
ToClose_Nothing == {}

\* What weakDelete() closes.
ToClose == Closed

\* Through a holder in its monitor: read the pointer, ref().
Ref(t, h) ==
  /\ At(t, "out") /\ t \notin strong
  /\ h \in attached
  /\ refs < MaxRefs
  /\ refs' = refs + 1
  /\ ref_count' = ref_count + 1
  /\ strong' = strong \cup {t}
  /\ UNCHANGED <<weak_ref_count, attached, pc, todo, count, deletes, loose>>

\* --ref_count in the mutex: the last reference is put back for the time
\* weakDelete() takes, any other is gone and deref() returns.
CountDown(t) ==
  IF ref_count = 1
  THEN Goto(t, "check") /\ UNCHANGED <<ref_count, strong>>
  ELSE Goto(t, "out") /\ ref_count' = ref_count - 1 /\ strong' = strong \ {t}

Deref(t) ==
  /\ At(t, "out") /\ t \in strong
  /\ CountDown(t)
  /\ UNCHANGED <<weak_ref_count, attached, todo, count, deletes, loose, refs>>

\* weak_ref_count == 0, read without the mutex, or weakDelete().
Check(t) ==
  /\ At(t, "check")
  /\ IF weak_ref_count = 0
     THEN Goto(t, "relock") /\ UNCHANGED todo
     ELSE Goto(t, "clean") /\ todo' = [todo EXCEPT ![t] = ToClose]
  /\ UNCHANGED <<ref_count, weak_ref_count, strong, attached, count, deletes, loose, refs>>

\* Seeded fault: the pointer is given up, its count is not.
WeakDeref_Uncounted(h) == attached' = attached \ {h} /\ UNCHANGED <<weak_ref_count, deletes>>

\* weakDeref() of a holder that is attached; the last one deletes an object
\* nobody refers to.
WeakDeref(h) ==
  /\ attached' = attached \ {h}
  /\ weak_ref_count' = weak_ref_count - 1
  /\ deletes' = IF weak_ref_count = 1 /\ ref_count = 0 THEN deletes + 1 ELSE deletes

\* weakDelete() closes a holder: Synchronized, parent = NULL.
CloseHolder(t, h) ==
  /\ At(t, "clean") /\ h \in todo[t]
  /\ todo' = [todo EXCEPT ![t] = @ \ {h}]
  /\ IF h \in attached THEN WeakDeref(h)
     ELSE UNCHANGED <<attached, weak_ref_count, deletes>>
  /\ UNCHANGED <<ref_count, strong, pc, count, loose, refs>>

\* Base::weakDelete(), the end of every weakDelete(): what it returns.
Verdict(t) ==
  /\ At(t, "clean") /\ todo[t] = {}
  /\ Goto(t, IF weak_ref_count = 0 THEN "relock" ELSE "race")
  /\ loose' = (loose \/ weak_ref_count # 0)
  /\ UNCHANGED <<ref_count, weak_ref_count, strong, attached, todo, count, deletes, refs>>

\* Seeded fault: deref() returns with its reference still counted.
Continue_Returns(t) == Goto(t, "out") /\ strong' = strong \ {t} /\ UNCHANGED ref_count

\* continue: count down again, in the mutex.
Continue(t) == CountDown(t)

\* The mutex again: round the loop if somebody came back, or delete this.
Relock(t) ==
  /\ At(t, "relock")
  /\ IF Resurrected
     THEN Continue(t) /\ UNCHANGED deletes
     ELSE /\ strong' = strong \ {t}
          /\ deletes' = deletes + 1
          /\ Goto(t, "out")
          /\ UNCHANGED ref_count
  /\ UNCHANGED <<weak_ref_count, attached, todo, count, loose, refs>>

\* weakDelete() returned false: --ref_count without the mutex, the read ...
Race(t) ==
  /\ At(t, "race")
  /\ count' = [count EXCEPT ![t] = ref_count]
  /\ Goto(t, "raced")
  /\ UNCHANGED <<ref_count, weak_ref_count, strong, attached, todo, deletes, loose, refs>>

\* ... and the write.  Unless it is zero the loop ends, and a mutex is unlocked
\* that this thread does not hold.
Raced(t) ==
  /\ At(t, "raced")
  /\ ref_count' = count[t] - 1
  /\ IF count[t] = 1 THEN Goto(t, "reset") /\ UNCHANGED strong
     ELSE Goto(t, "out") /\ strong' = strong \ {t}
  /\ UNCHANGED <<weak_ref_count, attached, todo, count, deletes, loose, refs>>

\* ref_count = 1, unless assert(ref_count == 0) or assert(loop_count < 1000)
\* ends the process.
Reset(t) ==
  /\ At(t, "reset")
  /\ ref_count = 0
  /\ ref_count' = 1
  /\ Goto(t, "check")
  /\ UNCHANGED <<weak_ref_count, strong, attached, todo, count, deletes, loose, refs>>

\* The user of a holder that is not closed drops it.
Release(h) ==
  /\ h \in attached \ Closed
  /\ WeakDeref(h)
  /\ UNCHANGED <<ref_count, strong, pc, todo, count, loose, refs>>

-----------------------------------------------------------------------------
DerefStep(t) ==
  \/ Deref(t) \/ Check(t) \/ Verdict(t) \/ Relock(t)
  \/ Race(t) \/ Raced(t) \/ Reset(t)
  \/ \E h \in Holders : CloseHolder(t, h)

Next ==
  \/ \E t \in Threads : DerefStep(t) \/ \E h \in Holders : Ref(t, h)
  \/ \E h \in Holders : Release(h)

Spec == Init /\ [][Next]_vars

\* A thread gives its reference back, and deref() returns.
FairSpec == Spec /\ \A t \in Threads : WF_vars(DerefStep(t))

-----------------------------------------------------------------------------
(* Properties. *)

TypeOK ==
  /\ {ref_count, weak_ref_count} \subseteq Int
  /\ strong \subseteq Threads /\ attached \subseteq Holders
  /\ pc \in [Threads -> {"out", "check", "clean", "relock", "race", "raced", "reset"}]
  /\ todo \in [Threads -> SUBSET Closed]
  /\ count \in [Threads -> Int]
  /\ deletes \in Nat /\ loose \in BOOLEAN /\ refs \in 0 .. MaxRefs

\* The destructor runs once and only when nobody has a reference, strong or
\* weak, however a thread that comes through a holder and the one that gives
\* the last reference back are interleaved.  (As long as no weakDelete() has
\* returned false: then the counts are no longer kept in the mutex.)
HeldIsAlive ==
  ~loose => deletes \in {0, 1} /\ (deletes = 1 => strong = {} /\ attached = {})

\* The counts are the references there are, that of the thread in weakDelete()
\* included.
CountsAgree ==
  ~loose /\ deletes = 0 =>
    ref_count = Cardinality(strong) /\ weak_ref_count = Cardinality(attached)

\* Two threads never tear the object down at once.
OneTearsDown ==
  ~loose => \A s, t \in Threads : ~At(s, "out") /\ ~At(t, "out") => s = t

\* deref() goes round its loop without the mutex only when somebody uses a
\* holder weakDelete() does not close: a class that closes all its holders is
\* always counted in the mutex.
LooseOnlyByOthers == [][loose' /\ ~loose => attached \ Closed # {}]_vars

\* An object whose references are all given back is deleted, unless a holder
\* outlived weakDelete().
DeletedInTheEnd == <>(deletes > 0 \/ loose)
=============================================================================
