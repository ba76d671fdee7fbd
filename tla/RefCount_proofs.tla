---------------------------- MODULE RefCount_proofs ----------------------------
(***************************************************************************)
(* The object is deleted once, when nobody has a reference: for any number  *)
(* of threads and holders.                                                  *)
(*                                                                          *)
(* HeldIsAlive needs the counts to be exact (CountsAgree), and that a thread *)
(* that tears the object down still has its own reference (Counted): so a   *)
(* count of one means that it is alone.                                     *)
(***************************************************************************)
EXTENDS RefCount, FiniteSetTheorems, TLAPS

Places == {"out", "check", "clean", "relock", "race", "raced", "reset"}

\* What the steps below need to know of the variables' types.
Types ==
  /\ ref_count \in Int /\ weak_ref_count \in Int
  /\ strong \subseteq Threads /\ attached \subseteq Holders
  /\ pc \in [Threads -> Places]
  /\ deletes \in Nat /\ loose \in BOOLEAN

\* While the counts are kept in the mutex, a thread in deref() has its
\* reference, and none is past a weakDelete() that returned false.
Counted ==
  ~loose => \A t \in Threads :
    /\ pc[t] \in {"out", "check", "clean", "relock"}
    /\ pc[t] # "out" => t \in strong

IInv == Types /\ HeldIsAlive /\ CountsAgree /\ OneTearsDown /\ Counted

-----------------------------------------------------------------------------
\* Taking an element out of a finite set takes one off its cardinality; of a
\* set with one element nothing is left.
LEMMA TakeOut ==
  ASSUME NEW S, IsFiniteSet(S), NEW x \in S
  PROVE  /\ Cardinality(S) \in Nat /\ Cardinality(S) >= 1
         /\ Cardinality(S \ {x}) = Cardinality(S) - 1
         /\ Cardinality(S) = 1 => S = {x}
<1>1. Cardinality(S) \in Nat /\ IsFiniteSet(S \ {x}) /\ Cardinality(S \ {x}) = Cardinality(S) - 1
  BY FS_RemoveElement, FS_CardinalityType
<1>2. Cardinality(S \ {x}) \in Nat
  BY <1>1, FS_CardinalityType
<1>3. Cardinality(S \ {x}) = 0 => S \ {x} = {}
  BY <1>1, FS_EmptySet
<1> QED
  BY <1>1, <1>2, <1>3

\* The sets that are counted are finite.
LEMMA Finite ==
  ASSUME Types
  PROVE  IsFiniteSet(strong) /\ IsFiniteSet(attached)
  BY SetsAssumption, FS_Subset DEF Types

\* It holds at the start.
LEMMA InitIInv == Init => IInv
<1> SUFFICES ASSUME Init PROVE IInv
  OBVIOUS
<1>1. Cardinality(Owners) \in Nat /\ Cardinality(Holders) \in Nat
  BY SetsAssumption, FS_Subset, FS_CardinalityType
<1>2. Types
  <2>1. ref_count \in Int /\ weak_ref_count \in Int
    BY <1>1 DEF Init
  <2>2. pc \in [Threads -> Places]
    BY DEF Init, Places
  <2>3. strong \subseteq Threads /\ attached \subseteq Holders
    BY SetsAssumption DEF Init
  <2>4. deletes \in Nat /\ loose \in BOOLEAN
    BY DEF Init
  <2> QED
    BY <2>1, <2>2, <2>3, <2>4 DEF Types
<1>3. HeldIsAlive /\ CountsAgree
  BY DEF Init, HeldIsAlive, CountsAgree
<1>4. OneTearsDown /\ Counted
  BY DEF Init, OneTearsDown, Counted, At
<1> QED
  BY <1>2, <1>3, <1>4 DEF IInv

\* Once a thread has counted without the mutex only the types are promised.
LEMMA LooseIInv ==
  ASSUME Types', loose'
  PROVE  IInv'
  BY DEF IInv, HeldIsAlive, CountsAgree, OneTearsDown, Counted

\* What --ref_count in the mutex does, whichever way it goes.
LEMMA CountDownIInv ==
  ASSUME IInv, ~loose, deletes = 0, NEW t \in Threads, t \in strong, CountDown(t),
         UNCHANGED <<weak_ref_count, attached, deletes, loose>>
  PROVE  IInv'
<1> USE DEF IInv, At
<1>1. /\ Cardinality(strong) >= 1 /\ Cardinality(strong \ {t}) = Cardinality(strong) - 1
      /\ Cardinality(strong) = 1 => strong = {t}
  BY Finite, TakeOut
<1>2. ref_count = Cardinality(strong) /\ weak_ref_count = Cardinality(attached)
  BY DEF CountsAgree
<1>3. CASE ref_count = 1
  <2>1. strong = {t} /\ strong' = strong /\ ref_count' = ref_count /\ pc' = [pc EXCEPT ![t] = "check"]
    BY <1>1, <1>2, <1>3 DEF CountDown, Goto
  <2>2. \A s \in Threads : s # t => pc[s] = "out"
    BY <2>1 DEF Counted
  <2> QED
    BY <1>2, <2>1, <2>2 DEF Types, Places, HeldIsAlive, CountsAgree, OneTearsDown, Counted
<1>4. CASE ref_count # 1
  <2>1. /\ strong' = strong \ {t} /\ ref_count' = ref_count - 1
        /\ pc' = [pc EXCEPT ![t] = "out"]
    BY <1>4 DEF CountDown, Goto
  <2>2. CountsAgree'
    BY <1>1, <1>2, <2>1 DEF CountsAgree
  <2> QED
    BY <2>1, <2>2 DEF Types, Places, HeldIsAlive, OneTearsDown, Counted
<1> QED
  BY <1>3, <1>4

\* What weakDeref() of an attached holder does, when it is not the one that
\* finds the strong count at zero, or when nobody has a strong reference.
LEMMA WeakDerefIInv ==
  ASSUME IInv, ~loose, NEW h \in attached, WeakDeref(h),
         UNCHANGED <<ref_count, strong, pc, loose>>
  PROVE  IInv'
<1> USE DEF IInv
<1>1. /\ Cardinality(attached) >= 1 /\ Cardinality(attached \ {h}) = Cardinality(attached) - 1
      /\ Cardinality(attached) = 1 => attached = {h}
  BY Finite, TakeOut
<1>2. deletes = 0
  BY DEF HeldIsAlive
<1>3. ref_count = Cardinality(strong) /\ weak_ref_count = Cardinality(attached)
  BY <1>2 DEF CountsAgree
<1>4. ref_count = 0 => strong = {}
  BY <1>3, Finite, FS_EmptySet
<1> QED
  BY <1>1, <1>2, <1>3, <1>4
  DEF WeakDeref, Types, HeldIsAlive, CountsAgree, OneTearsDown, Counted, At

-----------------------------------------------------------------------------
\* Every step keeps the types.
LEMMA NextTypes == Types /\ Next => Types'
<1> SUFFICES ASSUME Types, Next PROVE Types'
  OBVIOUS
<1> USE DEF Types, Places, Goto, CountDown, Continue, WeakDeref
<1>1. ASSUME NEW t \in Threads, DerefStep(t) PROVE Types'
  <2>1. CASE Deref(t)
    BY <2>1 DEF Deref
  <2>2. CASE Check(t)
    BY <2>2 DEF Check
  <2>3. CASE Verdict(t)
    BY <2>3 DEF Verdict
  <2>4. CASE Relock(t)
    BY <2>4 DEF Relock
  <2>5. CASE Race(t)
    BY <2>5 DEF Race
  <2>6. CASE Raced(t)
    BY <2>6 DEF Raced
  <2>7. CASE Reset(t)
    BY <2>7 DEF Reset
  <2>8. ASSUME NEW h \in Holders, CloseHolder(t, h) PROVE Types'
    BY <2>8 DEF CloseHolder
  <2> QED
    BY <1>1, <2>1, <2>2, <2>3, <2>4, <2>5, <2>6, <2>7, <2>8 DEF DerefStep
<1>2. ASSUME NEW t \in Threads, NEW h \in Holders, Ref(t, h) PROVE Types'
  BY <1>2 DEF Ref
<1>3. ASSUME NEW h \in Holders, Release(h) PROVE Types'
  BY <1>3 DEF Release
<1> QED
  BY <1>1, <1>2, <1>3 DEF Next

\* No step breaks it.
LEMMA NextIInv == IInv /\ [Next]_vars => IInv'
<1> SUFFICES ASSUME IInv, [Next]_vars PROVE IInv'
  OBVIOUS
<1>1. CASE UNCHANGED vars
  BY <1>1 DEF vars, IInv, Types, HeldIsAlive, CountsAgree, OneTearsDown, Counted, At
<1>2. CASE Next /\ loose'
  BY <1>2, NextTypes, LooseIInv DEF IInv
<1>3. CASE Next /\ ~loose'
  <2> USE <1>3
  <2>1. Types' /\ Types
    BY NextTypes DEF IInv
  <2>2. ASSUME NEW t \in Threads, DerefStep(t) PROVE IInv'
    <3>1. CASE Deref(t)
      <4>1. ~loose /\ deletes = 0
        BY <3>1, <2>1 DEF Deref, IInv, HeldIsAlive
      <4> QED
        BY <3>1, <4>1, CountDownIInv DEF Deref
    <3>2. CASE Check(t)
      BY <3>2, <2>1 DEF Check, Goto, IInv, Types, HeldIsAlive, CountsAgree, OneTearsDown,
        Counted, At
    <3>3. CASE Verdict(t)
      BY <3>3, <2>1 DEF Verdict, Goto, IInv, Types, HeldIsAlive, CountsAgree,
        OneTearsDown, Counted, At
    <3>4. CASE Relock(t)
      <4>1. ~loose /\ t \in strong /\ deletes = 0
        BY <3>4, <2>1 DEF Relock, IInv, HeldIsAlive, Counted, At
      <4>2. CASE Resurrected
        BY <3>4, <4>1, <4>2, CountDownIInv DEF Relock, Continue
      <4>3. CASE ~Resurrected
        <5>1. ref_count = Cardinality(strong) /\ weak_ref_count = Cardinality(attached)
          BY <4>1 DEF IInv, CountsAgree
        <5>2. ref_count <= 1 /\ weak_ref_count = 0
          BY <4>3, <2>1 DEF Resurrected, Types
        <5>3. Cardinality(strong) >= 1 /\ (Cardinality(strong) = 1 => strong = {t})
          BY <4>1, <2>1, Finite, TakeOut
        <5>4. strong = {t}
          BY <5>1, <5>2, <5>3, <2>1 DEF Types
        <5>5. attached = {}
          BY <5>1, <5>2, <2>1, Finite, FS_EmptySet
        <5> QED
          BY <3>4, <4>1, <4>3, <5>4, <5>5, <2>1
          DEF Relock, Goto, IInv, Types, HeldIsAlive, CountsAgree, OneTearsDown, Counted, At
      <4> QED
        BY <4>2, <4>3
    <3>5. CASE Race(t) \/ Raced(t) \/ Reset(t)
      BY <3>5, <2>1 DEF Race, Raced, Reset, IInv, Counted, At
    <3>6. ASSUME NEW h \in Holders, CloseHolder(t, h) PROVE IInv'
      <4>1. CASE h \in attached
        BY <3>6, <4>1, WeakDerefIInv DEF CloseHolder
      <4>2. CASE h \notin attached
        BY <3>6, <4>2, <2>1 DEF CloseHolder, IInv, Types, HeldIsAlive, CountsAgree,
          OneTearsDown, Counted, At
      <4> QED
        BY <4>1, <4>2
    <3> QED
      BY <2>2, <3>1, <3>2, <3>3, <3>4, <3>5, <3>6 DEF DerefStep
  <2>3. ASSUME NEW t \in Threads, NEW h \in Holders, Ref(t, h) PROVE IInv'
    <3>1. ~loose /\ deletes = 0
      BY <2>3, <2>1 DEF Ref, IInv, HeldIsAlive
    <3>2. Cardinality(strong \cup {t}) = Cardinality(strong) + 1
      BY <2>3, <2>1, Finite, FS_AddElement DEF Ref
    <3> QED
      BY <2>3, <2>1, <3>1, <3>2 DEF Ref, IInv, Types, HeldIsAlive, CountsAgree,
        OneTearsDown, Counted, At
  <2>4. ASSUME NEW h \in Holders, Release(h) PROVE IInv'
    BY <2>4, WeakDerefIInv DEF Release
  <2> QED
    BY <2>2, <2>3, <2>4 DEF Next
<1> QED
  BY <1>1, <1>2, <1>3

-----------------------------------------------------------------------------
\* The destructor of a Base runs once, when nobody has a reference to it.
THEOREM HeldIsAliveHolds == Spec => []HeldIsAlive
<1>1. IInv => HeldIsAlive
  BY DEF IInv
<1> QED
  BY InitIInv, NextIInv, <1>1, PTL DEF Spec

\* The counts are exact.
THEOREM CountsAgreeHolds == Spec => []CountsAgree
<1>1. IInv => CountsAgree
  BY DEF IInv
<1> QED
  BY InitIInv, NextIInv, <1>1, PTL DEF Spec

\* One thread at a time tears an object down.
THEOREM OneTearsDownHolds == Spec => []OneTearsDown
<1>1. IInv => OneTearsDown
  BY DEF IInv
<1> QED
  BY InitIInv, NextIInv, <1>1, PTL DEF Spec

-----------------------------------------------------------------------------
\* The types of what IInv does not look at.
LEMMA NextRest ==
  ASSUME Types, todo \in [Threads -> SUBSET Closed], count \in [Threads -> Int],
         refs \in 0 .. MaxRefs, Next
  PROVE  /\ todo' \in [Threads -> SUBSET Closed] /\ count' \in [Threads -> Int]
         /\ refs' \in 0 .. MaxRefs
<1> USE MaxRefsAssumption
<1>1. ASSUME NEW t \in Threads, Check(t)
      PROVE  todo' \in [Threads -> SUBSET Closed] /\ UNCHANGED <<count, refs>>
  BY <1>1 DEF Check, ToClose
<1>2. ASSUME NEW t \in Threads, NEW h \in Holders, CloseHolder(t, h)
      PROVE  todo' \in [Threads -> SUBSET Closed] /\ UNCHANGED <<count, refs>>
  BY <1>2 DEF CloseHolder
<1>3. ASSUME NEW t \in Threads, Race(t)
      PROVE  count' \in [Threads -> Int] /\ UNCHANGED <<todo, refs>>
  BY <1>3 DEF Race, Types
<1>4. ASSUME NEW t \in Threads, NEW h \in Holders, Ref(t, h)
      PROVE  refs' \in 0 .. MaxRefs /\ UNCHANGED <<todo, count>>
  BY <1>4 DEF Ref
<1>5. ASSUME NEW t \in Threads,
             Deref(t) \/ Verdict(t) \/ Relock(t) \/ Raced(t) \/ Reset(t)
      PROVE  UNCHANGED <<todo, count, refs>>
  BY <1>5 DEF Deref, Verdict, Relock, Raced, Reset
<1>6. ASSUME NEW h \in Holders, Release(h)
      PROVE  UNCHANGED <<todo, count, refs>>
  BY <1>6 DEF Release
<1> QED
  BY <1>1, <1>2, <1>3, <1>4, <1>5, <1>6 DEF Next, DerefStep

\* The counts are integers and every thread stands somewhere in deref(), also
\* when threads count without the mutex.
THEOREM TypesHold == Spec => []TypeOK
<1>1. Init => TypeOK
  BY InitIInv, MaxRefsAssumption DEF Init, IInv, Types, Places, TypeOK
<1>2. TypeOK /\ [Next]_vars => TypeOK'
  <2> SUFFICES ASSUME TypeOK, [Next]_vars PROVE TypeOK'
    OBVIOUS
  <2>1. Types
    BY DEF TypeOK, Types, Places
  <2>2. CASE Next
    <3>1. Types'
      BY <2>1, <2>2, NextTypes
    <3>2. /\ todo' \in [Threads -> SUBSET Closed] /\ count' \in [Threads -> Int]
          /\ refs' \in 0 .. MaxRefs
      BY <2>1, <2>2, NextRest DEF TypeOK
    <3> QED
      BY <3>1, <3>2 DEF TypeOK, Types, Places
  <2>3. CASE UNCHANGED vars
    BY <2>3 DEF vars, TypeOK
  <2> QED
    BY <2>2, <2>3
<1> QED
  BY <1>1, <1>2, PTL DEF Spec

-----------------------------------------------------------------------------
\* A thread in weakDelete() has still to close what is attached of Closed.
Closing ==
  /\ todo \in [Threads -> SUBSET Closed]
  /\ \A t \in Threads : At(t, "clean") => attached \cap Closed \subseteq todo[t]

LEMMA NextClosing == Types /\ Closing /\ [Next]_vars => Closing'
<1> SUFFICES ASSUME Types, Closing, [Next]_vars PROVE Closing'
  OBVIOUS
<1> USE DEF Types, Closing, At, Goto
<1>1. ASSUME NEW t \in Threads, Deref(t) \/ Relock(t) PROVE Closing'
  BY <1>1 DEF Deref, Relock, Continue, CountDown
<1>2. ASSUME NEW t \in Threads, Check(t) PROVE Closing'
  BY <1>2 DEF Check, ToClose
<1>3. ASSUME NEW t \in Threads, Verdict(t) \/ Race(t) \/ Raced(t) \/ Reset(t) PROVE Closing'
  BY <1>3 DEF Verdict, Race, Raced, Reset
<1>4. ASSUME NEW t \in Threads, NEW h \in Holders, CloseHolder(t, h) PROVE Closing'
  <2>1. pc' = pc /\ attached' = attached \ {h} /\ todo' = [todo EXCEPT ![t] = @ \ {h}]
    BY <1>4 DEF CloseHolder, WeakDeref
  <2> QED
    BY <2>1
<1>5. ASSUME NEW t \in Threads, NEW h \in Holders, Ref(t, h) PROVE Closing'
  BY <1>5 DEF Ref
<1>6. ASSUME NEW h \in Holders, Release(h) PROVE Closing'
  BY <1>6 DEF Release, WeakDeref
<1>7. CASE UNCHANGED vars
  BY <1>7 DEF vars
<1> QED
  BY <1>1, <1>2, <1>3, <1>4, <1>5, <1>6, <1>7 DEF Next, DerefStep

\* A thread counts without the mutex only if a holder outside Closed was left
\* when its weakDelete() had closed all it closes.
THEOREM LooseOnlyByOthersHolds == Spec => LooseOnlyByOthers
<1> DEFINE Others == loose' /\ ~loose => attached \ Closed # {}
<1>1. Init => Closing
  BY DEF Init, Closing, At
<1>2. IInv /\ Closing /\ [Next]_vars => [Others]_vars
  <2> SUFFICES ASSUME IInv, Closing, Next, loose', ~loose PROVE attached \ Closed # {}
    BY DEF vars
  <2>1. PICK t \in Threads : Verdict(t)
    BY DEF Next, DerefStep, Deref, Check, Relock, Race, Raced, Reset, CloseHolder, Ref, Release
  <2>2. t \in strong /\ deletes = 0
    BY <2>1 DEF Verdict, At, IInv, Counted, HeldIsAlive
  <2>3. Cardinality(attached) # 0
    BY <2>1, <2>2 DEF Verdict, At, IInv, CountsAgree
  <2>4. attached # {}
    BY <2>3, FS_EmptySet
  <2>5. attached \cap Closed = {}
    BY <2>1 DEF Verdict, Closing
  <2> QED
    BY <2>4, <2>5
<1>3. IInv => Types
  BY DEF IInv
<1> QED
  BY InitIInv, NextIInv, NextClosing, <1>1, <1>2, <1>3, PTL DEF Spec, LooseOnlyByOthers
=============================================================================
