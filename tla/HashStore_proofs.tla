--------------------------- MODULE HashStore_proofs ---------------------------
(***************************************************************************)
(* For every set of messages and any number of crashes and expirations:     *)
(* the write-ahead rule of Mover::storeData, that a message is logged once, *)
(* and that known_hashes, its free list and the data files agree.           *)
(*                                                                          *)
(* WriteAhead is not inductive: Create adds a file without looking at       *)
(* mover_have_file.  What makes it safe is where pc stands: a message from  *)
(* a peer has passed Log before its storing reaches Create (IInv).          *)
(*                                                                          *)
(* That what was kept keeps its line needs all of Index: insert() writes    *)
(* over a free line, so free lines must be nobody's; removeElement() frees  *)
(* the line slot names, so slot must name the right one; and slot is        *)
(* rebuilt from the lines after a crash, so each hash must have one line.   *)
(***************************************************************************)
EXTENDS HashStore, FiniteSetTheorems, WellFoundedInduction, TLAPS

\* Whose hash is in the file, by how far storeData() has come.
PastLog == pc \in {"create", "write", "insert"} /\ cur \in Received => cur \in have_file \cup glued

\* cur is a hash as long as a message is being stored.
Storing ==
  /\ pc \in {"idle", "log", "create", "write", "insert"}
  /\ pc # "idle" => cur \in Hashes
  /\ pc = "idle" => cur = None

FilesOK == DOMAIN files = Hashes

IInv == FilesOK /\ Storing /\ PastLog /\ WriteAhead

-----------------------------------------------------------------------------
\* It holds at the start: there is no file.
LEMMA InitIInv == Init => IInv
  BY HashesAssumption DEF Init, IInv, FilesOK, Storing, PastLog, WriteAhead

\* No step breaks it.
LEMMA NextIInv == IInv /\ [Next]_vars => IInv'
<1> SUFFICES ASSUME IInv, [Next]_vars PROVE IInv'
  OBVIOUS
<1> USE HashesAssumption DEF IInv, FilesOK, Storing, PastLog, WriteAhead, Return, Die, haveVars
<1>1. ASSUME NEW h \in Hashes, Refuse(h) PROVE IInv'
  BY <1>1 DEF Refuse, diskVars, history
<1>2. ASSUME NEW h \in Hashes, Begin(h) PROVE IInv'
  BY <1>2 DEF Begin, diskVars, history
<1>3. ASSUME NEW h \in Hashes, ExpireUnlink(h) PROVE IInv'
  BY <1>3 DEF ExpireUnlink, Unlink
<1>4. ASSUME NEW h \in Hashes, ExpireHide(h) PROVE IInv'
  BY <1>4 DEF ExpireHide, Unlink
<1>5. CASE Log
  BY <1>5 DEF Log, LogLine, LogShort, GiveUp
<1>6. CASE Create
  BY <1>6 DEF Create
<1>7. CASE Write
  BY <1>7 DEF Write, GiveUp
<1>8. CASE Insert
  BY <1>8 DEF Insert
<1>9. CASE ExpireRemove
  BY <1>9 DEF ExpireRemove, history
<1>10. CASE Crash
  BY <1>10 DEF Crash, diskVars
<1>11. CASE OpenRoot
  BY <1>11 DEF OpenRoot, diskVars, history
<1>12. CASE UNCHANGED vars
  BY <1>12 DEF vars, diskVars, history
<1> QED
  BY <1>1, <1>2, <1>3, <1>4, <1>5, <1>6, <1>7, <1>8, <1>9, <1>10, <1>11, <1>12 DEF Next

\* In every state, after any crash, a file of a message from a peer is named in
\* mover_have_file.
THEOREM WriteAheadHolds == Spec => []WriteAhead
<1>1. IInv => WriteAhead
  BY DEF IInv
<1> QED
  BY InitIInv, NextIInv, <1>1, PTL DEF Spec

-----------------------------------------------------------------------------
\* What is logged has a file, is about to get one, or was cut short.
LoggedHasFile == \A h \in have_file :
  h \in hurt \/ files[h] # "none" \/ (pc = "create" /\ cur = h)

\* What is about to be logged has none: iWant() looked for it, and only this
\* thread makes files.
NoFileYet == pc = "log" => files[cur] = "none"

OnceInv == FilesOK /\ Storing /\ have_file \subseteq Hashes /\ LoggedHasFile /\ NoFileYet

\* It holds at the start: nothing is logged.
LEMMA InitOnceInv == Init => OnceInv
  BY HashesAssumption DEF Init, OnceInv, FilesOK, Storing, LoggedHasFile, NoFileYet

\* No step breaks it.
LEMMA NextOnceInv == OnceInv /\ [Next]_vars => OnceInv'
<1> SUFFICES ASSUME OnceInv, [Next]_vars PROVE OnceInv'
  OBVIOUS
<1> USE HashesAssumption
    DEF OnceInv, FilesOK, Storing, LoggedHasFile, NoFileYet, Return, Die, haveVars
<1>1. ASSUME NEW h \in Hashes, Refuse(h) PROVE OnceInv'
  BY <1>1 DEF Refuse, diskVars, history
<1>2. ASSUME NEW h \in Hashes, Begin(h) PROVE OnceInv'
  BY <1>2 DEF Begin, Wanted, Seen, diskVars, history
<1>3. ASSUME NEW h \in Hashes, ExpireUnlink(h) PROVE OnceInv'
  BY <1>3 DEF ExpireUnlink, Unlink
<1>4. ASSUME NEW h \in Hashes, ExpireHide(h) PROVE OnceInv'
  BY <1>4 DEF ExpireHide, Unlink
<1>5. CASE Log
  BY <1>5 DEF Log, LogLine, LogShort, GiveUp
<1>6. CASE Create
  BY <1>6 DEF Create
<1>7. CASE Write
  BY <1>7 DEF Write, GiveUp
<1>8. CASE Insert
  BY <1>8 DEF Insert
<1>9. CASE ExpireRemove
  BY <1>9 DEF ExpireRemove, history
<1>10. CASE Crash
  BY <1>10 DEF Crash, diskVars
<1>11. CASE OpenRoot
  BY <1>11 DEF OpenRoot, diskVars, history
<1>12. CASE UNCHANGED vars
  BY <1>12 DEF vars, diskVars, history
<1> QED
  BY <1>1, <1>2, <1>3, <1>4, <1>5, <1>6, <1>7, <1>8, <1>9, <1>10, <1>11, <1>12 DEF Next

\* A message is logged again only after its first storing was cut short or its
\* file expired.
THEOREM LoggedOnceHolds == Spec => LoggedOnce
<1> DEFINE Once == \A h \in have_file : pc = "log" /\ cur = h /\ pc' = "create" => h \in hurt
<1>1. OnceInv /\ [Next]_vars => [Once]_vars
  BY DEF OnceInv, LoggedHasFile, NoFileYet
<1> QED
  BY InitOnceInv, NextOnceInv, <1>1, PTL DEF Spec, LoggedOnce

-----------------------------------------------------------------------------
(* What known_hashes, free_list and the data files say of one another.  All *)
(* of it holds until a file expires that known_hashes does not list.        *)

Shapes ==
  /\ lines \in Seq(Hashes \cup {Deleted, Torn})
  /\ files \in [Hashes -> {"none", "empty", "part", "full"}]
  /\ kept \subseteq Hashes
  /\ victim \in Hashes \cup {None}
  /\ up \in BOOLEAN /\ misfiled \in BOOLEAN

SetShapes == slot \in [Hashes -> Nat] /\ free_list \in Seq(Nat)

\* Without a process nothing is going on.
DownIsIdle == ~up => pc = "idle" /\ victim = None

OneLine == \A i, j \in DOMAIN lines : lines[i] = lines[j] /\ lines[i] \in Hashes => i = j

LinesKnown == \A i \in DOMAIN lines : lines[i] \in Hashes => lines[i] \in kept \cup hurt

KeptWhole == \A h \in kept : files[h] = "full" /\ (h \in unlisted \/ HasLine(lines, h))

\* Where the next line goes on behind another, that one is torn already.
EndTorn == unended => lines # <<>> /\ lines[Len(lines)] = Torn

\* Every line is found by its hash.
SlotsRight == up => \A i \in DOMAIN lines : lines[i] \in Hashes => slot[lines[i]] = i

\* Every entry has its line, but for those that got none and those that
\* removeElement() left behind.
EntriesRight == up => \A h \in Hashes : slot[h] # 0 =>
  /\ h \in kept \cup hurt
  /\ \/ slot[h] \in DOMAIN lines /\ lines[slot[h]] = h
     \/ h \in unlisted
     \/ h \in hurt /\ files[h] = "none"

FreeOK == up /\ ~bad => \A i, j \in DOMAIN free_list :
  /\ free_list[i] \in DOMAIN lines
  /\ lines[free_list[i]] = Deleted
  /\ i # j => free_list[i] # free_list[j]

\* What is being stored is not listed yet.
StoringNew == pc # "idle" =>
  slot[cur] = 0 /\ cur \notin kept /\ (pc = "insert" => files[cur] = "full")

\* What expire() has unlinked is still listed.
VictimListed == victim # None =>
  /\ slot[victim] \in DOMAIN lines /\ lines[slot[victim]] = victim
  /\ victim \in hurt \ kept /\ files[victim] = "none"

Index ==
  /\ SetShapes
  /\ OneLine /\ LinesKnown /\ KeptWhole /\ EndTorn
  /\ SlotsRight /\ EntriesRight /\ FreeOK
  /\ StoringNew /\ VictimListed

IndexInv == Shapes /\ Storing /\ DownIsIdle /\ (~misfiled => Index)

-----------------------------------------------------------------------------
\* There is nothing at the start.
LEMMA InitIndexInv == Init => IndexInv
<1> SUFFICES ASSUME Init PROVE IndexInv
  OBVIOUS
<1>1. Shapes /\ SetShapes /\ Storing /\ DownIsIdle
  <2>1. files \in [Hashes -> {"none", "empty", "part", "full"}] /\ slot \in [Hashes -> Nat]
    BY DEF Init
  <2>2. lines \in Seq(Hashes \cup {Deleted, Torn}) /\ free_list \in Seq(Nat)
    BY DEF Init
  <2>3. kept \subseteq Hashes /\ victim \in Hashes \cup {None}
    BY DEF Init
  <2> QED
    BY <2>1, <2>2, <2>3 DEF Init, Shapes, SetShapes, Storing, DownIsIdle
<1>2. DOMAIN lines = {} /\ DOMAIN free_list = {}
  BY DEF Init
<1>3. OneLine /\ LinesKnown /\ SlotsRight /\ FreeOK
  BY <1>2 DEF OneLine, LinesKnown, SlotsRight, FreeOK
<1>4. KeptWhole /\ EndTorn /\ EntriesRight /\ StoringNew /\ VictimListed
  BY DEF Init, KeptWhole, EndTorn, EntriesRight, StoringNew, VictimListed
<1> QED
  BY <1>1, <1>3, <1>4 DEF IndexInv, Index

\* Deleted lines are finitely many: the free list of reLoad() is a sequence of
\* them, each once.
LEMMA ReLoadFree ==
  ASSUME lines \in Seq(Hashes \cup {Deleted, Torn}), ReLoad
  PROVE  /\ free_list' \in Seq(Nat)
         /\ \A i \in DOMAIN free_list' :
              free_list'[i] \in DOMAIN lines /\ lines[free_list'[i]] = Deleted
         /\ \A i, j \in DOMAIN free_list' : i # j => free_list'[i] # free_list'[j]
<1> DEFINE deleted == {i \in DOMAIN lines : lines[i] = Deleted}
           n == Cardinality(deleted)
<1>1. IsFiniteSet(1 .. Len(lines)) /\ Len(lines) \in Nat /\ DOMAIN lines = 1 .. Len(lines)
  BY FS_Interval
<1>2. IsFiniteSet(deleted)
  BY <1>1, FS_Subset
<1>3. n \in Nat
  BY <1>2, FS_CardinalityType
<1>4. PICK order \in [1 .. n -> deleted] :
        /\ \A i, j \in DOMAIN order : i < j => order[i] < order[j]
        /\ free_list' = order
  BY DEF ReLoad
<1> HIDE DEF n
<1>5. DOMAIN free_list' = 1 .. n /\ \A i \in 1 .. n : free_list'[i] \in deleted
  BY <1>4
<1>6. \A i \in 1 .. n : free_list'[i] \in Nat
  BY <1>1, <1>5
<1>7. free_list' \in Seq(Nat)
  BY <1>3, <1>4, <1>6
<1>8. ASSUME NEW i \in 1 .. n, NEW j \in 1 .. n, i # j
      PROVE  free_list'[i] # free_list'[j]
  <2>1. i < j \/ j < i
    BY <1>3, <1>8
  <2> QED
    BY <2>1, <1>4, <1>5, <1>6
<1> QED
  BY <1>5, <1>7, <1>8

\* reLoad() gives every hash that has a line the number of a line of its own.
LEMMA ReLoadSlots ==
  ASSUME lines \in Seq(Hashes \cup {Deleted, Torn}), ReLoad, OneLine
  PROVE  /\ slot' \in [Hashes -> Nat]
         /\ \A i \in DOMAIN lines : lines[i] \in Hashes => slot'[lines[i]] = i
         /\ \A h \in Hashes : slot'[h] # 0 => slot'[h] \in DOMAIN lines /\ lines[slot'[h]] = h
<1> DEFINE Last(h, i) == lines[i] = h /\ \A j \in DOMAIN lines : lines[j] = h => j <= i
<1>1. slot' = [h \in Hashes |-> IF \E i \in DOMAIN lines : lines[i] = h
                                THEN CHOOSE i \in DOMAIN lines : Last(h, i) ELSE 0]
  BY DEF ReLoad
<1>2. ASSUME NEW h \in Hashes, NEW i \in DOMAIN lines, lines[i] = h
      PROVE  slot'[h] = i
  <2>1. Last(h, i)
    BY <1>2 DEF OneLine
  <2>2. \A k \in DOMAIN lines : Last(h, k) => k = i
    BY <1>2 DEF OneLine
  <2> HIDE DEF Last
  <2>3. (CHOOSE k \in DOMAIN lines : Last(h, k)) = i
    BY <2>1, <2>2
  <2> QED
    BY <1>1, <1>2, <2>3
<1>3. \A h \in Hashes : (\A i \in DOMAIN lines : lines[i] # h) => slot'[h] = 0
  BY <1>1
<1>4. \A i \in DOMAIN lines : i \in Nat
  OBVIOUS
<1>5. DOMAIN slot' = Hashes /\ slot' = [h \in Hashes |-> slot'[h]]
  BY <1>1
<1>6. \A h \in Hashes : slot'[h] \in Nat
  BY <1>2, <1>3, <1>4
<1> QED
  BY <1>2, <1>3, <1>4, <1>5, <1>6

-----------------------------------------------------------------------------
\* A part of a line that is appended is the last line.
LEMMA TornLast ==
  ASSUME lines \in Seq(Hashes \cup {Deleted, Torn}), lines' = Append(lines, Torn)
  PROVE  lines' # <<>> /\ lines'[Len(lines')] = Torn
OBVIOUS

\* Whatever is written wherever, lines are left.
LEMMA OverwriteInSeq ==
  ASSUME NEW S, lines \in Seq(S), NEW i, NEW e \in S
  PROVE  Overwrite(i, e) \in Seq(S)
<1> DEFINE t == [lines EXCEPT ![i] = e]
<1>1. Len(lines) \in Nat /\ DOMAIN lines = 1 .. Len(lines)
      /\ \A j \in 1 .. Len(lines) : lines[j] \in S
  OBVIOUS
<1>2. t = [j \in 1 .. Len(lines) |-> IF j = i THEN e ELSE lines[j]]
  BY <1>1
<1>3. t \in [1 .. Len(lines) -> S]
  BY <1>1, <1>2
<1>4. t \in Seq(S) /\ Append(lines, e) \in Seq(S)
  BY <1>1, <1>3
<1> HIDE DEF t
<1> QED
  BY <1>4 DEF Overwrite, t

\* Shapes, Storing and DownIsIdle are kept by themselves.
LEMMA ShapesKept ==
  ASSUME Shapes, Storing, DownIsIdle, [Next]_vars
  PROVE  Shapes' /\ Storing' /\ DownIsIdle'
<1> DEFINE Goal == Shapes' /\ Storing' /\ DownIsIdle'
<1> USE HashesAssumption DEF Shapes, Storing, DownIsIdle, Return, Die
<1>1. ASSUME NEW h \in Hashes, Refuse(h) PROVE Goal
  BY <1>1 DEF Refuse, diskVars, knownVars, setVars, history
<1>2. ASSUME NEW h \in Hashes, Begin(h) PROVE Goal
  BY <1>2 DEF Begin, diskVars, knownVars, setVars, history
<1>3. ASSUME NEW h \in Hashes, ExpireUnlink(h) PROVE Goal
  BY <1>3 DEF ExpireUnlink, Unlink, knownVars, setVars
<1>4. ASSUME NEW h \in Hashes, ExpireHide(h) PROVE Goal
  BY <1>4 DEF ExpireHide, Unlink, knownVars
<1>5. CASE Log
  BY <1>5 DEF Log, GiveUp, knownVars, setVars
<1>6. CASE Create
  BY <1>6 DEF Create, knownVars, setVars
<1>7. CASE Write
  BY <1>7 DEF Write, GiveUp, knownVars, setVars
<1>8. CASE Insert
  <2>1. cur \in Hashes
    BY <1>8 DEF Insert
  <2>2. \/ lines' = lines
        \/ \E i : lines' \in {Overwrite(i, cur), Overwrite(i, Torn)}
    BY <1>8 DEF Insert, SetInsert, Put, knownVars
  <2>3. lines' \in Seq(Hashes \cup {Deleted, Torn})
    BY <2>1, <2>2, OverwriteInSeq
  <2> QED
    BY <1>8, <2>1, <2>3 DEF Insert
<1>9. CASE ExpireRemove
  <2>1. \/ lines' = lines
        \/ \E i : lines' \in {Overwrite(i, Deleted), Overwrite(i, Torn)}
    BY <1>9 DEF ExpireRemove, SetRemove, Put, knownVars
  <2>2. lines' \in Seq(Hashes \cup {Deleted, Torn})
    BY <2>1, OverwriteInSeq
  <2> QED
    BY <1>9, <2>2 DEF ExpireRemove, history
<1>10. CASE Crash
  BY <1>10 DEF Crash, diskVars, knownVars
<1>11. CASE OpenRoot
  BY <1>11 DEF OpenRoot, diskVars, knownVars, history
<1>12. CASE UNCHANGED vars
  BY <1>12 DEF vars, diskVars, knownVars, setVars, history
<1> QED
  BY <1>1, <1>2, <1>3, <1>4, <1>5, <1>6, <1>7, <1>8, <1>9, <1>10, <1>11, <1>12 DEF Next

-----------------------------------------------------------------------------
\* A step that leaves the set alone, gives kept and hurt nothing to lose and
\* changes no file but that of a hash without a line.
LEMMA StoreStep ==
  ASSUME Shapes, Index, Shapes',
         UNCHANGED <<lines, unended, slot, free_list, bad, kept, unlisted, victim>>,
         up' = up, hurt \subseteq hurt', StoringNew',
         \A h \in Hashes : files'[h] # files[h] => up /\ slot[h] = 0 /\ h \notin kept
  PROVE  Index'
<1> USE HashesAssumption DEF Index, Shapes
<1>1. \A h \in Hashes : files'[h] # files[h] => h \notin kept /\ h # victim
  BY DEF SlotsRight, VictimListed
<1>2. SetShapes' /\ OneLine' /\ LinesKnown' /\ EndTorn' /\ SlotsRight' /\ FreeOK'
  BY DEF SetShapes, OneLine, LinesKnown, EndTorn, SlotsRight, FreeOK
<1>3. KeptWhole'
  BY <1>1 DEF KeptWhole
<1>4. EntriesRight'
  BY DEF EntriesRight
<1>5. VictimListed'
  BY <1>1 DEF VictimListed
<1> QED
  BY <1>2, <1>3, <1>4, <1>5

\* A process that dies forgets the set.
LEMMA DieStep ==
  ASSUME Shapes, Shapes', Die, UNCHANGED knownVars, hurt \subseteq hurt', OneLine, LinesKnown,
         EndTorn, KeptWhole', kept \subseteq kept' \cup hurt'
  PROVE  Index'
BY HashesAssumption DEF Die, Return, Index, Shapes, SetShapes, OneLine, LinesKnown, EndTorn,
   SlotsRight, EntriesRight, FreeOK, StoringNew, VictimListed, knownVars

\* The new line of insert() was free or is the next one, or goes on behind a
\* torn one; written or not, it takes nobody's.
LEMMA InsertStep ==
  ASSUME Shapes, Index, Storing, DownIsIdle, Shapes', Insert
  PROVE  Index'
<1> USE HashesAssumption DEF Shapes, Storing, DownIsIdle, Index, SetShapes
<1> DEFINE end == IF unended THEN Len(lines) ELSE Len(lines) + 1
           i == IF free_list = <<>> THEN end ELSE Head(free_list)
<1>1. /\ up /\ up' /\ cur \in Hashes /\ slot[cur] = 0 /\ files[cur] = "full"
      /\ pc' = "idle" /\ kept' = kept \cup {cur}
      /\ unlisted' = IF HasLine(lines', cur) THEN unlisted \ {cur} ELSE unlisted \cup {cur}
      /\ UNCHANGED <<files, victim, hurt>>
  BY DEF Insert, StoringNew, Return
<1>2. /\ slot' = [slot EXCEPT ![cur] = i]
      /\ free_list' = IF free_list = <<>> THEN <<>> ELSE Tail(free_list)
      /\ Put(i, cur, unended /\ i < Len(lines))
  BY <1>1 DEF Insert, SetInsert, FreeAfterInsert
<1>3. /\ end \in Nat \ {0}
      /\ end = Len(lines) + 1 \/ (end = Len(lines) /\ end \in DOMAIN lines /\ lines[end] = Torn)
  BY DEF EndTorn
<1> HIDE DEF end
<1>4. i \in Nat
  BY <1>3
<1>5. ~bad => /\ i # 0
              /\ \/ i = Len(lines) + 1
                 \/ i = Len(lines) /\ i \in DOMAIN lines /\ lines[i] = Torn
                 \/ /\ i \in DOMAIN lines /\ lines[i] = Deleted
                    /\ free_list # <<>> /\ i = free_list[1]
  BY <1>1, <1>3 DEF FreeOK
<1> HIDE DEF i
<1>6. \/ lines' = lines
      \/ ~bad /\ lines' \in {Overwrite(i, cur), Overwrite(i, Torn)}
  BY <1>2 DEF Put, knownVars
<1> DEFINE Agree ==
      /\ DOMAIN lines \subseteq DOMAIN lines'
      /\ \A j \in DOMAIN lines : lines[j] \in Hashes => lines'[j] = lines[j]
      /\ \A j \in DOMAIN lines' : lines'[j] \in Hashes =>
           (j \in DOMAIN lines /\ lines'[j] = lines[j]) \/ (j = i /\ lines'[j] = cur)
<1>7. Agree
  <2>1. ASSUME NEW e \in {cur, Torn}, ~bad, lines' = Overwrite(i, e) PROVE Agree
    <3>1. CASE i = Len(lines) + 1
      BY <3>1, <2>1 DEF Overwrite
    <3>2. CASE i \in DOMAIN lines /\ lines[i] \in {Deleted, Torn}
      BY <3>2, <2>1 DEF Overwrite
    <3> QED
      BY <3>1, <3>2, <2>1, <1>5
  <2> QED
    BY <2>1, <1>6
<1>8. \A j \in DOMAIN lines : lines[j] # cur
  BY <1>1 DEF SlotsRight
<1>9. HasLine(lines', cur) => i \in DOMAIN lines' /\ lines'[i] = cur
  BY <1>1, <1>7, <1>8 DEF HasLine
<1>10. slot'[cur] = i /\ \A h \in Hashes : h # cur => slot'[h] = slot[h]
  BY <1>1, <1>2
<1>11. \A h \in Hashes : h # cur => (h \in unlisted' <=> h \in unlisted)
  BY <1>1
<1>12. SetShapes'
  <2>1. free_list' \in Seq(Nat)
    BY <1>2
  <2> QED
    BY <2>1, <1>2, <1>4
<1>13. OneLine'
  BY <1>7, <1>8 DEF OneLine
<1>14. LinesKnown'
  BY <1>1, <1>7 DEF LinesKnown
<1>15. KeptWhole'
  <2> SUFFICES ASSUME NEW h \in kept'
               PROVE  files[h] = "full" /\ (h \in unlisted' \/ HasLine(lines', h))
    BY <1>1 DEF KeptWhole
  <2>1. CASE h = cur
    BY <2>1, <1>1
  <2>2. CASE h # cur
    BY <2>2, <1>1, <1>7, <1>11 DEF KeptWhole, HasLine
  <2> QED
    BY <2>1, <2>2
<1>16. EndTorn'
  <2> SUFFICES ASSUME unended' PROVE lines' # <<>> /\ lines'[Len(lines')] = Torn
    BY DEF EndTorn
  <2>1. CASE bad
    BY <2>1, <1>2 DEF Put, knownVars, EndTorn
  <2>2. CASE ~bad /\ lines' = Overwrite(i, cur) /\ unended' = (unended /\ i < Len(lines))
    <3>1. unended /\ i < Len(lines)
      BY <2>2, Zenon
    <3>2. i \in DOMAIN lines
      BY <3>1, <2>2, <1>5
    <3>3. DOMAIN lines' = DOMAIN lines /\ lines'[Len(lines)] = lines[Len(lines)]
      BY <3>1, <3>2, <2>2 DEF Overwrite
    <3>4. Len(lines') = Len(lines) /\ lines' # <<>>
      BY <3>2, <3>3
    <3> QED
      BY <3>1, <3>3, <3>4 DEF EndTorn
  <2>3. CASE ~bad /\ UNCHANGED knownVars
    BY <2>3 DEF knownVars, EndTorn
  <2>4. CASE ~bad /\ lines' = Overwrite(i, Torn) /\ unended' = (unended \/ i > Len(lines))
    <3>1. CASE i > Len(lines)
      <4>1. lines' = Append(lines, Torn)
        BY <3>1, <2>4, Zenon DEF Overwrite
      <4> QED
        BY <4>1, TornLast, Zenon
    <3>2. CASE unended /\ i \in DOMAIN lines
      BY <3>2, <2>4 DEF Overwrite, EndTorn
    <3>3. unended \/ i > Len(lines)
      BY <2>4, Zenon
    <3>4. i > Len(lines) \/ i \in DOMAIN lines
      BY <2>4, <1>5
    <3> QED
      BY <3>1, <3>2, <3>3, <3>4
  <2> QED
    BY <2>1, <2>2, <2>3, <2>4, <1>2 DEF Put
<1>17. SlotsRight'
  BY <1>1, <1>7, <1>8, <1>10 DEF SlotsRight
<1>18. EntriesRight'
  <2> SUFFICES ASSUME NEW h \in Hashes, slot'[h] # 0
               PROVE  /\ h \in kept' \cup hurt
                      /\ \/ slot'[h] \in DOMAIN lines' /\ lines'[slot'[h]] = h
                         \/ h \in unlisted'
                         \/ h \in hurt /\ files[h] = "none"
    BY <1>1 DEF EntriesRight
  <2>1. CASE h = cur
    BY <2>1, <1>1, <1>9, <1>10
  <2>2. CASE h # cur
    BY <2>2, <1>1, <1>7, <1>10, <1>11 DEF EntriesRight
  <2> QED
    BY <2>1, <2>2
<1>19. FreeOK'
  <2> SUFFICES ASSUME ~bad' PROVE FreeOK'
    BY DEF FreeOK
  <2>1. ~bad /\ lines' = Overwrite(i, cur)
    BY <1>2 DEF Put
  <2>2. CASE free_list = <<>>
    BY <2>2, <1>2 DEF FreeOK
  <2>3. CASE free_list # <<>>
    <3>1. /\ DOMAIN free_list' = 1 .. Len(free_list) - 1
          /\ \A k \in DOMAIN free_list' :
               k + 1 \in DOMAIN free_list /\ free_list'[k] = free_list[k + 1]
      BY <2>3, <1>2
    <3>2. i = free_list[1]
      BY <2>3 DEF i
    <3>3. \A k \in DOMAIN free_list' :
            /\ free_list'[k] \in DOMAIN lines
            /\ lines[free_list'[k]] = Deleted
            /\ free_list'[k] # i
      BY <3>1, <3>2, <2>1, <2>3, <1>1 DEF FreeOK
    <3>4. \A k, l \in DOMAIN free_list' : k # l => free_list'[k] # free_list'[l]
      BY <3>1, <2>1, <1>1 DEF FreeOK
    <3>5. \A j \in DOMAIN lines : j # i => j \in DOMAIN lines' /\ lines'[j] = lines[j]
      BY <2>1, <1>5 DEF Overwrite
    <3> QED
      BY <3>3, <3>4, <3>5 DEF FreeOK
  <2> QED
    BY <2>2, <2>3
<1>20. StoringNew'
  BY <1>1 DEF StoringNew
<1>21. VictimListed'
  <2> SUFFICES ASSUME victim # None PROVE VictimListed'
    BY <1>1 DEF VictimListed
  <2>1. victim \in Hashes /\ victim # cur /\ slot[victim] \in DOMAIN lines
    BY <1>1 DEF VictimListed
  <2> QED
    BY <2>1, <1>1, <1>7, <1>10 DEF VictimListed
<1> QED
  BY <1>12, <1>13, <1>14, <1>15, <1>16, <1>17, <1>18, <1>19, <1>20, <1>21

\* removeElement() of the file that expire() has unlinked frees its line.
LEMMA RemoveStep ==
  ASSUME Shapes, Index, Storing, DownIsIdle, Shapes', ExpireRemove
  PROVE  Index'
<1> USE HashesAssumption DEF Shapes, Storing, DownIsIdle, Index, SetShapes
<1> DEFINE i == slot[victim]
<1>1. /\ up /\ up' /\ victim \in Hashes /\ victim' = None
      /\ i # 0 /\ i \in DOMAIN lines /\ lines[i] = victim
      /\ victim \in hurt \ kept /\ files[victim] = "none"
      /\ UNCHANGED <<files, kept, unlisted, hurt, pc, cur>>
  BY DEF ExpireRemove, VictimListed, EntriesRight, history
<1>2. /\ slot' = slot
      /\ free_list' = Append(free_list, i)
      /\ Put(i, Deleted, unended \/ lines = <<>>)
  BY <1>1 DEF ExpireRemove, SetRemove
<1>3. /\ unended' => unended
      /\ lines' \in {lines, [lines EXCEPT ![i] = Deleted], [lines EXCEPT ![i] = Torn]}
      /\ ~bad' => lines' = [lines EXCEPT ![i] = Deleted]
  <2>1. ~(i > Len(lines)) /\ lines[i] # Torn /\ lines # <<>>
    BY <1>1
  <2>2. \A l : Overwrite(i, l) = [lines EXCEPT ![i] = l]
    BY <2>1 DEF Overwrite
  <2>3. /\ Overwrite(i, Deleted) = [lines EXCEPT ![i] = Deleted]
        /\ Overwrite(i, Torn) = [lines EXCEPT ![i] = Torn]
    BY <2>2
  <2> HIDE DEF i
  <2>4. CASE bad /\ UNCHANGED <<knownVars, bad, shorts>>
    BY <2>4, Zenon DEF knownVars
  <2>5. CASE /\ lines' = Overwrite(i, Deleted) /\ unended' = (unended \/ lines = <<>>)
             /\ ~bad
    BY <2>1, <2>3, <2>5, Zenon
  <2>6. CASE bad' = TRUE /\ UNCHANGED knownVars
    BY <2>6, Zenon DEF knownVars
  <2>7. CASE /\ bad' = TRUE /\ lines' = Overwrite(i, Torn)
             /\ unended' = (unended \/ i > Len(lines))
    BY <2>1, <2>3, <2>7, Zenon
  <2> QED
    BY <2>4, <2>5, <2>6, <2>7, <1>2, Zenon DEF Put
<1>4. i \in Nat
  BY <1>1
<1> HIDE DEF i
<1>5. /\ DOMAIN lines' = DOMAIN lines
      /\ lines'[i] \in {victim, Deleted, Torn}
      /\ \A j \in DOMAIN lines : j # i => lines'[j] = lines[j]
  BY <1>1, <1>3
<1>6. SetShapes'
  BY <1>2, <1>4
<1>7. OneLine' /\ LinesKnown' /\ SlotsRight'
  BY <1>1, <1>2, <1>5 DEF OneLine, LinesKnown, SlotsRight
<1>8. KeptWhole'
  BY <1>1, <1>5 DEF KeptWhole, HasLine
<1>9. EndTorn'
  <2> SUFFICES ASSUME unended PROVE lines' # <<>> /\ lines'[Len(lines')] = Torn
    BY <1>3 DEF EndTorn
  <2>1. lines # <<>> /\ lines[Len(lines)] = Torn /\ Len(lines) # i
    BY <1>1 DEF EndTorn
  <2> QED
    BY <2>1, <1>3
<1>10. EntriesRight'
  <2> SUFFICES ASSUME NEW h \in Hashes, slot[h] # 0
               PROVE  /\ h \in kept \cup hurt
                      /\ \/ slot[h] \in DOMAIN lines /\ lines'[slot[h]] = h
                         \/ h \in unlisted
                         \/ h \in hurt /\ files[h] = "none"
    BY <1>1, <1>2, <1>5 DEF EntriesRight
  <2>1. CASE slot[h] = i
    BY <2>1, <1>1 DEF EntriesRight
  <2>2. CASE slot[h] # i
    BY <2>2, <1>1, <1>5 DEF EntriesRight
  <2> QED
    BY <2>1, <2>2
<1>11. FreeOK'
  <2> SUFFICES ASSUME ~bad' PROVE FreeOK'
    BY DEF FreeOK
  <2>1. ~bad /\ lines'[i] = Deleted
    BY <1>1, <1>2, <1>3 DEF Put
  <2>2. /\ DOMAIN free_list' = 1 .. Len(free_list) + 1
        /\ free_list'[Len(free_list) + 1] = i
        /\ \A k \in 1 .. Len(free_list) : free_list'[k] = free_list[k]
    BY <1>2, <1>4
  <2>3. \A k \in 1 .. Len(free_list) :
          free_list[k] \in DOMAIN lines /\ lines[free_list[k]] = Deleted /\ free_list[k] # i
    BY <1>1, <2>1 DEF FreeOK
  <2>4. \A k, l \in 1 .. Len(free_list) : k # l => free_list[k] # free_list[l]
    BY <1>1, <2>1 DEF FreeOK
  <2>5. \A k \in DOMAIN free_list' :
          free_list'[k] \in DOMAIN lines' /\ lines'[free_list'[k]] = Deleted
    <3> SUFFICES ASSUME NEW k \in DOMAIN free_list'
                 PROVE  free_list'[k] \in DOMAIN lines' /\ lines'[free_list'[k]] = Deleted
      OBVIOUS
    <3>1. CASE k = Len(free_list) + 1
      BY <3>1, <2>1, <2>2, <1>1, <1>5
    <3>2. CASE k \in 1 .. Len(free_list)
      BY <3>2, <2>2, <2>3, <1>5
    <3> QED
      BY <3>1, <3>2, <2>2
  <2>6. \A k, l \in DOMAIN free_list' : k # l => free_list'[k] # free_list'[l]
    <3> SUFFICES ASSUME NEW k \in DOMAIN free_list', NEW l \in DOMAIN free_list', k # l
                 PROVE  free_list'[k] # free_list'[l]
      OBVIOUS
    <3> DEFINE n == Len(free_list)
    <3>1. n \in Nat /\ k \in 1 .. n + 1 /\ l \in 1 .. n + 1
      BY <2>2
    <3> HIDE DEF n
    <3>2. CASE k \in 1 .. n /\ l \in 1 .. n
      BY <3>2, <2>2, <2>4 DEF n
    <3>3. CASE k = n + 1 /\ l \in 1 .. n
      BY <3>3, <2>2, <2>3 DEF n
    <3>4. CASE k \in 1 .. n /\ l = n + 1
      BY <3>4, <2>2, <2>3 DEF n
    <3> QED
      BY <3>1, <3>2, <3>3, <3>4
  <2> QED
    BY <2>5, <2>6 DEF FreeOK
<1>12. StoringNew' /\ VictimListed'
  BY <1>1, <1>2 DEF StoringNew, VictimListed
<1> QED
  BY <1>6, <1>7, <1>8, <1>9, <1>10, <1>11, <1>12

-----------------------------------------------------------------------------
\* No step breaks the index as long as no unlisted file expires.
LEMMA IndexKept ==
  ASSUME Shapes, Storing, DownIsIdle, ~misfiled => Index, [Next]_vars, ~misfiled',
         Shapes', Storing'
  PROVE  Index'
<1> USE HashesAssumption
<1>1. ~misfiled
  BY DEF Next, Refuse, Begin, Log, Create, Write, Insert, ExpireUnlink, ExpireHide, Unlink,
         ExpireRemove, Crash, OpenRoot, vars, history, Shapes
<1>2. Index
  BY <1>1
<1>3. ASSUME NEW h \in Hashes, Refuse(h) PROVE Index'
  <2>1. StoringNew'
    BY <1>2, <1>3 DEF Refuse, diskVars, setVars, history, Index, StoringNew
  <2> QED
    BY <1>2, <1>3, <2>1, StoreStep DEF Refuse, diskVars, knownVars, setVars, history
<1>4. ASSUME NEW h \in Hashes, Begin(h) PROVE Index'
  <2>1. slot[h] = 0 /\ h \notin kept
    <3>1. CASE h \in Received
      BY <3>1, <1>2, <1>4 DEF Begin, Wanted, Seen, Index, KeptWhole
    <3>2. CASE h \notin kept \cup hurt
      BY <3>2, <1>2, <1>4 DEF Begin, Index, EntriesRight
    <3> QED
      BY <3>1, <3>2, <1>4 DEF Begin
  <2>2. StoringNew'
    BY <2>1, <1>4 DEF Begin, StoringNew, setVars, history
  <2> QED
    BY <1>2, <1>4, <2>2, StoreStep DEF Begin, diskVars, knownVars, setVars, history
<1>5. CASE Log
  <2>1. StoringNew'
    BY <1>2, <1>5 DEF Log, GiveUp, Return, setVars, Index, StoringNew
  <2>2. hurt \subseteq hurt'
    BY <1>5 DEF Log, GiveUp
  <2> QED
    BY <1>2, <1>5, <2>1, <2>2, StoreStep DEF Log, knownVars, setVars
<1>6. CASE Create
  <2>1. StoringNew' /\ up /\ slot[cur] = 0 /\ cur \in Hashes \ kept
    BY <1>2, <1>6 DEF Create, Return, setVars, Index, StoringNew, DownIsIdle, Storing, Shapes
  <2>2. \A h \in Hashes : files'[h] # files[h] => up /\ slot[h] = 0 /\ h \notin kept
    BY <1>6, <2>1 DEF Create, Shapes
  <2> QED
    BY <1>2, <1>6, <2>1, <2>2, StoreStep DEF Create, Return, knownVars, setVars
<1>7. CASE Write
  <2>1. StoringNew' /\ up /\ slot[cur] = 0 /\ cur \in Hashes \ kept
    BY <1>2, <1>7 DEF Write, GiveUp, Return, setVars, Index, StoringNew, DownIsIdle, Storing,
                      Shapes
  <2>2. \A h \in Hashes : files'[h] # files[h] => up /\ slot[h] = 0 /\ h \notin kept
    BY <1>7, <2>1 DEF Write, Shapes
  <2> QED
    BY <1>2, <1>7, <2>1, <2>2, StoreStep DEF Write, GiveUp, Return, knownVars, setVars
<1>8. CASE Insert
  BY <1>2, <1>8, InsertStep
<1>9. ASSUME NEW h \in Hashes, ExpireUnlink(h) PROVE Index'
  <2> USE DEF Shapes
  <2>1. /\ up /\ up' /\ cur # h /\ HasLine(lines, h) /\ files[h] # "none"
        /\ files' = [files EXCEPT ![h] = "none"] /\ kept' = kept \ {h}
        /\ hurt' = hurt \cup {h} /\ victim' = h
        /\ UNCHANGED <<lines, unended, slot, free_list, bad, pc, cur, unlisted>>
    BY <1>9 DEF ExpireUnlink, Unlink, knownVars, setVars
  <2>2. slot[h] \in DOMAIN lines /\ lines[slot[h]] = h
    BY <1>2, <2>1 DEF Index, SlotsRight, HasLine
  <2>3. SetShapes' /\ OneLine' /\ SlotsRight' /\ FreeOK' /\ EndTorn'
    BY <1>2, <2>1 DEF Index, SetShapes, OneLine, SlotsRight, FreeOK, EndTorn
  <2>4. LinesKnown' /\ KeptWhole'
    BY <1>2, <2>1 DEF Index, LinesKnown, KeptWhole
  <2>5. EntriesRight'
    BY <1>2, <2>1 DEF Index, EntriesRight
  <2>6. StoringNew' /\ VictimListed'
    BY <1>2, <2>1, <2>2 DEF Index, StoringNew, VictimListed, Storing
  <2> QED
    BY <2>3, <2>4, <2>5, <2>6 DEF Index
<1>10. ASSUME NEW h \in Hashes, ExpireHide(h) PROVE Index'
  <2>1. /\ files' = [files EXCEPT ![h] = "none"] /\ kept' = kept \ {h}
        /\ h \in hurt' /\ hurt \subseteq hurt' /\ UNCHANGED <<knownVars, unlisted>> /\ Die
    BY <1>10 DEF ExpireHide, Unlink
  <2>2. KeptWhole'
    BY <1>2, <2>1 DEF Index, KeptWhole, Shapes, knownVars
  <2>3. kept \subseteq kept' \cup hurt'
    BY <2>1
  <2> QED
    BY <1>2, <2>1, <2>2, <2>3, DieStep DEF Index
<1>11. CASE ExpireRemove
  BY <1>2, <1>11, RemoveStep
<1>12. CASE Crash
  <2>1. /\ KeptWhole' /\ hurt \subseteq hurt' /\ kept' = kept
        /\ UNCHANGED knownVars /\ Die
    BY <1>2, <1>12 DEF Crash, diskVars, knownVars, Index, KeptWhole
  <2> QED
    BY <1>2, <2>1, DieStep DEF Index
<1>13. CASE OpenRoot
  <2>1. /\ ReLoad /\ pc = "idle" /\ victim = None
        /\ UNCHANGED <<files, lines, unended, pc, cur, victim, kept, unlisted, hurt>>
    BY <1>13 DEF OpenRoot, diskVars, knownVars, history, DownIsIdle
  <2>2. SetShapes' /\ SlotsRight'
    BY <1>2, <2>1, ReLoadFree, ReLoadSlots DEF Index, Shapes, SetShapes, SlotsRight
  <2>3. EntriesRight'
    BY <1>2, <2>1, ReLoadSlots DEF Index, Shapes, EntriesRight, LinesKnown
  <2>4. FreeOK'
    BY <2>1, ReLoadFree DEF Shapes, FreeOK
  <2>5. OneLine' /\ LinesKnown' /\ KeptWhole' /\ EndTorn' /\ StoringNew' /\ VictimListed'
    BY <1>2, <2>1
       DEF Index, OneLine, LinesKnown, KeptWhole, EndTorn, StoringNew, VictimListed
  <2> QED
    BY <2>2, <2>3, <2>4, <2>5 DEF Index
<1>14. CASE UNCHANGED vars
  <2>1. StoringNew'
    BY <1>2, <1>14 DEF vars, diskVars, setVars, history, Index, StoringNew
  <2> QED
    BY <1>2, <1>14, <2>1, StoreStep DEF vars, diskVars, knownVars, setVars, history
<1> QED
  BY <1>3, <1>4, <1>5, <1>6, <1>7, <1>8, <1>9, <1>10, <1>11, <1>12, <1>13, <1>14 DEF Next

LEMMA NextIndexInv == IndexInv /\ [Next]_vars => IndexInv'
BY ShapesKept, IndexKept DEF IndexInv

-----------------------------------------------------------------------------
\* What was stored and has not expired has its file whole, one line, and the
\* process knows which, over every crash.
THEOREM KeptIsKnownHolds == Spec => []KeptIsKnown
<1>1. IndexInv => KeptIsKnown
  <2> SUFFICES ASSUME IndexInv, ~misfiled, NEW h \in kept
               PROVE  /\ files[h] = "full"
                      /\ h \notin unlisted => \E i \in DOMAIN lines :
                           /\ \A j \in DOMAIN lines : lines[j] = h <=> j = i
                           /\ up => slot[h] = i
    BY DEF KeptIsKnown
  <2>1. files[h] = "full" /\ h \in Hashes
    BY DEF IndexInv, Index, KeptWhole, Shapes
  <2>2. ASSUME h \notin unlisted
        PROVE  \E i \in DOMAIN lines :
                 /\ \A j \in DOMAIN lines : lines[j] = h <=> j = i
                 /\ up => slot[h] = i
    <3>1. PICK i \in DOMAIN lines : lines[i] = h
      BY <2>2 DEF IndexInv, Index, KeptWhole, HasLine
    <3> QED
      BY <3>1, <2>1 DEF IndexInv, Index, OneLine, SlotsRight
  <2> QED
    BY <2>1, <2>2
<1> QED
  BY InitIndexInv, NextIndexInv, <1>1, PTL DEF Spec

\* What the process lists, and no expiry or error has cut short, is whole.
THEOREM ListedIsWholeHolds == Spec => []ListedIsWhole
<1>1. IndexInv => ListedIsWhole
  <2> SUFFICES ASSUME IndexInv, up, ~misfiled, NEW h \in Hashes, slot[h] # 0, h \notin hurt
               PROVE  files[h] = "full"
    BY DEF ListedIsWhole
  <2>1. h \in kept
    BY DEF IndexInv, Index, EntriesRight
  <2> QED
    BY <2>1 DEF IndexInv, Index, KeptWhole
<1> QED
  BY InitIndexInv, NextIndexInv, <1>1, PTL DEF Spec

\* insert() overwrites no line of a message.
THEOREM FreeIsFreeHolds == Spec => []FreeIsFree
<1>1. IndexInv => FreeIsFree
  BY DEF IndexInv, Index, FreeOK, FreeIsFree
<1> QED
  BY InitIndexInv, NextIndexInv, <1>1, PTL DEF Spec

-----------------------------------------------------------------------------
(* The types of the rest.  reLoad() takes the last line of each hash, which *)
(* there is however many it has: nothing here asks for Index, so the types  *)
(* hold after a file that known_hashes does not list has expired, too.      *)

Rest ==
  /\ have_file \subseteq Received /\ glued \subseteq Received
  /\ slot \in [Hashes -> Nat]
  /\ free_list \in Seq(Nat \ {0})
  /\ seen_cache \subseteq Received
  /\ hurt \subseteq Hashes /\ unlisted \subseteq Hashes
  /\ crashes \in 0 .. MaxCrashes /\ expirations \in 0 .. MaxExpired
  /\ shorts \in 0 .. MaxShort
  /\ pc = "log" => cur \in Received

Flags == unended \in BOOLEAN /\ torn \in BOOLEAN /\ bad \in BOOLEAN

NatLess == {ss \in Nat \X Nat : ss[1] < ss[2]}

\* Of the lines that hold a hash one is the last.
LEMMA LastLine ==
  ASSUME NEW n \in Nat, NEW S, S \subseteq 1 .. n, S # {}
  PROVE  \E i \in S : \A j \in S : j <= i
<1> DEFINE T == {m \in 0 .. n : n - m \in S}
<1>1. IsWellFoundedOn(NatLess, Nat)
  BY NatLessThanWellFounded DEF OpToRel, NatLess
<1>2. \A i \in S : n - i \in 0 .. n /\ n - (n - i) = i
  OBVIOUS
<1>3. T \subseteq Nat /\ T # {}
  <2>1. PICK i \in S : TRUE
    OBVIOUS
  <2>2. n - i \in 0 .. n /\ n - (n - i) \in S
    BY <1>2, <2>1
  <2>3. n - i \in T
    BY <2>2
  <2>4. T \subseteq 0 .. n
    OBVIOUS
  <2> HIDE DEF T
  <2> QED
    BY <2>3, <2>4
<1>4. PICK m \in T : \A k \in T : ~(<<k, m>> \in NatLess)
  BY <1>1, <1>3, WFMin
<1>5. ASSUME NEW k \in T PROVE m <= k
  <2>1. k \in Nat /\ m \in Nat
    BY <1>3
  <2>2. <<k, m>> \notin NatLess
    BY <1>4
  <2> QED
    BY <2>1, <2>2 DEF NatLess
<1>6. ASSUME NEW j \in S PROVE m <= n - j
  <2>1. n - j \in 0 .. n /\ n - (n - j) \in S
    BY <1>2
  <2> QED
    BY <1>5, <2>1
<1> QED
  BY <1>6

\* What reLoad() makes of any lines.
LEMMA ReLoadTypes ==
  ASSUME lines \in Seq(Hashes \cup {Deleted, Torn}), ReLoad
  PROVE  slot' \in [Hashes -> Nat] /\ free_list' \in Seq(Nat \ {0})
<1>1. Len(lines) \in Nat /\ DOMAIN lines = 1 .. Len(lines)
  OBVIOUS
<1> DEFINE Last(h, i) == lines[i] = h /\ \A j \in DOMAIN lines : lines[j] = h => j <= i
<1>2. slot' = [h \in Hashes |-> IF \E i \in DOMAIN lines : lines[i] = h
                                THEN CHOOSE i \in DOMAIN lines : Last(h, i) ELSE 0]
  BY DEF ReLoad
<1>3. ASSUME NEW h \in Hashes, \E i \in DOMAIN lines : lines[i] = h
      PROVE  (CHOOSE i \in DOMAIN lines : Last(h, i)) \in Nat
  <2> DEFINE S == {i \in DOMAIN lines : lines[i] = h}
  <2>1. S \subseteq 1 .. Len(lines) /\ S # {}
    BY <1>1, <1>3
  <2>2. \E i \in S : \A j \in S : j <= i
    BY <1>1, <2>1, LastLine
  <2>3. \E i \in DOMAIN lines : Last(h, i)
    BY <2>2
  <2> HIDE DEF Last
  <2>4. (CHOOSE i \in DOMAIN lines : Last(h, i)) \in DOMAIN lines
    BY <2>3
  <2> QED
    BY <1>1, <2>4
<1>4. slot' \in [Hashes -> Nat]
  <2> HIDE DEF Last
  <2>1. \A h \in Hashes : slot'[h] \in Nat
    BY <1>2, <1>3
  <2>2. slot' = [h \in Hashes |-> slot'[h]]
    BY <1>2
  <2> QED
    BY <2>1, <2>2
<1>5. /\ free_list' \in Seq(Nat)
      /\ \A i \in DOMAIN free_list' : free_list'[i] \in DOMAIN lines
  BY ReLoadFree
<1>6. Len(free_list') \in Nat /\ DOMAIN free_list' = 1 .. Len(free_list')
      /\ free_list' = [i \in 1 .. Len(free_list') |-> free_list'[i]]
  BY <1>5
<1>7. \A i \in 1 .. Len(free_list') : free_list'[i] \in Nat \ {0}
  BY <1>1, <1>5, <1>6
<1>8. free_list' \in Seq(Nat \ {0})
  BY <1>6, <1>7
<1> QED
  BY <1>4, <1>8

LEMMA InitRest == Init => Rest
<1> SUFFICES ASSUME Init PROVE Rest
  OBVIOUS
<1>1. slot \in [Hashes -> Nat] /\ free_list \in Seq(Nat \ {0})
  BY DEF Init
<1> QED
  BY <1>1, BoundsAssumption DEF Init, Rest

\* The bound on short writes is one.
LEMMA FallsShort ==
  ASSUME shorts \in 0 .. MaxShort, FallShort PROVE shorts' \in 0 .. MaxShort
BY BoundsAssumption DEF FallShort

\* Flags stay flags.
LEMMA NextFlags == Flags /\ [Next]_vars => Flags'
<1> SUFFICES ASSUME Flags, [Next]_vars PROVE Flags'
  OBVIOUS
<1> USE DEF Flags, diskVars, knownVars, haveVars, setVars
<1>1. ASSUME NEW h \in Hashes, Refuse(h) PROVE Flags'
  BY <1>1, Zenon DEF Refuse
<1>2. ASSUME NEW h \in Hashes, Begin(h) PROVE Flags'
  BY <1>2, Zenon DEF Begin
<1>3. ASSUME NEW h \in Hashes, ExpireUnlink(h) PROVE Flags'
  BY <1>3, Zenon DEF ExpireUnlink
<1>4. ASSUME NEW h \in Hashes, ExpireHide(h) PROVE Flags'
  BY <1>4, Zenon DEF ExpireHide, Die
<1>5. CASE Log
  BY <1>5, Zenon DEF Log, LogLine, LogShort
<1>6. CASE Create
  BY <1>6, Zenon DEF Create
<1>7. CASE Write
  BY <1>7, Zenon DEF Write
<1>8. CASE Insert
  <2>1. UNCHANGED torn
    BY <1>8, Zenon DEF Insert
  <2>2. UNCHANGED <<unended, bad>> \/ \E i, x : Put(i, cur, unended /\ x < Len(lines))
    BY <1>8, Zenon DEF Insert, SetInsert
  <2> QED
    BY <2>1, <2>2, Zenon DEF Put
<1>9. CASE ExpireRemove
  <2>1. UNCHANGED torn /\ \E i : Put(i, Deleted, unended \/ lines = <<>>)
    BY <1>9, Zenon DEF ExpireRemove, SetRemove
  <2> QED
    BY <2>1, Zenon DEF Put
<1>10. CASE Crash
  BY <1>10, Zenon DEF Crash, Die
<1>11. CASE OpenRoot
  BY <1>11, Zenon DEF OpenRoot
<1>12. CASE UNCHANGED vars
  BY <1>12, Zenon DEF vars
<1> QED
  BY <1>1, <1>2, <1>3, <1>4, <1>5, <1>6, <1>7, <1>8, <1>9, <1>10, <1>11, <1>12 DEF Next

\* No step breaks the types.
LEMMA NextRest ==
  ASSUME Shapes, Storing, DownIsIdle, Rest, [Next]_vars PROVE Rest'
<1> USE HashesAssumption, BoundsAssumption DEF Rest, Storing, DownIsIdle, Return, CacheSeen,
       diskVars, knownVars, haveVars, history
<1>1. ASSUME NEW h \in Hashes, Refuse(h) PROVE Rest'
  BY <1>1 DEF Refuse, setVars, bounds
<1>2. ASSUME NEW h \in Hashes, Begin(h) PROVE Rest'
  BY <1>2 DEF Begin, setVars, bounds
<1>3. ASSUME NEW h \in Hashes, ExpireUnlink(h) PROVE Rest'
  BY <1>3 DEF ExpireUnlink, Unlink, setVars
<1>4. ASSUME NEW h \in Hashes, ExpireHide(h) PROVE Rest'
  <2>1. slot' \in [Hashes -> Nat] /\ free_list' \in Seq(Nat \ {0})
    BY <1>4 DEF ExpireHide, Die
  <2> QED
    BY <1>4, <2>1 DEF ExpireHide, Unlink, Die
<1>5. CASE Log
  <2>1. cur \in Received /\ pc' # "log"
    BY <1>5 DEF Log, GiveUp
  <2>2. have_file' \subseteq Received /\ glued' \subseteq Received /\ hurt' \subseteq Hashes
    BY <1>5, <2>1 DEF Log, LogLine, LogShort, GiveUp
  <2>3. shorts' \in 0 .. MaxShort
    BY <1>5, FallsShort DEF Log, LogLine, LogShort
  <2> QED
    BY <1>5, <2>1, <2>2, <2>3 DEF Log, setVars
<1>6. CASE Create
  BY <1>6 DEF Create, setVars, bounds
<1>7. CASE Write
  BY <1>7 DEF Write, GiveUp, setVars, bounds
<1>8. CASE Insert
  <2>1. cur \in Hashes /\ Len(lines) \in Nat
    BY <1>8 DEF Insert, Shapes
  <2> DEFINE end == IF unended THEN Len(lines) ELSE Len(lines) + 1
             i == IF free_list = <<>> THEN end ELSE Head(free_list)
  <2>2. i \in Nat /\ FreeAfterInsert \in Seq(Nat \ {0})
    <3>1. end \in Nat
      BY <2>1
    <3> HIDE DEF end
    <3> QED
      BY <3>1 DEF FreeAfterInsert
  <2>3. slot' \in {slot, [slot EXCEPT ![cur] = i]}
        /\ free_list' \in {free_list, FreeAfterInsert}
    BY <1>8 DEF Insert, SetInsert, setVars
  <2>4. \/ UNCHANGED <<knownVars, bad, shorts>>
        \/ Put(i, cur, unended /\ i < Len(lines))
    BY <1>8 DEF Insert, SetInsert, setVars
  <2> HIDE DEF i
  <2>5. slot' \in [Hashes -> Nat]
    <3>1. CASE slot' = slot
      BY <3>1
    <3>2. CASE slot' = [slot EXCEPT ![cur] = i]
      BY <2>2, <3>2
    <3> QED
      BY <2>3, <3>1, <3>2
  <2>6. free_list' \in Seq(Nat \ {0})
    BY <2>2, <2>3
  <2>7. shorts' \in 0 .. MaxShort
    BY <2>4, FallsShort DEF Put
  <2>8. unlisted' \subseteq Hashes
    BY <1>8, <2>1 DEF Insert
  <2> QED
    BY <1>8, <2>1, <2>5, <2>6, <2>7, <2>8 DEF Insert
<1>9. CASE ExpireRemove
  <2>1. victim \in Hashes
    BY <1>9 DEF ExpireRemove, Shapes
  <2> DEFINE i == IF slot[victim] = 0 THEN 1 ELSE slot[victim]
  <2>2. i \in Nat \ {0}
    BY <2>1
  <2>3. slot' = [slot EXCEPT ![victim] = i] /\ free_list' = Append(free_list, i)
    BY <1>9 DEF ExpireRemove, SetRemove
  <2>4. Put(i, Deleted, unended \/ lines = <<>>)
    BY <1>9 DEF ExpireRemove, SetRemove
  <2> HIDE DEF i
  <2>5. i \in Nat /\ slot \in [Hashes -> Nat]
    BY <2>2
  <2>6. slot' \in [Hashes -> Nat]
    BY <2>3, <2>5
  <2>7. free_list' \in Seq(Nat \ {0})
    BY <2>2, <2>3
  <2>8. shorts' \in 0 .. MaxShort
    BY <2>4, FallsShort DEF Put
  <2> QED
    BY <1>9, <2>6, <2>7, <2>8 DEF ExpireRemove
<1>10. CASE Crash
  <2>1. slot' \in [Hashes -> Nat] /\ free_list' \in Seq(Nat \ {0})
    BY <1>10 DEF Crash, Die
  <2> QED
    BY <1>10, <2>1 DEF Crash, Die
<1>11. CASE OpenRoot
  <2>1. slot' \in [Hashes -> Nat] /\ free_list' \in Seq(Nat \ {0})
    BY <1>11, ReLoadTypes DEF OpenRoot, Shapes
  <2> QED
    BY <1>11, <2>1 DEF OpenRoot, bounds
<1>12. CASE UNCHANGED vars
  BY <1>12 DEF vars, setVars, bounds
<1> QED
  BY <1>1, <1>2, <1>3, <1>4, <1>5, <1>6, <1>7, <1>8, <1>9, <1>10, <1>11, <1>12 DEF Next

\* After any crashes and errors the slots are numbers, the free list holds
\* numbers of lines, and only hashes peers may send are logged and cached.
THEOREM StoreTypes == Spec => []TypeOK
<1>1. Init => Shapes /\ Storing /\ DownIsIdle /\ Rest /\ Flags
  BY InitIndexInv, InitRest DEF IndexInv, Init, Flags
<1>2. Shapes /\ Storing /\ DownIsIdle /\ Rest /\ Flags /\ [Next]_vars
        => (Shapes /\ Storing /\ DownIsIdle /\ Rest /\ Flags)'
  BY ShapesKept, NextRest, NextFlags
<1>3. Shapes /\ Storing /\ DownIsIdle /\ Rest /\ Flags => TypeOK
  BY HashesAssumption DEF Shapes, Storing, Rest, Flags, TypeOK
<1> QED
  BY <1>1, <1>2, <1>3, PTL DEF Spec
=============================================================================
