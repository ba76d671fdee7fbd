------------------------------ MODULE HashStore ------------------------------
(***************************************************************************)
(* The messages a mover keeps on disk: Mover::storeData and iWant           *)
(* (mover/Mover.cc), HashFileStore (file/HashFileStore.cc) and the          *)
(* FileBackedSet known_hashes behind it (file/FileBackedSet.h), over        *)
(* crashes, failed writes and restarts.                                     *)
(*                                                                          *)
(* storeData() and createRandomMessage() run in the monitor of the Mover:   *)
(* one message is stored at a time, pc says how far it has come.  expire()  *)
(* runs outside that monitor, a second thread of control.  The operations   *)
(* of the FileBackedSet are synchronized.  All hashes have one length, so   *)
(* an offset in known_hashes is the number of a line; the file is taken to  *)
(* be short enough to be read in one go (16384 bytes, file/TextusFile.cc).  *)
(* Every write may fail or fall short.  What a short write leaves of a line *)
(* is Torn, and so is a line that goes on where another was cut off; more   *)
(* than the newline is taken to be missing.                                 *)
(***************************************************************************)
EXTENDS Naturals, Sequences, FiniteSets

CONSTANTS
  Hashes,     \* of all messages
  Received,   \* of those peers send; the others createRandomMessage() makes
  None,       \* no hash
  Deleted,    \* the line "<Deleted>..."
  Torn,       \* a line of known_hashes that is no message's hash
  MaxCrashes, \* bound on crashes
  MaxExpired, \* bound on files that expire
  MaxShort    \* bound on writes of known_hashes and of the have-file that fall short

ASSUME HashesAssumption ==
  Received \subseteq Hashes /\ {None, Deleted, Torn} \cap Hashes = {} /\ Deleted # Torn
ASSUME BoundsAssumption == MaxCrashes \in Nat /\ MaxExpired \in Nat /\ MaxShort \in Nat

VARIABLES
  files,      \* the file of each hash: "none", "empty", "part" or "full"
  lines,      \* the lines of known_hashes
  unended,    \* the last of them has no newline
  have_file,  \* the hashes that are a line of the file mover_have_file names
  glued,      \* those that follow, on one line of it, a part of another
  torn,       \* its last line is a part of one
  up,         \* the process runs and has a store
  slot,       \* FileBackedSet::base_set: the line of each hash, 0 if absent
  free_list,  \* FileBackedSet::free_list
  bad,        \* badbit of the stream: << writes nothing any more
  seen_cache, \* Mover::seen_cache
  pc, cur,    \* how far storeData() or newData() has come, and its hash
  victim,     \* the file expire() has unlinked and not yet taken out
  kept,       \* history: stored to the end, not expired since
  unlisted,   \* history: stored to the end, but known_hashes got no line of it
  hurt,       \* history: a crash or an error cut its storing short, or it expired
  misfiled,   \* history: a file expired that known_hashes did not list
  crashes, expirations, shorts

knownVars == <<lines, unended>>
haveVars == <<have_file, glued, torn>>
diskVars == <<files, knownVars, haveVars>>
setVars == <<slot, free_list, bad>>
history == <<kept, unlisted, hurt, misfiled>>
bounds == <<crashes, expirations, shorts>>
vars == <<diskVars, up, setVars, seen_cache, pc, cur, victim, history, bounds>>

Init ==
  /\ files = [h \in Hashes |-> "none"]
  /\ lines = <<>> /\ unended = FALSE
  /\ have_file = {} /\ glued = {} /\ torn = FALSE
  /\ up = TRUE
  /\ slot = [h \in Hashes |-> 0]
  /\ free_list = <<>> /\ bad = FALSE
  /\ seen_cache = {}
  /\ pc = "idle"
  /\ cur = None
  /\ victim = None
  /\ kept = {} /\ unlisted = {} /\ hurt = {} /\ misfiled = FALSE
  /\ crashes = 0 /\ expirations = 0 /\ shorts = 0

-----------------------------------------------------------------------------
(* FileBackedSet. *)

\* Seeded fault: the slot stays on the free list.
FreeAfterInsert_Kept == free_list

\* free_list.pop_front() in addNewElement().
FreeAfterInsert == IF free_list = <<>> THEN <<>> ELSE Tail(free_list)

HasLine(ls, h) == \E i \in DOMAIN ls : ls[i] = h

\* l written at slot i.  What goes on behind a part of a line makes no line.
Overwrite(i, l) ==
  IF i > Len(lines) THEN Append(lines, l)
  ELSE IF lines[i] = Torn THEN lines ELSE [lines EXCEPT ![i] = l]

\* A write falls short: nothing is written, or a part.
FallShort == shorts < MaxShort /\ shorts' = shorts + 1

\* *handle() << l: the result is not looked at.  A write that fails or falls
\* short sets badbit; nobody clears it while the file is open.
Put(i, l, ended) ==
  \/ bad /\ UNCHANGED <<knownVars, bad, shorts>>
  \/ /\ ~bad
     /\ lines' = Overwrite(i, l) /\ unended' = ended
     /\ UNCHANGED <<bad, shorts>>
  \/ /\ ~bad /\ bad' = TRUE
     /\ FallShort
     /\ \/ UNCHANGED knownVars
        \/ /\ lines' = Overwrite(i, Torn)
           /\ unended' = (unended \/ i > Len(lines))

\* insert(h): if it is new, addNewElement() writes it over a deleted line, or
\* behind the last one, which may lack its newline.
SetInsert(h) ==
  LET end == IF unended THEN Len(lines) ELSE Len(lines) + 1
      i == IF free_list = <<>> THEN end ELSE Head(free_list) IN
  IF slot[h] # 0 THEN UNCHANGED <<knownVars, setVars, shorts>>
  ELSE /\ slot' = [slot EXCEPT ![h] = i]
       /\ free_list' = FreeAfterInsert
       /\ Put(i, h, unended /\ i < Len(lines))

\* Seeded fault: the line in the middle is cut out of the file.
SetRemove_CutsOut(h) ==
  LET i == IF slot[h] = 0 THEN 1 ELSE slot[h] IN
  /\ lines' = SelectSeq(lines, LAMBDA l : l # h)
  /\ slot' = [slot EXCEPT ![h] = i]
  /\ UNCHANGED <<unended, free_list, bad, shorts>>

\* removeElement(h).  base_set[h] makes an entry with offset 0, the first line,
\* for an h that is not there; one that is stays.
SetRemove(h) ==
  LET i == IF slot[h] = 0 THEN 1 ELSE slot[h] IN
  /\ slot' = [slot EXCEPT ![h] = i]
  /\ free_list' = Append(free_list, i)
  /\ Put(i, Deleted, unended \/ lines = <<>>)

\* reLoad(): the last line of a hash counts, deleted lines are free, from the
\* first to the last.  A torn one makes an entry for a hash no message has.
ReLoad ==
  LET deleted == {i \in DOMAIN lines : lines[i] = Deleted} IN
  /\ slot' = [h \in Hashes |->
                IF \E i \in DOMAIN lines : lines[i] = h
                THEN CHOOSE i \in DOMAIN lines :
                       lines[i] = h /\ \A j \in DOMAIN lines : lines[j] = h => j <= i
                ELSE 0]
  /\ \E order \in [1 .. Cardinality(deleted) -> deleted] :
       /\ \A i, j \in DOMAIN order : i < j => order[i] < order[j]
       /\ free_list' = order

-----------------------------------------------------------------------------
(* Mover::storeData and HashFileStore::writeData. *)

\* HashFileStore::seen(): listed, or there is an entry of that name.
Seen(h) == slot[h] # 0 \/ files[h] # "none"

\* Seeded fault: only the cache is asked.
Wanted_CacheOnly(h) == h \notin seen_cache

\* iWant() says yes.
Wanted(h) == h \notin seen_cache /\ ~Seen(h)

\* The cache keeps the newest entries: an older one may be pruned.
CacheSeen(h) == seen_cache' \in {{h}, seen_cache \cup {h}}

\* iWant() says no.
Refuse(h) ==
  /\ up /\ pc = "idle"
  /\ h \in Received \ seen_cache /\ Seen(h)
  /\ CacheSeen(h)
  /\ UNCHANGED <<diskVars, up, setVars, pc, cur, victim, history, bounds>>

\* storeData() of what iWant() wants, or newData() from createRandomMessage(),
\* which makes no message twice.
Begin(h) ==
  /\ up /\ pc = "idle"
  /\ IF h \in Received THEN Wanted(h) ELSE h \notin kept \cup hurt
  /\ cur' = h
  /\ pc' = IF h \in Received THEN "log" ELSE "create"
  /\ UNCHANGED <<diskVars, up, setVars, seen_cache, victim, history, bounds>>

\* storeData() returns.
Return == pc' = "idle" /\ cur' = None

\* It goes to error_out.
GiveUp == hurt' = hurt \cup {cur} /\ Return

\* The hash and its newline, at the end of the file.
LogLine ==
  /\ IF torn
     THEN glued' = glued \cup {cur} /\ UNCHANGED have_file
     ELSE have_file' = have_file \cup {cur} /\ UNCHANGED glued
  /\ torn' = FALSE
  /\ UNCHANGED shorts

LogShort == FallShort /\ torn' \in {torn, TRUE} /\ UNCHANGED <<have_file, glued>>

\* Seeded fault: an error is ignored.
Log_ErrorIgnored ==
  /\ pc = "log"
  /\ LogLine \/ LogShort
  /\ pc' = "create"
  /\ UNCHANGED <<files, knownVars, up, setVars, seen_cache, cur, victim, history, crashes,
                 expirations>>

\* have_file()->write() and sync(), which may fail, too: then the line is there
\* though the message is not stored.
Log ==
  /\ pc = "log"
  /\ \/ LogLine /\ pc' = "create" /\ UNCHANGED <<cur, hurt>>
     \/ LogLine /\ GiveUp
     \/ LogShort /\ GiveUp
  /\ UNCHANGED <<files, knownVars, up, setVars, seen_cache, victim, kept, unlisted,
                 misfiled, crashes, expirations>>

\* findEntry(), then openFile() with O_CREAT.
Create ==
  /\ pc = "create"
  /\ \/ /\ files[cur] = "none"
        /\ files' = [files EXCEPT ![cur] = "empty"]
        /\ pc' = "write"
        /\ UNCHANGED <<cur, hurt>>
     \/ /\ hurt' = IF files[cur] = "none" THEN hurt \cup {cur} ELSE hurt
        /\ Return
        /\ UNCHANGED files
  /\ UNCHANGED <<knownVars, haveVars, up, setVars, seen_cache, victim, kept, unlisted,
                 misfiled, bounds>>

\* Seeded fault: a short write is not noticed.
Write_ShortIsFine ==
  /\ pc = "write"
  /\ \E much \in {"part", "full"} : files' = [files EXCEPT ![cur] = much]
  /\ pc' = "insert"
  /\ UNCHANGED <<knownVars, haveVars, up, setVars, seen_cache, cur, victim, history, bounds>>

\* fh->write(), which may fall short: then the file stays as it is.
Write ==
  /\ pc = "write"
  /\ \/ /\ files' = [files EXCEPT ![cur] = "full"]
        /\ pc' = "insert"
        /\ UNCHANGED <<cur, hurt>>
     \/ files' = [files EXCEPT ![cur] = "part"] /\ GiveUp
  /\ UNCHANGED <<knownVars, haveVars, up, setVars, seen_cache, victim, kept, unlisted,
                 misfiled, bounds>>

\* hashes()->insert(), well or not; back in storeData() seen_cache.
Insert ==
  /\ pc = "insert"
  /\ SetInsert(cur)
  /\ IF cur \in Received THEN CacheSeen(cur) ELSE UNCHANGED seen_cache
  /\ kept' = kept \cup {cur}
  /\ unlisted' = IF HasLine(lines', cur) THEN unlisted \ {cur} ELSE unlisted \cup {cur}
  /\ Return
  /\ UNCHANGED <<files, haveVars, up, victim, hurt, misfiled, crashes, expirations>>

-----------------------------------------------------------------------------
(* expire(), crashes, openRoot(). *)

\* All that was in memory is gone.
Die ==
  /\ up' = FALSE
  /\ slot' = [h \in Hashes |-> 0]
  /\ free_list' = <<>> /\ bad' = FALSE
  /\ seen_cache' = {}
  /\ Return
  /\ victim' = None
  /\ crashes' = crashes + 1

Crash ==
  /\ up
  /\ crashes < MaxCrashes
  /\ Die
  /\ hurt' = IF pc = "idle" THEN hurt ELSE hurt \cup {cur}
  /\ UNCHANGED <<diskVars, kept, unlisted, misfiled, expirations, shorts>>

\* openRoot() of a directory that has known_hashes.
OpenRoot ==
  /\ ~up
  /\ up' = TRUE
  /\ ReLoad
  /\ UNCHANGED <<diskVars, bad, seen_cache, pc, cur, victim, history, bounds>>

\* expire() has found an old file, not the one being written, and unlinks it.
Unlink(h) ==
  /\ up /\ victim = None
  /\ expirations < MaxExpired
  /\ files[h] # "none" /\ cur # h
  /\ files' = [files EXCEPT ![h] = "none"]
  /\ kept' = kept \ {h}
  /\ misfiled' = (misfiled \/ ~HasLine(lines, h))
  /\ expirations' = expirations + 1

\* With del: the next step is removeElement().
ExpireUnlink(h) ==
  /\ Unlink(h)
  /\ hurt' = hurt \cup {h}
  /\ victim' = h
  /\ UNCHANGED <<knownVars, haveVars, up, setVars, seen_cache, pc, cur, unlisted, crashes,
                 shorts>>

ExpireRemove ==
  /\ victim # None
  /\ SetRemove(victim)
  /\ victim' = None
  /\ UNCHANGED <<files, haveVars, up, seen_cache, pc, cur, history, crashes, expirations>>

\* Without: SystemDirectory::symlink() unlinks the file and then calls itself,
\* not symlink(2), until the stack is full.
ExpireHide(h) ==
  /\ crashes < MaxCrashes
  /\ Unlink(h)
  /\ Die
  /\ hurt' = hurt \cup {h} \cup (IF pc = "idle" THEN {} ELSE {cur})
  /\ UNCHANGED <<knownVars, haveVars, unlisted, shorts>>

-----------------------------------------------------------------------------
Next ==
  \/ \E h \in Hashes : Refuse(h) \/ Begin(h) \/ ExpireUnlink(h) \/ ExpireHide(h)
  \/ Log \/ Create \/ Write \/ Insert
  \/ ExpireRemove
  \/ Crash \/ OpenRoot

Spec == Init /\ [][Next]_vars

-----------------------------------------------------------------------------
(* Properties. *)

TypeOK ==
  /\ files \in [Hashes -> {"none", "empty", "part", "full"}]
  /\ lines \in Seq(Hashes \cup {Deleted, Torn})
  /\ {have_file, glued, seen_cache} \subseteq SUBSET Received
  /\ slot \in [Hashes -> Nat]
  /\ free_list \in Seq(Nat \ {0})
  /\ pc \in {"idle", "log", "create", "write", "insert"}
  /\ cur \in Hashes \cup {None} /\ (cur = None <=> pc = "idle")
  /\ victim \in Hashes \cup {None}
  /\ {kept, unlisted, hurt} \subseteq SUBSET Hashes
  /\ {up, unended, torn, bad, misfiled} \subseteq BOOLEAN
  /\ crashes \in 0 .. MaxCrashes /\ expirations \in 0 .. MaxExpired
  /\ shorts \in 0 .. MaxShort

\* What was stored to the end and has not expired stays: its file is whole, it
\* has one line in known_hashes, and the running process knows that line as
\* its own, whatever crashed, expired or fell short in between.  Only if the
\* write of its own line came to nothing (unlisted) it has none, and is known
\* no longer than the process lives.  (removeElement() of an element that is
\* not in the set overwrites the first line, another message's: after that
\* nothing is promised, hence misfiled.)
KeptIsKnown ==
  ~misfiled => \A h \in kept :
    /\ files[h] = "full"
    /\ h \notin unlisted => \E i \in DOMAIN lines :
         /\ \A j \in DOMAIN lines : lines[j] = h <=> j = i
         /\ up => slot[h] = i

\* A message that came from a peer is in mover_have_file before its data is on
\* disk, in every state a crash can leave: on a line of its own, so that the
\* reader, which works through that file line by line, finds it, unless the
\* write before its own fell short (glued).
WriteAhead == \A h \in Received : files[h] # "none" => h \in have_file \cup glued

\* What the running process lists, and so offers to peers, it can send whole,
\* even while it is storing something else; what expired is listed on.
ListedIsWhole ==
  up /\ ~misfiled => \A h \in Hashes : slot[h] # 0 /\ h \notin hurt => files[h] = "full"

\* As long as the set writes at all, a free slot is a deleted line of nobody,
\* and is on the free list once: the next insert() overwrites no message's line.
FreeIsFree ==
  up /\ ~misfiled /\ ~bad => \A i, j \in DOMAIN free_list :
    /\ lines[free_list[i]] = Deleted
    /\ i # j => free_list[i] # free_list[j]

\* Without crashes, errors and expiry a message is logged once, so processed
\* once: it is logged again only after its first storing was cut short.
LoggedOnce ==
  [][\A h \in have_file : pc = "log" /\ cur = h /\ pc' = "create" => h \in hurt]_vars
=============================================================================
