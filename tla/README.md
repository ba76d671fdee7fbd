# Textus Mover: specifications, model checking and proofs

This directory specifies the concurrent core of Textus Mover
(`src/textus`): the monitor and the reference counts every object has, the
event queues, worker threads and timers everything runs on, the connection of a
server and how it is taken apart, the protocol two movers speak, and the store
each of them keeps on disk. The modules
are TLA+, checked by TLC on small instances; the theorems are proved by TLAPS
for every value of the constants. `PROJECT.json` lists the components, the
runs, the source lines behind every definition, the hazards and the findings.

Lines below are of files under `src/textus/`.

## The system

Mover moves encrypted blobs between peers. A blob is named by its hash. Two
peers open a TLS connection, tell one another the hashes they have, ask for
some of them, send them, and hang up. Everything is C++ on pthreads:

| Part | State | Operations | What makes it correct |
|---|---|---|---|
| `base/Base.h`, the monitor in every object | `sync_count`, `sync_thread_id`, one condition | `synchronize`, `trySync`, `desynchronize`, `wait`, `signal` | one thread inside, nesting kept over `wait`, no lost wakeup |
| reference counting (`base/Base.h`) | `ref_count`, `weak_ref_count` | `ref`, `deref`, `weakRef`, `weakDeref`, `weakDelete` | deleted once, never while referenced |
| `base/locks` | packed counter of `ReadWriteLock`; `done` of `Completion` | read and write lock and unlock; `complete`, `wait`, `reset` | readers or one writer; nobody waits for a free lock |
| `base/Thread`, `ThreadCallBack` | the list of threads, their waiting tasks | start, join, `doAllThreadsWait` | the wait for all threads ends |
| `base/Cache`, lists, sets | map and recency list | insert, find, erase, prune | the list holds exactly the keys of the map |
| `event/Event`, `EventQueue`, schedulers | `event_list`, `current_queue`, `reposted`, round robin | `post`, `repost`, `close`, `processEvents`, `shutdown` | an event is where it believes to be; runs once per post; quiet after `close` |
| `event/Timer`, `TimerQueue`, `TimerEvent` | sorted `timer_list`, `wake_up` | `addTimer`, `removeTimer`, `processTimeOuts`, sleep and wake | no alarm slept over; nothing fires after `close` |
| `threads/` | one queue per `WorkerThread` | start, loop, stop | a shutdown ends |
| `event/State`, `EventWatcher`, `Message`, `Actor` | watchers, actors by priority | subscribe, change, dispatch | every watcher told once |
| `file/FileHandle`, readers, `Pipe` | watched descriptors, buffers | select loop, `dataAvailable`, `spaceAvailable`, framing | a stream is delivered in order, its end last |
| `file/ProcessMonitor`, `Shell` | `pid_map`, `unknown_pids` | `addMonitor`, the reaper | every exit is reported once |
| `file/HashFileStore`, `FileBackedSet` | files by hash, `known_hashes` | write, expire, reload | the index agrees with the files, over a crash |
| `network/server`, `network/ssl` | socket, reader, processor, actor | connect, message, eof, close | torn down once, by whoever comes first, without deadlock |
| `mover/MoverMessageProcessor` | what the peer has, what is still to be sent or received | HELLO, IHAVE, IWANT, DATA, DONE, GOODBYE, time-outs | only what is offered is sent, a session ends on both sides |
| `mover/Mover` | the advertised set, the have-file, the store | `parseIHave`, `parseIWant`, `storeData`, `resetIHave`, `expire` | a blob is logged and stored once |
| `db/` | pool of instances, read-write lock | queries, writes, invalidation | readers wait for writers and are let in again |
| `random`, `keys`, `config`, `persist`, `util`, `system`, `scripts` | little or none | conversions, generators, parsers | sequential code |

How they interact. Every class is a `Base`, so every handler runs inside the
monitors of the objects it touches. The select loop reads a descriptor and
posts an event for each chunk; a worker takes the event, feeds a reader, which
builds a `Message`, which an `Actor` passes to the processor of the
connection, which calls the `Mover`. Timers are events too: the timer thread
calls `timeOut()` of a timer, which posts an event, or, for the processor's
timer, runs the session's time-out in the timer thread itself. `TextusShutdown`
stops all of these threads while they run.

The behaviours that are hard: locks of several objects taken in different
orders; conditions shared by different waiters; an event that is closed,
expired, moved and taken at once; objects torn down by a time-out while a
message is on its way to them; a crash between two writes; sessions that both
ends may leave at any moment. The list, with lines, is under `hazards`.

## Modules

| Module | Models | Extends or instantiates |
|---|---|---|
| `Monitor` | what a `Base` promises: a recursive monitor that a thread may step out of | |
| `BaseMonitor` | `Base.h`: the code of that monitor | `INSTANCE Monitor` |
| `BaseMonitor_proofs` | theorems about it | `BaseMonitor`, `TLAPS` |
| `MCBaseMonitor` | its model for TLC | `BaseMonitor` |
| `EventDispatch` | events, queues, workers, the fail-safe and the timer thread, `close`, shutdown | |
| `MCEventDispatch` | its models for TLC | `EventDispatch` |
| `EventDispatch_proofs` | a theorem about its end | `EventDispatch`, `TLAPS` |
| `EventRaces_proofs` | theorems about posts, closes, time-outs and handlers that meet | `EventDispatch_proofs` |
| `RefCount` | `Base.h`: `ref`, `deref`, weak references, `weakDelete` of one object | |
| `RefCount_proofs` | theorems about it | `RefCount`, `TLAPS` |
| `MCRefCount` | its model for TLC | `RefCount` |
| `TimerQueue` | timers, the sorted list, the timer thread and its sleep, `threadExit` | |
| `TimerQueue_proofs` | theorems about it | `TimerQueue`, `TLAPS` |
| `MCTimerQueue` | its model for TLC | `TimerQueue` |
| `ServerSession` | one connection: socket, reader, actor and processor, messages in and out, who closes what | |
| `ServerSession_proofs` | theorems about it | `ServerSession`, `TLAPS` |
| `MCServerSession` | its model for TLC | `ServerSession` |
| `MoverProtocol` | sessions between movers: the processors at both ends, the messages between them, what each mover says it has and stores, uploads | |
| `MoverProtocol_proofs` | theorems about it | `MoverProtocol`, `TLAPS` |
| `MCMoverProtocol` | its models for TLC | `MoverProtocol` |
| `HashStore` | `storeData`, `HashFileStore` and `FileBackedSet` over crashes, errors and expiry | |
| `HashStore_proofs` | theorems about it | `HashStore`, `TLAPS` |
| `MCHashStore` | its model for TLC | `HashStore` |

How the modules meet. `BaseMonitor` refines `Monitor`; every other module takes
the monitors it needs as `Monitor` promises them, held or free. `EventDispatch`
lets a timer expire at any moment; `TimerQueue` shows when it does.
`ServerSession` takes from `EventDispatch` that the events of one queue are run
one after another, and shows what the steps of a session cross in between;
`MoverProtocol` takes its handlers as one step each, at either end.
`MoverProtocol` stores a message in one step; `HashStore` takes that step
apart. They are not composed for TLC: each is bounded by what its own hazards
need, and the products are out of reach.

Operators whose names end in `_Something` and that are preceded by "Seeded
fault" are not part of the models: each is a plausible bug, used to see that
the property it is meant for notices it (`mutants` in `PROJECT.json`).

### BaseMonitor

State: `sync_thread_id` and `sync_count` are the fields of `Base`; `pc`,
`calling` and `scount` are where a thread stands in which function, with the
local variable of `wait()`; `depth` counts the calls a thread has made and not
undone, which the code does not store: it is what the fields are compared with.

All functions hold the object's `mutex` from beginning to end, except in
`condition.wait`. So a call is one action, cut at `condition.wait`:
`Synchronize` and `SyncRetry` (one more turn of the loop, Base.h:102-111),
`WaitRelease` and `WaitRetry` (Base.h:408-413, 414-420). `condition.signal()` is
a broadcast (Condition.h:63-67): `Broadcast` lets every sleeper test again.
`SpuriousWakeup` is allowed by pthreads, and made likely by `Condition::wait`,
which returns after running tasks of its thread (Condition.h:76-83).

`Desynchronize` has the guard `depth[t] > 0`, not ownership: scopes end when
they end. That the code's assert holds then is the invariant `OwnerAsserted`.

### EventDispatch

State: for each queue its list, `should_quit`; for each event `current_queue`,
`preferred_queue`, `reposted`, `first_time_out`, and `evOwner`, who is in
`Synchronized(event)`; the timer list and the local list of expired timers; the
round robin; the flags of shutdown; and for each thread its place, the event
and the queue in its hands. `posts`, `handled`, `closed` and `doubled` are
history; `doubled` says that an event was posted while it was queued, which the
code warns of (Event.cc:60-63) and after which nothing is promised of it.

Grain: the monitors of events and the mutexes of queues. A queue's mutex held
inside one action needs no variable; the one place where it is held across
steps is `processEvents`, which waits for the event's monitor with its queue
locked (EventQueue.cc:64-69): `Locked(q)`. `post` is five steps: the monitor
(`PostEnter`), the choice of the queue (`PostResolve`, which also arms the
timer), the push under the queue's lock (`PostPush`), the signal outside it
(`PostSignal`), the return. A client, a handler and the timer thread run the
same steps. `processEvents` is `WorkerTake`, `WorkerHandle`, `WorkerDoIt` and
`WorkerDone`, which leaves the event and takes the queue's lock again in one step;
`do_it` may post its own event again. The shutdown is the code of
`TextusShutdown` in the order of its priorities: the workers first, then the
fail-safe and the timer thread, which share a priority, in either order.

Abstracted: time (a timer that may expire does so at any moment), the sleep of
the timer thread (`TimerQueue` has both), event targets (part of `do_it`), the
number of worker threads and their creation.

`Overlap` and `Overdue` are what the environment does: whether clients post or
close an event that is in use, and whether an event may stay queued for its
default time-out of 10000000 seconds.

### MoverProtocol

State: per mover `ihave` (`Mover::ihave_`) and `store` (the hashes of its
`HashFileStore`); per end of a link the fields of its `MoverMessageProcessor`
in `mmp`, and in `chan` the messages it has sent that its peer has not read.
`told`, `asked` and `owed` are history: what an end has sent in IHAVEs and
IWANTs and the number of DONEs it has still to get.

Grain: every entry point of a processor runs under the processor's monitor, so
a handler is one action, named after its `case` in `processMessage`. The
handler of IHAVE uses the `Mover` twice; another session's handler or
`resetIHave` may run in between, so it is two actions, `ParseIHave` and
`AnswerIHave`, and no other action of that end is enabled between them.
`parseIWant` reads the set once in the model and once per token in the code; a
`resetIHave` among the tokens only changes how many messages are sent.

Random choices are nondeterministic: IHAVE or HELLO at start, the subset that
`resetIHave` keeps, the items wanted of a long list (an item the mover has may
be asked for again, so any subset of the chosen size can come out).
`std::set` and `join` sort the items, so the last token of a request is its
greatest: `SentItem`.

`Close` keeps some beginning of what the end has sent: `close()` drops the
output buffer, and a kernel that has unread input resets the connection. The
peer then reads what arrived and gets an end of file. `EndOfFile`,
`HandleGoodBye`, `TimeOut`, `NetworkError` and the two ways to hang up after
DONE all end in it. `LoseTimer` is the race in the constructors of the timer;
`Racy` and `Broken` say at which ends timers are lost and networks fail.

Abstracted: when timers expire (after the start-up a time-out may come at any
moment), the empty strings `Random::choose` leaves when it is asked for more
than there are (`Selections` takes what there is), that `parseIWant` asks the
`Mover` token by token (`HandleIWant` looks once), the cache of seen hashes, the
have-file and failures inside `storeData` (`HashStore` has them), the monitors
of socket and reader (`ServerSession` has them), HELLO's limit, which a mover's
one HELLO never reaches.

### RefCount

State: the two counts; `strong` and `attached`, the references there really
are, which the code does not store; per thread its place in `deref()`, the
holders its `weakDelete()` has still to close and, for the one place without
the mutex, what it has read of the count. A thread gets at the object through a
holder, an `AutoWeakDeref` in another object, whose monitor it enters: `Ref`.

Grain: what `deref()` does with the mutex held is one action: `Deref` and
`CountDown` (Base.h:261-282), `Verdict` after `weakDelete()` (the mutex is
taken again in `Relock` when it returned true). When it returns false the code
goes round its loop, and decrements, without the mutex (`Race` reads, `Raced`
writes): `loose` marks this, and the counts are promised only before. Holders
outside `Closed` are those a class's `weakDelete()` does not close; the
property `LooseOnlyByOthers` says that only they bring it about.

### TimerQueue

State: `timer_list`, `end_time`, `Timer::tq`, `wake_up`, `should_exit`, the
locals `timeout` and `expired`, a clock, and where each thread is. The three
locks (a timer's monitor, the list lock, the mutex of the condition) are read
off the places: `MonitorFree`, `ListFree`, `MutexFree`.

Grain: `timerStart` is `SetTime`, `AddTimer`, `Wake`; `timerStop` and the worker
that takes the event of a timer are `ClientStop`, `RemoveTimer`, `Wake`; the
thread goes through `ThreadLoop`, `ThreadPrepare` (`allowSleep` and the first
look at the list), `ThreadWait`, a wait that ends by signal, time or for no
reason, `ThreadCollect`, and `ThreadFire` for each expired timer, whose
`timeOut` may start it again (`ThreadStart`). `threadExit` is `ExitEnter`,
`ExitSet`, `ExitWake`, `ExitJoin`.

A start holds the timer's monitor to its end, as `Event::post` does around it
(Event.cc:73). `timerStart` alone leaves it before `addTimer` (Timer.cc:53-54):
that a timer which is no event is stopped or started again in between is not
modelled.

`restarted` marks that `timerStart` was called for a timer still on the list: it
changes a deadline in place (Timer.cc:53), the order is lost, and the order and
what rests on it are promised only before.

### ServerSession

State: the owners of the three monitors; the events posted for the reader; its
buffer of parsed messages; which links between socket, reader, actor and
processor are set; where the reader's worker, each caller and the select loop
are. `closer` is history: who closed first.

Grain: the reader's worker takes an event (`Read`, `TakeSpace`, `TakeEof`),
parses a message in the reader's monitor (`Parse`, `Reject`), enters the actor
(`Act`), the socket (`Enter`) and the processor (`Handle`, with what the message
is: `HandleData`, `HandleBye`, `HandleOver`). A caller enters the processor first
(`Call`), then sends through the socket (`Send`) and, when it hangs up, closes
the socket and the reader in their monitors, one after the other (`HangUp`,
`CutReader`, `HungUp`). The select loop is in the socket while it posts
(`Arrive`). Monitors are reentrant, so a close by the handler of a message is one
step. Freed memory may still look as it did: `Act` on a deleted actor goes on or
crashes.

Everything that reads or writes may fail, and `processReadWriteError` then
closes in the socket's monitor and stays in it while it goes on to the processor
and the reader: in the select loop (`LoopFail`, `LoopProc`, `LoopDrop`), in a
caller (`SendFails`, `SendDrop`), in the worker when it may write again
(`CannotWrite`, `CannotEnd`) and in the handler of a message (`HandleUnsent`). A
message `readMessage` does not accept stays in the buffer and closes in the
reader's monitor (`Reject`, `Cut`, `End`).

Abstracted: what a message says, but for the four kinds the worker tells apart;
how often a call sends (once; a start-up that sends twice and whose first write
fails uses the mover it has let go of in the caller's thread, which this module
does not follow); verifiers, handshakes and the watcher.

Two exceptions are part of the properties, since the code has no way to avoid
them. The worker crashes (`CrashOnlyByOthers`) when another thread, or a write of
its own that failed, closed the connection under it, and at three places that go
on after a close of the worker's own: a HELLO over the limit calls the mover, a
malformed IHAVE the mover or the timer, and a bad message behind a Good Bye
`close()` of a handle that is gone. And `Inverted`: who is in the socket's
monitor and wants the processor's while a caller holds that and wants the
socket's, or who closes in the socket's and wants the reader's, with which the
worker comes for the socket's.

### HashStore

State: the file of each hash and how much of it is written; the lines of
`known_hashes`; the have-file; the memory of a running process (`slot`, which is
`FileBackedSet::base_set`, `free_list`, `bad`, the stream's badbit,
`seen_cache`); how far `storeData` has come with which hash; and the file
`expire()` has unlinked and not yet taken out. `kept`, `unlisted`, `hurt` and
`misfiled` are history: what was stored to the end and has not expired; what of
that got no line of `known_hashes`; what a crash, an error or expiry has touched;
and that a file expired which `known_hashes` did not list.

Grain: `storeData` is `Begin` (with `iWant`), `Log`, `Create`, `Write`,
`Insert`: the disk changes in each of them and a `Crash` may come between any
two. Each may also fail, and every write may fall short. Of a line of the
have-file a part is then left, to which the next line is glued (`LogShort`,
`LogLine`); a sync that fails leaves the whole line. The result of a write of
`known_hashes` is not looked at (`Put`): the stream is bad from then on and
drops what follows without a word, and what the write left is no message's line
(`Torn`). A short write is taken to miss more than the newline. Expiry is two
steps,
`ExpireUnlink` and `ExpireRemove`, by a thread that is not in the monitor of the
`Mover`; without `del` it is `ExpireHide`, which ends the process
(SystemDirectory.h:119). `OpenRoot` reads the lines again.

`removeElement` of a hash that is not in the set makes an entry for the first
line (`std::map::operator[]`) and overwrites it. It takes a crash or an error
and the expiry of the file it left behind to get there. After that (`misfiled`)
another message's line is gone, and the properties of the index promise nothing
(where the first line is torn, what the removal writes into it is not followed).
A message whose own line came to nothing (`unlisted`) is kept, but known only as
long as the process lives; a line glued to another (`glued`) is in the have-file,
but the reader, which works by lines, does not find it. Both are exceptions in
the properties.

## Runs

| Run | Instance | Shows |
|---|---|---|
| `base_monitor` | 3 threads, nesting of 2, 31 thousand states | exclusion, the asserts, no lost wakeup, the refinement of `Monitor`, and that a free object is taken |
| `event_delivery` | 2 clients, 1 worker, an `Event` and a `TimerEvent`, shutdown | what is posted is run; a shutdown ends; no deadlock; no death before a shutdown |
| `event_races` | 3 clients that post and close an event in use, 2 workers, time-outs, 1 event, 3.3 million states | an event is on the queue it remembers and nowhere else; a closed event is quiet; never run more often than posted |
| `event_lock_order` | finding | `close()` against the worker: deadlock |
| `timer_closed` | finding | a closed `TimerEvent` runs |
| `ref_count` | 3 threads, 2 of them owners, 3 holders, 2 of them closed by `weakDelete`, 282 thousand states | destroyed once, with no reference left; the counts are the references; deleted in the end; the unlocked loop only by holders left open |
| `timer_queue` | 1 client, 2 timers, delays of 0 and 1, exit at any moment, 343 thousand states | no deadline slept over; the list is sorted; every alarm rings; the thread hears of its end and ends |
| `server_session` | 2 callers (a timer, an uploader), 3 arrivals, 2 calls each, 1.3 million states | closed together or not at all; which closing by the worker itself is safe; nobody is stuck but by the known inversions; the end of the file closes |
| `mover_session` | 2 movers or an uploader and a mover, 2 hashes and the empty one, a reset each, lost timers and network errors at both ends, 560 thousand states | nobody asks for what was not told or sends what was not asked for; between open ends every request is under way or answered |
| `mover_answers` | the same with 1 hash, fair | an end notices that its peer is gone; whoever asks is answered or the connection ends; one timer, or an upload, ends it at both ends |
| `mover_offered` | finding | sends what it does not offer any more |
| `hash_store` | 2 messages from peers, 1 made locally, 2 crashes, 2 expirations, 2 short writes, 4.4 million states | what is kept is whole and listed once; logged before it is stored, and once; free lines are nobody's |

Every module's type invariant is proved (see Proofs); a run checks it as well where
a plausible bug in the code would break it.

Bounds. `MaxDepth` 2 is the least with nesting; three threads are the least
with one inside, one blocked and one in `wait()`. In `EventDispatch`, `MaxCalls`
bounds the calls of each client, `MaxPosts` the posts of each event, `MaxFires`
the expirations. In `event_races` three clients with a call each (the same as
each other: symmetry) are enough for an event to be queued again while a first
run, a time-out and a close are still on their way, which is where these
operations meet; two workers are the least with which an event can be on two
queues. Events interact only through a queue's lock and order, so one event is
enough where the property is about one event; `event_delivery` has two, of
different classes.

`ref_count`: two owners give the last references back at once while a third
thread comes in through a holder; two closed holders let `weakDelete` be between
them, the third is one it forgets. `MaxRefs` 4 lets the object be brought back
more than once. `timer_queue`: with two timers a list has an order, with delays
0 and 1 and a clock up to 2 one is inserted before and behind the other, and
three starts let one be started again on the list. `server_session`: three
arrivals hold a chunk, one that closes or space, and the end; each of two callers
can send and hang up. `hash_store`: three hashes let one line be
freed, taken by another message and asked for again; two crashes put one into
the recovery from the other; two expirations one into the reuse after the
other; two short writes one of each file, or one before and one after a restart;
only hashes from peers are symmetric.

In `MoverProtocol` a session is finite by itself: one start-up and at most one
answer per message. `MaxResets` 1 lets the advertised set change once under
each session. Two hashes besides the empty one are the least for which the item
that is sent and the items allowed differ, and with `MinIWant` 2 and `MaxIWant`
3 both the short and the long branch of `parseIHave` are taken. All stores of
at least `MinIHave` hashes are initial. `mover_answers` has one hash, since its
properties do not look at items, and `mover_min_i_have` 0, so that an end may
have nothing to say and a request may come for what `resetIHave` has withdrawn:
the answer is then DONE alone.

Deadlock is checked in `base_monitor` and `event_delivery`. In `event_races` it
is not: the deadlock `event_lock_order` finds can stop every run in which
clients call an event in use; nor in `server_session`, where `Inverted` are some.
The others really stop: when sessions are over, when an object is deleted, when
the timer thread has ended, when crashes and messages have run out.

Fairness. `BaseMonitor`: a woken thread runs on (`SyncRetry`, `WaitRelease`,
`WaitRetry`); nobody has to enter, leave or signal. `EventDispatch`: every
thread that can take a step does in the end, and time passes, so timers expire;
nobody has to call or to shut down, and no `condition.wait` has to return by
itself. Weak fairness is what a preemptive scheduler gives; strong fairness on
a contended monitor is not assumed, and starvation in `synchronize()` is not
excluded by the code. `MoverProtocol`: what has arrived is read, an upload
runs to its end, and a timer that is set expires: it is renewed every 30 seconds
at most and hangs up when `max_connection_time` is over, whatever arrives.
`RefCount`: a thread gives its reference back and `deref()` returns; nobody has
to take a reference or drop a holder. `TimerQueue`: threads run, calls that have
begun go on, time passes; nobody has to start, stop or exit, and no wait ends by
itself. `ServerSession`: the worker handles what is posted, and a call and a
close that have begun go on; nothing has to arrive or to fail and nobody has to
call.

## Findings

Three runs expect a violation: each checks what a comment of the code says and
finds that the code does otherwise. They are described under `findings`.

* `processEvents` takes the event's monitor inside the queue's lock; "Lock
  order is Event, then EventQueue" (event/Event.h:27).
* `close()` does not stop a `TimerEvent` that has expired already, although it
  shall "remove the event from the queue and deactivate it" (event/Event.h:98).
* "Must only send what was offered" (mover/Mover.cc:368): `parseIWant` sends the
  last token of the request, not the items it has found to be allowed. A
  consequence: of several hashes asked for at most one is ever sent.

Modelled as it is, and an exception in the properties, since no text of the
repository says otherwise:

* `deref()` goes round its loop without the mutex after `weakDelete()` returned
  false (base/Base.h:268): `loose`.
* `timerStart()` of a timer on the list changes its deadline in place
  (event/Timer.cc:53): `restarted`.
* A connection closed by another thread while its worker delivers a message: the
  worker uses a deleted actor or a processor set to NULL
  (network/server/ServerTemplate.h:215): `crashed`.
* The worker closes and goes on as if it had not: HELLO over the limit
  (mover/MoverMessageProcessor.h:351-357), a malformed IHAVE
  (mover/Mover.cc:281-284), a bad message behind a Good Bye
  (file/ProtoBufReader.cc:184-232): `crashed`.
* The worker enters socket, then processor; whoever sends, processor, then
  socket (mover/MoverMessageProcessor.h:319); whoever cannot read or write closes
  in the socket's monitor (network/ssl/SecureSocket.h:97-123): `Inverted`,
  deadlocks.
* Writes of `known_hashes` are not looked at (file/FileBackedSet.h:189-197):
  `unlisted`. What a short write leaves of a line of the have-file is not taken
  back (mover/Mover.cc:424): `glued`.
* `removeElement()` of a hash that is not in the set overwrites the first line
  (file/FileBackedSet.h:193): `misfiled`.
* `SystemDirectory::symlink()` calls itself (file/SystemDirectory.h:119):
  `ExpireHide`.
* With no queue left `getQueue` and `defaultQueue` call each other without end,
  where Event.cc:65-69 expects a NULL queue: `overflow`, proved to be possible
  in a shutdown only.
* The timers of both ends may be lost (event/TimerEvent.h:47), and then nothing
  but the network ends the connection: `LoseTimer`.
* `parseIHave` asks for hashes the mover itself has announced, and an IHAVE may
  exceed `mover_max_i_have` (mover/Mover.cc:73), since what a mover is told is
  added uncounted.
* `should_quit` is stored before the lock is taken (event/EventQueue.h:126): the
  fail-safe thread may have freed the queue before `threadExit` is done with it.

Seen by reading only: beyond its first 16384 bytes `readMore()` gets the offsets
of `known_hashes` wrong (file/TextusFile.cc:182; `HashStore` stands for shorter
files); `ReadWriteLock::locked()` is true of no lock, so writers do not keep
readers or one another out (base/locks/ReadWriteLock.h:120).

## Proofs

`BaseMonitor_proofs` proves, for any set of threads and any bound on nesting,
and from the assumptions that `NoThread` is not a thread and `MaxDepth` a
positive number:

* `MonitorInvariant`: `Spec => []MonitorInv`;
* `Exclusion`, `AssertsHold`, `WakeupsKept`: `MutualExclusion`, `OwnerAsserted`
  and `NoLostWakeup` always hold;
* `FreeBetweenOwners`: `ReleasedBeforeTaken`;
* `Refinement`: `Spec => ImplementsMonitor`.

The argument. None of the three invariants is inductive alone. A thread that
returns from `wait()` puts back `scount`, so the count can be right only if
`scount` was saved from it: `Positions` says that a thread out in `wait()` has
exactly its nesting saved, and that a thread blocked in `synchronize()` has
none. A thread takes the object when `sync_count = 0`: that nobody else is
inside follows from `OwnerAsserted`, and that the recorded owner is inside from
`OwnerInside`. `NoLostWakeup` needs that whoever brings the count to 0 also
wakes everybody, which is the lemma `BroadcastWakes`. `MonitorInv` is the
conjunction; `InitMonitorInv` and `NextMonitorInv` are its two steps, one case
per action, with `AcquireKeeps` and `BlockKeeps` for what the calls share. The
refinement maps the owner, the nesting and the set of threads that stepped out;
`StepRefines` shows each action to be an action of `Monitor` or a stutter.

`MoverProtocol_proofs` proves, for any movers, uploaders, links, hashes and
flags, and for any ends that lose their timer or their network:

* `MoverInvariant`: `Spec => []MoverInv`;
* `RequestsOffered`: `RequestsWereOffered` always holds;
* `DataRequested`: `DataWasRequested` always holds.

The argument. A request is made from an IHAVE that has arrived, so nobody can
know that it was offered unless the IHAVE in flight was recorded as told; data
is sent for an IWANT that has arrived, which must have been recorded as asked.
`Sound` says this of each kind of message, and `MoverInv` that everything in
flight is sound and every variable has its shape; that only an uploader has
files to send is part of it. The histories only grow, so what is sound stays
sound (`AddsKeepsSound`), and a step has to be looked at only for what it adds
to one end: `SendAdds`, `ReplyAdds` and `CloseAdds` say what that is, also
when a close cuts off the tail. `AnswerSound` is the step of `parseIWant`: its
last token is an item of the request, though not always one that is allowed.
The proof assumes that links join movers, hashes are numbers with the empty
one among them, and that a set of them has a last one (`MoversAssumption`,
`HashesAssumption`, `LastAssumption`).

* `OwedIsInFlight`: `OwedInFlight` always holds; `MoverTypes`: so does `TypeOK`.

`OwedInFlight` counts messages of a kind. It is not inductive: when the peer has
hung up, DONEs it has sent still arrive, and each takes one off `owed`; that
`owed` is never less than what can arrive is `Covered`, an inequality while the
end is open, an equality while both are. `CountConcat` says that the messages of
a kind in a concatenation are those of its parts, from which what sending, reading
and a cut tail do to a count follow (`SentCount`, `CountTail`, `CountPrefix`).
Then there are three kinds of step: one that sends neither IWANT nor DONE
(`SendKeepsOwed`), a handler (`ReplyKeepsOwed`) and a close (`CloseKeepsOwed`,
where the DONE of an answer may be the last the peer hears). `AnswerCounts` is
what they need of `parseIWant`: one DONE, however many items were allowed. That
`owed` is a natural number, the one part of `TypeOK` that is not a matter of
shape, follows from `Covered`.

`BaseMonitor_proofs` also proves `TypesHold`, the type invariant: `sync_count` is
a natural number; how deep it can get is not said.

`HashStore_proofs` proves, for any messages and any number of crashes,
expirations and short writes, from the assumption that `None`, `Deleted` and
`Torn` are no hashes:

* `WriteAheadHolds`: `WriteAhead` always holds. It is not inductive: `Create`
  adds a file without looking at the have-file. `IInv` adds `PastLog`: where
  `storeData` stands says that the hash is in it.
* `LoggedOnceHolds`: `Spec => LoggedOnce`. `OnceInv` says that what is logged has
  a file, is about to get one or was cut short, and that what is about to be
  logged has none.
* `KeptIsKnownHolds`, `ListedIsWholeHolds`, `FreeIsFreeHolds`: the three
  invariants of the index. They need one another: `insert()` writes over a free
  line, so free lines must be nobody's (`FreeOK`); `removeElement()` frees the
  line `slot` names, so it must be the right one (`EntriesRight`), also for
  what `expire()` has unlinked and not yet taken out (`VictimListed`); `slot` is
  rebuilt from the lines after a crash, so each hash must have one (`OneLine`),
  which is why what is being stored must not be listed yet (`StoringNew`).
  Where the next line would go on behind another, that one is torn already
  (`EndTorn`), so no good line is lost with it.
  `Index` is their conjunction, kept until `misfiled` (`IndexKept`, with
  `StoreStep`, `InsertStep`, `RemoveStep`, `DieStep` for what actions share and
  `ReLoadSlots`, `ReLoadFree` for what `reLoad()` computes).
* `StoreTypes`: `TypeOK` always holds, after `misfiled` too, when a hash may have
  several lines: `reLoad()` then needs the last of them, and that there is one is
  `LastLine`, from the well-foundedness of the natural numbers.

`TimerQueue_proofs` proves, for any timers, clients, delays and bounds:

* `ExitIsHeard`: `ExitHeard`, from `ExitInv`, which says where `threadExit` is
  when `should_exit` is set and that from its `wake()` on the thread is awake.
* `SortedHolds` and `NotSleptOverHolds`, from `SleepInv`: the list is sorted and
  the thread has asked for a time no later than its first deadline, or a `wake()`
  is on its way (`AsksInTime`). `InsertAt` chooses the place in the list that
  the search of `addTimer` stops at; a new deadline that is not the first needs
  no `wake()` because the list is sorted, and it stays sorted because a timer
  gets a new deadline only off the list, until `restarted`.
* `TimerTypes`: `TypeOK`, from `Bounded` and the shapes in `SleepInv`, and the
  assumption that no delay is longer than the clock runs (`BoundsAssumption`).

`RefCount_proofs` proves, for finite sets of threads and holders and any set of
closed ones: `HeldIsAliveHolds`, `CountsAgreeHolds`, `OneTearsDownHolds` (two
threads never destroy the object at once), `LooseOnlyByOthersHolds` (with
`Closing`: what is attached of `Closed` is still to be closed) and `TypesHold`.
The invariant `IInv`
puts them together: a thread destroys because it has read counts that say
nobody else is there, which is right because the counts agree with the
references, the one of the thread inside `weakDelete()` included (`Counted`).

`ServerSession_proofs` proves, for any callers and bounds: `CrashOnlyByOthersHolds`
(`OpenUntilClosed`, `PastCut` and `OwnClose` say what is cut where the worker
stands, as long as it alone has closed; the three messages that go on after that
are in the statement), `NoHalfClosedHolds` (`WholeUntilClosed`:
nothing is cut before somebody closes; `SocketCut`, `FileCut`, `ProcessorCut`:
what is cut after each step of a close, and by whose work the rest will be:
`Telling`, `Cutting`, `Dropping`)
and `TypesHold`.

`EventDispatch_proofs` proves `AliveUntilShutdown`: with a worker and if no event
stays queued for its default time-out (`~Overdue`), `CrashOnlyInShutdown` always
holds. `TimersFirst` says that no timer is found late, so `repost()` and its
`die()` are not reached; `QueuesLeft` that the round robin has a queue until the
shutdown.

`EventRaces_proofs` proves, for any events, clients, bounds and finite set of
workers, and with every `Overlap` and `Overdue`, for the same specification:

* `EventInvariant`: `Spec => []EventInv`, and from it
* `EventTypes`: `TypeOK`;
* `EventOnItsQueue`: `CurrentQueueAccurate`;
* `NeverRunTooOften`: `HandledAtMostPosted`;
* `ClosedPlainEventQuiet`: every event but a `TimerEvent` is quiet once closed;
* `ClosedEventQuiet`: without `TimerEvents`, as in `event_races`, `ClosedStaysQuiet`
  holds; with them it does not (the finding of `timer_closed`).

The argument. None of these is inductive, and none can be said of the queues
alone: between two steps of a call an event is off its queue and in a thread's
hand. `LocksOK` says that whoever stands at a place inside an event's monitor has
that event in hand and is its owner, so two threads never are on their way with
one event, but for a `TimerEvent` that its time-out posts and a thread that is
still to enter. `Typed` says at which places a thread of each kind can be and
where it is on its way to (`DestsOK`: only `repost()` names the fail-safe queue).
Then, of each event (`Kept`):

* `Counted`: the runs so far and `Pending`, the entries on all queues and the
  threads that carry a post already counted (a worker that has taken it, the timer
  thread that moves it), are no more than the posts. A push adds one of both, a
  take moves one from a queue to a hand, an erase takes out all entries, a run
  uses up a hand.
* `OnCurrent` and `OnlyThere`: it is on the queue it remembers unless somebody is
  `Moving` it, once, and nowhere else, as long as it was not `doubled`.
* `Aims`: the thread that pushes goes for the queue it has just recorded.
* `Quiet`: a closed event is on no queue and in nobody's hand, and remembers no
  queue, but for a shutdown or a post that opens it again.

`EventInv` was run through TLC on the models of `event_races`, `event_delivery`
and `timer_closed` before it was proved. The steps of each kind of
thread have a lemma for `Typed`, one for `LocksOK` and one for `Kept`; what pushing, taking and erasing do to
`Slots` and `Pending` is stated once. `ActorsAssumption` asks that the kinds of
threads are apart, that there are finitely many workers and that `Nobody` and
`NoQueue` are neither threads nor events.

Every invariant and every action property that a passing run checks is so stated
by a theorem. Only model-checked, since they need fairness and ENABLED, is
liveness: `FreeIsTaken`, `EveryPostHandled`, `ShutdownEnds`, `EveryAlarmRings`,
`ThreadExits`, `DeletedInTheEnd`, `NobodyStuck`, `EndCloses`,
`HangUpPropagates`, `RequestsAnswered`, `ConnectionEnds`.

## Plan

What is left, the most important first.

1. `ReadWriteLock` (the packed counter and its signals), `Completion` (on top of
   `BaseMonitor`), `DBPool`.
2. `FileHandle`: buffers, space, and the select loop.
3. `ProcessMonitor`, `ThreadTasks`, `Cache`, `OneTimeUse`, `State` and watchers,
   `Message` dispatch.
4. Proofs: the invariants of the modules still to come; of the present ones,
   stronger statements, since all that the runs check but liveness is proved.

Each module is written with its parameters as constants, one action per
operation and without recursive operators, so that it can be proved about.

## Not modelled

The components of the plan, for now. Text (configuration, URLs, SQL, address
books), encryption and TLS, random number generation, system calls, build
scripts, and `thirdparty/`. They are sequential or external; where the modelled
code calls them, their outcome is a choice. Components and reasons are in
`PROJECT.json`.
