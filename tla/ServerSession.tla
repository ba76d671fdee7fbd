---------------------------- MODULE ServerSession ----------------------------
(***************************************************************************)
(* One connection of a server: its ServerSocket and ServerActor             *)
(* (network/server/ServerTemplate.h), the ProtoBufReader on it              *)
(* (file/ProtoBufReader.cc) and the MoverMessageProcessor behind it         *)
(* (mover/MoverMessageProcessor.h), how messages get from the one to the    *)
(* other and how the connection is taken apart.                             *)
(*                                                                          *)
(* Three monitors are held while another is entered: R of the reader, S of  *)
(* the socket, M of the processor.  The reader's worker handles the events  *)
(* of the connection one after another and goes R, S, M; callers (the timer *)
(* thread in MMP::timeOut, a worker that sends what was asked for) go M, S, *)
(* R; the select loop, when the file cannot be read or written, S, M, R.    *)
(* Monitors are reentrant: close() called by the handler of a message finds *)
(* all three its own.  What is done in one monitor without waiting for      *)
(* another is one step.                                                     *)
(***************************************************************************)
EXTENDS Naturals, Sequences

CONSTANTS
  Callers,     \* threads other than the reader's worker that call the processor
  None,        \* no thread
  MaxArrivals, \* bound on what arrives
  MaxCalls     \* bound on the calls of each caller

ASSUME CallersAssumption ==
  None \notin {"reader", "loop", "write"} /\ {None, "reader", "loop", "write"} \cap Callers = {}
ASSUME BoundsAssumption == MaxArrivals \in Nat /\ MaxCalls \in Nat

\* "bye": a Good Bye, or what is answered with one and nothing else.  "over": what
\* is answered with one although more is to be done.  "bad": none that
\* readMessage() takes.
Messages == {"data", "bye", "over", "bad"}

\* A chunk holds messages; what is behind a bad one is never looked at.
Chunks == {<<"data">>, <<"data", "bye">>, <<"bye", "data">>, <<"bye", "bad">>,
           <<"over", "data">>, <<"bad">>}
Space == <<"space">>
Eof == <<"eof">>
Arrivals == Chunks \cup {Space, Eof}

VARIABLES
  R, S, M,     \* who is in each monitor
  inbox,       \* the events posted for the reader, in the order of its queue
  arrivals, ended, \* how many have been, and whether the last is the end
  buffer,      \* ProtoBufReader: messages not yet parsed
  fh,          \* ProtoBufReader::fh is set
  lr, processor, context, \* so are these of the ServerSocket
  open,        \* and the file is open
  parent,      \* MoverMessageProcessor::parent is set
  coordinator, \* Processor::coordinator is set
  rpc, msg,    \* where the reader's worker is, and the message it delivers
  got_processor, \* tmpp of its close() is set
  cpc,         \* where each caller is
  hangs_up,    \* its call ends with sendGoodBye()
  calls,
  lpc,         \* where the select loop is
  closer       \* history: who has closed the socket first

monitors == <<R, S, M>>
socket == <<lr, processor, context, closer>>
far == <<parent, coordinator>>
reader == <<rpc, msg, got_processor>>
caller == <<cpc, hangs_up, calls>>
others == <<caller, lpc>>
events == <<inbox, arrivals, ended>>
vars == <<monitors, events, buffer, fh, socket, open, far, reader, others>>

Init ==
  /\ R = None /\ S = None /\ M = None
  /\ inbox = <<>> /\ arrivals = 0 /\ ended = FALSE /\ buffer = <<>>
  /\ fh = TRUE /\ lr = TRUE /\ processor = TRUE /\ context = TRUE /\ open = TRUE
  /\ parent = TRUE /\ coordinator = TRUE
  /\ rpc = "idle" /\ msg = "data" /\ got_processor = FALSE
  /\ cpc = [c \in Callers |-> "idle"]
  /\ hangs_up = [c \in Callers |-> FALSE]
  /\ calls = [c \in Callers |-> 0]
  /\ lpc = "idle"
  /\ closer = None

-----------------------------------------------------------------------------
\* ServerSocket::close(), what it does in its monitor.  The actor is closed and
\* deleted with its context.
CutSocket(who) ==
  /\ lr' = FALSE /\ processor' = FALSE /\ context' = FALSE
  /\ closer' = IF closer = None THEN who ELSE closer

\* MMP::close(), called by it or calling it, in the end closes the file too.
CutProcessor == parent' = FALSE /\ coordinator' = FALSE /\ open' = FALSE

-----------------------------------------------------------------------------
(* The select loop, FileHandle::select_start(): in S while it is at a file. *)

\* It has read something or found space to write, and posts an event; the end of
\* the file is the last, and may be that of a closed one.
Arrive(e) ==
  /\ open \/ (e = Eof /\ fh)
  /\ ~ended
  /\ S = None
  /\ arrivals < MaxArrivals
  /\ inbox' = Append(inbox, e)
  /\ arrivals' = arrivals + 1
  /\ ended' = (e = Eof)
  /\ UNCHANGED <<monitors, buffer, fh, socket, open, far, reader, others>>

\* The read or write fails: processReadWriteError() closes, and stays in S to
\* call the processor and the reader.
LoopFail ==
  /\ open
  /\ S = None
  /\ CutSocket("loop")
  /\ IF processor THEN S' = "loop" /\ lpc' = "proc" /\ UNCHANGED open
     ELSE open' = FALSE /\ UNCHANGED <<S, lpc>>
  /\ UNCHANGED <<R, M, events, buffer, fh, far, reader, caller>>

\* The processor's close(), in M.
LoopProc ==
  /\ lpc = "proc"
  /\ M = None
  /\ CutProcessor
  /\ lpc' = "drop"
  /\ UNCHANGED <<monitors, events, buffer, fh, socket, reader, caller>>

\* The reader's, in R, and out of S.
LoopDrop ==
  /\ lpc = "drop"
  /\ R = None
  /\ fh' = FALSE
  /\ S' = None
  /\ lpc' = "idle"
  /\ UNCHANGED <<R, M, events, buffer, socket, open, far, reader, caller>>

-----------------------------------------------------------------------------
(* The reader's worker: ProtoBufReader::read(), write() and setEof(). *)

\* The event of a chunk: read() enters R and stays there.
Read ==
  /\ rpc = "idle" /\ inbox # <<>> /\ Head(inbox) \in Chunks
  /\ R = None
  /\ inbox' = Tail(inbox)
  /\ buffer' = buffer \o Head(inbox)
  /\ IF fh THEN rpc' = "parse" /\ R' = "reader" ELSE UNCHANGED <<rpc, R>>
  /\ UNCHANGED <<S, M, arrivals, ended, fh, socket, open, far, msg, got_processor, others>>

\* Seeded fault: the file is not looked at.
Deliverable_NoFile == TRUE

\* readMessage() asks its handle for an actor.
Deliverable == fh /\ context

\* readMessage(): the next message goes to the actor, of which no reference is
\* taken, or nowhere.
Parse ==
  /\ rpc = "parse" /\ buffer # <<>> /\ Head(buffer) # "bad"
  /\ msg' = Head(buffer)
  /\ buffer' = Tail(buffer)
  /\ rpc' = IF Deliverable THEN "act" ELSE "parse"
  /\ UNCHANGED <<monitors, events, fh, socket, open, far, got_processor, others>>

\* What is no message stays where it is, and readMessage() closes the handle it
\* has, without a look whether it has one.
Reject ==
  /\ rpc = "parse" /\ buffer # <<>> /\ Head(buffer) = "bad"
  /\ msg' = "bad"
  /\ rpc' = IF fh THEN "cut" ELSE "crashed"
  /\ UNCHANGED <<monitors, events, buffer, fh, socket, open, far, got_processor, others>>

\* Nothing left: read() returns.
Return ==
  /\ rpc = "parse" /\ buffer = <<>>
  /\ rpc' = "idle"
  /\ R' = None
  /\ UNCHANGED <<S, M, events, buffer, fh, socket, open, far, msg, got_processor, others>>

\* ServerActor::act() reads its parent in its own monitor.  If the actor has
\* been deleted since, whatever is in its memory.
Act ==
  /\ rpc = "act"
  /\ rpc' \in IF context THEN {"enter"} ELSE {"parse", "crashed"}
  /\ UNCHANGED <<monitors, events, buffer, fh, socket, open, far, msg, got_processor,
                 others>>

\* ServerSocket::processMessage() enters S, and calls its processor without a
\* look.
Enter ==
  /\ rpc = "enter"
  /\ S = None
  /\ S' = "reader"
  /\ rpc' = IF processor THEN "inside" ELSE "crashed"
  /\ UNCHANGED <<R, M, events, buffer, fh, socket, open, far, msg, got_processor,
                 others>>

\* MMP::processMessage() handles a message of one of kinds, in M and out of S.
Handle(kinds, outcomes) ==
  /\ rpc = "inside" /\ msg \in kinds
  /\ M = None
  /\ S' = None
  /\ rpc' \in outcomes
  /\ UNCHANGED <<R, M, events, buffer, msg, got_processor, others>>

\* The worker closes in the middle of it: MMP::close() calls
\* ServerSocket::close(), that ProtoBufReader::close(), or the second the others,
\* all in monitors this thread is in.
CloseInside(who) ==
  IF parent THEN CutSocket(who) /\ CutProcessor /\ fh' = (fh /\ ~lr)
  ELSE parent' = FALSE /\ coordinator' = FALSE /\ UNCHANGED <<socket, open, fh>>

\* Of data the mover is asked; few messages can do without one.
HandleData ==
  /\ Handle({"data"}, {"parse"} \cup {x \in {"crashed"} : ~coordinator})
  /\ UNCHANGED <<fh, socket, open, far>>

\* The answer cannot be written and the write closes; what follows may use what
\* is gone.
HandleUnsent ==
  /\ parent
  /\ Handle({"data"}, {"parse", "crashed"})
  /\ CloseInside("write")

HandleBye == Handle({"bye"}, {"parse"}) /\ CloseInside("reader")

\* A HELLO too many, a malformed IHAVE: after the Good Bye the mover, or the
\* timer, that this has let go of is called, except where neither is needed.
HandleOver == Handle({"over"}, {"parse", "crashed"}) /\ CloseInside("reader")

\* The event of space: write() calls SecureSocket::canWrite(), in R and S, which
\* reads, or goes on with the handshake, and closes if that fails.  The
\* processor's close() then waits for M.
TakeSpace ==
  /\ rpc = "idle" /\ inbox # <<>> /\ Head(inbox) = Space
  /\ R = None
  /\ inbox' = Tail(inbox)
  /\ IF fh THEN rpc' = "space" /\ R' = "reader" ELSE UNCHANGED <<rpc, R>>
  /\ UNCHANGED <<S, M, arrivals, ended, buffer, fh, socket, open, far, msg, got_processor,
                 others>>

CanWrite ==
  /\ rpc = "space"
  /\ S = None
  /\ rpc' = "idle"
  /\ R' = None
  /\ UNCHANGED <<S, M, events, buffer, fh, socket, open, far, msg, got_processor, others>>

CannotWrite ==
  /\ rpc = "space"
  /\ S = None
  /\ CutSocket("reader")
  /\ fh' = (fh /\ ~lr)
  /\ IF processor THEN rpc' = "fail" /\ S' = "reader" /\ UNCHANGED <<R, open>>
     ELSE rpc' = "idle" /\ R' = None /\ open' = FALSE /\ UNCHANGED S
  /\ UNCHANGED <<M, events, buffer, far, msg, got_processor, others>>

CannotEnd ==
  /\ rpc = "fail"
  /\ M = None
  /\ CutProcessor
  /\ rpc' = "idle"
  /\ R' = None /\ S' = None
  /\ UNCHANGED <<M, events, buffer, fh, socket, msg, got_processor, others>>

\* The event of the end: setEof(), and ProtoBufReader::close() in R, then out of
\* it.
TakeEof ==
  /\ rpc = "idle" /\ inbox # <<>> /\ Head(inbox) = Eof
  /\ R = None
  /\ inbox' = Tail(inbox)
  /\ fh' = FALSE
  /\ rpc' = IF fh THEN "cut" ELSE "idle"
  /\ UNCHANGED <<monitors, arrivals, ended, buffer, socket, open, far, msg, got_processor,
                 others>>

\* Seeded fault: the processor is not told.
Tells_Nobody == FALSE

\* close() tells the processor it has found.
Tells == processor

\* The handle is closed, out of R at the end of the file and in it after what is
\* no message: ServerSocket::close() in S, with the reader's close() if that is
\* still to come.
Cut ==
  /\ rpc = "cut"
  /\ S = None
  /\ got_processor' = Tells
  /\ CutSocket("reader")
  /\ fh' = (fh /\ ~lr)
  /\ rpc' = "end"
  /\ UNCHANGED <<monitors, events, buffer, open, far, msg, others>>

\* Out of S: the processor's close(), which comes back to the socket, and the
\* socket's own, SecureSocket::close(), in S again; read() returns.
End ==
  /\ rpc = "end"
  /\ S = None
  /\ IF got_processor THEN M = None /\ CutProcessor ELSE open' = FALSE /\ UNCHANGED far
  /\ got_processor' = FALSE
  /\ rpc' = "idle"
  /\ R' = None
  /\ UNCHANGED <<S, M, events, buffer, fh, socket, msg, others>>

-----------------------------------------------------------------------------
(* The callers: MMP::timeOut(), sendMessage(), sendMessagesDone(). *)

\* A call of the processor, in M to its end.
Call(c, bye) ==
  /\ cpc[c] = "idle" /\ calls[c] < MaxCalls
  /\ M = None
  /\ M' = c
  /\ calls' = [calls EXCEPT ![c] = @ + 1]
  /\ hangs_up' = [hangs_up EXCEPT ![c] = bye]
  /\ cpc' = [cpc EXCEPT ![c] = "send"]
  /\ UNCHANGED <<R, S, events, buffer, fh, socket, open, far, reader, lpc>>

\* After what it has sent a call ends, or hangs up.
Sent(c) ==
  IF hangs_up[c] THEN cpc' = [cpc EXCEPT ![c] = "hang"] /\ UNCHANGED M
  ELSE cpc' = [cpc EXCEPT ![c] = "idle"] /\ M' = None

\* parent->sendMessage(): Socket::sendData() in S.
Send(c) ==
  /\ cpc[c] = "send"
  /\ parent => S = None
  /\ Sent(c)
  /\ UNCHANGED <<R, S, events, buffer, fh, socket, open, far, reader, hangs_up, calls, lpc>>

\* It cannot be written: processReadWriteError() closes, in S to its end.  The
\* processor's close() is in its own M; the reader's waits for R.
SendFails(c) ==
  /\ cpc[c] = "send" /\ parent
  /\ S = None
  /\ CutSocket(c)
  /\ open' = FALSE
  /\ IF processor
     THEN /\ parent' = FALSE /\ coordinator' = FALSE
          /\ S' = c
          /\ cpc' = [cpc EXCEPT ![c] = "drop"]
          /\ UNCHANGED M
     ELSE Sent(c) /\ UNCHANGED <<S, far>>
  /\ UNCHANGED <<R, events, buffer, fh, reader, hangs_up, calls, lpc>>

SendDrop(c) ==
  /\ cpc[c] = "drop"
  /\ R = None
  /\ fh' = FALSE
  /\ S' = None
  /\ Sent(c)
  /\ UNCHANGED <<R, events, buffer, socket, open, far, reader, hangs_up, calls, lpc>>

\* Seeded fault: ServerSocket::close() stays in its monitor to call the others.
CutStays_Inside(c) == S' = c

\* It leaves it.
CutStays(c) == UNCHANGED S

\* sendGoodBye() ends with MMP::close(): to ServerSocket::close() in S if there
\* is a parent.
HangUp(c) ==
  /\ cpc[c] = "hang"
  /\ parent' = FALSE
  /\ IF parent
     THEN /\ S = None
          /\ CutSocket(c)
          /\ CutStays(c)
          /\ cpc' = [cpc EXCEPT ![c] = IF lr THEN "cut" ELSE "end"]
     ELSE cpc' = [cpc EXCEPT ![c] = "end"] /\ UNCHANGED <<S, socket>>
  /\ UNCHANGED <<R, M, events, buffer, fh, open, coordinator, reader, hangs_up, calls, lpc>>

\* The reader's close(), in R.
CutReader(c) ==
  /\ cpc[c] = "cut"
  /\ R = None
  /\ fh' = FALSE
  /\ cpc' = [cpc EXCEPT ![c] = "end"]
  /\ UNCHANGED <<monitors, events, buffer, socket, open, far, reader, hangs_up, calls, lpc>>

\* SecureSocket::close() in S; Processor::close(), and out of M.
HungUp(c) ==
  /\ cpc[c] = "end"
  /\ S \in {None, c}
  /\ S' = None
  /\ open' = FALSE
  /\ coordinator' = FALSE
  /\ M' = None
  /\ cpc' = [cpc EXCEPT ![c] = "idle"]
  /\ UNCHANGED <<R, events, buffer, fh, socket, parent, reader, hangs_up, calls, lpc>>

-----------------------------------------------------------------------------
ReaderStep ==
  \/ Read \/ Parse \/ Reject \/ Return \/ Act \/ Enter
  \/ HandleData \/ HandleUnsent \/ HandleBye \/ HandleOver
  \/ TakeSpace \/ CanWrite \/ CannotWrite \/ CannotEnd
  \/ TakeEof \/ Cut \/ End

CallerStep(c) ==
  Send(c) \/ SendFails(c) \/ SendDrop(c) \/ HangUp(c) \/ CutReader(c) \/ HungUp(c)

LoopStep == LoopProc \/ LoopDrop

Next ==
  \/ \E e \in Arrivals : Arrive(e)
  \/ LoopFail \/ LoopStep
  \/ ReaderStep
  \/ \E c \in Callers : CallerStep(c) \/ \E bye \in BOOLEAN : Call(c, bye)

Spec == Init /\ [][Next]_vars

\* A worker handles the events of its queue; a thread that has called, and the
\* select loop once it closes, goes on.
FairSpec ==
  Spec /\ WF_vars(ReaderStep) /\ WF_vars(LoopStep) /\ \A c \in Callers : WF_vars(CallerStep(c))

-----------------------------------------------------------------------------
(* Properties. *)

Threads == Callers \cup {"reader", "loop"}
Closers == Threads \cup {"write"}

TypeOK ==
  /\ R \in {None, "reader"} /\ S \in Threads \cup {None} /\ M \in Callers \cup {None}
  /\ inbox \in Seq(Arrivals) /\ arrivals \in 0 .. MaxArrivals /\ ended \in BOOLEAN
  /\ buffer \in Seq(Messages) /\ msg \in Messages
  /\ {fh, lr, processor, context, open, parent, coordinator, got_processor} \subseteq BOOLEAN
  /\ rpc \in {"idle", "parse", "act", "enter", "inside", "space", "fail", "cut", "end",
              "crashed"}
  /\ cpc \in [Callers -> {"idle", "send", "drop", "hang", "cut", "end"}]
  /\ hangs_up \in [Callers -> BOOLEAN] /\ calls \in [Callers -> 0 .. MaxCalls]
  /\ lpc \in {"idle", "proc", "drop"}
  /\ closer \in Closers \cup {None}

\* The socket, its reader and its processor refer to each other and go only
\* when every link is cut: whoever closes first, and whoever else closes in the
\* middle of it, once all is quiet either nothing is closed or everything is.
NoHalfClosed ==
  rpc = "idle" /\ lpc = "idle" /\ (\A c \in Callers : cpc[c] = "idle") =>
    {fh, lr, processor, context, open, parent, coordinator} = {closer = None}

\* The worker steps on what is gone only if another thread, or a write of its own
\* that failed, has closed the connection under it, or at a message that is
\* handled as if its own close had not been.  Its other closing, by a Good Bye in
\* the middle of a chunk, by a read that fails or at the end of the file, is safe.
CrashOnlyByOthers ==
  rpc = "crashed" => closer \in Callers \cup {"loop", "write"} \/ msg \in {"over", "bad"}

\* The worker, or the select loop, is in S and wants M; or who closes in S wants
\* R, with which the worker comes for S.
Inverted ==
  \/ M # None /\ (rpc \in {"inside", "fail"} \/ lpc = "proc")
  \/ R # None /\ (lpc = "drop" \/ \E c \in Callers : cpc[c] = "drop")

\* A call of the processor returns, the select loop closes to the end and an event
\* is handled, unless the process crashes or a thread that stays in S meets one
\* that comes to S from M or R: no other order of closing and sending makes the
\* threads wait for each other.
NobodyStuck ==
  \/ <>[](rpc = "crashed" \/ Inverted)
  \/ []<>(rpc = "idle") /\ []<>(lpc = "idle") /\ \A c \in Callers : []<>(cpc[c] = "idle")

\* The end of the file closes the connection, with the same exceptions.
EndCloses == <>[](rpc = "crashed" \/ Inverted) \/ (ended ~> ~open)
=============================================================================
