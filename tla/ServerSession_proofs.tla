------------------------- MODULE ServerSession_proofs -------------------------
(***************************************************************************)
(* The reader's worker does not step on what it has closed itself but at    *)
(* the messages that are handled as if it had not, for any number of        *)
(* callers, chunks and calls.                                               *)
(*                                                                          *)
(* CrashOnlyByOthers says nothing of the states before the crash.  What is  *)
(* needed: nothing is cut before somebody has closed (OpenUntilClosed), who *)
(* is past a cut has closed (PastCut), and once the worker has closed the   *)
(* socket it is not delivering a message and will deliver none (OwnClose).  *)
(***************************************************************************)
EXTENDS ServerSession, TLAPS

Types ==
  /\ closer \in Closers \cup {None}
  /\ cpc \in [Callers -> {"idle", "send", "drop", "hang", "cut", "end"}]

OpenUntilClosed == closer = None => context /\ processor /\ coordinator /\ parent

PastCut ==
  /\ rpc \in {"end", "fail"} \/ lpc # "idle" => closer # None
  /\ \A c \in Callers : cpc[c] \in {"drop", "cut", "end"} => closer # None

OwnClose == closer = "reader" => ~context /\ rpc \notin {"act", "enter", "inside"}

IInv == Types /\ OpenUntilClosed /\ PastCut /\ OwnClose /\ CrashOnlyByOthers

-----------------------------------------------------------------------------
\* It holds at the start: everything is set and nobody has closed.
LEMMA InitIInv == Init => IInv
  BY CallersAssumption
  DEF Init, IInv, Types, OpenUntilClosed, PastCut, OwnClose, CrashOnlyByOthers, Threads, Closers

\* No step breaks it.
LEMMA NextIInv == IInv /\ [Next]_vars => IInv'
<1> SUFFICES ASSUME IInv, [Next]_vars PROVE IInv'
  OBVIOUS
<1> USE CallersAssumption
    DEF IInv, Types, OpenUntilClosed, PastCut, OwnClose, CrashOnlyByOthers, Threads, Closers,
        socket, far, reader, caller, others, CutSocket, CutProcessor, Deliverable
<1>1. ASSUME NEW e \in Arrivals, Arrive(e) PROVE IInv'
  BY <1>1 DEF Arrive
<1>2. CASE LoopFail
  BY <1>2 DEF LoopFail
<1>3. CASE LoopProc
  BY <1>3 DEF LoopProc
<1>4. CASE LoopDrop
  BY <1>4 DEF LoopDrop
<1>5. CASE Read
  BY <1>5 DEF Read
<1>6. CASE Parse
  BY <1>6 DEF Parse
<1>7. CASE Reject
  BY <1>7 DEF Reject
<1>8. CASE Return
  BY <1>8 DEF Return
<1>9. CASE Act
  BY <1>9 DEF Act
<1>10. CASE Enter
  BY <1>10 DEF Enter
<1>11. CASE HandleData
  BY <1>11 DEF HandleData, Handle
<1>12. CASE HandleUnsent
  BY <1>12 DEF HandleUnsent, Handle, CloseInside
<1>13. CASE HandleBye
  BY <1>13 DEF HandleBye, Handle, CloseInside
<1>14. CASE HandleOver
  BY <1>14 DEF HandleOver, Handle, CloseInside
<1>15. CASE TakeSpace
  BY <1>15 DEF TakeSpace
<1>16. CASE CanWrite
  BY <1>16 DEF CanWrite
<1>17. CASE CannotWrite
  BY <1>17 DEF CannotWrite
<1>18. CASE CannotEnd
  BY <1>18 DEF CannotEnd
<1>19. CASE TakeEof
  BY <1>19 DEF TakeEof
<1>20. CASE Cut
  BY <1>20 DEF Cut, Tells
<1>21. CASE End
  BY <1>21 DEF End
<1>22. ASSUME NEW c \in Callers, CallerStep(c) PROVE IInv'
  <2>1. CASE Send(c)
    <3>1. \E p \in {"idle", "hang"} : cpc' = [cpc EXCEPT ![c] = p]
      BY <2>1 DEF Send, Sent
    <3> QED
      BY <2>1, <3>1 DEF Send
  <2>2. CASE SendFails(c)
    <3>1. \E p \in {"idle", "hang", "drop"} : cpc' = [cpc EXCEPT ![c] = p]
      BY <2>2 DEF SendFails, Sent
    <3> QED
      BY <2>2, <3>1 DEF SendFails
  <2>3. CASE SendDrop(c)
    <3>1. \E p \in {"idle", "hang"} : cpc' = [cpc EXCEPT ![c] = p]
      BY <2>3 DEF SendDrop, Sent
    <3> QED
      BY <2>3, <3>1 DEF SendDrop
  <2>4. CASE HangUp(c)
    <3>1. \E p \in {"cut", "end"} : cpc' = [cpc EXCEPT ![c] = p]
      BY <2>4 DEF HangUp
    <3>2. CASE parent
      BY <2>4, <3>1, <3>2 DEF HangUp
    <3>3. CASE ~parent
      BY <2>4, <3>1, <3>3 DEF HangUp
    <3> QED
      BY <3>2, <3>3
  <2>5. CASE CutReader(c)
    <3>1. cpc[c] = "cut" /\ cpc' = [cpc EXCEPT ![c] = "end"]
      BY <2>5 DEF CutReader
    <3>2. closer # None
      BY <3>1
    <3> QED
      BY <2>5, <3>1, <3>2 DEF CutReader
  <2>6. CASE HungUp(c)
    <3>1. closer # None /\ closer' = closer
      BY <2>6 DEF HungUp
    <3>2. cpc' = [cpc EXCEPT ![c] = "idle"]
      BY <2>6 DEF HungUp
    <3> QED
      BY <2>6, <3>1, <3>2 DEF HungUp
  <2> QED
    BY <1>22, <2>1, <2>2, <2>3, <2>4, <2>5, <2>6 DEF CallerStep
<1>23. ASSUME NEW c \in Callers, NEW bye \in BOOLEAN, Call(c, bye) PROVE IInv'
  BY <1>23 DEF Call
<1>24. CASE UNCHANGED vars
  BY <1>24 DEF vars
<1> QED
  BY <1>1, <1>2, <1>3, <1>4, <1>5, <1>6, <1>7, <1>8, <1>9, <1>10, <1>11, <1>12, <1>13,
     <1>14, <1>15, <1>16, <1>17, <1>18, <1>19, <1>20, <1>21, <1>22, <1>23, <1>24
  DEF Next, ReaderStep, LoopStep

\* The worker of a connection crashes only if another thread, or a failed write of
\* its own, has closed the connection first, or at a message that is handled as if
\* its own close had not been.
THEOREM CrashOnlyByOthersHolds == Spec => []CrashOnlyByOthers
<1>1. IInv => CrashOnlyByOthers
  BY DEF IInv
<1> QED
  BY InitIInv, NextIInv, <1>1, PTL DEF Spec

-----------------------------------------------------------------------------
\* Who is still at work on a close(): the worker with a processor to tell, the
\* select loop before it does, a caller between the socket and its own end.
Telling == rpc = "fail" \/ (rpc = "end" /\ got_processor) \/ lpc = "proc"
Cutting == \E c \in Callers : cpc[c] \in {"cut", "end"}

\* And who has the reader still to close.
Dropping == lpc # "idle" \/ \E c \in Callers : cpc[c] \in {"cut", "drop"}

\* Nothing but fh is cut before the socket is, and fh only on the way there.
WholeUntilClosed == closer = None => lr /\ open /\ (fh \/ rpc = "cut")

\* What is cut at once with the socket.
SocketCut == closer # None => ~lr /\ ~processor /\ ~context

\* What is cut later, as long as somebody is at work on it.
FileCut ==
  /\ closer = "reader" => ~fh
  /\ closer # None /\ fh => Dropping
  /\ closer # None /\ open => rpc = "end" \/ Telling \/ Cutting

ProcessorCut ==
  /\ closer # None /\ parent => Telling
  /\ closer # None /\ coordinator => Telling \/ Cutting

Booleans == {fh, lr, processor, context, open, parent, coordinator, got_processor} \subseteq BOOLEAN

JInv == IInv /\ Booleans /\ WholeUntilClosed /\ SocketCut /\ FileCut /\ ProcessorCut

\* It holds at the start.
LEMMA InitJInv == Init => JInv
  BY InitIInv, CallersAssumption
  DEF Init, JInv, Booleans, WholeUntilClosed, SocketCut, FileCut, ProcessorCut, Cutting,
      Telling, Dropping

\* No step breaks it.
LEMMA NextJInv == JInv /\ [Next]_vars => JInv'
<1> SUFFICES ASSUME JInv, [Next]_vars PROVE JInv'
  OBVIOUS
<1>0. IInv /\ IInv'
  BY NextIInv DEF JInv
<1> USE <1>0, CallersAssumption
    DEF JInv, IInv, Types, OpenUntilClosed, PastCut, OwnClose, Booleans, WholeUntilClosed,
        SocketCut, FileCut, ProcessorCut, Cutting, Telling, Dropping, Threads, Closers,
        socket, far, reader, caller, others, CutSocket, CutProcessor
<1>1. ASSUME NEW e \in Arrivals, Arrive(e) PROVE JInv'
  BY <1>1 DEF Arrive
<1>2. CASE LoopFail
  BY <1>2 DEF LoopFail
<1>3. CASE LoopProc
  BY <1>3 DEF LoopProc
<1>4. CASE LoopDrop
  BY <1>4 DEF LoopDrop
<1>5. CASE Read
  BY <1>5 DEF Read
<1>6. CASE Parse
  BY <1>6 DEF Parse
<1>7. CASE Reject
  BY <1>7 DEF Reject
<1>8. CASE Return
  BY <1>8 DEF Return
<1>9. CASE Act
  BY <1>9 DEF Act
<1>10. CASE Enter
  BY <1>10 DEF Enter
<1>11. CASE HandleData
  BY <1>11 DEF HandleData, Handle
<1>12. CASE HandleUnsent
  BY <1>12 DEF HandleUnsent, Handle, CloseInside
<1>13. CASE HandleBye
  BY <1>13 DEF HandleBye, Handle, CloseInside
<1>14. CASE HandleOver
  BY <1>14 DEF HandleOver, Handle, CloseInside
<1>15. CASE TakeSpace
  BY <1>15 DEF TakeSpace
<1>16. CASE CanWrite
  BY <1>16 DEF CanWrite
<1>17. CASE CannotWrite
  BY <1>17 DEF CannotWrite
<1>18. CASE CannotEnd
  BY <1>18 DEF CannotEnd
<1>19. CASE TakeEof
  BY <1>19 DEF TakeEof
<1>20. CASE Cut
  BY <1>20 DEF Cut, Tells
<1>21. CASE End
  BY <1>21 DEF End
<1>22. ASSUME NEW c \in Callers, CallerStep(c) PROVE JInv'
  <2>1. CASE Send(c)
    BY <2>1 DEF Send, Sent
  <2>2. CASE SendFails(c)
    BY <2>2 DEF SendFails, Sent
  <2>3. CASE SendDrop(c)
    BY <2>3 DEF SendDrop, Sent
  <2>4. CASE HangUp(c)
    BY <2>4 DEF HangUp
  <2>5. CASE CutReader(c)
    BY <2>5 DEF CutReader
  <2>6. CASE HungUp(c)
    BY <2>6 DEF HungUp
  <2> QED
    BY <1>22, <2>1, <2>2, <2>3, <2>4, <2>5, <2>6 DEF CallerStep
<1>23. ASSUME NEW c \in Callers, NEW bye \in BOOLEAN, Call(c, bye) PROVE JInv'
  BY <1>23 DEF Call
<1>24. CASE UNCHANGED vars
  BY <1>24 DEF vars
<1> QED
  BY <1>1, <1>2, <1>3, <1>4, <1>5, <1>6, <1>7, <1>8, <1>9, <1>10, <1>11, <1>12, <1>13,
     <1>14, <1>15, <1>16, <1>17, <1>18, <1>19, <1>20, <1>21, <1>22, <1>23, <1>24
  DEF Next, ReaderStep, LoopStep

\* Once nobody is at work on it, a connection is whole or every link of it is cut.
THEOREM NoHalfClosedHolds == Spec => []NoHalfClosed
<1>1. JInv => NoHalfClosed
  <2> SUFFICES ASSUME JInv, rpc = "idle", lpc = "idle", \A c \in Callers : cpc[c] = "idle"
               PROVE  {fh, lr, processor, context, open, parent, coordinator} = {closer = None}
    BY DEF NoHalfClosed
  <2>1. CASE closer = None
    BY <2>1 DEF JInv, IInv, OpenUntilClosed, WholeUntilClosed, Booleans
  <2>2. CASE closer # None
    BY <2>2 DEF JInv, SocketCut, FileCut, ProcessorCut, Telling, Cutting, Dropping, Booleans
  <2> QED
    BY <2>1, <2>2
<1> QED
  BY InitJInv, NextJInv, <1>1, PTL DEF Spec

-----------------------------------------------------------------------------
\* What a queue of events does, whatever the events are.
LEMMA Queue ==
  ASSUME NEW E, NEW s \in Seq(E), NEW e \in E
  PROVE  Append(s, e) \in Seq(E) /\ (s # <<>> => Head(s) \in E /\ Tail(s) \in Seq(E))
  OBVIOUS

\* A chunk is a sequence of messages.
LEMMA ChunksHoldMessages == \A chunk \in Chunks : chunk \in Seq(Messages)
<1>1. ASSUME NEW a \in Messages, NEW b \in Messages
      PROVE  <<a>> \in Seq(Messages) /\ <<a, b>> \in Seq(Messages)
  OBVIOUS
<1>2. "data" \in Messages /\ "bye" \in Messages /\ "over" \in Messages /\ "bad" \in Messages
  BY DEF Messages
<1> QED
  BY <1>1, <1>2 DEF Chunks

\* No step breaks a type.
LEMMA NextTypeOK == TypeOK /\ [Next]_vars => TypeOK'
<1> SUFFICES ASSUME TypeOK, [Next]_vars PROVE TypeOK'
  OBVIOUS
<1> USE CallersAssumption, BoundsAssumption
    DEF TypeOK, Threads, Closers, events, monitors, socket, far, reader, caller, others,
        CutSocket, CutProcessor, Deliverable
<1>1. ASSUME NEW e \in Arrivals, Arrive(e) PROVE TypeOK'
  <2>1. inbox' \in Seq(Arrivals)
    BY <1>1, Queue DEF Arrive
  <2> QED
    BY <1>1, <2>1 DEF Arrive
<1>2. CASE LoopFail
  BY <1>2 DEF LoopFail
<1>3. CASE LoopProc
  BY <1>3 DEF LoopProc
<1>4. CASE LoopDrop
  BY <1>4 DEF LoopDrop
<1>5. CASE Read
  <2>1. inbox' \in Seq(Arrivals)
    BY <1>5, Queue DEF Read
  <2>2. buffer' \in Seq(Messages)
    BY <1>5, ChunksHoldMessages DEF Read
  <2> QED
    BY <1>5, <2>1, <2>2 DEF Read
<1>6. CASE Parse
  <2>1. Head(buffer) \in Messages /\ Tail(buffer) \in Seq(Messages)
    BY <1>6, Queue DEF Parse
  <2> QED
    BY <1>6, <2>1 DEF Parse
<1>7. CASE Reject
  BY <1>7 DEF Reject, Messages
<1>8. CASE Return
  BY <1>8 DEF Return
<1>9. CASE Act
  BY <1>9 DEF Act
<1>10. CASE Enter
  BY <1>10 DEF Enter
<1>11. CASE HandleData
  BY <1>11 DEF HandleData, Handle
<1>12. CASE HandleUnsent
  BY <1>12 DEF HandleUnsent, Handle, CloseInside
<1>13. CASE HandleBye
  BY <1>13 DEF HandleBye, Handle, CloseInside
<1>14. CASE HandleOver
  BY <1>14 DEF HandleOver, Handle, CloseInside
<1>15. CASE TakeSpace
  <2>1. inbox' \in Seq(Arrivals)
    BY <1>15, Queue DEF TakeSpace
  <2> QED
    BY <1>15, <2>1 DEF TakeSpace
<1>16. CASE CanWrite
  BY <1>16 DEF CanWrite
<1>17. CASE CannotWrite
  BY <1>17 DEF CannotWrite
<1>18. CASE CannotEnd
  BY <1>18 DEF CannotEnd
<1>19. CASE TakeEof
  <2>1. inbox' \in Seq(Arrivals)
    BY <1>19, Queue DEF TakeEof
  <2> QED
    BY <1>19, <2>1 DEF TakeEof
<1>20. CASE Cut
  BY <1>20 DEF Cut, Tells
<1>21. CASE End
  BY <1>21 DEF End
<1>22. ASSUME NEW c \in Callers, CallerStep(c) PROVE TypeOK'
  <2>1. CASE Send(c)
    BY <2>1 DEF Send, Sent
  <2>2. CASE SendFails(c)
    BY <2>2 DEF SendFails, Sent
  <2>3. CASE SendDrop(c)
    BY <2>3 DEF SendDrop, Sent
  <2>4. CASE HangUp(c)
    BY <2>4 DEF HangUp, CutStays
  <2>5. CASE CutReader(c)
    BY <2>5 DEF CutReader
  <2>6. CASE HungUp(c)
    BY <2>6 DEF HungUp
  <2> QED
    BY <1>22, <2>1, <2>2, <2>3, <2>4, <2>5, <2>6 DEF CallerStep
<1>23. ASSUME NEW c \in Callers, NEW bye \in BOOLEAN, Call(c, bye) PROVE TypeOK'
  BY <1>23 DEF Call
<1>24. CASE UNCHANGED vars
  BY <1>24 DEF vars
<1> QED
  BY <1>1, <1>2, <1>3, <1>4, <1>5, <1>6, <1>7, <1>8, <1>9, <1>10, <1>11, <1>12, <1>13,
     <1>14, <1>15, <1>16, <1>17, <1>18, <1>19, <1>20, <1>21, <1>22, <1>23, <1>24
  DEF Next, ReaderStep, LoopStep

\* Monitors have owners, flags are flags, and what is queued is chunks.
THEOREM TypesHold == Spec => []TypeOK
<1>1. Init => TypeOK
  <2> SUFFICES ASSUME Init PROVE TypeOK
    OBVIOUS
  <2>1. inbox \in Seq(Arrivals) /\ buffer \in Seq(Messages) /\ msg \in Messages
    BY DEF Init, Messages
  <2>2. {fh, lr, processor, context, open, parent, coordinator, got_processor} \subseteq BOOLEAN
    BY DEF Init
  <2>3. /\ cpc \in [Callers -> {"idle", "send", "drop", "hang", "cut", "end"}]
        /\ hangs_up \in [Callers -> BOOLEAN] /\ calls \in [Callers -> 0 .. MaxCalls]
    BY BoundsAssumption DEF Init
  <2>4. arrivals \in 0 .. MaxArrivals
    BY BoundsAssumption DEF Init, BoundsAssumption
  <2>5. ended \in BOOLEAN
    BY DEF Init
  <2> QED
    BY <2>1, <2>2, <2>3, <2>4, <2>5 DEF Init, TypeOK
<1> QED
  BY <1>1, NextTypeOK, PTL DEF Spec
=============================================================================
