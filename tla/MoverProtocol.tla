---------------------------- MODULE MoverProtocol ----------------------------
(***************************************************************************)
(* textus::mover: movers that tell each other which hashes they have, ask   *)
(* for some of them and send the data (mover/MoverMessageProcessor.h and    *)
(* .cc, mover/Mover.cc).                                                    *)
(*                                                                          *)
(* A link is one connection, and each end of it a MoverMessageProcessor     *)
(* (MMP) of the mover at that end.  Every entry point of an MMP runs under  *)
(* its own monitor, so a handler is one step, but for one that enters the   *)
(* Mover's monitor twice with resetIHave or another MMP's handler possible  *)
(* in between: ParseIHave, then AnswerIHave.                                *)
(*                                                                          *)
(* A hash stands for the data it is the hash of.  Hashes are compared as    *)
(* strings, here as numbers.  Left out: RANDOM and EXTENSION messages,      *)
(* which change nothing here; the pace of the timers, of which only the     *)
(* outcome is kept; hello_count, since between movers a link carries one    *)
(* HELLO each way and never reaches the limit of at least one; the cache of *)
(* seen hashes, a subset of what the file store has seen.                   *)
(***************************************************************************)
EXTENDS Integers, Sequences, FiniteSets

CONSTANTS
  Movers,     \* the processes
  Uploaders,  \* those that may be started with mover_upload_files
  Links,      \* pairs <<m, n>>: m has connected to n
  Hashes,     \* all hashes
  Empty,      \* the hash of no data
  Uploads,    \* the files of each uploader
  Racy,       \* ends whose timer may fire before its constructor is through
  Broken,     \* ends that may see a network error
  MinIHave, MaxIHave, MinIWant, MaxIWant,  \* the flags mover_min_i_have ...
  MaxResets   \* bound on resetIHave of each mover

ASSUME MoversAssumption ==
  /\ Uploaders \subseteq Movers
  /\ Links \subseteq Movers \X Movers
ASSUME HashesAssumption ==
  /\ Hashes \subseteq Nat
  /\ Empty \in Hashes
  /\ Uploads \subseteq Hashes
\* Hashes are strings of one length, so there are finitely many.
ASSUME LastAssumption ==
  \A S \in SUBSET Hashes : S # {} => \E h \in S : \A g \in S : g <= h
ASSUME FlagsAssumption ==
  /\ {MinIHave, MaxIHave, MinIWant, MaxIWant, MaxResets} \subseteq Nat
  /\ MinIHave < MaxIHave

Ends == Links \X {1, 2}
Peer(e) == <<e[1], 3 - e[2]>>
MoverOf(e) == e[1][e[2]]

VARIABLES
  upload_only, \* Mover::upload_only, set at the start by mover_upload_files
  ihave,   \* Mover::ihave_, what each mover says it has
  store,   \* the hashes in its HashFileStore
  files,   \* what uploadFiles has still to send on an end
  resets,  \* times resetIHave ran after the start
  mmp,     \* the MoverMessageProcessor of each end
  chan,    \* the messages each end has sent and its peer not read
  told,    \* every hash an end has sent in an IHAVE
  asked,   \* every hash it has sent in an IWANT
  owed     \* DONEs it has still to get for its IWANTs

moverVars == <<upload_only, ihave, store, files, resets>>
history == <<told, asked, owed>>
vars == <<moverVars, mmp, chan, history>>

Uploading(e) == upload_only[MoverOf(e)]

MMP == [open : BOOLEAN,          \* parent # NULL
        timer : BOOLEAN,         \* its timer will call MMP::timeOut
        need_startup : BOOLEAN,
        ihave : SUBSET Hashes,   \* what the peer told last
        waiting : BOOLEAN,       \* waiting_for_messages
        sending : BOOLEAN,       \* sending_messages
        sent_i_have : BOOLEAN,
        answering : BOOLEAN]     \* inside IHAVE's handler, before its answer

Types == {"HELLO", "GOODBYE", "DATA", "IHAVE", "IWANT", "DONE"}
Messages == [type : Types, items : SUBSET Hashes]
Msg(type, items) == [type |-> type, items |-> items]

\* selectRandom(S, r) for the r of resetIHave.
Selections(S) ==
  {T \in SUBSET S : \E r \in MinIHave .. MaxIHave - 1 :
                       Cardinality(T) = IF r < Cardinality(S) THEN r
                                        ELSE Cardinality(S)}

Init ==
  /\ upload_only \in [Movers -> BOOLEAN]
  /\ \A m \in Movers : upload_only[m] => m \in Uploaders
  /\ store \in [Movers -> SUBSET (Hashes \ {Empty})]
  /\ \A m \in Movers : IF upload_only[m] THEN store[m] = {}
                       ELSE Cardinality(store[m]) >= MinIHave
  /\ ihave \in [Movers -> SUBSET Hashes]
  /\ \A m \in Movers : IF upload_only[m] THEN ihave[m] = {}
                       ELSE ihave[m] \in Selections(store[m])
  /\ files = [e \in Ends |-> IF Uploading(e) THEN Uploads ELSE {}]
  /\ resets = [m \in Movers |-> 0]
  /\ mmp = [e \in Ends |->
              [open |-> TRUE, timer |-> TRUE, need_startup |-> TRUE,
               ihave |-> {}, waiting |-> TRUE, sending |-> TRUE,
               sent_i_have |-> FALSE, answering |-> FALSE]]
  /\ chan = [e \in Ends |-> <<>>]
  /\ told = [e \in Ends |-> {}]
  /\ asked = [e \in Ends |-> {}]
  /\ owed = [e \in Ends |-> 0]

------------------------------------------------------------------------------
\* What e has in flight once it has sent ms; a closed end reads nothing.
Sent(e, ms) == IF mmp[Peer(e)].open THEN chan[e] \o ms ELSE <<>>

Send(e, ms) == chan' = [chan EXCEPT ![e] = Sent(e, ms)]

Reply(e, ms) == chan' = [chan EXCEPT ![Peer(e)] = Tail(@), ![e] = Sent(e, ms)]

\* MMP::close: the output buffer is dropped with the socket, and the kernel
\* may drop what the peer has not read, so of what is in flight some beginning
\* arrives before the end of file.
Close(e, ms) ==
  /\ mmp' = [mmp EXCEPT ![e] =
                [@ EXCEPT !.open = FALSE, !.timer = FALSE, !.answering = FALSE]]
  /\ \E n \in 0 .. Len(Sent(e, ms)) :
       chan' = [chan EXCEPT ![Peer(e)] = <<>>, ![e] = SubSeq(Sent(e, ms), 1, n)]

GoodBye == Msg("GOODBYE", {})
Done    == Msg("DONE", {})
IHave(e) == Msg("IHAVE", IF Uploading(e) THEN {} ELSE ihave[MoverOf(e)])

\* An entry point of e may run: nobody is in its monitor.
Enterable(e) == mmp[e].open /\ ~mmp[e].answering

\* The next message of e's peer, in processMessage.
Received(e, type) ==
  /\ Enterable(e)
  /\ chan[Peer(e)] # <<>>
  /\ Head(chan[Peer(e)]).type = type

Items(e) == Head(chan[Peer(e)]).items

Told(e) == told' = [told EXCEPT ![e] = @ \cup IHave(e).items]

------------------------------------------------------------------------------
\* MMP::timeOut, the first time: afterConnect.
Startup(e) ==
  /\ Enterable(e) /\ mmp[e].timer /\ mmp[e].need_startup
  /\ \/ /\ mmp' = [mmp EXCEPT ![e].need_startup = FALSE,
                              ![e].sent_i_have = TRUE]
        /\ Send(e, <<IHave(e)>>)
        /\ Told(e)
     \/ /\ mmp' = [mmp EXCEPT ![e].need_startup = FALSE]
        /\ Send(e, <<Msg("HELLO", {})>>)
        /\ UNCHANGED told
  /\ UNCHANGED <<moverVars, asked, owed>>

\* Seeded fault: only an end that waits for messages times out.
Expires_Waiting(e) ==
  mmp[e].timer /\ ~mmp[e].need_startup /\ mmp[e].waiting
\* MMP::timeOut calls nothing but itself once the session has started,
Expires(e) == mmp[e].timer /\ ~mmp[e].need_startup

\* and hangs up when the connection has been quiet or open for too long.
TimeOut(e) ==
  /\ Enterable(e) /\ Expires(e)
  /\ Close(e, <<GoodBye>>)
  /\ UNCHANGED <<moverVars, history>>

\* The timer starts in the constructor of TimerEvent.  With a delay of zero it
\* may fire before that of MMPTimerEvent has set mmp: nothing is called then,
\* and no other timer is made.
LoseTimer(e) ==
  /\ e \in Racy
  /\ mmp[e].open /\ mmp[e].timer
  /\ mmp' = [mmp EXCEPT ![e].timer = FALSE]
  /\ UNCHANGED <<moverVars, chan, history>>

HandleHello(e) ==
  /\ Received(e, "HELLO")
  /\ mmp' = [mmp EXCEPT ![e].sent_i_have = TRUE]
  /\ Reply(e, <<IHave(e)>>)
  /\ Told(e)
  /\ UNCHANGED <<moverVars, asked, owed>>

HandleGoodBye(e) ==
  /\ Received(e, "GOODBYE")
  /\ Close(e, <<>>)
  /\ UNCHANGED <<moverVars, history>>

\* Mover::storeData.
HandleData(e) ==
  /\ Received(e, "DATA")
  /\ store' = IF Uploading(e) THEN store
              ELSE [store EXCEPT ![MoverOf(e)] = @ \cup Items(e)]
  /\ Reply(e, <<>>)
  /\ UNCHANGED <<upload_only, ihave, files, resets, mmp, history>>

------------------------------------------------------------------------------
\* Seeded fault: asks for what is in the shared set already.
NewItems_Mine(e) == Items(e) \cup ihave[MoverOf(e)]

\* Mover::parseIHave: the items told that it had not been told just before,
NewItems(e) == IF Uploading(e) THEN {} ELSE Items(e) \ mmp[e].ihave

\* and what it may ask for of these: all of a short list; of a longer one any
\* iwant items, since one it has may be asked for again.
IWants(new) ==
  LET n == Cardinality(new)
      maxiw == IF MaxIWant < n THEN MaxIWant ELSE n
      iwants == IF maxiw > MinIWant THEN MinIWant .. maxiw - 1 ELSE {maxiw}
  IN IF n < MinIWant THEN {new}
     ELSE {W \in SUBSET new : Cardinality(W) \in iwants}

\* The handler of IHAVE up to its IWANT.  setIHave replaces what was told
\* before; addIHave adds it to what the mover itself says it has.
ParseIHave(e) ==
  /\ Received(e, "IHAVE")
  /\ LET new == NewItems(e) IN
     /\ ihave' = [ihave EXCEPT ![MoverOf(e)] = @ \cup new]
     /\ \E want \in IWants(new) :
          /\ mmp' = [mmp EXCEPT
                ![e].ihave = IF new = {} THEN @ ELSE new,
                ![e].waiting = @ /\ want # {},
                ![e].answering = ~mmp[e].sent_i_have]
          /\ Reply(e, IF want = {} THEN <<>> ELSE <<Msg("IWANT", want)>>)
          /\ asked' = [asked EXCEPT ![e] = @ \cup want]
          /\ owed' = [owed EXCEPT ![e] = IF want = {} THEN @ ELSE @ + 1]
  /\ UNCHANGED <<upload_only, store, files, resets, told>>

\* The rest of it: the answer of an end that has sent no IHAVE yet.
AnswerIHave(e) ==
  /\ mmp[e].answering
  /\ mmp' = [mmp EXCEPT ![e].answering = FALSE, ![e].sent_i_have = TRUE]
  /\ Send(e, <<IHave(e)>>)
  /\ Told(e)
  /\ UNCHANGED <<moverVars, asked, owed>>

\* Mover::isAllowed, for each item of a request.
Allowed(e) == Items(e) \cap ihave[MoverOf(e)]

\* HashFileStore::getData: no data when the file cannot be read.
GetData(m, h) == IF h \in store[m] THEN h ELSE Empty

\* Seeded fault: the last of all it has, not of the request.
SentItem_Mine(e) ==
  CHOOSE h \in Items(e) \cup ihave[MoverOf(e)] :
    \A g \in Items(e) \cup ihave[MoverOf(e)] : g <= h

\* The item parseIWant sends: the one it has parsed last, for join sorts them.
SentItem(e) == CHOOSE h \in Items(e) : \A g \in Items(e) : g <= h

Data(e) == Msg("DATA", {GetData(MoverOf(e), SentItem(e))})

\* Seeded fault: returns early when nothing is allowed.
Answer_UnlessNone(e) ==
  IF Allowed(e) = {} THEN <<>>
  ELSE [i \in 1 .. Cardinality(Allowed(e)) |-> Data(e)] \o <<Done>>

\* Seeded fault: says twice that it is done.
Answer_DoneTwice(e) ==
  [i \in 1 .. Cardinality(Allowed(e)) |-> Data(e)] \o <<Done, Done>>

\* Mover::parseIWant sends one message for every item allowed, but each with
\* the data of SentItem, and that it is done.
Answer(e) ==
  [i \in 1 .. Cardinality(Allowed(e)) |-> Data(e)] \o <<Done>>

\* sendMessagesDone hangs up unless data is still expected.  An upload-only
\* mover would not answer; it tells nothing, so nobody asks it.
HandleIWant(e) ==
  /\ Received(e, "IWANT") /\ ~Uploading(e)
  /\ \/ /\ mmp[e].waiting
        /\ mmp' = [mmp EXCEPT ![e].sending = FALSE]
        /\ Reply(e, Answer(e))
     \/ /\ ~mmp[e].waiting
        /\ Close(e, Append(Answer(e), GoodBye))
  /\ UNCHANGED <<moverVars, history>>

HandleDone(e) ==
  /\ Received(e, "DONE")
  /\ \/ /\ mmp[e].sending
        /\ mmp' = [mmp EXCEPT ![e].waiting = FALSE]
        /\ Reply(e, <<>>)
     \/ /\ ~mmp[e].sending
        /\ Close(e, <<GoodBye>>)
  /\ owed' = [owed EXCEPT ![e] = @ - 1]
  /\ UNCHANGED <<moverVars, told, asked>>

------------------------------------------------------------------------------
\* Seeded fault: an end of file ends only an end that still waits.
AtEnd_Waiting(e) ==
  ~mmp[Peer(e)].open /\ chan[Peer(e)] = <<>> /\ mmp[e].waiting
\* The peer's end is closed and all that arrived of it has been read.
AtEnd(e) == ~mmp[Peer(e)].open /\ chan[Peer(e)] = <<>>

EndOfFile(e) ==
  /\ Enterable(e) /\ AtEnd(e)
  /\ Close(e, <<>>)
  /\ UNCHANGED <<moverVars, history>>

NetworkError(e) ==
  /\ e \in Broken
  /\ Enterable(e)
  /\ Close(e, <<>>)
  /\ UNCHANGED <<moverVars, history>>

\* Mover::uploadFiles.
UploadFile(e) ==
  /\ Enterable(e)
  /\ \E h \in files[e] :
       /\ files' = [files EXCEPT ![e] = @ \ {h}]
       /\ Send(e, <<Msg("DATA", {h})>>)
  /\ UNCHANGED <<upload_only, ihave, store, resets, mmp, history>>

UploadDone(e) ==
  /\ Uploading(e) /\ files[e] = {}
  /\ Enterable(e)
  /\ Close(e, <<GoodBye>>)
  /\ UNCHANGED <<moverVars, history>>

\* Mover::resetIHave, from pollPeers and expire.
ResetIHave(m) ==
  /\ ~upload_only[m]
  /\ resets[m] < MaxResets
  /\ resets' = [resets EXCEPT ![m] = @ + 1]
  /\ \E S \in Selections(store[m]) : ihave' = [ihave EXCEPT ![m] = S]
  /\ UNCHANGED <<upload_only, store, files, mmp, chan, history>>

------------------------------------------------------------------------------
Handle(e) ==
  \/ HandleHello(e) \/ HandleGoodBye(e) \/ HandleData(e)
  \/ ParseIHave(e) \/ AnswerIHave(e) \/ HandleIWant(e) \/ HandleDone(e)
  \/ EndOfFile(e)

Next ==
  \/ \E e \in Ends :
       \/ Startup(e) \/ TimeOut(e) \/ LoseTimer(e)
       \/ Handle(e)
       \/ NetworkError(e)
       \/ UploadFile(e) \/ UploadDone(e)
  \/ \E m \in Movers : ResetIHave(m)

Spec == Init /\ [][Next]_vars

\* Messages that arrive are read, an upload goes on to its end, and timers that
\* are set expire: whatever arrives, TimeOut comes with the first one after
\* max_connection_time.  Nothing has to break.
Fairness ==
  \A e \in Ends :
    /\ WF_vars(Handle(e))
    /\ WF_vars(Startup(e))
    /\ WF_vars(TimeOut(e))
    /\ WF_vars(UploadFile(e) \/ UploadDone(e))

FairSpec == Spec /\ Fairness

------------------------------------------------------------------------------
TypeOK ==
  /\ upload_only \in [Movers -> BOOLEAN]
  /\ ihave \in [Movers -> SUBSET Hashes]
  /\ store \in [Movers -> SUBSET Hashes]
  /\ files \in [Ends -> SUBSET Hashes]
  /\ resets \in [Movers -> 0 .. MaxResets]
  /\ mmp \in [Ends -> MMP]
  /\ chan \in [Ends -> Seq(Messages)]
  /\ told \in [Ends -> SUBSET Hashes]
  /\ asked \in [Ends -> SUBSET Hashes]
  /\ owed \in [Ends -> Nat]

\* The messages e has sent that its peer has not read.
InFlight(e) == {chan[e][i] : i \in DOMAIN chan[e]}
InFlightOf(e, type) == Cardinality({i \in DOMAIN chan[e] : chan[e][i].type = type})

\* A mover asks only for what it has been told on the same connection
\* (parseIHave picks from the message, though the mover's own set already holds
\* what it was told).
RequestsWereOffered ==
  \A e \in Ends : \A msg \in InFlight(e) :
    msg.type = "IWANT" => msg.items \subseteq told[Peer(e)]

\* All data that a mover sends has been asked for by the one it is sent to,
\* unless it is no data: requests survive resetIHave, expiry and the defect of
\* parseIWant without turning into data the peer did not name.
DataWasRequested ==
  \A e \in Ends : \A msg \in InFlight(e) :
    msg.type = "DATA" /\ ~Uploading(e) => msg.items \subseteq asked[Peer(e)] \cup {Empty}

\* As long as both ends are open, every IWANT that has not been answered is on
\* its way to the peer, or its DONE is on its way back.
OwedInFlight ==
  \A e \in Ends : mmp[e].open /\ mmp[Peer(e)].open =>
    owed[e] = InFlightOf(e, "IWANT") + InFlightOf(Peer(e), "DONE")

\* An end whose peer is gone hangs up, even when it has lost its timer.
HangUpPropagates ==
  \A e \in Ends : ~mmp[Peer(e)].open ~> ~mmp[e].open

\* Whoever asks is told when all has been sent, or the connection ends.
RequestsAnswered ==
  \A e \in Ends : owed[e] > 0 ~> owed[e] = 0 \/ ~mmp[e].open

\* A connection ends at both ends, by the time-out of either or the end of an
\* upload; only without any of these it may stay open.
ConnectionEnds ==
  \A e \in Ends :
    \/ <>(~mmp[e].open)
    \/ <>(\A f \in {e, Peer(e)} : mmp[f].open /\ ~mmp[f].timer /\ ~Uploading(f))

\* Mover.cc:368: what a mover sends, it offers at that time.
OnlyOfferedSent ==
  [][\A e \in Ends : \A i \in Len(chan[e]) + 1 .. Len(chan'[e]) :
       chan'[e][i].type = "DATA" /\ ~Uploading(e) =>
         chan'[e][i].items \subseteq ihave[MoverOf(e)] \cup {Empty}]_vars
=============================================================================
