------------------------ MODULE MoverProtocol_proofs ------------------------
(***************************************************************************)
(* Theorems about MoverProtocol: on every link, between any movers, nobody  *)
(* asks for what was not told, and nobody sends what was not asked for.     *)
(*                                                                          *)
(* Neither is inductive alone.  A request is made from an IHAVE that has    *)
(* arrived, so what IHAVEs in flight say must have been told; data is sent  *)
(* for a request that has arrived, so what IWANTs in flight name must have  *)
(* been asked.  Sound says what every kind of message in flight may hold.   *)
(***************************************************************************)
EXTENDS MoverProtocol, FiniteSetTheorems, FunctionTheorems, TLAPS

Elems(s) == {s[i] : i \in DOMAIN s}

\* TypeOK but for the counts, which the properties below do not need.
ShapeOK ==
  /\ upload_only \in [Movers -> BOOLEAN]
  /\ ihave \in [Movers -> SUBSET Hashes]
  /\ store \in [Movers -> SUBSET Hashes]
  /\ files \in [Ends -> SUBSET Hashes]
  /\ \A e \in Ends : files[e] # {} => Uploading(e)
  /\ mmp \in [Ends -> MMP]
  /\ chan \in [Ends -> Seq(Messages)]
  /\ told \in [Ends -> SUBSET Hashes]
  /\ asked \in [Ends -> SUBSET Hashes]

\* A message of e may be in flight.
Sound(e, msg) ==
  /\ msg.type = "IHAVE" => msg.items \subseteq told[e]
  /\ msg.type = "IWANT" => msg.items \subseteq told[Peer(e)] \cap asked[e]
  /\ msg.type = "DATA" =>
       Uploading(e) \/ msg.items \subseteq asked[Peer(e)] \cup {Empty}

AllSound == \A e \in Ends : \A msg \in InFlight(e) : Sound(e, msg)

MoverInv == ShapeOK /\ AllSound

------------------------------------------------------------------------------
\* The two ends of a link are different ends, each the peer of the other.
LEMMA PeerProps ==
  ASSUME NEW e \in Ends
  PROVE  Peer(e) \in Ends /\ Peer(Peer(e)) = e /\ Peer(e) # e /\ MoverOf(e) \in Movers
<1>1. PICK l \in Links, s \in {1, 2} : e = <<l, s>>
  BY DEF Ends
<1>2. l \in Movers \X Movers
  BY MoversAssumption
<1>3. 3 - s \in {1, 2} /\ 3 - s # s /\ 3 - (3 - s) = s
  OBVIOUS
<1>4. l[s] \in Movers
  BY <1>2
<1> QED
  BY <1>1, <1>3, <1>4 DEF Ends, Peer, MoverOf

\* The elements of a concatenation, of a tail and of a beginning.
LEMMA ElemsConcat ==
  ASSUME NEW S, NEW s \in Seq(S), NEW t \in Seq(S)
  PROVE  s \o t \in Seq(S) /\ Elems(s \o t) \subseteq Elems(s) \cup Elems(t)
<1>1. s \o t \in Seq(S) /\ Len(s \o t) = Len(s) + Len(t)
  OBVIOUS
<1>2. ASSUME NEW i \in 1 .. Len(s) + Len(t)
      PROVE  (s \o t)[i] \in Elems(s) \cup Elems(t)
  <2>1. CASE i <= Len(s)
    BY <2>1 DEF Elems
  <2>2. CASE i > Len(s)
    <3>1. (s \o t)[i] = t[i - Len(s)] /\ i - Len(s) \in 1 .. Len(t)
      BY <2>2
    <3> QED
      BY <3>1 DEF Elems
  <2> QED
    BY <2>1, <2>2
<1> QED
  BY <1>1, <1>2 DEF Elems

LEMMA ElemsTail ==
  ASSUME NEW S, NEW s \in Seq(S), s # <<>>
  PROVE  /\ Tail(s) \in Seq(S) /\ Elems(Tail(s)) \subseteq Elems(s)
         /\ Head(s) \in S /\ Head(s) \in Elems(s)
<1>1. Len(s) >= 1 /\ Tail(s) \in Seq(S) /\ Len(Tail(s)) = Len(s) - 1
  OBVIOUS
<1>2. ASSUME NEW i \in 1 .. Len(s) - 1
      PROVE  Tail(s)[i] = s[i + 1] /\ i + 1 \in 1 .. Len(s)
  OBVIOUS
<1>3. Head(s) = s[1] /\ 1 \in DOMAIN s
  BY <1>1
<1> QED
  BY <1>1, <1>2, <1>3 DEF Elems

LEMMA ElemsPrefix ==
  ASSUME NEW S, NEW s \in Seq(S), NEW n \in 0 .. Len(s)
  PROVE  SubSeq(s, 1, n) \in Seq(S) /\ Elems(SubSeq(s, 1, n)) \subseteq Elems(s)
<1>1. SubSeq(s, 1, n) \in Seq(S) /\ Len(SubSeq(s, 1, n)) = n
  OBVIOUS
<1>2. ASSUME NEW i \in 1 .. n PROVE SubSeq(s, 1, n)[i] = s[i] /\ i \in 1 .. Len(s)
  OBVIOUS
<1> QED
  BY <1>1, <1>2 DEF Elems

------------------------------------------------------------------------------
\* Sending appends; what was in flight on other ends stays.
LEMMA SentElems ==
  ASSUME ShapeOK, NEW e \in Ends, NEW ms \in Seq(Messages)
  PROVE  Sent(e, ms) \in Seq(Messages) /\ Elems(Sent(e, ms)) \subseteq InFlight(e) \cup Elems(ms)
<1>1. chan[e] \in Seq(Messages) /\ Elems(chan[e]) = InFlight(e)
  BY DEF ShapeOK, InFlight, Elems
<1>2. chan[e] \o ms \in Seq(Messages) /\ Elems(chan[e] \o ms) \subseteq InFlight(e) \cup Elems(ms)
  BY <1>1, ElemsConcat
<1>3. Elems(<<>>) = {} /\ <<>> \in Seq(Messages)
  BY DEF Elems
<1> QED
  BY <1>2, <1>3 DEF Sent

\* What a step that sends ms from e leaves in flight.
Adds(e, ms) ==
  /\ chan' \in [Ends -> Seq(Messages)]
  /\ \A f \in Ends : InFlight(f)' \subseteq InFlight(f) \cup (IF f = e THEN Elems(ms) ELSE {})

LEMMA SendAdds ==
  ASSUME ShapeOK, NEW e \in Ends, NEW ms \in Seq(Messages), Send(e, ms)
  PROVE  Adds(e, ms)
<1>1. Sent(e, ms) \in Seq(Messages) /\ Elems(Sent(e, ms)) \subseteq InFlight(e) \cup Elems(ms)
  BY SentElems
<1>2. chan' = [chan EXCEPT ![e] = Sent(e, ms)] /\ chan \in [Ends -> Seq(Messages)]
  BY DEF Send, ShapeOK
<1>3. \A f \in Ends : chan'[f] = IF f = e THEN Sent(e, ms) ELSE chan[f]
  BY <1>2
<1>4. chan' \in [Ends -> Seq(Messages)]
  BY <1>1, <1>2
<1> QED
  BY <1>1, <1>3, <1>4 DEF Adds, InFlight, Elems

LEMMA ReplyAdds ==
  ASSUME ShapeOK, NEW e \in Ends, NEW ms \in Seq(Messages), Reply(e, ms),
         chan[Peer(e)] # <<>>
  PROVE  Adds(e, ms)
<1>1. Sent(e, ms) \in Seq(Messages) /\ Elems(Sent(e, ms)) \subseteq InFlight(e) \cup Elems(ms)
  BY SentElems
<1>2. Peer(e) \in Ends /\ Peer(e) # e
  BY PeerProps
<1>3. chan[Peer(e)] \in Seq(Messages)
  BY <1>2 DEF ShapeOK
<1>4. /\ Tail(chan[Peer(e)]) \in Seq(Messages)
      /\ Elems(Tail(chan[Peer(e)])) \subseteq Elems(chan[Peer(e)])
  BY <1>3, ElemsTail
<1>5. chan' = [chan EXCEPT ![Peer(e)] = Tail(@), ![e] = Sent(e, ms)]
      /\ chan \in [Ends -> Seq(Messages)]
  BY DEF Reply, ShapeOK
<1>6. \A f \in Ends : chan'[f] = IF f = e THEN Sent(e, ms)
                                 ELSE IF f = Peer(e) THEN Tail(chan[f]) ELSE chan[f]
  BY <1>2, <1>5
<1>7. chan' \in [Ends -> Seq(Messages)]
  BY <1>1, <1>4, <1>5
<1> QED
  BY <1>1, <1>4, <1>6, <1>7 DEF Adds, InFlight, Elems

LEMMA CloseAdds ==
  ASSUME ShapeOK, NEW e \in Ends, NEW ms \in Seq(Messages), Close(e, ms)
  PROVE  Adds(e, ms) /\ mmp' \in [Ends -> MMP]
<1>1. Sent(e, ms) \in Seq(Messages) /\ Elems(Sent(e, ms)) \subseteq InFlight(e) \cup Elems(ms)
  BY SentElems
<1>2. Peer(e) \in Ends /\ Peer(e) # e
  BY PeerProps
<1>3. PICK n \in 0 .. Len(Sent(e, ms)) :
        chan' = [chan EXCEPT ![Peer(e)] = <<>>, ![e] = SubSeq(Sent(e, ms), 1, n)]
  BY DEF Close
<1> DEFINE rest == SubSeq(Sent(e, ms), 1, n)
<1>4. rest \in Seq(Messages) /\ Elems(rest) \subseteq InFlight(e) \cup Elems(ms)
  BY <1>1, ElemsPrefix
<1>5. chan' = [chan EXCEPT ![Peer(e)] = <<>>, ![e] = rest]
      /\ chan \in [Ends -> Seq(Messages)] /\ <<>> \in Seq(Messages)
  BY <1>3 DEF ShapeOK
<1>6. /\ mmp[e] \in MMP /\ mmp \in [Ends -> MMP]
      /\ mmp' = [mmp EXCEPT ![e] =
            [mmp[e] EXCEPT !.open = FALSE, !.timer = FALSE, !.answering = FALSE]]
  BY DEF Close, ShapeOK
<1>7. [mmp[e] EXCEPT !.open = FALSE, !.timer = FALSE, !.answering = FALSE] \in MMP
  BY <1>6 DEF MMP
<1>8. mmp' \in [Ends -> MMP]
  BY <1>6, <1>7
<1> HIDE DEF rest
<1>9. \A f \in Ends : chan'[f] = IF f = e THEN rest
                                 ELSE IF f = Peer(e) THEN <<>> ELSE chan[f]
  BY <1>2, <1>5
<1>10. chan' \in [Ends -> Seq(Messages)]
  BY <1>2, <1>4, <1>5
<1>11. ASSUME NEW f \in Ends
       PROVE  InFlight(f)' \subseteq InFlight(f) \cup (IF f = e THEN Elems(ms) ELSE {})
  <2>1. CASE f = e
    BY <1>4, <1>9, <2>1 DEF InFlight, Elems
  <2>2. CASE f # e
    <3>1. DOMAIN <<>> = {}
      OBVIOUS
    <3> QED
      BY <1>9, <2>2, <3>1 DEF InFlight
  <2> QED
    BY <2>1, <2>2
<1> QED
  BY <1>8, <1>10, <1>11 DEF Adds

\* Histories only grow, so what is sound stays sound.
LEMMA AddsKeepsSound ==
  ASSUME ShapeOK, AllSound, NEW e \in Ends, NEW ms, Adds(e, ms), UNCHANGED upload_only,
         \A f \in Ends : told[f] \subseteq told'[f] /\ asked[f] \subseteq asked'[f],
         \A msg \in Elems(ms) : Sound(e, msg)'
  PROVE  AllSound'
<1> SUFFICES ASSUME NEW f \in Ends, NEW msg \in InFlight(f)'
             PROVE  Sound(f, msg)'
  BY DEF AllSound
<1>1. CASE msg \in InFlight(f)
  <2>1. Sound(f, msg)
    BY <1>1 DEF AllSound
  <2>2. Peer(f) \in Ends
    BY PeerProps
  <2> QED
    BY <2>1, <2>2 DEF Sound, Uploading
<1>2. CASE msg \notin InFlight(f)
  BY <1>2 DEF Adds
<1> QED
  BY <1>1, <1>2

------------------------------------------------------------------------------
LEMMA InitMoverInv == Init => MoverInv
<1> SUFFICES ASSUME Init PROVE MoverInv
  OBVIOUS
<1>1. ASSUME NEW m \in Movers PROVE ihave[m] \subseteq Hashes
  BY DEF Init
<1>2. ShapeOK
  BY HashesAssumption DEF Init, ShapeOK, MMP
<1>3. \A e \in Ends : InFlight(e) = {}
  BY DEF Init, InFlight
<1> QED
  BY <1>2, <1>3 DEF MoverInv, AllSound

\* The message a handler of e reads, and what is known of it.
LEMMA ReceivedSound ==
  ASSUME MoverInv, NEW e \in Ends, NEW type, Received(e, type)
  PROVE  /\ chan[Peer(e)] # <<>>
         /\ Head(chan[Peer(e)]) \in Messages
         /\ Head(chan[Peer(e)]).type = type
         /\ Items(e) \subseteq Hashes
         /\ Sound(Peer(e), Head(chan[Peer(e)]))
         /\ Peer(e) \in Ends /\ Peer(Peer(e)) = e
<1>1. Peer(e) \in Ends /\ Peer(Peer(e)) = e
  BY PeerProps
<1>2. chan[Peer(e)] \in Seq(Messages) /\ chan[Peer(e)] # <<>>
  BY <1>1 DEF MoverInv, ShapeOK, Received
<1>3. Head(chan[Peer(e)]) \in Messages /\ Head(chan[Peer(e)]) \in InFlight(Peer(e))
  BY <1>2, ElemsTail DEF Elems, InFlight
<1>4. Items(e) \subseteq Hashes
  BY <1>3 DEF Items, Messages
<1> QED
  BY <1>1, <1>2, <1>3, <1>4 DEF MoverInv, AllSound, Received

\* Messages with no items to vouch for.
LEMMA PlainMessages ==
  /\ GoodBye \in Messages /\ Done \in Messages /\ Msg("HELLO", {}) \in Messages
  /\ \A e \in Ends : Sound(e, GoodBye)' /\ Sound(e, Done)' /\ Sound(e, Msg("HELLO", {}))'
  /\ <<>> \in Seq(Messages) /\ Elems(<<>>) = {}
  /\ \A m \in Messages : <<m>> \in Seq(Messages) /\ Elems(<<m>>) = {m}
BY DEF GoodBye, Done, Msg, Messages, Types, Sound, Elems

LEMMA IHaveMessage ==
  ASSUME ShapeOK, NEW e \in Ends
  PROVE  IHave(e) \in Messages /\ IHave(e).type = "IHAVE" /\ IHave(e).items \subseteq Hashes
BY PeerProps DEF IHave, Msg, Messages, Types, ShapeOK

\* An end that hangs up saying nothing but good-bye keeps the invariant.
LEMMA HangUpKeeps ==
  ASSUME MoverInv, NEW e \in Ends, NEW ms \in {<<>>, <<GoodBye>>}, Close(e, ms),
         UNCHANGED <<upload_only, ihave, store, files, told, asked>>
  PROVE  MoverInv'
<1>1. ms \in Seq(Messages) /\ \A msg \in Elems(ms) : Sound(e, msg)'
  BY PlainMessages
<1>2. Adds(e, ms) /\ mmp' \in [Ends -> MMP]
  BY <1>1, CloseAdds DEF MoverInv
<1>3. ShapeOK'
  BY <1>2 DEF MoverInv, ShapeOK, Adds, Uploading
<1>4. AllSound'
  BY <1>1, <1>2, AddsKeepsSound DEF MoverInv
<1> QED
  BY <1>3, <1>4 DEF MoverInv

\* So does an end that says what it has.
LEMMA TellKeeps ==
  ASSUME MoverInv, NEW e \in Ends, Adds(e, <<IHave(e)>>), Told(e),
         mmp' \in [Ends -> MMP],
         UNCHANGED <<upload_only, ihave, store, files, asked>>
  PROVE  MoverInv'
<1>1. IHave(e) \in Messages /\ IHave(e).type = "IHAVE" /\ IHave(e).items \subseteq Hashes
  BY IHaveMessage DEF MoverInv
<1>2. told \in [Ends -> SUBSET Hashes]
      /\ told' = [told EXCEPT ![e] = @ \cup IHave(e).items]
  BY DEF MoverInv, ShapeOK, Told
<1>3. told' \in [Ends -> SUBSET Hashes] /\ told'[e] = told[e] \cup IHave(e).items
      /\ \A f \in Ends : told[f] \subseteq told'[f]
  BY <1>1, <1>2
<1>4. ShapeOK'
  BY <1>3 DEF MoverInv, ShapeOK, Adds, Uploading
<1>5. ASSUME NEW msg \in Elems(<<IHave(e)>>) PROVE Sound(e, msg)'
  <2>1. msg = IHave(e)
    BY DEF Elems
  <2> QED
    BY <1>1, <1>3, <2>1 DEF Sound
<1>6. AllSound'
  BY <1>3, <1>5, AddsKeepsSound DEF MoverInv, ShapeOK
<1> QED
  BY <1>4, <1>6 DEF MoverInv

\* A step that reads or says nothing to vouch for and leaves the histories.
LEMMA PlainKeeps ==
  ASSUME MoverInv, NEW e \in Ends,
         NEW ms \in {<<>>, <<Msg("HELLO", {})>>}, Adds(e, ms),
         mmp' \in [Ends -> MMP], store' \in [Movers -> SUBSET Hashes],
         UNCHANGED <<upload_only, ihave, files, told, asked>>
  PROVE  MoverInv'
<1>1. \A msg \in Elems(ms) : Sound(e, msg)'
  BY PlainMessages
<1>2. ShapeOK'
  BY DEF MoverInv, ShapeOK, Adds, Uploading
<1>3. AllSound'
  BY <1>1, AddsKeepsSound DEF MoverInv
<1> QED
  BY <1>2, <1>3 DEF MoverInv

------------------------------------------------------------------------------
LEMMA StartupKeeps ==
  ASSUME MoverInv, NEW e \in Ends, Startup(e) PROVE MoverInv'
<1>1. mmp' \in [Ends -> MMP]
  <2>1. mmp \in [Ends -> MMP] /\ mmp[e] \in MMP
    BY DEF MoverInv, ShapeOK
  <2>2. [mmp[e] EXCEPT !.need_startup = FALSE, !.sent_i_have = TRUE] \in MMP
        /\ [mmp[e] EXCEPT !.need_startup = FALSE] \in MMP
    BY <2>1 DEF MMP
  <2> QED
    BY <2>1, <2>2 DEF Startup
<1>2. CASE Send(e, <<IHave(e)>>) /\ Told(e)
  <2>1. Adds(e, <<IHave(e)>>)
    BY <1>2, SendAdds, IHaveMessage, PlainMessages DEF MoverInv
  <2> QED
    BY <1>1, <1>2, <2>1, TellKeeps DEF Startup, moverVars
<1>3. CASE Send(e, <<Msg("HELLO", {})>>) /\ UNCHANGED told
  <2>1. Adds(e, <<Msg("HELLO", {})>>)
    BY <1>3, SendAdds, PlainMessages DEF MoverInv
  <2>2. store' \in [Movers -> SUBSET Hashes]
    BY DEF Startup, moverVars, MoverInv, ShapeOK
  <2> QED
    BY <1>1, <1>3, <2>1, <2>2, PlainKeeps DEF Startup, moverVars
<1> QED
  BY <1>2, <1>3 DEF Startup

LEMMA TimeOutKeeps ==
  ASSUME MoverInv, NEW e \in Ends, TimeOut(e) PROVE MoverInv'
BY HangUpKeeps DEF TimeOut, moverVars, history

LEMMA LoseTimerKeeps ==
  ASSUME MoverInv, NEW e \in Ends, LoseTimer(e) PROVE MoverInv'
<1>1. mmp \in [Ends -> MMP] /\ mmp[e] \in MMP
  BY DEF MoverInv, ShapeOK
<1>2. [mmp[e] EXCEPT !.timer = FALSE] \in MMP
  BY <1>1 DEF MMP
<1>3. mmp' \in [Ends -> MMP]
  BY <1>1, <1>2 DEF LoseTimer
<1>4. ShapeOK'
  BY <1>3 DEF LoseTimer, moverVars, history, MoverInv, ShapeOK, Uploading
<1>5. AllSound'
  BY DEF LoseTimer, moverVars, history, MoverInv, AllSound, InFlight, Sound, Uploading
<1> QED
  BY <1>4, <1>5 DEF MoverInv

LEMMA HelloKeeps ==
  ASSUME MoverInv, NEW e \in Ends, HandleHello(e) PROVE MoverInv'
<1>1. mmp \in [Ends -> MMP] /\ mmp[e] \in MMP
  BY DEF MoverInv, ShapeOK
<1>2. [mmp[e] EXCEPT !.sent_i_have = TRUE] \in MMP
  BY <1>1 DEF MMP
<1>3. mmp' \in [Ends -> MMP]
  BY <1>1, <1>2 DEF HandleHello
<1>4. chan[Peer(e)] # <<>>
  BY DEF HandleHello, Received
<1>5. Adds(e, <<IHave(e)>>)
  BY <1>4, ReplyAdds, IHaveMessage, PlainMessages DEF HandleHello, MoverInv
<1> QED
  BY <1>3, <1>5, TellKeeps DEF HandleHello, moverVars

LEMMA GoodByeKeeps ==
  ASSUME MoverInv, NEW e \in Ends, HandleGoodBye(e) PROVE MoverInv'
BY HangUpKeeps DEF HandleGoodBye, moverVars, history

LEMMA DataKeeps ==
  ASSUME MoverInv, NEW e \in Ends, HandleData(e) PROVE MoverInv'
<1>1. chan[Peer(e)] # <<>> /\ Items(e) \subseteq Hashes
  BY ReceivedSound DEF HandleData
<1>2. Adds(e, <<>>)
  BY <1>1, ReplyAdds, PlainMessages DEF HandleData, MoverInv
<1>3. MoverOf(e) \in Movers /\ store \in [Movers -> SUBSET Hashes]
  BY PeerProps DEF MoverInv, ShapeOK
<1>4. store' \in [Movers -> SUBSET Hashes]
  BY <1>1, <1>3 DEF HandleData
<1>5. mmp' \in [Ends -> MMP]
  BY DEF HandleData, MoverInv, ShapeOK
<1> QED
  BY <1>2, <1>4, <1>5, PlainKeeps DEF HandleData, history

\* What an end asks for has just been told by its peer.
LEMMA ParseIHaveKeeps ==
  ASSUME MoverInv, NEW e \in Ends, ParseIHave(e) PROVE MoverInv'
<1> DEFINE new == NewItems(e)
<1>1. /\ Items(e) \subseteq Hashes /\ Items(e) \subseteq told[Peer(e)]
      /\ chan[Peer(e)] # <<>> /\ Peer(e) \in Ends
  BY ReceivedSound DEF ParseIHave, Sound, Items
<1>2. new \subseteq Items(e)
  BY DEF NewItems
<1>3. PICK want \in IWants(new) :
        /\ mmp' = [mmp EXCEPT
              ![e].ihave = IF new = {} THEN @ ELSE new,
              ![e].waiting = @ /\ want # {},
              ![e].answering = ~mmp[e].sent_i_have]
        /\ Reply(e, IF want = {} THEN <<>> ELSE <<Msg("IWANT", want)>>)
        /\ asked' = [asked EXCEPT ![e] = @ \cup want]
  BY DEF ParseIHave
<1>4. want \subseteq new
  BY <1>3 DEF IWants
<1> DEFINE ms == IF want = {} THEN <<>> ELSE <<Msg("IWANT", want)>>
<1>5. MoverOf(e) \in Movers /\ mmp \in [Ends -> MMP] /\ mmp[e] \in MMP
      /\ ihave \in [Movers -> SUBSET Hashes] /\ asked \in [Ends -> SUBSET Hashes]
  BY PeerProps DEF MoverInv, ShapeOK
<1>6. /\ UNCHANGED <<upload_only, store, files, told>>
      /\ ihave' = [ihave EXCEPT ![MoverOf(e)] = @ \cup new]
  BY DEF ParseIHave
<1>7. ihave' \in [Movers -> SUBSET Hashes]
  BY <1>1, <1>2, <1>5, <1>6
<1>8. /\ asked' \in [Ends -> SUBSET Hashes] /\ asked'[e] = asked[e] \cup want
      /\ \A f \in Ends : asked[f] \subseteq asked'[f]
  BY <1>1, <1>2, <1>3, <1>4, <1>5
<1>9. mmp' \in [Ends -> MMP]
  <2> DEFINE r == [mmp[e] EXCEPT !.ihave = IF new = {} THEN @ ELSE new,
                                 !.waiting = @ /\ want # {},
                                 !.answering = ~mmp[e].sent_i_have]
  <2>1. r \in MMP
    BY <1>1, <1>2, <1>5 DEF MMP
  <2>2. mmp' = [mmp EXCEPT ![e] = r]
    BY <1>3, <1>5
  <2> HIDE DEF r
  <2> QED
    BY <1>5, <2>1, <2>2
<1>10. Msg("IWANT", want) \in Messages
  BY <1>1, <1>2, <1>4 DEF Msg, Messages, Types
<1>11. ms \in Seq(Messages) /\ Elems(ms) \subseteq {Msg("IWANT", want)}
  BY <1>10, PlainMessages
<1>12. Adds(e, ms)
  BY <1>1, <1>3, <1>11, ReplyAdds DEF MoverInv
<1>13. ASSUME NEW msg \in Elems(ms) PROVE Sound(e, msg)'
  <2>1. msg = Msg("IWANT", want)
    BY <1>11
  <2> QED
    BY <1>1, <1>2, <1>4, <1>6, <1>8, <2>1 DEF Sound, Msg
<1>14. ShapeOK'
  BY <1>6, <1>7, <1>8, <1>9, <1>12 DEF MoverInv, ShapeOK, Adds, Uploading
<1> HIDE DEF ms
<1>15. AllSound'
  BY <1>6, <1>8, <1>12, <1>13, AddsKeepsSound DEF MoverInv
<1> QED
  BY <1>14, <1>15 DEF MoverInv

LEMMA AnswerIHaveKeeps ==
  ASSUME MoverInv, NEW e \in Ends, AnswerIHave(e) PROVE MoverInv'
<1>1. mmp \in [Ends -> MMP] /\ mmp[e] \in MMP
  BY DEF MoverInv, ShapeOK
<1>2. [mmp[e] EXCEPT !.answering = FALSE, !.sent_i_have = TRUE] \in MMP
  BY <1>1 DEF MMP
<1>3. mmp' \in [Ends -> MMP]
  BY <1>1, <1>2 DEF AnswerIHave
<1>4. Adds(e, <<IHave(e)>>)
  BY SendAdds, IHaveMessage, PlainMessages DEF AnswerIHave, MoverInv
<1> QED
  BY <1>3, <1>4, TellKeeps DEF AnswerIHave, moverVars

------------------------------------------------------------------------------
\* Every set of hashes is finite.
LEMMA HashesFinite ==
  ASSUME NEW S \in SUBSET Hashes PROVE IsFiniteSet(S) /\ Cardinality(S) \in Nat
<1>1. PICK h \in Hashes : \A g \in Hashes : g <= h
  BY LastAssumption, HashesAssumption
<1>2. S \subseteq 0 .. h
  BY <1>1, HashesAssumption
<1>3. IsFiniteSet(0 .. h)
  BY <1>1, HashesAssumption, FS_Interval
<1> QED
  BY <1>2, <1>3, FS_Subset, FS_CardinalityType

\* What parseIWant sends for a request is an item of the request, or no data.
LEMMA AnswerSound ==
  ASSUME MoverInv, NEW e \in Ends, Received(e, "IWANT"), UNCHANGED <<upload_only, asked>>
  PROVE  /\ Answer(e) \in Seq(Messages)
         /\ \A msg \in Elems(Answer(e)) : Sound(e, msg)'
<1>1. /\ Items(e) \subseteq Hashes /\ Items(e) \subseteq asked[Peer(e)]
      /\ Peer(e) \in Ends
  BY ReceivedSound DEF Sound, Items
<1> DEFINE n == Cardinality(Allowed(e))
           data == [i \in 1 .. n |-> Data(e)]
<1>2. n \in Nat /\ (n > 0 => Items(e) # {})
  <2>1. Allowed(e) \in SUBSET Hashes /\ Allowed(e) \subseteq Items(e)
    BY <1>1 DEF Allowed
  <2>2. Cardinality({}) = 0
    BY FS_EmptySet
  <2>3. Items(e) = {} => Allowed(e) = {}
    BY <2>1
  <2> QED
    BY <2>1, <2>2, <2>3, HashesFinite
<1>3. ASSUME Items(e) # {}
      PROVE  /\ Data(e) \in Messages /\ Data(e).type = "DATA"
             /\ Data(e).items \subseteq asked[Peer(e)] \cup {Empty}
  <2>1. SentItem(e) \in Items(e)
    BY <1>1, <1>3, LastAssumption DEF SentItem
  <2>2. GetData(MoverOf(e), SentItem(e)) \in {SentItem(e), Empty}
    BY DEF GetData
  <2>3. GetData(MoverOf(e), SentItem(e)) \in Hashes
    BY <1>1, <2>1, <2>2, HashesAssumption
  <2> QED
    BY <1>1, <2>1, <2>2, <2>3 DEF Data, Msg, Messages, Types
<1>4. data \in Seq(Messages) /\ (n = 0 \/ Items(e) # {})
  <2>1. n > 0 => data \in [1 .. n -> Messages]
    BY <1>2, <1>3
  <2>2. n = 0 => data = <<>>
    OBVIOUS
  <2> QED
    BY <1>2, <2>1, <2>2
<1>5. <<Done>> \in Seq(Messages) /\ Elems(<<Done>>) = {Done}
  BY PlainMessages
<1>6. Answer(e) = data \o <<Done>>
  BY DEF Answer
<1>7. ASSUME NEW msg \in Elems(data) PROVE Sound(e, msg)'
  <2>1. Items(e) # {} /\ msg = Data(e)
    BY <1>2, <1>4 DEF Elems
  <2> QED
    BY <1>1, <1>3, <2>1 DEF Sound
<1> HIDE DEF data
<1>8. data \in Seq(Messages)
  BY <1>4
<1>9. /\ data \o <<Done>> \in Seq(Messages)
      /\ Elems(data \o <<Done>>) \subseteq Elems(data) \cup Elems(<<Done>>)
  BY <1>5, <1>8, ElemsConcat
<1>10. Answer(e) \in Seq(Messages) /\ Elems(Answer(e)) \subseteq Elems(data) \cup {Done}
  BY <1>5, <1>6, <1>9
<1> QED
  BY <1>7, <1>10, PlainMessages

LEMMA IWantKeeps ==
  ASSUME MoverInv, NEW e \in Ends, HandleIWant(e) PROVE MoverInv'
<1>1. UNCHANGED <<upload_only, ihave, store, files, told, asked>>
  BY DEF HandleIWant, moverVars, history
<1>2. /\ Answer(e) \in Seq(Messages) /\ chan[Peer(e)] # <<>>
      /\ \A msg \in Elems(Answer(e)) : Sound(e, msg)'
  BY <1>1, AnswerSound, ReceivedSound DEF HandleIWant
<1>3. CASE mmp' = [mmp EXCEPT ![e].sending = FALSE] /\ Reply(e, Answer(e))
  <2>1. mmp \in [Ends -> MMP] /\ mmp[e] \in MMP
    BY DEF MoverInv, ShapeOK
  <2>2. [mmp[e] EXCEPT !.sending = FALSE] \in MMP
    BY <2>1 DEF MMP
  <2>3. mmp' \in [Ends -> MMP]
    BY <1>3, <2>1, <2>2
  <2>4. Adds(e, Answer(e))
    BY <1>2, <1>3, ReplyAdds DEF MoverInv
  <2>5. ShapeOK'
    BY <1>1, <2>3, <2>4 DEF MoverInv, ShapeOK, Adds, Uploading
  <2>6. AllSound'
    BY <1>1, <1>2, <2>4, AddsKeepsSound DEF MoverInv
  <2> QED
    BY <2>5, <2>6 DEF MoverInv
<1>4. CASE Close(e, Append(Answer(e), GoodBye))
  <2> DEFINE ms == Append(Answer(e), GoodBye)
  <2>1. /\ ms = Answer(e) \o <<GoodBye>>
        /\ <<GoodBye>> \in Seq(Messages) /\ Elems(<<GoodBye>>) = {GoodBye}
    BY <1>2, PlainMessages
  <2> HIDE DEF ms
  <2>2. /\ Answer(e) \o <<GoodBye>> \in Seq(Messages)
        /\ Elems(Answer(e) \o <<GoodBye>>) \subseteq Elems(Answer(e)) \cup Elems(<<GoodBye>>)
    BY <1>2, <2>1, ElemsConcat
  <2>3. ms \in Seq(Messages) /\ Elems(ms) \subseteq Elems(Answer(e)) \cup {GoodBye}
    BY <2>1, <2>2
  <2>4. \A msg \in Elems(ms) : Sound(e, msg)'
    BY <1>2, <2>3, PlainMessages
  <2>5. Adds(e, ms) /\ mmp' \in [Ends -> MMP]
    BY <1>4, <2>3, CloseAdds DEF MoverInv, ms
  <2>6. ShapeOK'
    BY <1>1, <2>5 DEF MoverInv, ShapeOK, Adds, Uploading
  <2>7. AllSound'
    BY <1>1, <2>4, <2>5, AddsKeepsSound DEF MoverInv
  <2> QED
    BY <2>6, <2>7 DEF MoverInv
<1> QED
  BY <1>3, <1>4 DEF HandleIWant

LEMMA DoneKeeps ==
  ASSUME MoverInv, NEW e \in Ends, HandleDone(e) PROVE MoverInv'
<1>1. UNCHANGED <<upload_only, ihave, store, files, told, asked>>
  BY DEF HandleDone, moverVars
<1>2. CASE mmp' = [mmp EXCEPT ![e].waiting = FALSE] /\ Reply(e, <<>>)
  <2>1. mmp \in [Ends -> MMP] /\ mmp[e] \in MMP
    BY DEF MoverInv, ShapeOK
  <2>2. [mmp[e] EXCEPT !.waiting = FALSE] \in MMP
    BY <2>1 DEF MMP
  <2>3. mmp' \in [Ends -> MMP] /\ store' \in [Movers -> SUBSET Hashes]
    BY <1>1, <1>2, <2>1, <2>2 DEF MoverInv, ShapeOK
  <2>4. chan[Peer(e)] # <<>>
    BY DEF HandleDone, Received
  <2>5. Adds(e, <<>>)
    BY <1>2, <2>4, ReplyAdds, PlainMessages DEF MoverInv
  <2> QED
    BY <1>1, <2>3, <2>5, PlainKeeps
<1>3. CASE Close(e, <<GoodBye>>)
  BY <1>1, <1>3, HangUpKeeps
<1> QED
  BY <1>2, <1>3 DEF HandleDone

------------------------------------------------------------------------------
LEMMA EndOfFileKeeps ==
  ASSUME MoverInv, NEW e \in Ends, EndOfFile(e) \/ NetworkError(e) \/ UploadDone(e)
  PROVE  MoverInv'
BY HangUpKeeps DEF EndOfFile, NetworkError, UploadDone, moverVars, history

\* Only an uploader sends data nobody has asked for.
LEMMA UploadFileKeeps ==
  ASSUME MoverInv, NEW e \in Ends, UploadFile(e) PROVE MoverInv'
<1>1. PICK h \in files[e] :
        /\ files' = [files EXCEPT ![e] = @ \ {h}]
        /\ Send(e, <<Msg("DATA", {h})>>)
  BY DEF UploadFile
<1>2. files[e] \subseteq Hashes /\ files \in [Ends -> SUBSET Hashes]
  BY DEF MoverInv, ShapeOK
<1>3. Msg("DATA", {h}) \in Messages
  BY <1>1, <1>2 DEF Msg, Messages, Types
<1>4. Adds(e, <<Msg("DATA", {h})>>)
  BY <1>1, <1>3, SendAdds, PlainMessages DEF MoverInv
<1>5. files' \in [Ends -> SUBSET Hashes]
  BY <1>1, <1>2
<1>6. UNCHANGED <<upload_only, ihave, store, mmp, told, asked>>
  BY DEF UploadFile, history
<1>7. \A f \in Ends : files'[f] \subseteq files[f]
  BY <1>1, <1>2
<1>8. Uploading(e)
  BY <1>1 DEF MoverInv, ShapeOK
<1>9. ShapeOK'
  BY <1>4, <1>5, <1>6, <1>7 DEF MoverInv, ShapeOK, Adds, Uploading
<1>10. ASSUME NEW msg \in Elems(<<Msg("DATA", {h})>>) PROVE Sound(e, msg)'
  <2>1. msg = Msg("DATA", {h})
    BY DEF Elems
  <2> QED
    BY <1>6, <1>8, <2>1 DEF Sound, Msg, Uploading
<1>11. AllSound'
  BY <1>4, <1>6, <1>10, AddsKeepsSound DEF MoverInv
<1> QED
  BY <1>9, <1>11 DEF MoverInv

LEMMA ResetIHaveKeeps ==
  ASSUME MoverInv, NEW m \in Movers, ResetIHave(m) PROVE MoverInv'
<1>1. PICK S \in Selections(store[m]) : ihave' = [ihave EXCEPT ![m] = S]
  BY DEF ResetIHave
<1>2. S \subseteq Hashes
  BY DEF Selections, MoverInv, ShapeOK
<1>3. ShapeOK'
  BY <1>1, <1>2 DEF ResetIHave, history, MoverInv, ShapeOK, Uploading
<1>4. AllSound'
  BY DEF ResetIHave, history, MoverInv, AllSound, InFlight, Sound, Uploading
<1> QED
  BY <1>3, <1>4 DEF MoverInv

\* Every step keeps the invariant.
LEMMA NextMoverInv == MoverInv /\ [Next]_vars => MoverInv'
<1> SUFFICES ASSUME MoverInv, [Next]_vars PROVE MoverInv'
  OBVIOUS
<1>1. ASSUME NEW e \in Ends, Handle(e) PROVE MoverInv'
  BY <1>1, HelloKeeps, GoodByeKeeps, DataKeeps, ParseIHaveKeeps,
     AnswerIHaveKeeps, IWantKeeps, DoneKeeps, EndOfFileKeeps DEF Handle
<1>2. ASSUME NEW e \in Ends,
             \/ Startup(e) \/ TimeOut(e) \/ LoseTimer(e)
             \/ NetworkError(e) \/ UploadFile(e) \/ UploadDone(e)
      PROVE  MoverInv'
  BY <1>2, StartupKeeps, TimeOutKeeps, LoseTimerKeeps, EndOfFileKeeps, UploadFileKeeps
<1>3. ASSUME NEW m \in Movers, ResetIHave(m) PROVE MoverInv'
  BY <1>3, ResetIHaveKeeps
<1>4. CASE UNCHANGED vars
  BY <1>4 DEF vars, moverVars, history, MoverInv, ShapeOK, AllSound, InFlight,
              Sound, Uploading
<1> QED
  BY <1>1, <1>2, <1>3, <1>4 DEF Next

------------------------------------------------------------------------------
THEOREM MoverInvariant == Spec => []MoverInv
BY InitMoverInv, NextMoverInv, PTL DEF Spec

\* On every link of any number of movers, an end asks only for what its peer
\* has told it there.
THEOREM RequestsOffered == Spec => []RequestsWereOffered
<1>1. MoverInv => RequestsWereOffered
  BY DEF MoverInv, AllSound, Sound, RequestsWereOffered
<1> QED
  BY <1>1, MoverInvariant, PTL

\* And an end that is not of an uploader sends only what its peer has asked it
\* for there, or no data.
THEOREM DataRequested == Spec => []DataWasRequested
<1>1. MoverInv => DataWasRequested
  BY DEF MoverInv, AllSound, Sound, DataWasRequested
<1> QED
  BY <1>1, MoverInvariant, PTL

------------------------------------------------------------------------------
(***************************************************************************)
(* What is owed.  OwedInFlight counts messages, and is not inductive: DONEs *)
(* still arrive when the one that answered has hung up, and each is taken   *)
(* off owed.  So owed must cover what can still arrive, whether or not the  *)
(* peer is open; with both open it is just that.                            *)
(***************************************************************************)
\* The messages of a type in a sequence.
Places(s, type) == {i \in DOMAIN s : s[i].type = type}
Count(s, type) == Cardinality(Places(s, type))

Covered(e) ==
  mmp[e].open =>
    /\ Count(chan[e], "IWANT") + Count(chan[Peer(e)], "DONE") <= owed[e]
    /\ mmp[Peer(e)].open =>
         Count(chan[e], "IWANT") + Count(chan[Peer(e)], "DONE") = owed[e]

CountsOK ==
  /\ resets \in [Movers -> 0 .. MaxResets]
  /\ owed \in [Ends -> Nat]

OwedInv == CountsOK /\ \A e \in Ends : Covered(e)

\* Each message of a concatenation is in one of its parts.
LEMMA CountConcat ==
  ASSUME NEW s \in Seq(Messages), NEW t \in Seq(Messages), NEW type
  PROVE  /\ Count(s, type) \in Nat /\ Count(t, type) \in Nat
         /\ Count(s \o t, type) = Count(s, type) + Count(t, type)
<1> DEFINE n == Len(s)
           A == Places(s, type)
           B == Places(t, type)
           C == {i \in n + 1 .. n + Len(t) : (s \o t)[i].type = type}
           f == [i \in B |-> n + i]
<1>1. n \in Nat /\ Len(t) \in Nat
  OBVIOUS
<1>2. IsFiniteSet(A) /\ IsFiniteSet(B) /\ IsFiniteSet(C)
  <2>1. A \subseteq 1 .. n /\ B \subseteq 1 .. Len(t) /\ C \subseteq n + 1 .. n + Len(t)
    BY DEF Places
  <2>2. IsFiniteSet(1 .. n) /\ IsFiniteSet(1 .. Len(t)) /\ IsFiniteSet(n + 1 .. n + Len(t))
    BY <1>1, FS_Interval
  <2> QED
    BY <2>1, <2>2, FS_Subset
<1>3. Places(s \o t, type) = A \cup C
  <2>1. DOMAIN (s \o t) = 1 .. n + Len(t) /\ DOMAIN s = 1 .. n
    OBVIOUS
  <2>2. \A i \in 1 .. n : (s \o t)[i] = s[i]
    OBVIOUS
  <2>3. \A i \in 1 .. n + Len(t) : i \in 1 .. n \/ i \in n + 1 .. n + Len(t)
    BY <1>1
  <2>4. 1 .. n \subseteq 1 .. n + Len(t) /\ n + 1 .. n + Len(t) \subseteq 1 .. n + Len(t)
    BY <1>1
  <2> HIDE DEF n
  <2> QED
    BY <2>1, <2>2, <2>3, <2>4 DEF Places
<1>4. A \cap C = {}
  BY <1>1 DEF Places
<1>5. f \in Bijection(B, C)
  <2>1. \A i \in 1 .. Len(t) : n + i \in n + 1 .. n + Len(t) /\ (s \o t)[n + i] = t[i]
    OBVIOUS
  <2>2. \A i \in B : i \in 1 .. Len(t) /\ t[i].type = type /\ f[i] = n + i
    BY DEF Places
  <2>3. f \in [B -> C]
    BY <2>1, <2>2
  <2>4. \A i, j \in B : f[i] = f[j] => i = j
    BY <1>1, <2>2
  <2>5. ASSUME NEW k \in C PROVE \E i \in B : f[i] = k
    <3>1. k - n \in 1 .. Len(t) /\ n + (k - n) = k
      BY <1>1
    <3>2. (s \o t)[k] = t[k - n]
      BY <2>1, <3>1
    <3>3. k - n \in B
      BY <3>1, <3>2 DEF Places
    <3> QED
      BY <2>2, <3>1, <3>3
  <2> QED
    BY <2>3, <2>4, <2>5, Fun_IsBij DEF Bijection, Injection, Surjection, IsInjective
<1>6. Cardinality(B) = Cardinality(C)
  BY <1>2, <1>5, FS_Bijection DEF ExistsBijection
<1> HIDE DEF A, B, C
<1>7. Cardinality(A \cup C) = Cardinality(A) + Cardinality(C)
  <2>1. Cardinality(A \cup C) = Cardinality(A) + Cardinality(C) - Cardinality(A \cap C)
    BY <1>2, FS_Union
  <2>2. Cardinality(A \cap C) = 0
    BY <1>4, FS_EmptySet
  <2>3. Cardinality(A) \in Nat /\ Cardinality(C) \in Nat
    BY <1>2, FS_CardinalityType
  <2> QED
    BY <2>1, <2>2, <2>3
<1>8. Cardinality(A) \in Nat /\ Cardinality(B) \in Nat
  BY <1>2, FS_CardinalityType
<1> QED
  BY <1>3, <1>6, <1>7, <1>8 DEF Count, A, B

\* No message, and one.
LEMMA CountFew ==
  ASSUME NEW type
  PROVE  /\ \A s \in Seq(Messages) : (\A i \in DOMAIN s : s[i].type # type) => Count(s, type) = 0
         /\ Count(<<>>, type) = 0
         /\ \A m \in Messages : Count(<<m>>, type) = IF m.type = type THEN 1 ELSE 0
<1>1. ASSUME NEW s, \A i \in DOMAIN s : s[i].type # type PROVE Count(s, type) = 0
  <2>1. Places(s, type) = {}
    BY <1>1 DEF Places
  <2> QED
    BY <2>1, FS_EmptySet DEF Count
<1>2. Count(<<>>, type) = 0
  BY <1>1
<1>3. ASSUME NEW m \in Messages PROVE Count(<<m>>, type) = IF m.type = type THEN 1 ELSE 0
  <2>1. DOMAIN <<m>> = {1} /\ <<m>>[1] = m
    OBVIOUS
  <2>2. CASE m.type = type
    <3>1. Places(<<m>>, type) = {1}
      BY <2>1, <2>2 DEF Places
    <3>2. Cardinality({1}) = 1
      BY FS_Singleton
    <3> QED
      BY <2>2, <3>1, <3>2 DEF Count
  <2>3. CASE m.type # type
    BY <1>1, <2>1, <2>3
  <2> QED
    BY <2>2, <2>3
<1> QED
  BY <1>1, <1>2, <1>3

\* Reading a message takes off one of its type; what a close lets arrive of
\* what was in flight is no more than that.
LEMMA CountTail ==
  ASSUME NEW s \in Seq(Messages), s # <<>>, NEW type
  PROVE  /\ Count(s, type) \in Nat /\ Count(Tail(s), type) \in Nat
         /\ Count(s, type) = Count(Tail(s), type) + (IF Head(s).type = type THEN 1 ELSE 0)
<1>1. Head(s) \in Messages /\ Tail(s) \in Seq(Messages)
  BY ElemsTail
<1>2. <<Head(s)>> \in Seq(Messages) /\ s = <<Head(s)>> \o Tail(s)
  BY <1>1
<1>3. Count(<<Head(s)>>, type) = IF Head(s).type = type THEN 1 ELSE 0
  BY <1>1, CountFew
<1>4. /\ Count(<<Head(s)>> \o Tail(s), type) = Count(<<Head(s)>>, type) + Count(Tail(s), type)
      /\ Count(Tail(s), type) \in Nat
  BY <1>1, <1>2, CountConcat
<1>5. Count(s, type) \in Nat
  BY CountConcat
<1>6. Count(s, type) = Count(<<Head(s)>>, type) + Count(Tail(s), type)
  BY <1>2, <1>4, Zenon
<1> QED
  BY <1>3, <1>4, <1>5, <1>6

LEMMA CountPrefix ==
  ASSUME NEW s \in Seq(Messages), NEW n \in 0 .. Len(s), NEW type
  PROVE  /\ Count(SubSeq(s, 1, n), type) \in Nat
         /\ Count(SubSeq(s, 1, n), type) <= Count(s, type)
<1>1. /\ DOMAIN s = 1 .. Len(s) /\ DOMAIN SubSeq(s, 1, n) = 1 .. n
      /\ \A i \in 1 .. n : SubSeq(s, 1, n)[i] = s[i] /\ i \in 1 .. Len(s)
  OBVIOUS
<1>2. Places(SubSeq(s, 1, n), type) \subseteq Places(s, type)
  BY <1>1 DEF Places
<1>3. IsFiniteSet(Places(s, type))
  <2>1. Places(s, type) \subseteq 1 .. Len(s) /\ IsFiniteSet(1 .. Len(s))
    BY FS_Interval DEF Places
  <2> QED
    BY <2>1, FS_Subset
<1> QED
  BY <1>2, <1>3, FS_Subset, FS_CardinalityType DEF Count

------------------------------------------------------------------------------
LEMMA InitOwedInv == Init => OwedInv
<1> SUFFICES ASSUME Init PROVE OwedInv
  OBVIOUS
<1>1. CountsOK
  BY FlagsAssumption DEF Init, CountsOK
<1>2. ASSUME NEW e \in Ends PROVE Covered(e)
  <2>1. chan[e] = <<>> /\ chan[Peer(e)] = <<>> /\ owed[e] = 0
    BY PeerProps DEF Init
  <2>2. Count(<<>>, "IWANT") = 0 /\ Count(<<>>, "DONE") = 0
    BY CountFew
  <2> QED
    BY <2>1, <2>2 DEF Covered
<1> QED
  BY <1>1, <1>2 DEF OwedInv

\* What every end has in flight can be counted.
LEMMA FlightCount ==
  ASSUME ShapeOK, NEW e \in Ends, NEW type
  PROVE  chan[e] \in Seq(Messages) /\ Count(chan[e], type) \in Nat
BY CountConcat DEF ShapeOK

\* Sending adds what is sent, if the peer is there to read it.
LEMMA SentCount ==
  ASSUME ShapeOK, NEW e \in Ends, NEW ms \in Seq(Messages), NEW type
  PROVE  /\ Sent(e, ms) \in Seq(Messages)
         /\ Count(ms, type) \in Nat /\ Count(Sent(e, ms), type) \in Nat
         /\ Count(Sent(e, ms), type) <= Count(chan[e], type) + Count(ms, type)
         /\ mmp[Peer(e)].open =>
              Count(Sent(e, ms), type) = Count(chan[e], type) + Count(ms, type)
<1>1. chan[e] \in Seq(Messages)
  BY FlightCount
<1>2. /\ Count(chan[e], type) \in Nat /\ Count(ms, type) \in Nat
      /\ Count(chan[e] \o ms, type) = Count(chan[e], type) + Count(ms, type)
  BY <1>1, CountConcat
<1>3. chan[e] \o ms \in Seq(Messages) /\ <<>> \in Seq(Messages)
  BY <1>1
<1>4. Count(<<>>, type) = 0
  BY CountFew
<1>5. CASE mmp[Peer(e)].open
  <2>1. Sent(e, ms) = chan[e] \o ms
    BY <1>5 DEF Sent
  <2> QED
    BY <1>2, <1>3, <2>1
<1>6. CASE ~mmp[Peer(e)].open
  <2>1. Sent(e, ms) = <<>>
    BY <1>6 DEF Sent
  <2> QED
    BY <1>2, <1>3, <1>4, <1>6, <2>1
<1> QED
  BY <1>5, <1>6

\* An end that is neither e nor its peer is not touched by a step of e.
LEMMA OthersCovered ==
  ASSUME OwedInv, NEW e \in Ends, NEW f \in Ends, f # e, f # Peer(e),
         \A g \in Ends : g # e => mmp'[g].open = mmp[g].open /\ owed'[g] = owed[g],
         \A g \in Ends : g # e /\ g # Peer(e) => chan'[g] = chan[g]
  PROVE  Covered(f)'
<1>1. Peer(f) \in Ends /\ Peer(Peer(f)) = f
  BY PeerProps
<1>2. Peer(f) # e /\ Peer(f) # Peer(e)
  <2>1. Peer(Peer(e)) = e
    BY PeerProps
  <2> QED
    BY <1>1, <2>1
<1>3. mmp'[f].open = mmp[f].open /\ mmp'[Peer(f)].open = mmp[Peer(f)].open
      /\ owed'[f] = owed[f] /\ chan'[f] = chan[f] /\ chan'[Peer(f)] = chan[Peer(f)]
  BY <1>1, <1>2
<1>4. Covered(f)
  BY DEF OwedInv
<1> QED
  BY <1>3, <1>4 DEF Covered

\* A step that opens and closes nothing, and owes what it owed.
SameEnds == \A g \in Ends : mmp'[g].open = mmp[g].open

\* A step that sends no IWANT and no DONE.
LEMMA SendKeepsOwed ==
  ASSUME ShapeOK, OwedInv, NEW e \in Ends, NEW ms \in Seq(Messages), Send(e, ms),
         Count(ms, "IWANT") = 0, Count(ms, "DONE") = 0,
         SameEnds, UNCHANGED <<resets, owed>>
  PROVE  OwedInv'
<1> DEFINE p == Peer(e)
<1>1. p \in Ends /\ p # e /\ Peer(p) = e
  BY PeerProps
<1>2. \A g \in Ends : chan'[g] = IF g = e THEN Sent(e, ms) ELSE chan[g]
  BY DEF Send, ShapeOK
<1>3. CountsOK'
  BY DEF OwedInv, CountsOK
<1>4. chan'[e] = Sent(e, ms) /\ chan'[p] = chan[p] /\ owed'[e] = owed[e] /\ owed'[p] = owed[p]
      /\ mmp'[e].open = mmp[e].open /\ mmp'[p].open = mmp[p].open
  BY <1>1, <1>2 DEF SameEnds
<1>5. Covered(e) /\ Covered(p) /\ owed[e] \in Nat /\ owed[p] \in Nat
  BY <1>1 DEF OwedInv, CountsOK
<1>6. /\ Count(chan[e], "IWANT") \in Nat /\ Count(chan[e], "DONE") \in Nat
      /\ Count(chan[p], "IWANT") \in Nat /\ Count(chan[p], "DONE") \in Nat
  BY <1>1, FlightCount
<1>7. ASSUME NEW type, Count(ms, type) = 0
      PROVE  /\ Count(Sent(e, ms), type) \in Nat
             /\ Count(Sent(e, ms), type) <= Count(chan[e], type) + 0
             /\ mmp[p].open => Count(Sent(e, ms), type) = Count(chan[e], type) + 0
  BY <1>7, SentCount
<1>8. /\ Count(Sent(e, ms), "IWANT") \in Nat /\ Count(Sent(e, ms), "DONE") \in Nat
      /\ Count(Sent(e, ms), "IWANT") <= Count(chan[e], "IWANT")
      /\ Count(Sent(e, ms), "DONE") <= Count(chan[e], "DONE")
      /\ mmp[p].open => /\ Count(Sent(e, ms), "IWANT") = Count(chan[e], "IWANT")
                        /\ Count(Sent(e, ms), "DONE") = Count(chan[e], "DONE")
  BY <1>6, <1>7
<1>9. Covered(e)'
  BY <1>1, <1>4, <1>5, <1>6, <1>8 DEF Covered
<1>10. Covered(p)'
  BY <1>1, <1>4, <1>5, <1>6, <1>8 DEF Covered
<1>11. ASSUME NEW f \in Ends, f # e, f # p PROVE Covered(f)'
  BY <1>2, <1>11, OthersCovered DEF SameEnds
<1> QED
  BY <1>3, <1>9, <1>10, <1>11 DEF OwedInv

\* A handler that sends IWANTs owes more, DONE comes off what is owed, and one
\* DONE is sent for every IWANT read.
LEMMA ReplyKeepsOwed ==
  ASSUME ShapeOK, OwedInv, NEW e \in Ends, NEW type, NEW ms \in Seq(Messages), NEW n,
         Received(e, type), Reply(e, ms),
         Count(ms, "DONE") = IF type = "IWANT" THEN 1 ELSE 0,
         n = owed[e] + Count(ms, "IWANT") - (IF type = "DONE" THEN 1 ELSE 0),
         owed' = [owed EXCEPT ![e] = n],
         SameEnds, UNCHANGED resets
  PROVE  OwedInv'
<1> DEFINE p == Peer(e)
           d(t) == IF t = type THEN 1 ELSE 0
<1>1. p \in Ends /\ p # e /\ Peer(p) = e
  BY PeerProps
<1>2. \A g \in Ends : chan'[g] = IF g = e THEN Sent(e, ms)
                                 ELSE IF g = p THEN Tail(chan[g]) ELSE chan[g]
  BY <1>1 DEF Reply, ShapeOK
<1>3. chan'[e] = Sent(e, ms) /\ chan'[p] = Tail(chan[p]) /\ mmp[e].open
      /\ mmp'[e].open = mmp[e].open /\ mmp'[p].open = mmp[p].open
  BY <1>1, <1>2 DEF SameEnds, Received, Enterable
<1>4. Covered(e) /\ Covered(p) /\ owed[e] \in Nat /\ owed[p] \in Nat
      /\ owed \in [Ends -> Nat]
  BY <1>1 DEF OwedInv, CountsOK
<1>5. /\ Count(chan[e], "IWANT") \in Nat /\ Count(chan[e], "DONE") \in Nat
      /\ Count(chan[p], "IWANT") \in Nat /\ Count(chan[p], "DONE") \in Nat
  BY <1>1, FlightCount
<1>6. chan[p] \in Seq(Messages) /\ chan[p] # <<>> /\ Head(chan[p]).type = type
  BY <1>1, FlightCount DEF Received
<1>7. /\ Count(Tail(chan[p]), "IWANT") \in Nat /\ Count(Tail(chan[p]), "DONE") \in Nat
      /\ Count(chan[p], "IWANT") = Count(Tail(chan[p]), "IWANT") + d("IWANT")
      /\ Count(chan[p], "DONE") = Count(Tail(chan[p]), "DONE") + d("DONE")
  BY <1>6, CountTail
<1>8. /\ Count(ms, "IWANT") \in Nat /\ Count(ms, "DONE") = d("IWANT")
      /\ Count(Sent(e, ms), "IWANT") \in Nat /\ Count(Sent(e, ms), "DONE") \in Nat
      /\ Count(Sent(e, ms), "IWANT") <= Count(chan[e], "IWANT") + Count(ms, "IWANT")
      /\ Count(Sent(e, ms), "DONE") <= Count(chan[e], "DONE") + d("IWANT")
      /\ mmp[p].open =>
           /\ Count(Sent(e, ms), "IWANT") = Count(chan[e], "IWANT") + Count(ms, "IWANT")
           /\ Count(Sent(e, ms), "DONE") = Count(chan[e], "DONE") + d("IWANT")
  BY SentCount
<1>9. d("DONE") \in {0, 1} /\ d("IWANT") \in {0, 1}
  OBVIOUS
<1>10. owed'[e] = owed[e] + Count(ms, "IWANT") - d("DONE") /\ owed'[p] = owed[p]
       /\ \A g \in Ends : g # e => owed'[g] = owed[g]
  BY <1>1, <1>4
<1> HIDE DEF p, d
<1>11. d("DONE") <= owed[e]
  BY <1>3, <1>4, <1>5, <1>7, <1>9 DEF Covered, p
<1>12. owed[e] + Count(ms, "IWANT") - d("DONE") \in Nat
  BY <1>4, <1>8, <1>9, <1>11
<1>13. CountsOK'
  <2>1. owed' = [owed EXCEPT ![e] = owed[e] + Count(ms, "IWANT") - d("DONE")]
    BY DEF d
  <2>2. owed' \in [Ends -> Nat]
    BY <1>4, <1>12, <2>1
  <2> QED
    BY <2>2 DEF OwedInv, CountsOK
<1>14. Covered(e)'
  <2>1. mmp[e].open =>
          /\ Count(Sent(e, ms), "IWANT") + Count(Tail(chan[p]), "DONE") <= owed'[e]
          /\ mmp[p].open =>
               Count(Sent(e, ms), "IWANT") + Count(Tail(chan[p]), "DONE") = owed'[e]
    <3>1. mmp[e].open =>
            /\ Count(chan[e], "IWANT") + Count(chan[p], "DONE") <= owed[e]
            /\ mmp[p].open => Count(chan[e], "IWANT") + Count(chan[p], "DONE") = owed[e]
      BY <1>4 DEF Covered, p
    <3>2. owed'[e] = owed[e] + Count(ms, "IWANT") - d("DONE")
      BY <1>10
    <3>3. ASSUME mmp[e].open
          PROVE  Count(Sent(e, ms), "IWANT") + Count(Tail(chan[p]), "DONE") <= owed'[e]
      <4>1. Count(Sent(e, ms), "IWANT") <= Count(chan[e], "IWANT") + Count(ms, "IWANT")
        BY <1>8
      <4>2. Count(chan[e], "IWANT") + (Count(Tail(chan[p]), "DONE") + d("DONE")) <= owed[e]
        BY <1>7, <3>1, <3>3
      <4>3. \A c, m, t, s, o \in Nat : \A x \in {0, 1} :
              s <= c + m /\ c + (t + x) <= o => s + t <= o + m - x
        OBVIOUS
      <4>4. /\ Count(chan[e], "IWANT") \in Nat /\ Count(ms, "IWANT") \in Nat
            /\ Count(Tail(chan[p]), "DONE") \in Nat /\ d("DONE") \in {0, 1}
            /\ Count(Sent(e, ms), "IWANT") \in Nat /\ owed[e] \in Nat
        BY <1>4, <1>5, <1>7, <1>8, <1>9
      <4>5. Count(Sent(e, ms), "IWANT") + Count(Tail(chan[p]), "DONE")
              <= owed[e] + Count(ms, "IWANT") - d("DONE")
        BY <4>1, <4>2, <4>3, <4>4
      <4> QED
        BY <3>2, <4>5
    <3>4. ASSUME mmp[e].open, mmp[p].open
          PROVE  Count(Sent(e, ms), "IWANT") + Count(Tail(chan[p]), "DONE") = owed'[e]
      <4>1. Count(Sent(e, ms), "IWANT") = Count(chan[e], "IWANT") + Count(ms, "IWANT")
        BY <1>8, <3>4
      <4>2. Count(chan[e], "IWANT") + Count(chan[p], "DONE") = owed[e]
        BY <3>1, <3>4
      <4>3. \A c, m, t \in Nat : \A x \in {0, 1} : c + (t + x) + m - x = (c + m) + t
        OBVIOUS
      <4>4. /\ Count(chan[e], "IWANT") \in Nat /\ Count(ms, "IWANT") \in Nat
            /\ Count(Tail(chan[p]), "DONE") \in Nat /\ d("DONE") \in {0, 1}
        BY <1>5, <1>7, <1>8, <1>9
      <4>5. owed'[e] = Count(chan[e], "IWANT") + (Count(Tail(chan[p]), "DONE") + d("DONE"))
                       + Count(ms, "IWANT") - d("DONE")
        BY <1>7, <3>2, <4>2
      <4> QED
        BY <4>1, <4>3, <4>4, <4>5
    <3> QED
      BY <3>3, <3>4
  <2> QED
    BY <1>3, <2>1 DEF Covered, p
<1>15. Covered(p)'
  <2>1. mmp[p].open =>
          Count(Tail(chan[p]), "IWANT") + Count(Sent(e, ms), "DONE") = owed'[p]
    BY <1>1, <1>3, <1>4, <1>5, <1>7, <1>8, <1>9, <1>10 DEF Covered
  <2> QED
    BY <1>1, <1>3, <1>7, <1>8, <2>1 DEF Covered
<1>16. ASSUME NEW f \in Ends, f # e, f # p PROVE Covered(f)'
  BY <1>2, <1>10, <1>16, OthersCovered DEF SameEnds, p
<1> QED
  BY <1>13, <1>14, <1>15, <1>16 DEF OwedInv

\* An end that hangs up takes what it was sent with it: for a peer that is
\* still open a DONE may be lost, but none is added that was not owed.
LEMMA CloseKeepsOwed ==
  ASSUME ShapeOK, OwedInv, NEW e \in Ends, NEW ms \in Seq(Messages),
         Enterable(e), Close(e, ms),
         Count(ms, "DONE") <= Count(chan[Peer(e)], "IWANT"),
         owed' \in [Ends -> Nat], \A g \in Ends : g # e => owed'[g] = owed[g],
         UNCHANGED resets
  PROVE  OwedInv'
<1> DEFINE p == Peer(e)
<1>1. p \in Ends /\ p # e /\ Peer(p) = e
  BY PeerProps
<1>2. PICK n \in 0 .. Len(Sent(e, ms)) :
        chan' = [chan EXCEPT ![Peer(e)] = <<>>, ![e] = SubSeq(Sent(e, ms), 1, n)]
  BY DEF Close
<1> DEFINE rest == SubSeq(Sent(e, ms), 1, n)
<1>3. \A g \in Ends : chan'[g] = IF g = e THEN rest ELSE IF g = p THEN <<>> ELSE chan[g]
  BY <1>1, <1>2 DEF ShapeOK
<1>4. chan'[e] = rest /\ chan'[p] = <<>>
  BY <1>1, <1>3
<1>5. mmp[e].open /\ ~mmp'[e].open /\ \A g \in Ends : g # e => mmp'[g].open = mmp[g].open
  BY DEF Enterable, Close, ShapeOK, MMP
<1>6. CountsOK'
  BY DEF OwedInv, CountsOK
<1>7. Covered(e)'
  BY <1>5 DEF Covered
<1>8. Covered(p)'
  <2>1. /\ Count(Sent(e, ms), "DONE") \in Nat /\ Count(ms, "DONE") \in Nat
        /\ Count(Sent(e, ms), "DONE") <= Count(chan[e], "DONE") + Count(ms, "DONE")
        /\ Sent(e, ms) \in Seq(Messages)
    BY SentCount
  <2>2. Count(rest, "DONE") \in Nat /\ Count(rest, "DONE") <= Count(Sent(e, ms), "DONE")
    BY <2>1, CountPrefix
  <2>3. Count(<<>>, "IWANT") = 0
    BY CountFew
  <2>4. Covered(p) /\ owed[p] \in Nat
    BY <1>1 DEF OwedInv, CountsOK
  <2>5. Count(chan[e], "DONE") \in Nat /\ Count(chan[p], "IWANT") \in Nat
    BY <1>1, FlightCount
  <2> HIDE DEF rest, p
  <2>6. mmp[p].open => Count(rest, "DONE") <= owed[p]
    BY <1>1, <1>5, <2>1, <2>2, <2>4, <2>5 DEF Covered, p
  <2>7. owed'[p] = owed[p] /\ mmp'[p].open = mmp[p].open
    BY <1>1, <1>5
  <2>8. mmp'[p].open => 0 + Count(rest, "DONE") <= owed'[p]
    BY <2>2, <2>6, <2>7
  <2> QED
    BY <1>1, <1>4, <1>5, <2>3, <2>8 DEF Covered
<1>9. ASSUME NEW f \in Ends, f # e, f # p PROVE Covered(f)'
  BY <1>3, <1>5, <1>9, OthersCovered
<1> QED
  BY <1>6, <1>7, <1>8, <1>9 DEF OwedInv

------------------------------------------------------------------------------
\* The counts of what the handlers send.
LEMMA MessageCounts ==
  ASSUME ShapeOK, NEW e \in Ends
  PROVE  /\ <<IHave(e)>> \in Seq(Messages) /\ <<GoodBye>> \in Seq(Messages)
         /\ <<Msg("HELLO", {})>> \in Seq(Messages)
         /\ Count(<<IHave(e)>>, "IWANT") = 0 /\ Count(<<IHave(e)>>, "DONE") = 0
         /\ Count(<<GoodBye>>, "IWANT") = 0 /\ Count(<<GoodBye>>, "DONE") = 0
         /\ Count(<<Done>>, "IWANT") = 0 /\ Count(<<Done>>, "DONE") = 1
         /\ Count(<<Msg("HELLO", {})>>, "IWANT") = 0
         /\ Count(<<Msg("HELLO", {})>>, "DONE") = 0
<1>1. IHave(e) \in Messages /\ IHave(e).type = "IHAVE"
  BY IHaveMessage
<1>2. /\ GoodBye \in Messages /\ GoodBye.type = "GOODBYE"
      /\ Done \in Messages /\ Done.type = "DONE"
      /\ Msg("HELLO", {}) \in Messages /\ Msg("HELLO", {}).type = "HELLO"
  BY PlainMessages DEF GoodBye, Done, Msg
<1>3. ASSUME NEW m \in Messages
      PROVE  /\ <<m>> \in Seq(Messages)
             /\ Count(<<m>>, "IWANT") = IF m.type = "IWANT" THEN 1 ELSE 0
             /\ Count(<<m>>, "DONE") = IF m.type = "DONE" THEN 1 ELSE 0
  <2>1. <<m>> \in Seq(Messages)
    OBVIOUS
  <2>2. Count(<<m>>, "IWANT") = IF m.type = "IWANT" THEN 1 ELSE 0
    BY CountFew
  <2>3. Count(<<m>>, "DONE") = IF m.type = "DONE" THEN 1 ELSE 0
    BY CountFew
  <2> QED
    BY <2>1, <2>2, <2>3
<1> QED
  BY <1>1, <1>2, <1>3

\* An answer holds one DONE, whatever was asked for, and asks for nothing.
LEMMA AnswerCounts ==
  ASSUME MoverInv, NEW e \in Ends, Received(e, "IWANT"), UNCHANGED <<upload_only, asked>>
  PROVE  /\ Answer(e) \in Seq(Messages)
         /\ Count(Answer(e), "DONE") = 1 /\ Count(Answer(e), "IWANT") = 0
<1> DEFINE n == Cardinality(Allowed(e))
           data == [i \in 1 .. n |-> Data(e)]
<1>1. Answer(e) \in Seq(Messages) /\ Answer(e) = data \o <<Done>>
  BY AnswerSound DEF Answer
<1>2. Data(e).type = "DATA"
  BY DEF Data, Msg
<1>3. n \in Nat
  BY HashesFinite, ReceivedSound DEF Allowed
<1>4. data \in Seq(Messages)
  <2>1. \A i \in 1 .. n : (data \o <<Done>>)[i] = Data(e)
    BY <1>3
  <2>2. Len(data \o <<Done>>) = n + 1
    BY <1>3
  <2>3. \A i \in 1 .. n : Data(e) \in Messages
    BY <1>1, <1>3, <2>1, <2>2
  <2> QED
    BY <1>3, <2>3
<1>5. \A i \in DOMAIN data : data[i].type = "DATA"
  BY <1>2, <1>3
<1> HIDE DEF data
<1>6. Count(data, "DONE") = 0 /\ Count(data, "IWANT") = 0
  BY <1>4, <1>5, CountFew
<1>7. /\ <<Done>> \in Seq(Messages)
      /\ Count(<<Done>>, "DONE") = 1 /\ Count(<<Done>>, "IWANT") = 0
  BY PlainMessages, MessageCounts DEF MoverInv
<1>8. \A type : Count(data \o <<Done>>, type) = Count(data, type) + Count(<<Done>>, type)
  BY <1>4, <1>7, CountConcat
<1>9. /\ Count(Answer(e), "DONE") = Count(data, "DONE") + Count(<<Done>>, "DONE")
      /\ Count(Answer(e), "IWANT") = Count(data, "IWANT") + Count(<<Done>>, "IWANT")
  BY <1>1, <1>8, Zenon
<1> QED
  BY <1>1, <1>6, <1>7, <1>9

\* A step that only hangs up.
LEMMA HangUpKeepsOwed ==
  ASSUME ShapeOK, OwedInv, NEW e \in Ends, NEW ms \in {<<>>, <<GoodBye>>},
         Enterable(e), Close(e, ms), UNCHANGED <<resets, owed>>
  PROVE  OwedInv'
<1>1. ms \in Seq(Messages) /\ Count(ms, "DONE") = 0
  <2>1. CASE ms = <<>>
    BY <2>1, CountFew
  <2>2. CASE ms = <<GoodBye>>
    BY <2>2, MessageCounts
  <2> QED
    BY <2>1, <2>2
<1>2. Count(chan[Peer(e)], "IWANT") \in Nat
  BY PeerProps, FlightCount
<1>3. owed' \in [Ends -> Nat] /\ \A g \in Ends : owed'[g] = owed[g]
  BY DEF OwedInv, CountsOK
<1> QED
  BY <1>1, <1>2, <1>3, CloseKeepsOwed

\* An end that changes may stay as open as it was.
LEMMA ChangedEnd ==
  ASSUME ShapeOK, NEW e \in Ends, NEW r, r.open = mmp[e].open,
         mmp' = [mmp EXCEPT ![e] = r]
  PROVE  SameEnds
BY DEF ShapeOK, SameEnds

LEMMA StartupKeepsOwed ==
  ASSUME ShapeOK, OwedInv, NEW e \in Ends, Startup(e) \/ AnswerIHave(e) PROVE OwedInv'
<1> DEFINE started == [mmp[e] EXCEPT !.need_startup = FALSE]
           telling == [mmp[e] EXCEPT !.need_startup = FALSE, !.sent_i_have = TRUE]
           answered == [mmp[e] EXCEPT !.answering = FALSE, !.sent_i_have = TRUE]
<1>0. /\ mmp' = [mmp EXCEPT ![e] = started] \/ mmp' = [mmp EXCEPT ![e] = telling]
         \/ mmp' = [mmp EXCEPT ![e] = answered]
      /\ UNCHANGED <<resets, owed>>
  <2>1. mmp[e] \in MMP
    BY DEF ShapeOK
  <2> QED
    BY <2>1 DEF Startup, AnswerIHave, moverVars
<1>1. SameEnds /\ UNCHANGED <<resets, owed>>
  <2>1. mmp[e] \in MMP
    BY DEF ShapeOK
  <2>2. started.open = mmp[e].open /\ telling.open = mmp[e].open /\ answered.open = mmp[e].open
    BY <2>1 DEF MMP
  <2> HIDE DEF started, telling, answered
  <2> QED
    BY <1>0, <2>2, ChangedEnd
<1>2. Send(e, <<IHave(e)>>) \/ Send(e, <<Msg("HELLO", {})>>)
  BY DEF Startup, AnswerIHave
<1> QED
  BY <1>1, <1>2, MessageCounts, SendKeepsOwed

LEMMA UploadFileKeepsOwed ==
  ASSUME ShapeOK, OwedInv, NEW e \in Ends, UploadFile(e) PROVE OwedInv'
<1>1. PICK h \in files[e] : Send(e, <<Msg("DATA", {h})>>)
  BY DEF UploadFile
<1>2. Msg("DATA", {h}) \in Messages /\ Msg("DATA", {h}).type = "DATA"
  BY <1>1 DEF ShapeOK, Msg, Messages, Types
<1>3. <<Msg("DATA", {h})>> \in Seq(Messages)
  BY <1>2
<1>4. Count(<<Msg("DATA", {h})>>, "IWANT") = 0 /\ Count(<<Msg("DATA", {h})>>, "DONE") = 0
  BY <1>2, CountFew
<1>5. SameEnds /\ UNCHANGED <<resets, owed>>
  BY DEF UploadFile, SameEnds, history
<1> QED
  BY <1>1, <1>3, <1>4, <1>5, SendKeepsOwed

\* Neither a lost timer nor resetIHave has to do with messages.
LEMMA QuietKeepsOwed ==
  ASSUME ShapeOK, OwedInv, SameEnds, UNCHANGED <<chan, owed>>, CountsOK'
  PROVE  OwedInv'
<1>1. \A e \in Ends : Peer(e) \in Ends
  BY PeerProps
<1> QED
  BY <1>1 DEF OwedInv, Covered, SameEnds

LEMMA LoseTimerKeepsOwed ==
  ASSUME ShapeOK, OwedInv, NEW e \in Ends, LoseTimer(e) PROVE OwedInv'
<1>1. SameEnds
  BY DEF LoseTimer, SameEnds, ShapeOK, MMP
<1>2. CountsOK' /\ UNCHANGED <<chan, owed>>
  BY DEF LoseTimer, OwedInv, CountsOK, moverVars, history
<1> QED
  BY <1>1, <1>2, QuietKeepsOwed

LEMMA ResetKeepsOwed ==
  ASSUME ShapeOK, OwedInv, NEW m \in Movers, ResetIHave(m) PROVE OwedInv'
<1>1. SameEnds /\ UNCHANGED <<chan, owed>>
  BY DEF ResetIHave, SameEnds, history
<1>2. resets \in [Movers -> 0 .. MaxResets] /\ resets[m] < MaxResets
      /\ resets' = [resets EXCEPT ![m] = @ + 1]
  BY DEF ResetIHave, OwedInv, CountsOK
<1>3. resets[m] + 1 \in 0 .. MaxResets
  BY <1>2, FlagsAssumption
<1>4. resets' \in [Movers -> 0 .. MaxResets]
  BY <1>2, <1>3
<1>5. CountsOK'
  BY <1>1, <1>4 DEF OwedInv, CountsOK
<1> QED
  BY <1>1, <1>5, QuietKeepsOwed

\* The handlers that neither ask nor answer.
LEMMA HelloKeepsOwed ==
  ASSUME ShapeOK, OwedInv, NEW e \in Ends, HandleHello(e) \/ HandleData(e)
  PROVE  OwedInv'
<1>1. SameEnds /\ UNCHANGED <<resets, owed>>
  <2> DEFINE r == [mmp[e] EXCEPT !.sent_i_have = TRUE]
  <2>1. mmp[e] \in MMP
    BY DEF ShapeOK
  <2>2. r.open = mmp[e].open
    BY <2>1 DEF MMP
  <2>3. HandleHello(e) => mmp' = [mmp EXCEPT ![e] = r]
    BY <2>1 DEF HandleHello
  <2>4. HandleData(e) => mmp' = mmp
    BY DEF HandleData
  <2> HIDE DEF r
  <2>5. SameEnds
    BY <2>2, <2>3, <2>4, ChangedEnd DEF SameEnds
  <2> QED
    BY <2>5 DEF HandleHello, HandleData, moverVars, history
<1>2. owed \in [Ends -> Nat] /\ owed[e] \in Nat
  BY DEF OwedInv, CountsOK
<1>3. owed' = [owed EXCEPT ![e] = owed[e]] /\ owed[e] = owed[e] + 0 - 0
  BY <1>1, <1>2
<1>4. PICK type \in {"HELLO", "DATA"}, ms \in {<<IHave(e)>>, <<>>} :
        Received(e, type) /\ Reply(e, ms)
  BY DEF HandleHello, HandleData
<1>5. ms \in Seq(Messages) /\ Count(ms, "DONE") = 0 /\ Count(ms, "IWANT") = 0
  <2>1. CASE ms = <<>>
    BY <2>1, CountFew
  <2>2. CASE ms = <<IHave(e)>>
    BY <2>2, MessageCounts
  <2> QED
    BY <1>4, <2>1, <2>2
<1>6. Count(ms, "DONE") = IF type = "IWANT" THEN 1 ELSE 0
  BY <1>4, <1>5
<1>7. owed[e] = owed[e] + Count(ms, "IWANT") - (IF type = "DONE" THEN 1 ELSE 0)
  BY <1>3, <1>4, <1>5
<1> QED
  BY <1>1, <1>3, <1>4, <1>5, <1>6, <1>7, ReplyKeepsOwed

\* What is asked for is owed.
LEMMA ParseIHaveKeepsOwed ==
  ASSUME MoverInv, OwedInv, NEW e \in Ends, ParseIHave(e) PROVE OwedInv'
<1> DEFINE new == NewItems(e)
<1>0. ShapeOK /\ mmp \in [Ends -> MMP] /\ mmp[e] \in MMP
  BY DEF MoverInv, ShapeOK
<1>1. Received(e, "IHAVE") /\ UNCHANGED resets
  BY Zenon DEF ParseIHave
<1>2. Items(e) \subseteq Hashes
  BY <1>1, ReceivedSound
<1>3. PICK want \in IWants(new) :
        /\ mmp' = [mmp EXCEPT
              ![e].ihave = IF new = {} THEN @ ELSE new,
              ![e].waiting = @ /\ want # {},
              ![e].answering = ~mmp[e].sent_i_have]
        /\ Reply(e, IF want = {} THEN <<>> ELSE <<Msg("IWANT", want)>>)
        /\ owed' = [owed EXCEPT ![e] = IF want = {} THEN @ ELSE @ + 1]
  BY Zenon DEF ParseIHave
<1>4. want \subseteq Hashes
  BY <1>2 DEF IWants, NewItems
<1>5. SameEnds
  <2> DEFINE r == [mmp[e] EXCEPT !.ihave = IF new = {} THEN @ ELSE new,
                                 !.waiting = @ /\ want # {},
                                 !.answering = ~mmp[e].sent_i_have]
  <2>1. r.open = mmp[e].open
    BY <1>0 DEF MMP
  <2>2. mmp' = [mmp EXCEPT ![e] = r]
    BY <1>0, <1>3
  <2> HIDE DEF r
  <2> QED
    BY <1>0, <2>1, <2>2, ChangedEnd
<1>6. owed \in [Ends -> Nat] /\ owed[e] \in Nat
  BY DEF OwedInv, CountsOK
<1>7. CASE want = {}
  <2>1. Reply(e, <<>>)
    BY <1>3, <1>7
  <2>2. owed' = [owed EXCEPT ![e] = owed[e]]
    BY <1>3, <1>7
  <2>3. <<>> \in Seq(Messages) /\ Count(<<>>, "DONE") = 0 /\ Count(<<>>, "IWANT") = 0
    BY CountFew
  <2>4. Count(<<>>, "DONE") = IF "IHAVE" = "IWANT" THEN 1 ELSE 0
    BY <2>3
  <2>5. owed[e] = owed[e] + Count(<<>>, "IWANT") - (IF "IHAVE" = "DONE" THEN 1 ELSE 0)
    BY <1>6, <2>3
  <2> QED
    BY <1>0, <1>1, <1>5, <2>1, <2>2, <2>3, <2>4, <2>5, ReplyKeepsOwed
<1>8. CASE want # {}
  <2> DEFINE ms == <<Msg("IWANT", want)>>
  <2>1. Reply(e, ms)
    BY <1>3, <1>8
  <2>2. owed' = [owed EXCEPT ![e] = owed[e] + 1]
    BY <1>3, <1>8
  <2>3. Msg("IWANT", want) \in Messages /\ Msg("IWANT", want).type = "IWANT"
    BY <1>4 DEF Msg, Messages, Types
  <2>4. ms \in Seq(Messages) /\ Count(ms, "DONE") = 0 /\ Count(ms, "IWANT") = 1
    <3>1. ms \in Seq(Messages)
      BY <2>3
    <3>2. Count(ms, "DONE") = IF "IWANT" = "DONE" THEN 1 ELSE 0
      BY <2>3, CountFew
    <3>3. Count(ms, "IWANT") = IF "IWANT" = "IWANT" THEN 1 ELSE 0
      BY <2>3, CountFew
    <3> QED
      BY <3>1, <3>2, <3>3
  <2> HIDE DEF ms
  <2>5. Count(ms, "DONE") = IF "IHAVE" = "IWANT" THEN 1 ELSE 0
    BY <2>4
  <2>6. owed[e] + 1 = owed[e] + Count(ms, "IWANT") - (IF "IHAVE" = "DONE" THEN 1 ELSE 0)
    BY <1>6, <2>4
  <2> QED
    BY <1>0, <1>1, <1>5, <2>1, <2>2, <2>4, <2>5, <2>6, ReplyKeepsOwed
<1> QED
  BY <1>7, <1>8

\* Each request read is answered by one DONE.
LEMMA IWantKeepsOwed ==
  ASSUME MoverInv, OwedInv, NEW e \in Ends, HandleIWant(e) PROVE OwedInv'
<1>1. UNCHANGED <<upload_only, asked, resets, owed>> /\ ShapeOK
  BY DEF HandleIWant, moverVars, history, MoverInv
<1>2. Received(e, "IWANT") /\ Enterable(e)
  BY DEF HandleIWant, Received
<1>3. /\ Answer(e) \in Seq(Messages)
      /\ Count(Answer(e), "DONE") = 1 /\ Count(Answer(e), "IWANT") = 0
  BY <1>1, <1>2, AnswerCounts
<1>4. owed \in [Ends -> Nat] /\ owed[e] \in Nat
  BY DEF OwedInv, CountsOK
<1>5. CASE mmp' = [mmp EXCEPT ![e].sending = FALSE] /\ Reply(e, Answer(e))
  <2>1. SameEnds
    BY <1>1, <1>5 DEF SameEnds, ShapeOK, MMP
  <2>2. Count(Answer(e), "DONE") = IF "IWANT" = "IWANT" THEN 1 ELSE 0
    BY <1>3
  <2>3. owed[e] = owed[e] + Count(Answer(e), "IWANT") - (IF "IWANT" = "DONE" THEN 1 ELSE 0)
    BY <1>3, <1>4
  <2>4. owed' = [owed EXCEPT ![e] = owed[e]]
    BY <1>1, <1>4
  <2> QED
    BY <1>1, <1>2, <1>3, <1>5, <2>1, <2>2, <2>3, <2>4, ReplyKeepsOwed
<1>6. CASE Close(e, Append(Answer(e), GoodBye))
  <2> DEFINE ms == Append(Answer(e), GoodBye)
  <2>1. ms = Answer(e) \o <<GoodBye>> /\ <<GoodBye>> \in Seq(Messages)
        /\ ms \in Seq(Messages)
    BY <1>3, PlainMessages
  <2>2. Count(Answer(e) \o <<GoodBye>>, "DONE") = 1 + 0
    <3>1. Count(<<GoodBye>>, "DONE") = 0
      BY <1>1, MessageCounts
    <3>2. Count(Answer(e) \o <<GoodBye>>, "DONE")
             = Count(Answer(e), "DONE") + Count(<<GoodBye>>, "DONE")
      BY <1>3, <2>1, CountConcat
    <3> QED
      BY <1>3, <3>1, <3>2
  <2> HIDE DEF ms
  <2>3. Count(ms, "DONE") = 1
    BY <2>1, <2>2
  <2>4. Count(chan[Peer(e)], "IWANT") >= 1
    <3>1. chan[Peer(e)] \in Seq(Messages) /\ chan[Peer(e)] # <<>>
          /\ Head(chan[Peer(e)]).type = "IWANT"
      BY <1>1, <1>2, PeerProps, FlightCount DEF Received
    <3>2. /\ Count(Tail(chan[Peer(e)]), "IWANT") \in Nat
          /\ Count(chan[Peer(e)], "IWANT") = Count(Tail(chan[Peer(e)]), "IWANT") + 1
      BY <3>1, CountTail
    <3> QED
      BY <3>2
  <2>5. Count(chan[Peer(e)], "IWANT") \in Nat
    BY <1>1, PeerProps, FlightCount
  <2>6. Count(ms, "DONE") <= Count(chan[Peer(e)], "IWANT")
    BY <2>3, <2>4, <2>5
  <2>7. owed' \in [Ends -> Nat] /\ \A g \in Ends : owed'[g] = owed[g]
    BY <1>1, <1>4
  <2>8. Close(e, ms)
    BY <1>6 DEF ms
  <2> QED
    BY <1>1, <1>2, <2>1, <2>6, <2>7, <2>8, CloseKeepsOwed
<1> QED
  BY <1>5, <1>6 DEF HandleIWant

\* A DONE that arrives was owed.
LEMMA DoneKeepsOwed ==
  ASSUME ShapeOK, OwedInv, NEW e \in Ends, HandleDone(e) PROVE OwedInv'
<1>1. /\ UNCHANGED resets /\ owed' = [owed EXCEPT ![e] = @ - 1]
      /\ Received(e, "DONE") /\ Enterable(e)
  BY DEF HandleDone, moverVars, Received
<1>2. owed \in [Ends -> Nat] /\ owed[e] \in Nat
  BY DEF OwedInv, CountsOK
<1>3. CASE mmp' = [mmp EXCEPT ![e].waiting = FALSE] /\ Reply(e, <<>>)
  <2>1. SameEnds
    BY <1>3 DEF SameEnds, ShapeOK, MMP
  <2>2. <<>> \in Seq(Messages) /\ Count(<<>>, "IWANT") = 0 /\ Count(<<>>, "DONE") = 0
    BY CountFew
  <2>3. Count(<<>>, "DONE") = IF "DONE" = "IWANT" THEN 1 ELSE 0
    BY <2>2
  <2>4. owed[e] - 1 = owed[e] + Count(<<>>, "IWANT") - (IF "DONE" = "DONE" THEN 1 ELSE 0)
    BY <1>2, <2>2
  <2>5. owed' = [owed EXCEPT ![e] = owed[e] - 1]
    BY <1>1
  <2> QED
    BY <1>1, <1>3, <2>1, <2>2, <2>3, <2>4, <2>5, ReplyKeepsOwed
<1>4. CASE Close(e, <<GoodBye>>)
  <2>1. <<GoodBye>> \in Seq(Messages) /\ Count(<<GoodBye>>, "DONE") = 0
    BY MessageCounts
  <2>2. /\ Peer(e) \in Ends /\ chan[Peer(e)] \in Seq(Messages) /\ chan[Peer(e)] # <<>>
        /\ Head(chan[Peer(e)]).type = "DONE"
    BY <1>1, PeerProps, FlightCount DEF Received
  <2>3. /\ Count(Tail(chan[Peer(e)]), "DONE") \in Nat
        /\ Count(chan[Peer(e)], "DONE") = Count(Tail(chan[Peer(e)]), "DONE") + 1
    BY <2>2, CountTail
  <2>4. Count(chan[Peer(e)], "IWANT") \in Nat /\ Count(chan[e], "IWANT") \in Nat
    BY <2>2, FlightCount
  <2>5. Covered(e) /\ mmp[e].open
    BY <1>1 DEF OwedInv, Enterable
  <2>6. owed[e] >= 1
    BY <1>2, <2>3, <2>4, <2>5 DEF Covered
  <2>7. owed' \in [Ends -> Nat] /\ \A g \in Ends : g # e => owed'[g] = owed[g]
    BY <1>1, <1>2, <2>6
  <2>8. Count(<<GoodBye>>, "DONE") <= Count(chan[Peer(e)], "IWANT")
    BY <2>1, <2>4
  <2> QED
    BY <1>1, <1>4, <2>1, <2>7, <2>8, CloseKeepsOwed
<1> QED
  BY <1>3, <1>4 DEF HandleDone

LEMMA ClosersKeepOwed ==
  ASSUME ShapeOK, OwedInv, NEW e \in Ends,
         \/ TimeOut(e) \/ HandleGoodBye(e)
         \/ EndOfFile(e) \/ NetworkError(e) \/ UploadDone(e)
  PROVE  OwedInv'
<1>1. UNCHANGED <<resets, owed>> /\ Enterable(e)
  BY DEF TimeOut, HandleGoodBye, Received, EndOfFile, NetworkError, UploadDone,
         moverVars, history
<1>2. Close(e, <<>>) \/ Close(e, <<GoodBye>>)
  BY DEF TimeOut, HandleGoodBye, EndOfFile, NetworkError, UploadDone
<1> QED
  BY <1>1, <1>2, HangUpKeepsOwed

LEMMA NextOwedInv == MoverInv /\ OwedInv /\ [Next]_vars => OwedInv'
<1> SUFFICES ASSUME MoverInv, OwedInv, [Next]_vars PROVE OwedInv'
  OBVIOUS
<1>0. ShapeOK
  BY DEF MoverInv
<1>1. ASSUME NEW e \in Ends, Handle(e) PROVE OwedInv'
  BY <1>0, <1>1, HelloKeepsOwed, ClosersKeepOwed, ParseIHaveKeepsOwed, StartupKeepsOwed,
     IWantKeepsOwed, DoneKeepsOwed DEF Handle
<1>2. ASSUME NEW e \in Ends,
             \/ Startup(e) \/ TimeOut(e) \/ LoseTimer(e)
             \/ NetworkError(e) \/ UploadFile(e) \/ UploadDone(e)
      PROVE  OwedInv'
  BY <1>0, <1>2, StartupKeepsOwed, ClosersKeepOwed, LoseTimerKeepsOwed, UploadFileKeepsOwed
<1>3. ASSUME NEW m \in Movers, ResetIHave(m) PROVE OwedInv'
  BY <1>0, <1>3, ResetKeepsOwed
<1>4. CASE UNCHANGED vars
  BY <1>4 DEF vars, moverVars, history, OwedInv, CountsOK, Covered
<1> QED
  BY <1>1, <1>2, <1>3, <1>4 DEF Next

\* For any movers, links and number of requests: as long as both ends are open
\* nothing that was asked for is forgotten and nothing is answered twice.
THEOREM OwedIsInFlight == Spec => []OwedInFlight
<1>1. OwedInv => OwedInFlight
  BY DEF OwedInv, Covered, OwedInFlight, InFlightOf, Count, Places
<1> QED
  BY <1>1, InitOwedInv, InitMoverInv, NextMoverInv, NextOwedInv, PTL DEF Spec

\* No handler is told that it is done more often than it has asked, so owed
\* never gets below zero; the rest are the types of the other variables.
THEOREM MoverTypes == Spec => []TypeOK
<1>1. MoverInv /\ OwedInv => TypeOK
  BY DEF MoverInv, ShapeOK, OwedInv, CountsOK, TypeOK
<1> QED
  BY <1>1, InitOwedInv, InitMoverInv, NextMoverInv, NextOwedInv, PTL DEF Spec
=============================================================================
