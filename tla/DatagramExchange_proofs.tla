---------------------- MODULE DatagramExchange_proofs ----------------------
(***************************************************************************)
(* Proofs about DatagramExchange for any number of nodes, datagrams and    *)
(* outages.                                                                *)
(***************************************************************************)
EXTENDS DatagramExchange, TLAPS

ServiceState ==
    [pending : Seq(Memo), current : Memo \cup {None}, quiesced : BOOLEAN,
     sent : Seq(Message)]

MessageOf(memo) == [kind |-> "Datagram", node |-> memo.dest, memo |-> memo]

-----------------------------------------------------------------------------
(* What the handlers of the service return. *)

LEMMA NoneIsNoMemo == None \notin Memo
  BY ConstantsAssumption

LEMMA MessageOfType ==
  ASSUME NEW memo \in Memo
  PROVE MessageOf(memo) \in Message
  BY DEF MessageOf, Message, Memo

\* sendDatagramMessage puts the memo's message out and makes it outstanding.
LEMMA SendMessageResult ==
  ASSUME NEW s \in ServiceState, NEW memo \in Memo
  PROVE /\ sendDatagramMessage(s, memo)
             = [s EXCEPT !.sent = Append(s.sent, MessageOf(memo)),
                         !.current = memo]
        /\ sendDatagramMessage(s, memo) \in ServiceState
  <1>1. sendDatagramMessage(s, memo)
          = [s EXCEPT !.sent = Append(s.sent, MessageOf(memo)), !.current = memo]
    BY DEF sendDatagramMessage, sendMessage, MessageOf, ServiceState
  <1>2. Append(s.sent, MessageOf(memo)) \in Seq(Message)
    BY MessageOfType DEF ServiceState
  <1> QED BY <1>1, <1>2 DEF ServiceState

\* sendDatagram queues the memo and sends it if it is the only one.
LEMMA SendDatagramResult ==
  ASSUME NEW s \in ServiceState, NEW memo \in Memo
  PROVE /\ sendDatagram(s, memo) \in ServiceState
        /\ sendDatagram(s, memo).pending = Append(s.pending, memo)
        /\ sendDatagram(s, memo).current
             = IF s.pending = << >> THEN memo ELSE s.current
        /\ sendDatagram(s, memo).sent
             = IF s.pending = << >> THEN Append(s.sent, MessageOf(memo)) ELSE s.sent
  <1> DEFINE queued == [s EXCEPT !.pending = Append(s.pending, memo)]
  <1>1. queued \in ServiceState
    <2>1. Append(s.pending, memo) \in Seq(Memo)
      BY DEF ServiceState
    <2> QED BY <2>1 DEF ServiceState
  <1>2. queued.pending = Append(s.pending, memo) /\ queued.sent = s.sent
          /\ queued.current = s.current
    BY DEF ServiceState
  <1>3. Len(queued.pending) = 1 <=> s.pending = << >>
    BY <1>2 DEF ServiceState
  <1>4. sendDatagram(s, memo)
          = IF Len(queued.pending) = 1 THEN sendDatagramMessage(queued, memo)
                                       ELSE queued
    BY DEF sendDatagram
  <1> HIDE DEF queued
  <1>5. CASE s.pending = << >>
    <2>1. sendDatagram(s, memo) = sendDatagramMessage(queued, memo)
      BY <1>3, <1>4, <1>5
    <2>2. /\ sendDatagram(s, memo)
               = [queued EXCEPT !.sent = Append(queued.sent, MessageOf(memo)),
                                !.current = memo]
          /\ sendDatagram(s, memo) \in ServiceState
      BY <1>1, <2>1, SendMessageResult
    <2> QED BY <1>1, <1>2, <1>5, <2>2 DEF ServiceState
  <1>6. CASE s.pending # << >>
    BY <1>1, <1>2, <1>3, <1>4, <1>6
  <1> QED BY <1>5, <1>6

\* sendNextDatagramFromQueue sends the head of a non-empty queue.
LEMMA SendNextResult ==
  ASSUME NEW s \in ServiceState
  PROVE /\ sendNextDatagramFromQueue(s) \in ServiceState
        /\ sendNextDatagramFromQueue(s).pending = s.pending
        /\ sendNextDatagramFromQueue(s).current
             = IF s.pending = << >> THEN s.current ELSE Head(s.pending)
        /\ sendNextDatagramFromQueue(s).sent
             = IF s.pending = << >> THEN s.sent
               ELSE Append(s.sent, MessageOf(Head(s.pending)))
  <1>1. CASE s.pending = << >>
    BY <1>1 DEF sendNextDatagramFromQueue
  <1>2. CASE s.pending # << >>
    <2>1. Head(s.pending) \in Memo
      BY <1>2 DEF ServiceState
    <2>2. sendNextDatagramFromQueue(s) = sendDatagramMessage(s, Head(s.pending))
      BY <1>2 DEF sendNextDatagramFromQueue
    <2>3. /\ sendNextDatagramFromQueue(s)
               = [s EXCEPT !.sent = Append(s.sent, MessageOf(Head(s.pending))),
                           !.current = Head(s.pending)]
          /\ sendNextDatagramFromQueue(s) \in ServiceState
      BY <2>1, <2>2, SendMessageResult
    <2> QED BY <1>2, <2>3 DEF ServiceState
  <1> QED BY <1>1, <1>2

\* A matched reply takes the head off the queue, and it was from its node.
LEMMA RepliedResult ==
  ASSUME NEW s \in ServiceState, NEW r \in Nodes, matchToWriteMemo(s, r) # None
  PROVE /\ s.pending # << >>
        /\ matchToWriteMemo(s, r) = Head(s.pending)
        /\ Head(s.pending).dest = r
        /\ Replied(s, r) \in ServiceState
        /\ Replied(s, r).pending = Tail(s.pending)
        /\ Replied(s, r).current = None
        /\ Replied(s, r).sent = s.sent
  <1>1. /\ s.pending # << >>
        /\ matchToWriteMemo(s, r) = Head(s.pending)
        /\ Head(s.pending).dest = r
    BY DEF matchToWriteMemo
  <1>2. Replied(s, r) = [s EXCEPT !.pending = Tail(s.pending), !.current = None]
    BY DEF Replied, ServiceState
  <1>3. Tail(s.pending) \in Seq(Memo)
    BY <1>1 DEF ServiceState
  <1> QED BY <1>1, <1>2, <1>3 DEF ServiceState

\* A reply from another node than the head's leaves the queue alone.
LEMMA UnmatchedResult ==
  ASSUME NEW s \in ServiceState, NEW r \in Nodes, matchToWriteMemo(s, r) = None
  PROVE /\ s.pending # << >> => Head(s.pending).dest # r
        /\ Replied(s, r) \in ServiceState
        /\ Replied(s, r).pending = s.pending
        /\ Replied(s, r).sent = s.sent
  <1>1. s.pending # << >> => Head(s.pending) \in Memo
    BY DEF ServiceState
  <1>2. s.pending # << >> => Head(s.pending).dest # r
    BY <1>1, NoneIsNoMemo DEF matchToWriteMemo
  <1>3. Replied(s, r) = [s EXCEPT !.pending = s.pending, !.current = None]
    BY DEF Replied, ServiceState
  <1> QED BY <1>2, <1>3 DEF ServiceState

\* After a restart the outstanding memo is repeated, or else the first queued
\* one is sent.
LEMMA RestartedResult ==
  ASSUME NEW s \in ServiceState,
         s.current = IF s.pending = << >> THEN None ELSE Head(s.pending)
  PROVE /\ handleLinkRestarted(s) \in ServiceState
        /\ handleLinkRestarted(s).pending = s.pending
        /\ handleLinkRestarted(s).current = s.current
        /\ handleLinkRestarted(s).sent
             = IF s.pending = << >> THEN s.sent
               ELSE Append(s.sent, MessageOf(Head(s.pending)))
  <1> DEFINE s1 == [s EXCEPT !.quiesced = FALSE]
  <1>1. /\ s1 \in ServiceState
        /\ s1.pending = s.pending
        /\ s1.current = s.current
        /\ s1.sent = s.sent
    BY DEF ServiceState
  <1>2. CASE s.pending = << >>
    <2>1. handleLinkRestarted(s) = sendNextDatagramFromQueue(s1)
      BY <1>1, <1>2 DEF handleLinkRestarted
    <2> HIDE DEF s1
    <2> QED BY <1>1, <1>2, <2>1, SendNextResult
  <1>3. CASE s.pending # << >>
    <2>1. s1.current # None /\ s1.current \in Memo /\ s1.current = Head(s.pending)
      BY <1>1, <1>3, NoneIsNoMemo DEF ServiceState
    <2>2. handleLinkRestarted(s) = sendDatagramMessage(s1, s1.current)
      BY <2>1 DEF handleLinkRestarted
    <2> HIDE DEF s1
    <2>3. handleLinkRestarted(s)
            = [s1 EXCEPT !.sent = Append(s1.sent, MessageOf(s1.current)),
                         !.current = s1.current]
            /\ handleLinkRestarted(s) \in ServiceState
      BY <1>1, <2>1, <2>2, SendMessageResult
    <2> QED BY <1>1, <1>3, <2>1, <2>3 DEF ServiceState
  <1> QED BY <1>2, <1>3

-----------------------------------------------------------------------------
(* Queues. *)

LEMMA ConcatAppend ==
  ASSUME NEW S, NEW a \in Seq(S), NEW b \in Seq(S), NEW m \in S
  PROVE a \o Append(b, m) = Append(a \o b, m)
  OBVIOUS

LEMMA ConcatLength ==
  ASSUME NEW S, NEW a \in Seq(S), NEW b \in Seq(S)
  PROVE Len(a \o b) = Len(a) + Len(b)
  OBVIOUS

LEMMA ConcatFirst ==
  ASSUME NEW S, NEW a \in Seq(S), NEW b \in Seq(S), b # << >>
  PROVE (a \o b)[Len(a) + 1] = Head(b)
  OBVIOUS

LEMMA AppendHead ==
  ASSUME NEW S, NEW a \in Seq(S), NEW b \in Seq(S), b # << >>
  PROVE Append(a, Head(b)) \o Tail(b) = a \o b
  OBVIOUS

-----------------------------------------------------------------------------
(* The queue and the outstanding memo. *)

IInv == TypeOK /\ OutstandingIsHead /\ NoDatagramForgotten

\* What a handler leaves behind has the service's type.
LEMMA FinishResult ==
  ASSUME NEW s \in ServiceState, Finish(s)
  PROVE /\ service' \in [pending : Seq(Memo), current : Memo \cup {None},
                         quiesced : BOOLEAN, sent : {<< >>}]
        /\ service'.pending = s.pending
        /\ service'.current = s.current
  BY DEF Finish, ServiceState

LEMMA ServiceType ==
  ASSUME TypeOK
  PROVE service \in ServiceState /\ service.sent = << >>
  <1>1. << >> \in Seq(Message)
    OBVIOUS
  <1> QED BY <1>1 DEF TypeOK, ServiceState

LEMMA NewMemoType ==
  ASSUME TypeOK, NEW r \in Nodes
  PROVE NewMemo(r) \in Memo
  BY DEF TypeOK, NewMemo, Memo

LEMMA DeliverType ==
  ASSUME TypeOK, NEW s \in ServiceState, Deliver(s)
  PROVE wire' \in Seq(Message)
  BY DEF TypeOK, Deliver, ServiceState

LEMMA AnsweredMemosType ==
  ASSUME TypeOK
  PROVE AnsweredMemos \in Seq(Memo) /\ Len(AnsweredMemos) = Len(answered)
  <1>1. answered \in Seq(Answer)
    BY DEF TypeOK
  <1>2. ASSUME NEW k \in 1 .. Len(answered) PROVE answered[k].memo \in Memo
    <2>1. answered[k] \in Answer
      BY <1>1
    <2> QED BY <2>1 DEF Answer
  <1> QED BY <1>1, <1>2 DEF AnsweredMemos

LEMMA InitIInv == Init => IInv
  <1> SUFFICES ASSUME Init PROVE IInv
    OBVIOUS
  <1>1. TypeOK
    BY ConstantsAssumption DEF Init, TypeOK, NewService
  <1>2. OutstandingIsHead
    BY DEF Init, OutstandingIsHead, NewService
  <1>3. NoDatagramForgotten
    BY DEF Init, NoDatagramForgotten, AnsweredMemos, NewService
  <1> QED BY <1>1, <1>2, <1>3 DEF IInv

LEMMA SubmitIInv ==
  ASSUME IInv, Submit
  PROVE IInv'
  <1>1. PICK r \in Nodes :
          /\ alive
          /\ submitted' = Append(submitted, NewMemo(r))
          /\ Finish(sendDatagram(service, NewMemo(r)))
          /\ Deliver(sendDatagram(service, NewMemo(r)))
          /\ UNCHANGED <<linkUp, alive, replies, handled, answered, outages>>
    BY DEF Submit
  <1> DEFINE s == sendDatagram(service, NewMemo(r))
  <1>2. TypeOK /\ NewMemo(r) \in Memo /\ service \in ServiceState
    BY NewMemoType, ServiceType DEF IInv
  <1>3. /\ s \in ServiceState
        /\ s.pending = Append(service.pending, NewMemo(r))
        /\ s.current = IF service.pending = << >> THEN NewMemo(r) ELSE service.current
    BY <1>2, SendDatagramResult
  <1> HIDE DEF s
  <1>4. /\ service' \in [pending : Seq(Memo), current : Memo \cup {None},
                         quiesced : BOOLEAN, sent : {<< >>}]
        /\ service'.pending = s.pending
        /\ service'.current = s.current
        /\ wire' \in Seq(Message)
    BY <1>1, <1>2, <1>3, FinishResult, DeliverType DEF s
  <1>5. TypeOK'
    BY <1>1, <1>2, <1>4 DEF TypeOK
  <1>6. OutstandingIsHead'
    BY SMTT(60), <1>1, <1>2, <1>3, <1>4 DEF IInv, OutstandingIsHead, ServiceState
  <1>7. NoDatagramForgotten'
    <2>1. AnsweredMemos' = AnsweredMemos
      BY <1>1 DEF AnsweredMemos
    <2>2. AnsweredMemos \in Seq(Memo) /\ service.pending \in Seq(Memo)
      BY <1>2, AnsweredMemosType DEF ServiceState
    <2>3. AnsweredMemos \o Append(service.pending, NewMemo(r))
            = Append(AnsweredMemos \o service.pending, NewMemo(r))
      BY <1>2, <2>2, ConcatAppend
    <2>4. submitted = AnsweredMemos \o service.pending
      BY DEF IInv, NoDatagramForgotten
    <2> QED BY <1>1, <1>3, <1>4, <2>1, <2>3, <2>4 DEF NoDatagramForgotten
  <1> QED BY <1>5, <1>6, <1>7 DEF IInv

LEMMA RemoteHandlesIInv ==
  ASSUME IInv, NEW k \in 1 .. Len(wire), RemoteHandles(k)
  PROVE IInv'
  <1>1. /\ wire' = SubSeq(wire, 1, k - 1) \o SubSeq(wire, k + 1, Len(wire))
        /\ handled' = Append(handled, wire[k].memo)
        /\ UNCHANGED <<service, linkUp, alive, submitted, answered, outages>>
    BY DEF RemoteHandles
  <1>2. PICK outcome \in Outcomes :
          replies' = IF linkUp
                     THEN Append(replies, [source |-> wire[k].node,
                                           outcome |-> outcome])
                     ELSE replies
    BY DEF RemoteHandles
  <1>3. wire[k] \in Message /\ wire \in Seq(Message)
    BY DEF IInv, TypeOK
  <1>4. wire[k].memo \in Memo /\ wire[k].node \in Nodes
    BY <1>3 DEF Message
  <1>5. wire' \in Seq(Message)
    BY <1>1, <1>3
  <1>6. handled' \in Seq(Memo)
    BY <1>1, <1>4 DEF IInv, TypeOK
  <1>7. replies' \in Seq(Reply)
    <2>1. [source |-> wire[k].node, outcome |-> outcome] \in Reply
      BY <1>4 DEF Reply
    <2> QED BY <1>2, <2>1 DEF IInv, TypeOK
  <1>8. TypeOK'
    BY <1>1, <1>5, <1>6, <1>7 DEF IInv, TypeOK
  <1>9. OutstandingIsHead'
    BY <1>1 DEF IInv, OutstandingIsHead
  <1>10. NoDatagramForgotten'
    BY <1>1 DEF IInv, NoDatagramForgotten, AnsweredMemos
  <1> QED BY <1>8, <1>9, <1>10 DEF IInv

\* The reply at the head and the queue without it.
LEMMA TakeReplyResult ==
  ASSUME TypeOK, TakeReply
  PROVE /\ Head(replies).source \in Nodes
        /\ Head(replies).outcome \in Outcomes
        /\ replies' \in Seq(Reply)
        /\ linkUp /\ alive
        /\ UNCHANGED <<linkUp, handled, outages>>
  <1>1. Head(replies) \in Reply
    BY DEF TypeOK, TakeReply
  <1>2. replies' \in Seq(Reply)
    BY DEF TypeOK, TakeReply
  <1> QED BY <1>1, <1>2 DEF TakeReply, Reply

\* A matched reply reports the head of the queue, takes it off and sends the
\* next one, whether or not the callback has queued another.
LEMMA HandleReplyIInv ==
  ASSUME IInv, handleReply
  PROVE IInv'
  <1> DEFINE source == Head(replies).source
             s == Replied(service, source)
             answer == [memo |-> Head(service.pending),
                        outcome |-> Head(replies).outcome]
  <1>1. /\ TypeOK /\ service \in ServiceState /\ service.sent = << >>
        /\ source \in Nodes
        /\ Head(replies).outcome \in Outcomes
        /\ replies' \in Seq(Reply)
        /\ alive
        /\ UNCHANGED <<linkUp, alive, handled, outages>>
    BY ServiceType, TakeReplyResult DEF IInv, handleReply
  <1>2. matchToWriteMemo(service, source) # None
    BY DEF handleReply
  <1>3. /\ service.pending # << >>
        /\ matchToWriteMemo(service, source) = Head(service.pending)
        /\ s \in ServiceState
        /\ s.pending = Tail(service.pending)
        /\ s.current = None
    BY <1>1, <1>2, RepliedResult
  <1>4. answered' = Append(answered, answer)
    BY <1>3 DEF handleReply
  <1>5. Head(service.pending) \in Memo /\ answer \in Answer
    BY <1>1, <1>3 DEF ServiceState, Answer
  <1>6. answered' \in Seq(Answer)
    BY <1>1, <1>4, <1>5 DEF TypeOK
  <1>7. AnsweredMemos' = Append(AnsweredMemos, Head(service.pending))
    <2>1. answered \in Seq(Answer)
      BY <1>1 DEF TypeOK
    <2>2. /\ Len(answered') = Len(answered) + 1
          /\ \A k \in 1 .. Len(answered) : answered'[k] = answered[k]
          /\ answered'[Len(answered) + 1].memo = Head(service.pending)
      BY <1>4, <1>5, <2>1
    <2> QED BY <2>1, <2>2, <1>5 DEF AnsweredMemos
  <1>8. AnsweredMemos' \o Tail(service.pending) = submitted
    BY <1>1, <1>3, <1>7, AnsweredMemosType, AppendHead
       DEF IInv, NoDatagramForgotten, ServiceState
  <1>9. AnsweredMemos' \in Seq(Memo)
    BY <1>1, <1>5, <1>7, AnsweredMemosType
  <1> HIDE DEF s, answer, source
  <1>10. ASSUME NEW q \in ServiceState,
                q.current = None \/ q.current \in Memo,
                q.pending = << >> => q.current = None,
                Finish(sendNextDatagramFromQueue(q)),
                Deliver(sendNextDatagramFromQueue(q)),
                submitted' \in Seq(Memo),
                submitted' = AnsweredMemos' \o q.pending
         PROVE IInv'
    <2> DEFINE s1 == sendNextDatagramFromQueue(q)
    <2>1. /\ s1 \in ServiceState
          /\ s1.pending = q.pending
          /\ s1.current = IF q.pending = << >> THEN q.current ELSE Head(q.pending)
      BY <1>10, SendNextResult
    <2> HIDE DEF s1
    <2>2. /\ service' \in [pending : Seq(Memo), current : Memo \cup {None},
                           quiesced : BOOLEAN, sent : {<< >>}]
          /\ service'.pending = s1.pending
          /\ service'.current = s1.current
          /\ wire' \in Seq(Message)
      BY <1>1, <1>10, <2>1, FinishResult, DeliverType DEF s1
    <2>3. TypeOK'
      BY <1>1, <1>6, <1>10, <2>2 DEF TypeOK
    <2>4. OutstandingIsHead'
      BY <1>10, <2>1, <2>2 DEF OutstandingIsHead
    <2>5. NoDatagramForgotten'
      BY <1>10, <2>1, <2>2 DEF NoDatagramForgotten
    <2> QED BY <2>3, <2>4, <2>5 DEF IInv
  <1>11. CASE /\ Finish(sendNextDatagramFromQueue(s))
              /\ Deliver(sendNextDatagramFromQueue(s))
              /\ UNCHANGED submitted
    <2>1. submitted' \in Seq(Memo) /\ submitted' = AnsweredMemos' \o s.pending
      BY <1>1, <1>3, <1>8, <1>11 DEF TypeOK
    <2> QED BY <1>3, <1>10, <1>11, <2>1
  <1>12. ASSUME NEW r \in Nodes,
                submitted' = Append(submitted, NewMemo(r)),
                Finish(sendNextDatagramFromQueue(sendDatagram(s, NewMemo(r)))),
                Deliver(sendNextDatagramFromQueue(sendDatagram(s, NewMemo(r))))
         PROVE IInv'
    <2> DEFINE q == sendDatagram(s, NewMemo(r))
    <2>1. NewMemo(r) \in Memo
      BY <1>1, NewMemoType
    <2>2. /\ q \in ServiceState
          /\ q.pending = Append(s.pending, NewMemo(r))
          /\ s.pending \in Seq(Memo)
      BY <1>3, <2>1, SendDatagramResult DEF ServiceState
    <2> HIDE DEF q
    <2>3. q.pending # << >> /\ (q.current = None \/ q.current \in Memo)
      BY <2>1, <2>2 DEF ServiceState
    <2>4. submitted' \in Seq(Memo)
      BY <1>1, <1>12, <2>1 DEF TypeOK
    <2>5. submitted' = AnsweredMemos' \o q.pending
      BY SMTT(60), <1>3, <1>8, <1>9, <1>12, <2>1, <2>2, ConcatAppend
    <2> QED BY <1>10, <1>12, <2>2, <2>3, <2>4, <2>5 DEF q
  <1> QED BY <1>11, <1>12 DEF handleReply, s, source

LEMMA UnmatchedIInv ==
  ASSUME IInv, handleUnmatchedReply
  PROVE IInv'
  <1> DEFINE s == Replied(service, Head(replies).source)
  <1>1. /\ TypeOK /\ service \in ServiceState
        /\ Head(replies).source \in Nodes
        /\ replies' \in Seq(Reply)
        /\ UNCHANGED <<linkUp, handled, outages>>
    BY ServiceType, TakeReplyResult DEF IInv, handleUnmatchedReply
  <1>2. s \in ServiceState /\ s.pending = service.pending
    BY <1>1, UnmatchedResult DEF handleUnmatchedReply
  <1> HIDE DEF s
  <1>3. /\ service' \in [pending : Seq(Memo), current : Memo \cup {None},
                         quiesced : BOOLEAN, sent : {<< >>}]
        /\ service'.pending = service.pending
    BY <1>2, FinishResult DEF handleUnmatchedReply, s
  <1>4. ~alive' /\ alive' \in BOOLEAN /\ UNCHANGED <<wire, submitted, answered>>
    BY DEF handleUnmatchedReply
  <1>5. TypeOK'
    BY <1>1, <1>3, <1>4 DEF TypeOK
  <1>6. OutstandingIsHead'
    BY <1>4 DEF OutstandingIsHead
  <1>7. NoDatagramForgotten'
    BY <1>3, <1>4 DEF IInv, NoDatagramForgotten, AnsweredMemos
  <1> QED BY <1>5, <1>6, <1>7 DEF IInv

LEMMA LinkQuiesceIInv ==
  ASSUME IInv, LinkQuiesce
  PROVE IInv'
  <1> DEFINE s == handleLinkQuiesce(service)
  <1>1. TypeOK /\ service \in ServiceState
    BY ServiceType DEF IInv
  <1>2. /\ s \in ServiceState
        /\ s.pending = service.pending
        /\ s.current = service.current
    BY <1>1 DEF handleLinkQuiesce, ServiceState
  <1> HIDE DEF s
  <1>3. /\ service' \in [pending : Seq(Memo), current : Memo \cup {None},
                         quiesced : BOOLEAN, sent : {<< >>}]
        /\ service'.pending = service.pending
        /\ service'.current = service.current
    BY <1>2, FinishResult DEF LinkQuiesce, s
  <1>4. TypeOK'
    <2>1. wire' \in Seq(Message)
      <3>1. PICK keep \in Keeps : wire' = IF keep THEN wire ELSE << >>
        BY DEF LinkQuiesce
      <3>2. keep \in BOOLEAN /\ wire \in Seq(Message)
        BY <1>1, ConstantsAssumption DEF TypeOK
      <3> QED BY <3>1, <3>2
    <2>3. replies' \in Seq(Reply)
      BY DEF LinkQuiesce
    <2>4. linkUp' = FALSE /\ linkUp' \in BOOLEAN
      BY Zenon DEF LinkQuiesce
    <2>2. outages' \in 0 .. MaxOutages
      BY <1>1, ConstantsAssumption DEF TypeOK, LinkQuiesce
    <2> QED BY <1>1, <1>3, <2>1, <2>2, <2>3, <2>4 DEF TypeOK, LinkQuiesce
  <1>5. OutstandingIsHead'
    BY <1>3 DEF IInv, OutstandingIsHead, LinkQuiesce
  <1>6. NoDatagramForgotten'
    BY <1>3 DEF IInv, NoDatagramForgotten, AnsweredMemos, LinkQuiesce
  <1> QED BY <1>4, <1>5, <1>6 DEF IInv

LEMMA LinkRestartedIInv ==
  ASSUME IInv, LinkRestarted
  PROVE IInv'
  <1> DEFINE s == handleLinkRestarted(service)
  <1>1. TypeOK /\ service \in ServiceState /\ service.sent = << >>
    BY ServiceType DEF IInv
  <1>2. service.current = IF service.pending = << >> THEN None
                                                    ELSE Head(service.pending)
    BY DEF IInv, OutstandingIsHead, LinkRestarted
  <1>3. /\ s \in ServiceState
        /\ s.pending = service.pending
        /\ s.current = service.current
    BY <1>1, <1>2, RestartedResult
  <1> HIDE DEF s
  <1>4. /\ service' \in [pending : Seq(Memo), current : Memo \cup {None},
                         quiesced : BOOLEAN, sent : {<< >>}]
        /\ service'.pending = service.pending
        /\ service'.current = service.current
    BY <1>3, FinishResult DEF LinkRestarted, s
  <1>5. wire' = wire \o s.sent /\ wire' \in Seq(Message)
    BY <1>1, <1>3 DEF LinkRestarted, s, TypeOK, ServiceState
  <1>6. TypeOK'
    BY <1>1, <1>4, <1>5 DEF TypeOK, LinkRestarted
  <1>7. OutstandingIsHead'
    BY <1>2, <1>4 DEF OutstandingIsHead
  <1>8. NoDatagramForgotten'
    BY <1>4 DEF IInv, NoDatagramForgotten, AnsweredMemos, LinkRestarted
  <1> QED BY <1>6, <1>7, <1>8 DEF IInv

LEMMA NextIInv == IInv /\ [Next]_vars => IInv'
  <1> SUFFICES ASSUME IInv, [Next]_vars PROVE IInv'
    OBVIOUS
  <1>1. CASE Submit
    BY <1>1, SubmitIInv
  <1>2. ASSUME NEW k \in 1 .. Len(wire), RemoteHandles(k) PROVE IInv'
    BY <1>2, RemoteHandlesIInv
  <1>3. CASE handleReply
    BY <1>3, HandleReplyIInv
  <1>4. CASE handleUnmatchedReply
    BY <1>4, UnmatchedIInv
  <1>5. CASE LinkQuiesce
    BY <1>5, LinkQuiesceIInv
  <1>6. CASE LinkRestarted
    BY <1>6, LinkRestartedIInv
  <1>7. CASE UNCHANGED vars
    BY <1>7 DEF vars, IInv, TypeOK, OutstandingIsHead, NoDatagramForgotten,
                AnsweredMemos
  <1> QED BY <1>1, <1>2, <1>3, <1>4, <1>5, <1>6, <1>7 DEF Next

\* The service's queue and its outstanding memo hold memos only, and what is on its way
\* are datagrams of memos and replies of nodes, whatever callbacks submit.
THEOREM ExchangeTypes == Spec => []TypeOK
  <1>1. IInv => TypeOK
    BY DEF IInv
  <1> QED BY InitIInv, NextIInv, <1>1, PTL DEF Spec

\* In every reachable state the outstanding memo is the head of the queue, so
\* the tracking check of the reply handlers of DatagramService never fails.
THEOREM TrackingHolds == Spec => []OutstandingIsHead
  <1>1. IInv => OutstandingIsHead
    BY DEF IInv
  <1> QED BY InitIInv, NextIInv, <1>1, PTL DEF Spec

\* No datagram given to sendDatagram is lost from the queue or answered twice,
\* whatever replies, callbacks and restarts come.
THEOREM NoneForgotten == Spec => []NoDatagramForgotten
  <1>1. IInv => NoDatagramForgotten
    BY DEF IInv
  <1> QED BY InitIInv, NextIInv, <1>1, PTL DEF Spec

-----------------------------------------------------------------------------
(* Users whose callbacks submit nothing, and remotes that lose in an       *)
(* outage what they have not handled.                                      *)

Plain == ~Chaining /\ Keeps \subseteq {FALSE}

HeadHandled == \E k \in 1 .. Len(handled) : handled[k] = Head(service.pending)

\* While the link is up the head of the queue is on the wire or its reply is.
HeadUnderway ==
    \/ service.pending = << >> /\ wire = << >> /\ replies = << >>
    \/ /\ service.pending # << >>
       /\ wire = <<MessageOf(Head(service.pending))>>
       /\ replies = << >>
    \/ /\ service.pending # << >>
       /\ wire = << >>
       /\ \E outcome \in Outcomes :
            replies = <<[source |-> Head(service.pending).dest, outcome |-> outcome]>>
       /\ HeadHandled

PInv ==
    /\ IInv
    /\ alive
    /\ ~linkUp => wire = << >> /\ replies = << >>
    /\ linkUp => HeadUnderway

LEMMA InitPInv == Init => PInv
  <1> SUFFICES ASSUME Init PROVE PInv
    OBVIOUS
  <1>1. IInv
    BY InitIInv
  <1>2. HeadUnderway
    BY DEF Init, NewService, HeadUnderway
  <1> QED BY <1>1, <1>2 DEF Init, PInv

LEMMA SubmitPInv ==
  ASSUME PInv, Submit
  PROVE PInv'
  <1>1. PICK r \in Nodes :
          /\ Finish(sendDatagram(service, NewMemo(r)))
          /\ Deliver(sendDatagram(service, NewMemo(r)))
          /\ UNCHANGED <<linkUp, alive, replies, handled, answered, outages>>
    BY DEF Submit
  <1> DEFINE s == sendDatagram(service, NewMemo(r))
  <1>2. IInv' /\ NewMemo(r) \in Memo /\ service \in ServiceState
          /\ service.sent = << >> /\ wire \in Seq(Message)
    BY SubmitIInv, NewMemoType, ServiceType DEF PInv, IInv, TypeOK
  <1>3. /\ s \in ServiceState
        /\ s.pending = Append(service.pending, NewMemo(r))
        /\ s.sent = IF service.pending = << >> THEN <<MessageOf(NewMemo(r))>> ELSE << >>
    <2>1. Append(service.sent, MessageOf(NewMemo(r))) = <<MessageOf(NewMemo(r))>>
      BY <1>2
    <2> QED BY <1>2, <2>1, SendDatagramResult
  <1> HIDE DEF s
  <1>4. service'.pending = s.pending /\ wire' = IF linkUp THEN wire \o s.sent ELSE wire
    BY <1>1, <1>3, FinishResult DEF Deliver, s
  <1>5. ASSUME linkUp, service.pending = << >> PROVE HeadUnderway'
    <2>1. wire = << >> /\ replies = << >>
      BY <1>5 DEF PInv, HeadUnderway
    <2>2. service'.pending = <<NewMemo(r)>>
      BY <1>3, <1>4, <1>5
    <2>3. service'.pending # << >> /\ Head(service'.pending) = NewMemo(r)
      BY <2>2
    <2>4. wire' = <<MessageOf(NewMemo(r))>>
      BY <1>3, <1>4, <1>5, <2>1
    <2> QED BY <1>1, <2>1, <2>3, <2>4 DEF HeadUnderway
  <1>6. ASSUME linkUp, service.pending # << >> PROVE HeadUnderway'
    <2>1. service'.pending # << >> /\ Head(service'.pending) = Head(service.pending)
      <3>1. service.pending \in Seq(Memo)
        BY <1>2 DEF ServiceState
      <3>2. service'.pending = Append(service.pending, NewMemo(r))
        BY <1>3, <1>4
      <3> QED BY <1>2, <1>6, <3>1, <3>2
    <2>2. wire' = wire
      BY <1>2, <1>3, <1>4, <1>6
    <2> QED BY <1>1, <1>6, <2>1, <2>2 DEF PInv, HeadUnderway, HeadHandled
  <1> QED BY <1>1, <1>2, <1>4, <1>5, <1>6 DEF PInv

\* Only the head of the queue is ever handled.
LEMMA RemoteHandlesHead ==
  ASSUME PInv, NEW k \in 1 .. Len(wire), RemoteHandles(k)
  PROVE /\ linkUp /\ k = 1
        /\ service.pending # << >>
        /\ wire = <<MessageOf(Head(service.pending))>>
        /\ replies = << >>
        /\ handled' = Append(handled, Head(service.pending))
  <1>1. wire # << >>
    OBVIOUS
  <1>2. /\ linkUp
        /\ service.pending # << >>
        /\ wire = <<MessageOf(Head(service.pending))>>
        /\ replies = << >>
    BY <1>1 DEF PInv, HeadUnderway
  <1>3. k = 1
    BY <1>2
  <1>4. wire[k].memo = Head(service.pending)
    BY <1>2, <1>3 DEF MessageOf
  <1> QED BY <1>2, <1>3, <1>4 DEF RemoteHandles

LEMMA RemoteHandlesPInv ==
  ASSUME PInv, NEW k \in 1 .. Len(wire), RemoteHandles(k)
  PROVE PInv'
  <1>1. /\ linkUp /\ k = 1
        /\ service.pending # << >>
        /\ wire = <<MessageOf(Head(service.pending))>>
        /\ replies = << >>
        /\ handled' = Append(handled, Head(service.pending))
    BY RemoteHandlesHead
  <1>2. IInv' /\ handled \in Seq(Memo)
    BY RemoteHandlesIInv DEF PInv, IInv, TypeOK
  <1>3. wire' = << >>
    BY <1>1 DEF RemoteHandles
  <1>4. wire[k].node = Head(service.pending).dest
    BY <1>1 DEF MessageOf
  <1>5. \E outcome \in Outcomes :
          replies' = <<[source |-> Head(service.pending).dest, outcome |-> outcome]>>
    <2>1. PICK outcome \in Outcomes :
            replies' = IF linkUp
                       THEN Append(replies, [source |-> wire[k].node,
                                             outcome |-> outcome])
                       ELSE replies
      BY DEF RemoteHandles
    <2>2. replies' = <<[source |-> Head(service.pending).dest, outcome |-> outcome]>>
      BY <1>1, <1>4, <2>1
    <2> QED BY <2>2
  <1>6. HeadHandled'
    <2>1. Head(service.pending) \in Memo
      BY <1>1, ServiceType DEF PInv, IInv, ServiceState
    <2>2. handled'[Len(handled')] = Head(service.pending)
            /\ Len(handled') \in 1 .. Len(handled')
      BY <1>1, <1>2, <2>1
    <2>3. service' = service
      BY DEF RemoteHandles
    <2> QED BY <2>2, <2>3 DEF HeadHandled
  <1> QED BY <1>1, <1>2, <1>3, <1>5, <1>6 DEF PInv, HeadUnderway, RemoteHandles

\* Every reply is for the head of the queue, which has been handled.
LEMMA ReplyIsForHead ==
  ASSUME PInv, TakeReply
  PROVE /\ linkUp
        /\ service.pending # << >>
        /\ wire = << >>
        /\ replies' = << >>
        /\ Head(replies).source = Head(service.pending).dest
        /\ Head(replies).outcome \in Outcomes
        /\ matchToWriteMemo(service, Head(replies).source) = Head(service.pending)
        /\ Head(service.pending) \in Memo
        /\ HeadHandled
  <1>1. /\ linkUp
        /\ service.pending # << >>
        /\ wire = << >>
        /\ HeadHandled
    BY DEF PInv, HeadUnderway, TakeReply
  <1>2. PICK outcome \in Outcomes :
          replies = <<[source |-> Head(service.pending).dest, outcome |-> outcome]>>
    BY DEF PInv, HeadUnderway, TakeReply
  <1>3. /\ Head(replies).source = Head(service.pending).dest
        /\ Head(replies).outcome = outcome
        /\ Tail(replies) = << >>
    BY <1>2
  <1>4. Head(service.pending) \in Memo
    BY <1>1, ServiceType DEF PInv, IInv, ServiceState
  <1> QED BY <1>1, <1>3, <1>4 DEF TakeReply, matchToWriteMemo

LEMMA HandleReplyPInv ==
  ASSUME Plain, PInv, handleReply
  PROVE PInv'
  <1> DEFINE source == Head(replies).source
             s == Replied(service, source)
             s1 == sendNextDatagramFromQueue(s)
  <1>1. /\ linkUp /\ wire = << >> /\ replies' = << >>
        /\ source \in Nodes
        /\ matchToWriteMemo(service, source) # None
        /\ service \in ServiceState /\ service.sent = << >>
        /\ IInv'
    BY ReplyIsForHead, TakeReplyResult, ServiceType, HandleReplyIInv
       DEF handleReply, PInv, IInv
  <1>2. s \in ServiceState /\ s.sent = << >>
    BY <1>1, RepliedResult
  <1>3. Finish(s1) /\ Deliver(s1) /\ UNCHANGED <<linkUp, alive>>
    BY DEF handleReply, Plain, TakeReply
  <1> HIDE DEF s
  <1>4. /\ s1 \in ServiceState
        /\ s1.pending = s.pending
        /\ s1.sent = IF s.pending = << >> THEN << >>
                     ELSE Append(<< >>, MessageOf(Head(s.pending)))
    BY <1>2, SendNextResult
  <1> HIDE DEF s1
  <1>5. service'.pending = s.pending /\ wire' = s1.sent
    <2>1. wire' = wire \o s1.sent
      BY <1>1, <1>3 DEF Deliver
    <2>2. << >> \o s1.sent = s1.sent
      BY <1>4 DEF ServiceState
    <2> QED BY <1>1, <1>3, <1>4, <2>1, <2>2, FinishResult
  <1>6. HeadUnderway'
    BY <1>1, <1>4, <1>5 DEF HeadUnderway
  <1> QED BY <1>1, <1>3, <1>6 DEF PInv

LEMMA NoUnmatchedReply ==
  ASSUME PInv, handleUnmatchedReply
  PROVE FALSE
  BY ReplyIsForHead, NoneIsNoMemo DEF handleUnmatchedReply

LEMMA LinkQuiescePInv ==
  ASSUME Plain, PInv, LinkQuiesce
  PROVE PInv'
  <1>1. IInv'
    BY LinkQuiesceIInv DEF PInv
  <1>2. replies' = << >> /\ ~linkUp' /\ alive' = alive
    BY DEF LinkQuiesce
  <1>3. wire' = << >>
    BY DEF LinkQuiesce, Plain
  <1> QED BY <1>1, <1>2, <1>3 DEF PInv

LEMMA LinkRestartedPInv ==
  ASSUME PInv, LinkRestarted
  PROVE PInv'
  <1> DEFINE s == handleLinkRestarted(service)
  <1>1. /\ IInv'
        /\ service \in ServiceState /\ service.sent = << >>
        /\ wire = << >> /\ replies = << >>
        /\ service.current = IF service.pending = << >> THEN None
                                                        ELSE Head(service.pending)
    BY LinkRestartedIInv, ServiceType DEF PInv, IInv, OutstandingIsHead, LinkRestarted
  <1>2. /\ s \in ServiceState
        /\ s.pending = service.pending
        /\ s.sent = IF service.pending = << >> THEN << >>
                    ELSE Append(<< >>, MessageOf(Head(service.pending)))
    BY <1>1, RestartedResult
  <1> HIDE DEF s
  <1>3. service'.pending = service.pending
    BY <1>2, FinishResult DEF LinkRestarted, s
  <1>4. wire' = s.sent
    <2>1. wire' = wire \o s.sent
      BY DEF LinkRestarted, s
    <2>2. << >> \o s.sent = s.sent
      BY <1>2 DEF ServiceState
    <2> QED BY <1>1, <2>1, <2>2
  <1>5. linkUp' /\ alive' = alive /\ replies' = replies
    BY DEF LinkRestarted
  <1>6. HeadUnderway'
    BY <1>1, <1>2, <1>3, <1>4, <1>5 DEF HeadUnderway
  <1> QED BY <1>1, <1>5, <1>6 DEF PInv

LEMMA NextPInv == ASSUME Plain PROVE PInv /\ [Next]_vars => PInv'
  <1> SUFFICES ASSUME PInv, [Next]_vars PROVE PInv'
    OBVIOUS
  <1>1. CASE Submit
    BY <1>1, SubmitPInv
  <1>2. ASSUME NEW k \in 1 .. Len(wire), RemoteHandles(k) PROVE PInv'
    BY <1>2, RemoteHandlesPInv
  <1>3. CASE handleReply
    BY <1>3, HandleReplyPInv
  <1>4. CASE handleUnmatchedReply
    BY <1>4, NoUnmatchedReply
  <1>5. CASE LinkQuiesce
    BY <1>5, LinkQuiescePInv
  <1>6. CASE LinkRestarted
    BY <1>6, LinkRestartedPInv
  <1>7. CASE UNCHANGED vars
    <2>1. IInv'
      BY <1>7, NextIInv DEF PInv
    <2> QED BY <1>7, <2>1 DEF vars, PInv, HeadUnderway, HeadHandled
  <1> QED BY <1>1, <1>2, <1>3, <1>4, <1>5, <1>6, <1>7 DEF Next

\* If callbacks submit nothing and an outage loses what is on its way, there is
\* never more than one datagram or reply under way.
THEOREM AtMostOne == ASSUME Plain PROVE Spec => []AtMostOneOutstanding
  <1>1. PInv => AtMostOneOutstanding
    <2> SUFFICES ASSUME PInv PROVE AtMostOneOutstanding
      OBVIOUS
    <2>1. CASE wire = << >> /\ replies = << >>
      BY <2>1 DEF AtMostOneOutstanding
    <2>2. CASE linkUp /\ replies = << >>
               /\ wire = <<MessageOf(Head(service.pending))>>
      BY <2>2 DEF AtMostOneOutstanding
    <2>3. ASSUME NEW outcome \in Outcomes,
                 wire = << >>,
                 replies = <<[source |-> Head(service.pending).dest,
                              outcome |-> outcome]>>
          PROVE AtMostOneOutstanding
      BY <2>3 DEF AtMostOneOutstanding
    <2> QED BY <2>1, <2>2, <2>3 DEF PInv, HeadUnderway
  <1>2. PInv /\ [Next]_vars => PInv'
    BY NextPInv
  <1> QED BY InitPInv, <1>1, <1>2, PTL DEF Spec

\* Under the same restriction every reply finds its memo, so no handler raises.
THEOREM NoneRaises == ASSUME Plain PROVE Spec => []HandlersReturn
  <1>1. PInv => HandlersReturn
    BY DEF PInv, HandlersReturn
  <1>2. PInv /\ [Next]_vars => PInv'
    BY NextPInv
  <1> QED BY InitPInv, <1>1, <1>2, PTL DEF Spec

-----------------------------------------------------------------------------
(* The service keeps its promise.                                          *)

\* The head of the queue is the oldest datagram without an answer.
LEMMA HeadIsOutstanding ==
  ASSUME PInv, service.pending # << >>
  PROVE /\ Len(answered) < Len(submitted)
        /\ Promise!Outstanding = Head(service.pending)
  <1>1. /\ service.pending \in Seq(Memo)
        /\ submitted \in Seq(Memo)
        /\ answered \in Seq(Answer)
        /\ submitted = AnsweredMemos \o service.pending
    BY DEF PInv, IInv, TypeOK, NoDatagramForgotten
  <1>2. AnsweredMemos \in Seq(Memo) /\ Len(AnsweredMemos) = Len(answered)
    BY <1>1 DEF AnsweredMemos, Answer
  <1>3. Len(submitted) = Len(answered) + Len(service.pending)
          /\ Len(service.pending) > 0 /\ Len(answered) \in Nat
    <2>1. Len(AnsweredMemos \o service.pending)
            = Len(AnsweredMemos) + Len(service.pending)
      BY <1>1, <1>2, ConcatLength
    <2>2. Len(service.pending) \in Nat /\ Len(service.pending) # 0
      BY <1>1
    <2>3. Len(answered) \in Nat
      BY <1>1
    <2> QED BY <1>1, <1>2, <2>1, <2>2, <2>3
  <1>4. submitted[Len(answered) + 1] = Head(service.pending)
    BY <1>1, <1>2, ConcatFirst
  <1> QED BY <1>1, <1>3, <1>4 DEF Promise!Outstanding

LEMMA SubmitKeepsPromise ==
  ASSUME Submit
  PROVE Promise!Submit
  BY DEF Submit, NewMemo, Promise!Submit

LEMMA RemoteHandlesKeepsPromise ==
  ASSUME PInv, NEW k \in 1 .. Len(wire), RemoteHandles(k)
  PROVE Promise!Handle
  <1>1. service.pending # << >> /\ handled' = Append(handled, Head(service.pending))
    BY RemoteHandlesHead
  <1>2. UNCHANGED <<submitted, answered>>
    BY DEF RemoteHandles
  <1> QED BY <1>1, <1>2, HeadIsOutstanding DEF Promise!Handle

LEMMA HandleReplyKeepsPromise ==
  ASSUME Plain, PInv, handleReply
  PROVE Promise!Answer
  <1>1. /\ service.pending # << >>
        /\ Head(replies).outcome \in Outcomes
        /\ matchToWriteMemo(service, Head(replies).source) = Head(service.pending)
        /\ HeadHandled
    BY ReplyIsForHead DEF handleReply
  <1>2. /\ answered' = Append(answered, [memo |-> Head(service.pending),
                                         outcome |-> Head(replies).outcome])
        /\ UNCHANGED <<submitted, handled>>
    BY <1>1 DEF handleReply, Plain, TakeReply
  <1>3. Len(answered) < Len(submitted) /\ Promise!Outstanding = Head(service.pending)
    BY <1>1, HeadIsOutstanding
  <1> QED BY <1>1, <1>2, <1>3 DEF Promise!Answer, HeadHandled

\* Whatever the number of nodes, datagrams and outages: datagrams are handled
\* in the order of submission, and each outcome is reported once, after it.
THEOREM KeepsPromise == ASSUME Plain PROVE Spec => ImplementsPromise
  <1>1. Init => Promise!Init
    BY DEF Init, Promise!Init
  <1>2. PInv /\ [Next]_vars
          => [Promise!Submit \/ Promise!Handle \/ Promise!Answer]_
                <<submitted, handled, answered>>
    <2> SUFFICES ASSUME PInv, [Next]_vars
                 PROVE \/ Promise!Submit \/ Promise!Handle \/ Promise!Answer
                       \/ UNCHANGED <<submitted, handled, answered>>
      OBVIOUS
    <2>1. CASE Submit
      BY <2>1, SubmitKeepsPromise
    <2>2. ASSUME NEW k \in 1 .. Len(wire), RemoteHandles(k) PROVE Promise!Handle
      BY <2>2, RemoteHandlesKeepsPromise
    <2>3. CASE handleReply
      BY <2>3, HandleReplyKeepsPromise
    <2>4. CASE handleUnmatchedReply
      BY <2>4, NoUnmatchedReply
    <2>5. CASE LinkQuiesce
      BY <2>5 DEF LinkQuiesce
    <2>6. CASE LinkRestarted
      BY <2>6 DEF LinkRestarted
    <2>7. CASE UNCHANGED vars
      BY <2>7 DEF vars
    <2> QED BY <2>1, <2>2, <2>3, <2>4, <2>5, <2>6, <2>7 DEF Next
  <1>3. PInv /\ [Next]_vars => PInv'
    BY NextPInv
  <1> QED BY InitPInv, <1>1, <1>2, <1>3, PTL DEF Spec, ImplementsPromise, Promise!Spec

=============================================================================
