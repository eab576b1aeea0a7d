------------------------ MODULE MemoryAccess_proofs ------------------------
(***************************************************************************)
(* Proofs about MemoryAccess, for any number of nodes, requests, datagrams *)
(* and outages.                                                            *)
(***************************************************************************)
EXTENDS MemoryAccess, SequenceTheorems, FunctionTheorems, FiniteSetTheorems,
        WellFoundedInduction, TLAPS

-----------------------------------------------------------------------------
(* Sequences. *)

LEMMA LeastNumber ==
  ASSUME NEW S \in SUBSET Nat, S # {}
  PROVE  \E m \in S : \A k \in S : m <= k
  <1>1. IsWellFoundedOn(OpToRel(<, Nat), Nat)
    BY NatLessThanWellFounded
  <1>2. PICK x \in S : \A y \in S : ~(<<y, x>> \in OpToRel(<, Nat))
    BY <1>1, WFMin
  <1>3. \A y \in S : ~(y < x)
    BY <1>2 DEF OpToRel
  <1> QED BY <1>3

LEMMA FirstForIs ==
  ASSUME NEW S, NEW s \in Seq(S), NEW r
  PROVE  /\ FirstFor(s, r) \in 0 .. Len(s)
         /\ FirstFor(s, r) = 0 => \A i \in 1 .. Len(s) : s[i].node # r
         /\ FirstFor(s, r) # 0 =>
               /\ s[FirstFor(s, r)].node = r
               /\ \A i \in 1 .. Len(s) : s[i].node = r => FirstFor(s, r) <= i
  <1> DEFINE I == {i \in 1 .. Len(s) : s[i].node = r}
             k == FirstFor(s, r)
  <1>1. k = IF I # {} THEN Min(I) ELSE 0
    BY DEF FirstFor, SelectInSeq
  <1>2. I \in SUBSET Nat
    OBVIOUS
  <1>3. \A i : i \in I <=> i \in 1 .. Len(s) /\ s[i].node = r
    OBVIOUS
  <1> HIDE DEF I, k
  <1>4. I # {} => \E m \in I : \A j \in I : m <= j
    BY <1>2, LeastNumber
  <1>5. I # {} => Min(I) \in I /\ \A j \in I : Min(I) <= j
    BY <1>4 DEF Min
  <1>6. CASE I = {}
    <2>1. Len(s) \in Nat
      OBVIOUS
    <2> QED BY <1>1, <1>3, <1>6, <2>1 DEF k
  <1>7. CASE I # {}
    <2>1. k \in I /\ \A j \in I : k <= j
      BY <1>1, <1>5, <1>7
    <2>2. k \in 1 .. Len(s) /\ s[k].node = r
      BY <1>3, <2>1
    <2>3. \A i \in 1 .. Len(s) : s[i].node = r => k <= i
      BY <1>3, <2>1
    <2> QED BY <2>2, <2>3 DEF k
  <1> QED BY <1>6, <1>7

LEMMA RemoveAtIs ==
  ASSUME NEW S, NEW s \in Seq(S), NEW k \in 1 .. Len(s)
  PROVE  /\ RemoveAt(s, k) \in Seq(S)
         /\ Len(RemoveAt(s, k)) = Len(s) - 1
         /\ \A i \in 1 .. Len(s) - 1 : RemoveAt(s, k)[i] = IF i < k THEN s[i] ELSE s[i + 1]
  <1> DEFINE a == SubSeq(s, 1, k - 1)
             b == SubSeq(s, k + 1, Len(s))
  <1>1. /\ Len(s) \in Nat
        /\ RemoveAt(s, k) = a \o b
    BY DEF RemoveAt
  <1>2. /\ a \in Seq(S) /\ Len(a) = k - 1
        /\ \A i \in 1 .. k - 1 : a[i] = s[i]
    OBVIOUS
  <1>3. /\ b \in Seq(S) /\ Len(b) = Len(s) - k
        /\ \A i \in 1 .. Len(s) - k : b[i] = s[k + i]
    OBVIOUS
  <1> HIDE DEF a, b
  <1>4. /\ a \o b \in Seq(S) /\ Len(a \o b) = Len(a) + Len(b)
        /\ \A i \in 1 .. Len(a) + Len(b) :
              (a \o b)[i] = IF i <= Len(a) THEN a[i] ELSE b[i - Len(a)]
    BY <1>2, <1>3, ConcatProperties
  <1>5. ASSUME NEW i \in 1 .. Len(s) - 1
        PROVE  (a \o b)[i] = IF i < k THEN s[i] ELSE s[i + 1]
    <2>1. CASE i < k
      BY <1>1, <1>2, <1>3, <1>4, <2>1
    <2>2. CASE ~(i < k)
      <3> DEFINE j == i - Len(a)
      <3>1. j \in 1 .. Len(s) - k /\ k + j = i + 1
        BY <1>1, <1>2, <2>2
      <3>2. i \in 1 .. Len(a) + Len(b) /\ ~(i <= Len(a))
        BY <1>1, <1>2, <1>3, <2>2
      <3>3. (a \o b)[i] = b[j]
        BY <1>4, <3>2
      <3> HIDE DEF j
      <3> QED BY <1>3, <2>2, <3>1, <3>3
    <2> QED BY <2>1, <2>2
  <1> QED BY <1>1, <1>2, <1>3, <1>4, <1>5

-----------------------------------------------------------------------------
(* Types. *)

Message ==
    [kind : {"Datagram"}, node : Nodes, memo : Memo]
      \cup [kind : {"Datagram_Received_OK", "Datagram_Rejected"}, node : Nodes]

Incoming ==
    {Took, Refused}
      \cup [kind : {"Datagram"}, content : Operations \cup Others,
            answer : Answers \cup {"none"}, request : UserRequest \cup {None}]

Call ==
    [request : UserRequest, answer : Answers \cup {"none"},
     of : UserRequest \cup {None}]

Service ==
    [pending : Seq(Memo), current : Memo \cup {None}, quiesced : BOOLEAN,
     sent : Seq(Message)]

\* The state in the middle of a handler.
Machine ==
    [dg : Service, reads : Seq(UserRequest), writes : Seq(UserRequest),
     length : UserRequest \cup {None}, called : Seq(Call)]

MemoOf(q) == [dest |-> q.node, request |-> q]
MessageOf(memo) == [kind |-> "Datagram", node |-> memo.dest, memo |-> memo]

LEMMA NoneApart == None \notin UserRequest /\ None \notin Memo
  BY ConstantsAssumption

LEMMA MemoOfType ==
  ASSUME NEW q \in UserRequest
  PROVE  /\ MemoOf(q) \in Memo
         /\ MemoOf(q).dest = q.node
         /\ MemoOf(q).request = q
         /\ MessageOf(MemoOf(q)) \in Message
  BY DEF MemoOf, Memo, UserRequest, MessageOf, Message

LEMMA MessageOfType ==
  ASSUME NEW memo \in Memo
  PROVE  /\ MessageOf(memo) \in Message
         /\ MessageOf(memo).kind = "Datagram"
         /\ MessageOf(memo).node = memo.dest
         /\ MessageOf(memo).memo = memo
  BY DEF MessageOf, Message, Memo

-----------------------------------------------------------------------------
(* What the handlers return. *)

LEMMA SendMessageResult ==
  ASSUME NEW s \in Service, NEW memo \in Memo
  PROVE  LET s2 == sendDatagramMessage(s, memo) IN
         /\ s2 \in Service
         /\ s2.pending = s.pending
         /\ s2.current = memo
         /\ s2.sent = Append(s.sent, MessageOf(memo))
  <1>1. sendDatagramMessage(s, memo)
          = [s EXCEPT !.sent = Append(s.sent, MessageOf(memo)), !.current = memo]
    BY DEF sendDatagramMessage, sendMessage, MessageOf, Service
  <1>2. Append(s.sent, MessageOf(memo)) \in Seq(Message)
    BY MessageOfType DEF Service
  <1> QED BY <1>1, <1>2 DEF Service

LEMMA SendDatagramResult ==
  ASSUME NEW s \in Service, NEW memo \in Memo
  PROVE  LET s2 == sendDatagram(s, memo) IN
         /\ s2 \in Service
         /\ s2.pending = Append(s.pending, memo)
         /\ s2.current = IF s.pending = << >> THEN memo ELSE s.current
         /\ s2.sent = IF s.pending = << >> THEN Append(s.sent, MessageOf(memo)) ELSE s.sent
  <1> DEFINE queued == [s EXCEPT !.pending = Append(s.pending, memo)]
  <1>1. queued \in Service
    <2>1. Append(s.pending, memo) \in Seq(Memo)
      BY DEF Service
    <2> QED BY <2>1 DEF Service
  <1>2. queued.pending = Append(s.pending, memo) /\ queued.sent = s.sent
          /\ queued.current = s.current
    BY DEF Service
  <1>3. Len(queued.pending) = 1 <=> s.pending = << >>
    BY <1>2 DEF Service
  <1>4. sendDatagram(s, memo)
          = IF Len(queued.pending) = 1 THEN sendDatagramMessage(queued, memo)
                                       ELSE queued
    BY DEF sendDatagram
  <1> HIDE DEF queued
  <1>5. CASE s.pending = << >>
    BY <1>1, <1>2, <1>3, <1>4, <1>5, SendMessageResult
  <1>6. CASE s.pending # << >>
    BY <1>1, <1>2, <1>3, <1>4, <1>6
  <1> QED BY <1>5, <1>6

LEMMA SendNextResult ==
  ASSUME NEW s \in Service
  PROVE  LET s2 == sendNextDatagramFromQueue(s) IN
         /\ s2 \in Service
         /\ s2.pending = s.pending
         /\ s2.current = IF s.pending = << >> THEN s.current ELSE s.pending[1]
         /\ s2.sent = IF s.pending = << >> THEN s.sent
                      ELSE Append(s.sent, MessageOf(s.pending[1]))
  <1>1. CASE s.pending = << >>
    BY <1>1 DEF sendNextDatagramFromQueue
  <1>2. CASE s.pending # << >>
    <2>1. s.pending[1] \in Memo /\ Head(s.pending) = s.pending[1]
      BY <1>2 DEF Service
    <2>2. sendNextDatagramFromQueue(s) = sendDatagramMessage(s, s.pending[1])
      BY <1>2, <2>1 DEF sendNextDatagramFromQueue
    <2> QED BY <1>2, <2>1, <2>2, SendMessageResult
  <1> QED BY <1>1, <1>2

LEMMA RepliedResult ==
  ASSUME NEW s \in Service, NEW r \in Nodes, s.pending # << >>, s.pending[1].dest = r
  PROVE  /\ matchToWriteMemo(s, r) # None
         /\ Replied(s, r) \in Service
         /\ Replied(s, r).pending = Tail(s.pending)
         /\ Replied(s, r).current = None
         /\ Replied(s, r).sent = s.sent
  <1>1. s.pending[1] \in Memo /\ Head(s.pending) = s.pending[1]
    BY DEF Service
  <1>2. matchToWriteMemo(s, r) # None
    BY <1>1, NoneApart DEF matchToWriteMemo
  <1>3. Replied(s, r) = [s EXCEPT !.pending = Tail(s.pending), !.current = None]
    BY <1>2 DEF Replied, Service
  <1>4. Tail(s.pending) \in Seq(Memo)
    BY DEF Service
  <1> QED BY <1>2, <1>3, <1>4 DEF Service

LEMMA RestartedResult ==
  ASSUME NEW s \in Service,
         s.current = IF s.pending = << >> THEN None ELSE s.pending[1]
  PROVE  LET s2 == handleLinkRestarted(s) IN
         /\ s2 \in Service
         /\ s2.pending = s.pending
         /\ s2.current = s.current
         /\ s2.sent = IF s.pending = << >> THEN s.sent
                      ELSE Append(s.sent, MessageOf(s.pending[1]))
  <1> DEFINE s1 == [s EXCEPT !.quiesced = FALSE]
  <1>1. /\ s1 \in Service
        /\ s1.pending = s.pending
        /\ s1.current = s.current
        /\ s1.sent = s.sent
    BY DEF Service
  <1>2. CASE s.pending = << >>
    <2>1. handleLinkRestarted(s) = sendNextDatagramFromQueue(s1)
      BY <1>1, <1>2 DEF handleLinkRestarted
    <2> HIDE DEF s1
    <2> QED BY <1>1, <1>2, <2>1, SendNextResult
  <1>3. CASE s.pending # << >>
    <2>1. s1.current # None /\ s1.current \in Memo /\ s1.current = s.pending[1]
      BY <1>1, <1>3, NoneApart DEF Service
    <2>2. handleLinkRestarted(s) = sendDatagramMessage(s1, s1.current)
      BY <2>1 DEF handleLinkRestarted
    <2> HIDE DEF s1
    <2> QED BY <1>1, <1>3, <2>1, <2>2, SendMessageResult
  <1> QED BY <1>2, <1>3

LEMMA SendRequestResult ==
  ASSUME NEW m \in Machine, NEW q \in UserRequest
  PROVE  LET m2 == SendRequest(m, q) IN
         /\ m2 \in Machine
         /\ m2.dg.pending = Append(m.dg.pending, MemoOf(q))
         /\ m2.dg.current = IF m.dg.pending = << >> THEN MemoOf(q) ELSE m.dg.current
         /\ m2.dg.sent = IF m.dg.pending = << >>
                         THEN Append(m.dg.sent, MessageOf(MemoOf(q))) ELSE m.dg.sent
         /\ m2.reads = m.reads /\ m2.writes = m.writes /\ m2.length = m.length
         /\ m2.called = m.called
  <1>1. m.dg \in Service
    BY DEF Machine
  <1>2. MemoOf(q) \in Memo
    BY MemoOfType
  <1>3. SendRequest(m, q) = [m EXCEPT !.dg = sendDatagram(m.dg, MemoOf(q))]
    BY DEF SendRequest, MemoOf, Machine
  <1>4. sendDatagram(m.dg, MemoOf(q)) \in Service
    BY <1>1, <1>2, SendDatagramResult
  <1>5. /\ SendRequest(m, q) \in Machine
        /\ SendRequest(m, q).dg = sendDatagram(m.dg, MemoOf(q))
        /\ SendRequest(m, q).reads = m.reads /\ SendRequest(m, q).writes = m.writes
        /\ SendRequest(m, q).length = m.length /\ SendRequest(m, q).called = m.called
    BY <1>3, <1>4 DEF Machine
  <1> QED BY <1>1, <1>2, <1>5, SendDatagramResult

-----------------------------------------------------------------------------
(* What the handlers send, whatever state they find. *)

\* The handler's state but for what it sends and the writes.
Same(m2, m) ==
    /\ m2 \in Machine
    /\ m2.dg.pending = m.dg.pending /\ m2.dg.current = m.dg.current
    /\ m2.reads = m.reads /\ m2.length = m.length /\ m2.called = m.called

\* No reply to a datagram is among what is sent on the way from m to m2.
Quiet(m2, m) == m2 \in Machine /\ \A r : Replies(m2, r) = Replies(m, r)

LEMMA SendQuiet ==
  ASSUME NEW m \in Machine, NEW q \in UserRequest
  PROVE  Quiet(SendRequest(m, q), m)
  <1> DEFINE m2 == SendRequest(m, q)
             x == MessageOf(MemoOf(q))
  <1>1. m.dg.sent \in Seq(Message)
    BY DEF Machine, Service
  <1>2. x \in Message /\ x.kind = "Datagram"
    BY MemoOfType, MessageOfType
  <1>3. /\ m2 \in Machine
        /\ m2.dg.sent = IF m.dg.pending = << >> THEN Append(m.dg.sent, x) ELSE m.dg.sent
    BY SendRequestResult
  <1> HIDE DEF m2, x
  <1>4. ASSUME m.dg.pending = << >>
        PROVE  /\ Len(m2.dg.sent) = Len(m.dg.sent) + 1 /\ Len(m.dg.sent) \in Nat
               /\ \A k \in 1 .. Len(m.dg.sent) : m2.dg.sent[k] = m.dg.sent[k]
               /\ m2.dg.sent[Len(m.dg.sent) + 1].kind = "Datagram"
    BY <1>1, <1>2, <1>3, <1>4
  <1>5. \A r : Replies(m2, r) = Replies(m, r)
    BY <1>3, <1>4 DEF Replies
  <1> QED BY <1>3, <1>5 DEF Quiet, m2

LEMMA RequestQuiet ==
  ASSUME NEW m \in Machine, NEW q \in UserRequest
  PROVE  Quiet(Request(m, q), m)
  <1>1. q.op \in {"read", "write", "length"}
    BY ConstantsAssumption DEF UserRequest
  <1>2. ASSUME NEW m1 \in Machine, m1.dg = m.dg
        PROVE  Quiet(m1, m) /\ Quiet(SendRequest(m1, q), m)
    <2>1. \A r : Replies(m1, r) = Replies(m, r)
      BY <1>2 DEF Replies
    <2> QED BY <2>1, SendQuiet DEF Quiet
  <1>3. CASE q.op = "read"
    <2> DEFINE m1 == [m EXCEPT !.reads = Append(@, q)]
    <2>1. m1 \in Machine /\ m1.dg = m.dg
      <3>1. Append(m.reads, q) \in Seq(UserRequest)
        BY DEF Machine
      <3> QED BY <3>1 DEF Machine
    <2>2. Request(m, q) = IF Len(m1.reads) = 1 THEN SendRequest(m1, q) ELSE m1
      BY <1>3 DEF Request, requestMemoryRead, requestMemoryReadNext
    <2> HIDE DEF m1
    <2> QED BY <1>2, <2>1, <2>2
  <1>4. CASE q.op = "write"
    <2> DEFINE m1 == [m EXCEPT !.writes = Append(@, q)]
    <2>1. m1 \in Machine /\ m1.dg = m.dg
      <3>1. Append(m.writes, q) \in Seq(UserRequest)
        BY DEF Machine
      <3> QED BY <3>1 DEF Machine
    <2>2. Request(m, q) = SendRequest(m1, q)
      BY <1>4 DEF Request, requestMemoryWrite
    <2> HIDE DEF m1
    <2> QED BY <1>2, <2>1, <2>2
  <1>5. CASE q.op = "length"
    <2> DEFINE m1 == [m EXCEPT !.length = q]
    <2>1. m1 \in Machine /\ m1.dg = m.dg
      BY DEF Machine
    <2>2. Request(m, q) = IF m.length # None THEN m ELSE SendRequest(m1, q)
      BY <1>5 DEF Request, requestSpaceLength
    <2> HIDE DEF m1
    <2> QED BY <1>2, <2>1, <2>2
  <1> QED BY <1>1, <1>3, <1>4, <1>5

LEMMA CallbackQuiet ==
  ASSUME NEW m \in Machine, NEW q \in UserRequest, NEW dg,
         dg.answer \in Answers \cup {"none"}, dg.request \in UserRequest \cup {None},
         NEW then \in UserRequest \cup {None}
  PROVE  Quiet(Callback(m, q, dg, then), m)
  <1> DEFINE call == [request |-> q, answer |-> dg.answer, of |-> dg.request]
             m1 == [m EXCEPT !.called = Append(@, call)]
  <1>1. call \in Call
    BY DEF Call
  <1>2. Callback(m, q, dg, then) = IF then = None THEN m1 ELSE Request(m1, then)
    BY DEF Callback
  <1> HIDE DEF call
  <1>3. m1 \in Machine /\ m1.dg = m.dg
    <2>1. Append(m.called, call) \in Seq(Call)
      BY <1>1 DEF Machine
    <2> QED BY <2>1 DEF Machine
  <1> HIDE DEF m1
  <1>4. \A r : Replies(m1, r) = Replies(m, r)
    BY <1>3 DEF Replies
  <1>5. then # None => Quiet(Request(m1, then), m1)
    BY <1>3, RequestQuiet
  <1> QED BY <1>2, <1>3, <1>4, <1>5 DEF Quiet

\* The remembered request that a reply datagram is matched to.
LEMMA FirstForType ==
  ASSUME NEW s \in Seq(UserRequest), NEW r, FirstFor(s, r) # 0
  PROVE  s[FirstFor(s, r)] \in UserRequest /\ RemoveAt(s, FirstFor(s, r)) \in Seq(UserRequest)
  <1>1. FirstFor(s, r) \in 1 .. Len(s)
    <2>1. FirstFor(s, r) \in 0 .. Len(s) /\ Len(s) \in Nat
      BY FirstForIs
    <2> QED BY <2>1
  <1> QED BY <1>1, RemoveAtIs

LEMMA ReadReplyQuiet ==
  ASSUME NEW m \in Machine, NEW r \in Nodes, NEW dg,
         dg.answer \in Answers \cup {"none"}, dg.request \in UserRequest \cup {None},
         NEW then \in UserRequest \cup {None}
  PROVE  Quiet(ReadReply(m, r, dg, then), m)
  <1> DEFINE k == FirstFor(m.reads, r)
             q == m.reads[k]
             left == RemoveAt(m.reads, k)
             m1 == [m EXCEPT !.reads = RemoveAt(@, k)]
             m2 == IF m1.reads = << >> THEN m1
                   ELSE requestMemoryReadNext(m1, Head(m1.reads))
  <1>1. CASE k = 0
    BY <1>1 DEF ReadReply, Quiet
  <1>2. CASE k # 0
    <2>1. q \in UserRequest /\ left \in Seq(UserRequest)
      BY <1>2, FirstForType DEF Machine
    <2>2. ReadReply(m, r, dg, then) = Callback(m2, q, dg, then)
      BY <1>2 DEF ReadReply
    <2> HIDE DEF k, q
    <2>3. m1 \in Machine /\ m1.dg = m.dg /\ m1.reads = left
      BY <2>1 DEF Machine
    <2> HIDE DEF m1, left
    <2>4. m1.reads # << >> => Head(m1.reads) \in UserRequest
      BY <2>1, <2>3
    <2>5. \A r2 : Replies(m1, r2) = Replies(m, r2)
      BY <2>3 DEF Replies
    <2>6. Quiet(m2, m)
      BY <2>3, <2>4, <2>5, SendQuiet DEF Quiet, requestMemoryReadNext
    <2> HIDE DEF m2
    <2>7. Quiet(Callback(m2, q, dg, then), m2)
      BY <2>1, <2>6, CallbackQuiet DEF Quiet
    <2> QED BY <2>2, <2>6, <2>7 DEF Quiet
  <1> QED BY <1>1, <1>2

LEMMA WriteReplyQuiet ==
  ASSUME NEW m \in Machine, NEW r \in Nodes, NEW dg,
         dg.answer \in Answers \cup {"none"}, dg.request \in UserRequest \cup {None},
         NEW then \in UserRequest \cup {None}
  PROVE  Quiet(WriteReply(m, r, dg, then), m)
  <1> DEFINE k == FirstFor(m.writes, r)
             q == m.writes[k]
             left == RemoveAt(m.writes, k)
             m1 == [m EXCEPT !.writes = RemoveAt(@, k)]
  <1>1. CASE k = 0
    BY <1>1 DEF WriteReply, Quiet
  <1>2. CASE k # 0
    <2>1. q \in UserRequest /\ left \in Seq(UserRequest)
      BY <1>2, FirstForType DEF Machine
    <2>2. WriteReply(m, r, dg, then) = Callback(m1, q, dg, then)
      BY <1>2 DEF WriteReply
    <2> HIDE DEF k, q
    <2>3. m1 \in Machine /\ m1.dg = m.dg
      BY <2>1 DEF Machine
    <2> HIDE DEF m1, left
    <2>4. \A r2 : Replies(m1, r2) = Replies(m, r2)
      BY <2>3 DEF Replies
    <2>5. Quiet(Callback(m1, q, dg, then), m1)
      BY <2>1, <2>3, CallbackQuiet
    <2> QED BY <2>2, <2>4, <2>5 DEF Quiet
  <1> QED BY <1>1, <1>2

LEMMA LengthReplyQuiet ==
  ASSUME NEW m \in Machine, NEW dg,
         dg.answer \in Answers \cup {"none"}, dg.request \in UserRequest \cup {None},
         NEW then \in UserRequest \cup {None}
  PROVE  Quiet(LengthReply(m, dg, then), m)
  <1> DEFINE m1 == Callback(m, m.length, dg, then)
             m2 == [m1 EXCEPT !.length = None]
  <1>1. CASE m.length = None
    BY <1>1 DEF LengthReply, Quiet
  <1>2. CASE m.length # None
    <2>1. m.length \in UserRequest
      BY <1>2 DEF Machine
    <2>2. LengthReply(m, dg, then) = m2
      BY <1>2 DEF LengthReply
    <2>3. Quiet(m1, m)
      BY <2>1, CallbackQuiet
    <2> HIDE DEF m1
    <2>4. m2 \in Machine /\ m2.dg = m1.dg
      BY <2>3 DEF Quiet, Machine
    <2> HIDE DEF m2
    <2>5. \A r : Replies(m2, r) = Replies(m1, r)
      BY <2>4 DEF Replies
    <2> QED BY <2>2, <2>3, <2>4, <2>5 DEF Quiet
  <1> QED BY <1>1, <1>2

\* The reply that the service sends to a datagram.
LEMMA ReplySent ==
  ASSUME NEW m \in Machine, m.dg.sent = << >>, NEW r \in Nodes,
         NEW m2 \in {Acknowledge(m, r), Refuse(m, r)}
  PROVE  /\ Same(m2, m) /\ m2.writes = m.writes
         /\ \E x \in Message : x.kind # "Datagram" /\ m2.dg.sent = <<x>>
         /\ Replies(m2, r) = {1}
  <1> DEFINE Reply(kind) == [kind |-> kind, node |-> r]
             Sent(x) == [m EXCEPT !.dg = [m.dg EXCEPT !.sent = Append(m.dg.sent, x)]]
  <1>1. PICK x \in {Reply("Datagram_Received_OK"), Reply("Datagram_Rejected")} :
           m2 = Sent(x)
    <2>1. Acknowledge(m, r) = Sent(Reply("Datagram_Received_OK"))
      BY DEF Acknowledge, positiveReplyToDatagram, sendMessage
    <2>2. Refuse(m, r) = Sent(Reply("Datagram_Rejected"))
      BY DEF Refuse, negativeReplyToDatagram, sendMessage
    <2> HIDE DEF Reply, Sent
    <2> QED BY <2>1, <2>2
  <1>2. x \in Message /\ x.kind # "Datagram" /\ x.node = r
    BY DEF Message
  <1>3. m.dg \in Service /\ m.dg.sent \in Seq(Message)
    BY DEF Machine, Service
  <1>4. Append(m.dg.sent, x) \in Seq(Message)
    BY <1>2, <1>3
  <1>5. /\ Same(m2, m) /\ m2.writes = m.writes
        /\ m2.dg.sent = Append(m.dg.sent, x)
    <2> DEFINE d2 == [m.dg EXCEPT !.sent = Append(m.dg.sent, x)]
    <2>1. /\ d2 \in Service /\ d2.pending = m.dg.pending /\ d2.current = m.dg.current
          /\ d2.sent = Append(m.dg.sent, x)
      BY <1>3, <1>4 DEF Service
    <2>2. m2 = [m EXCEPT !.dg = d2]
      BY <1>1
    <2> HIDE DEF d2
    <2>3. m2 \in Machine /\ m2.dg = d2 /\ m2.reads = m.reads /\ m2.writes = m.writes
            /\ m2.length = m.length /\ m2.called = m.called
      BY <1>3, <2>1, <2>2 DEF Machine
    <2> QED BY <2>1, <2>3 DEF Same
  <1>6. m2.dg.sent = <<x>>
    BY <1>5
  <1>7. Replies(m2, r) = {1}
    BY <1>2, <1>6 DEF Replies
  <1> QED BY <1>2, <1>5, <1>6, <1>7

\* A datagram gets one reply, whatever else its listener does.
LEMMA ListenerReplies ==
  ASSUME NEW m \in Machine, m.dg.sent = << >>, NEW r \in Nodes,
         NEW dg \in Incoming, dg.kind = "Datagram", NEW then \in UserRequest \cup {None}
  PROVE  LET m2 == datagramReceivedListener(m, r, dg, then) IN
         m2 \in Machine /\ Replies(m2, r) = {1}
  <1> DEFINE m2 == datagramReceivedListener(m, r, dg, then)
             m1 == Acknowledge(m, r)
             m0 == Refuse(m, r)
  <1>1. /\ dg.content \in {"Unknown", "Short", "Unexpected", "read", "write", "length"}
        /\ dg.answer \in Answers \cup {"none"} /\ dg.request \in UserRequest \cup {None}
    <2>1. dg \notin {Took, Refused}
      BY DEF Took, Refused
    <2> QED BY <2>1, ConstantsAssumption DEF Incoming
  <1>2. m1 \in Machine /\ Replies(m1, r) = {1} /\ m0 \in Machine /\ Replies(m0, r) = {1}
    BY ReplySent DEF Same
  <1> HIDE DEF m1, m0
  <1>3. CASE dg.content \in {"Unknown", "Short"}
    <2>1. m2 = m0
      BY <1>3 DEF datagramReceivedListener, m0
    <2> QED BY <1>2, <2>1
  <1>4. CASE dg.content = "Unexpected"
    <2>1. m2 = m1
      BY <1>4 DEF datagramReceivedListener, m1
    <2> QED BY <1>2, <2>1
  <1>5. CASE dg.content = "read"
    <2>1. m2 = ReadReply(m1, r, dg, then)
      BY <1>5 DEF datagramReceivedListener, m1
    <2>2. Quiet(ReadReply(m1, r, dg, then), m1)
      BY <1>1, <1>2, ReadReplyQuiet
    <2> QED BY <1>2, <2>1, <2>2 DEF Quiet
  <1>6. CASE dg.content = "write"
    <2>1. m2 = WriteReply(m1, r, dg, then)
      BY <1>6 DEF datagramReceivedListener, m1
    <2>2. Quiet(WriteReply(m1, r, dg, then), m1)
      BY <1>1, <1>2, WriteReplyQuiet
    <2> QED BY <1>2, <2>1, <2>2 DEF Quiet
  <1>7. CASE dg.content = "length"
    <2>1. m2 = LengthReply(m1, dg, then)
      BY <1>7 DEF datagramReceivedListener, m1
    <2>2. Quiet(LengthReply(m1, dg, then), m1)
      BY <1>1, <1>2, LengthReplyQuiet
    <2> QED BY <1>2, <2>1, <2>2 DEF Quiet
  <1> QED BY <1>1, <1>3, <1>4, <1>5, <1>6, <1>7

-----------------------------------------------------------------------------
(* The inductive invariant.  "m" is the state in the middle of a handler,  *)
(* "w" what is on its way to the remotes, "arr" what is on its way from    *)
(* them and "n" the number of requests made.                               *)

\* Queued requests differ, and the first of them is outstanding.
Queued(dg, n) ==
    /\ \A k \in 1 .. Len(dg.pending) :
          /\ dg.pending[k].dest = dg.pending[k].request.node
          /\ dg.pending[k].request.number <= n
    /\ \A i, j \in 1 .. Len(dg.pending) :
          dg.pending[i].request = dg.pending[j].request => i = j
    /\ dg.current = IF dg.pending = << >> THEN None ELSE dg.pending[1]

\* There is one datagram to a remote or one reply to it, to and from the node of the
\* first in the queue.
OneOutstanding(dg, w, arr) ==
    /\ \A k \in Datagrams(w) :
          dg.pending # << >> /\ w[k].memo = dg.pending[1] /\ w[k].node = dg.pending[1].dest
    /\ \A i, j \in Datagrams(w) : i = j
    /\ \A r \in Nodes : \A i \in 1 .. Len(arr[r]) : arr[r][i].kind # "Datagram" =>
          /\ dg.pending # << >> /\ r = dg.pending[1].dest
          /\ Datagrams(w) = {}
          /\ \A j \in 1 .. Len(arr[r]) : arr[r][j].kind # "Datagram" => i = j

\* A reply datagram answers one request of its node, and arrives after the reply to the
\* request's datagram.
Answering(dg, arr, n) ==
    \A r \in Nodes : \A j \in Datagrams(arr[r]) :
        IF arr[r][j].request = None THEN arr[r][j].content \in Others
        ELSE /\ arr[r][j].request.node = r
             /\ arr[r][j].request.number <= n
             /\ arr[r][j].content = arr[r][j].request.op
             /\ \A k \in 1 .. Len(dg.pending) :
                   dg.pending[k].request = arr[r][j].request =>
                      k = 1 /\ \E i \in 1 .. j - 1 : arr[r][i].kind # "Datagram"
             /\ \A i \in Datagrams(arr[r]) : arr[r][i].request = arr[r][j].request => i = j

InQueue(dg, q) == \E k \in 1 .. Len(dg.pending) : dg.pending[k].request = q
Coming(arr, q) == \E r \in Nodes : \E j \in Datagrams(arr[r]) : arr[r][j].request = q
Open(m, arr, q) == InQueue(m.dg, q) \/ Coming(arr, q)

\* The open requests for a read and for a length are the ones remembered first.
Serial(m, arr) ==
    \A q \in UserRequest : Open(m, arr, q) =>
        /\ q.op = "read" => m.reads # << >> /\ q = m.reads[1]
        /\ q.op = "length" => q = m.length

Reads(m, n) ==
    \A k \in 1 .. Len(m.reads) : m.reads[k].op = "read" /\ m.reads[k].number <= n

Writes(m) == \A k \in 1 .. Len(m.writes) : m.writes[k].op = "write"

Fitting(m) ==
    \A k \in 1 .. Len(m.called) :
        m.called[k].request.op \in {"read", "length"} => m.called[k].request = m.called[k].of

Keep(m, w, arr, n) ==
    /\ m \in Machine /\ w \in Seq(Message) /\ arr \in [Nodes -> Seq(Incoming)] /\ n \in Nat
    /\ Queued(m.dg, n)
    /\ OneOutstanding(m.dg, w, arr)
    /\ Answering(m.dg, arr, n)
    /\ Serial(m, arr)
    /\ Reads(m, n)
    /\ Writes(m)
    /\ Fitting(m)

\* A datagram that is appended is the last.
LEMMA DatagramsAppend ==
  ASSUME NEW S, NEW w \in Seq(S), NEW x \in S
  PROVE  Datagrams(Append(w, x))
           = IF x.kind = "Datagram" THEN Datagrams(w) \cup {Len(w) + 1} ELSE Datagrams(w)
  BY DEF Datagrams

\* Sending a request that is not open and that waits for no other.
LEMMA SendKeeps ==
  ASSUME NEW m, NEW w, NEW arr, NEW n, Keep(m, w, arr, n),
         NEW q \in UserRequest, q.number <= n, ~Open(m, arr, q),
         q.op = "read" => m.reads # << >> /\ q = m.reads[1],
         q.op = "length" => q = m.length,
         NEW up \in BOOLEAN
  PROVE  Keep(SendRequest(m, q),
              IF up /\ m.dg.pending = << >> THEN Append(w, MessageOf(MemoOf(q))) ELSE w,
              arr, n)
  <1> DEFINE m2 == SendRequest(m, q)
             x == MessageOf(MemoOf(q))
             w2 == IF up /\ m.dg.pending = << >> THEN Append(w, x) ELSE w
             p == m.dg.pending
             p2 == m2.dg.pending
  <1>1. /\ m \in Machine /\ w \in Seq(Message) /\ arr \in [Nodes -> Seq(Incoming)]
        /\ n \in Nat
    BY DEF Keep
  <1>2. /\ m2 \in Machine
        /\ p2 = Append(p, MemoOf(q))
        /\ m2.dg.current = IF p = << >> THEN MemoOf(q) ELSE m.dg.current
        /\ m2.reads = m.reads /\ m2.writes = m.writes /\ m2.length = m.length
        /\ m2.called = m.called
    BY <1>1, SendRequestResult
  <1>3. /\ MemoOf(q) \in Memo /\ MemoOf(q).dest = q.node /\ MemoOf(q).request = q
        /\ x \in Message /\ x.kind = "Datagram" /\ x.node = q.node /\ x.memo = MemoOf(q)
    BY MemoOfType, MessageOfType
  <1>4. p \in Seq(Memo)
    BY <1>1 DEF Machine, Service
  <1> HIDE DEF m2, x, p, p2
  <1>5. /\ Len(p) \in Nat
        /\ Len(p2) = Len(p) + 1
        /\ \A k \in 1 .. Len(p) : p2[k] = p[k]
        /\ p2[Len(p) + 1] = MemoOf(q)
        /\ p2 # << >>
        /\ p = << >> <=> Len(p) = 0
    BY <1>2, <1>3, <1>4
  <1>6. \A k \in 1 .. Len(p2) : \/ k \in 1 .. Len(p) /\ p2[k] = p[k]
                                \/ k = Len(p) + 1 /\ p2[k].request = q
    BY <1>3, <1>5
  <1>7. w2 \in Seq(Message)
    BY <1>1, <1>3
  <1>8. \A k \in 1 .. Len(p) : p[k].request # q
    BY DEF Open, InQueue, p
  <1>9. Queued(m2.dg, n)
    <2>1. Queued(m.dg, n)
      BY DEF Keep
    <2>2. \A k \in 1 .. Len(p2) :
             p2[k].dest = p2[k].request.node /\ p2[k].request.number <= n
      BY SMTT(60), <1>3, <1>5, <2>1 DEF Queued, p
    <2>3. \A i, j \in 1 .. Len(p2) : p2[i].request = p2[j].request => i = j
      <3>1. \A i, j \in 1 .. Len(p) : p[i].request = p[j].request => i = j
        BY <2>1 DEF Queued, p
      <3> QED BY <1>8, <1>6, <3>1
    <2>4. m2.dg.current = p2[1]
      BY <1>2, <1>5, <2>1 DEF Queued, p
    <2> QED BY <1>5, <2>2, <2>3, <2>4 DEF Queued, p2
  <1>10. OneOutstanding(m2.dg, w2, arr)
    <2>1. OneOutstanding(m.dg, w, arr)
      BY DEF Keep
    <2>2. CASE p = << >>
      <3>1. /\ Datagrams(w) = {}
            /\ \A r \in Nodes : \A i \in 1 .. Len(arr[r]) : arr[r][i].kind = "Datagram"
        BY <2>1, <2>2 DEF OneOutstanding, p
      <3>2. p2[1] = MemoOf(q)
        BY <1>5, <2>2
      <3>3. CASE up
        <4>1. w2 = Append(w, x)
          BY <2>2, <3>3 DEF p
        <4>2. Datagrams(w2) = {Len(w) + 1} /\ w2[Len(w) + 1] = x
          BY <1>1, <1>3, <3>1, <4>1, DatagramsAppend
        <4> HIDE DEF w2
        <4> QED BY <1>3, <1>5, <3>1, <3>2, <4>2 DEF OneOutstanding, p2
      <3>4. CASE ~up
        BY <3>1, <3>4 DEF OneOutstanding
      <3> QED BY <3>3, <3>4
    <2>3. CASE p # << >>
      <3>1. w2 = w /\ p2[1] = p[1]
        BY <1>5, <2>3 DEF p
      <3> QED BY <1>5, <2>1, <3>1 DEF OneOutstanding, p, p2
    <2> QED BY <2>2, <2>3
  <1>11. Answering(m2.dg, arr, n)
    <2>1. Answering(m.dg, arr, n)
      BY DEF Keep
    <2>2. \A r \in Nodes : \A j \in Datagrams(arr[r]) : arr[r][j].request # q
      BY DEF Open, Coming
    <2>3. ASSUME NEW r \in Nodes, NEW j \in Datagrams(arr[r]), arr[r][j].request # None,
                 NEW k \in 1 .. Len(p2), p2[k].request = arr[r][j].request
          PROVE  k = 1 /\ \E i \in 1 .. j - 1 : arr[r][i].kind # "Datagram"
      <3>1. k \in 1 .. Len(p) /\ p2[k] = p[k]
        BY <1>3, <1>5, <2>2, <2>3
      <3> QED BY <2>1, <2>3, <3>1 DEF Answering, p
    <2> QED BY <2>1, <2>3 DEF Answering, p2
  <1>12. Serial(m2, arr)
    <2> SUFFICES ASSUME NEW q2 \in UserRequest, Open(m2, arr, q2)
                 PROVE  /\ q2.op = "read" => m2.reads # << >> /\ q2 = m2.reads[1]
                        /\ q2.op = "length" => q2 = m2.length
      BY DEF Serial
    <2>1. q2 = q \/ Open(m, arr, q2)
      <3>1. InQueue(m2.dg, q2) => q2 = q \/ InQueue(m.dg, q2)
        BY <1>6 DEF InQueue, p, p2
      <3> QED BY <3>1 DEF Open
    <2> QED BY <1>2, <2>1 DEF Keep, Serial
  <1>13. Reads(m2, n) /\ Writes(m2) /\ Fitting(m2)
    BY <1>2 DEF Keep, Reads, Writes, Fitting
  <1> HIDE DEF w2
  <1>14. Keep(m2, w2, arr, n)
    BY <1>1, <1>2, <1>7, <1>9, <1>10, <1>11, <1>12, <1>13 DEF Keep
  <1> QED BY <1>14 DEF m2, w2, x, p

\* What is on its way to the remotes when the handler ends.
OnWire(m) == IF linkUp THEN wire \o m.dg.sent ELSE wire

WireTypes == linkUp \in BOOLEAN /\ wire \in Seq(Message)

LEMMA SameKeeps ==
  ASSUME NEW m, NEW m2, NEW w, NEW arr, NEW n, Keep(m, w, arr, n), Same(m2, m), Writes(m2)
  PROVE  Keep(m2, w, arr, n)
  <1>1. Queued(m2.dg, n)
    BY DEF Keep, Same, Queued
  <1>2. OneOutstanding(m2.dg, w, arr)
    BY DEF Keep, Same, OneOutstanding
  <1>3. Answering(m2.dg, arr, n)
    BY DEF Keep, Same, Answering
  <1>4. Serial(m2, arr)
    BY DEF Keep, Same, Serial, Open, InQueue
  <1>5. Reads(m2, n) /\ Fitting(m2)
    BY DEF Keep, Same, Reads, Fitting
  <1> QED BY <1>1, <1>2, <1>3, <1>4, <1>5 DEF Keep, Same

LEMMA MoreRequests ==
  ASSUME NEW m, NEW w, NEW arr, NEW n, Keep(m, w, arr, n)
  PROVE  Keep(m, w, arr, n + 1)
  <1>1. /\ n \in Nat /\ m \in Machine /\ arr \in [Nodes -> Seq(Incoming)]
        /\ Queued(m.dg, n) /\ Answering(m.dg, arr, n) /\ Reads(m, n)
    BY DEF Keep
  <1>2. Queued(m.dg, n + 1)
    <2>1. \A k \in 1 .. Len(m.dg.pending) : m.dg.pending[k].request.number \in Nat
      <3>1. m.dg.pending \in Seq(Memo)
        BY <1>1 DEF Machine, Service
      <3>2. \A k \in 1 .. Len(m.dg.pending) : m.dg.pending[k] \in Memo
        BY <3>1
      <3> QED BY <3>2 DEF Memo, UserRequest
    <2> QED BY <1>1, <2>1 DEF Queued
  <1>3. Answering(m.dg, arr, n + 1)
    <2>1. ASSUME NEW r \in Nodes, NEW j \in Datagrams(arr[r]), arr[r][j].request # None
          PROVE  arr[r][j].request.number <= n + 1
      <3>1. arr[r][j] \in Incoming /\ arr[r][j].kind = "Datagram"
        BY <1>1 DEF Datagrams
      <3>2. arr[r][j].request \in UserRequest
        BY <2>1, <3>1 DEF Incoming, Took, Refused
      <3>3. arr[r][j].request.number \in Nat /\ arr[r][j].request.number <= n
        BY <1>1, <2>1, <3>2 DEF Answering, UserRequest
      <3> QED BY <1>1, <3>3
    <2> QED BY <1>1, <2>1 DEF Answering
  <1>4. Reads(m, n + 1)
    <2>1. \A k \in 1 .. Len(m.reads) : m.reads[k] \in UserRequest
      BY <1>1 DEF Machine
    <2>2. \A k \in 1 .. Len(m.reads) : m.reads[k].number \in Nat
      BY <2>1 DEF UserRequest
    <2> QED BY <1>1, <2>2 DEF Reads
  <1> QED BY <1>1, <1>2, <1>3, <1>4 DEF Keep

\* A request that is made is not open yet.
LEMMA NewNotOpen ==
  ASSUME NEW m, NEW w, NEW arr, NEW n, Keep(m, w, arr, n),
         NEW q \in UserRequest, q.number = n + 1
  PROVE  ~Open(m, arr, q)
  <1>1. n \in Nat /\ q # None /\ ~(q.number <= n)
    BY NoneApart DEF Keep
  <1>2. ~InQueue(m.dg, q)
    BY <1>1 DEF Keep, Queued, InQueue
  <1>3. ~Coming(arr, q)
    BY <1>1 DEF Keep, Answering, Coming
  <1> QED BY <1>2, <1>3 DEF Open

LEMMA SendKeepsOnWire ==
  ASSUME WireTypes, NEW m, NEW arr, NEW n, Keep(m, OnWire(m), arr, n),
         NEW q \in UserRequest, q.number <= n, ~Open(m, arr, q),
         q.op = "read" => m.reads # << >> /\ q = m.reads[1],
         q.op = "length" => q = m.length
  PROVE  LET m2 == SendRequest(m, q) IN
         /\ Keep(m2, OnWire(m2), arr, n)
         /\ \A r : Replies(m2, r) = Replies(m, r)
  <1> DEFINE m2 == SendRequest(m, q)
             x == MessageOf(MemoOf(q))
  <1>1. m \in Machine /\ m.dg.sent \in Seq(Message)
    BY DEF Keep, Machine, Service
  <1>2. x \in Message /\ x.kind = "Datagram"
    BY MemoOfType, MessageOfType
  <1>3. m2.dg.sent = IF m.dg.pending = << >> THEN Append(m.dg.sent, x) ELSE m.dg.sent
    BY <1>1, SendRequestResult
  <1> HIDE DEF m2, x
  <1>4. wire \o Append(m.dg.sent, x) = Append(wire \o m.dg.sent, x)
    BY SMTT(60), <1>1, <1>2 DEF WireTypes
  <1>5. OnWire(m2) = IF linkUp /\ m.dg.pending = << >> THEN Append(OnWire(m), x) ELSE OnWire(m)
    BY <1>3, <1>4 DEF OnWire
  <1>6. Keep(m2, OnWire(m2), arr, n)
    <2>1. linkUp \in BOOLEAN
      BY DEF WireTypes
    <2> HIDE DEF OnWire
    <2> QED BY <1>5, <2>1, SendKeeps DEF m2, x
  <1>7. \A r : Replies(m2, r) = Replies(m, r)
    <2>1. ASSUME m.dg.pending = << >>
          PROVE  /\ Len(m2.dg.sent) = Len(m.dg.sent) + 1 /\ Len(m.dg.sent) \in Nat
                 /\ \A k \in 1 .. Len(m.dg.sent) : m2.dg.sent[k] = m.dg.sent[k]
                 /\ m2.dg.sent[Len(m.dg.sent) + 1].kind = "Datagram"
      BY <1>1, <1>2, <1>3, <2>1
    <2> QED BY <1>3, <2>1 DEF Replies
  <1> QED BY <1>6, <1>7 DEF m2

-----------------------------------------------------------------------------
(* A user's request. *)

LEMMA ReadKeeps ==
  ASSUME WireTypes, NEW m, NEW arr, NEW n, Keep(m, OnWire(m), arr, n),
         NEW q \in UserRequest, q.number = n + 1, q.op = "read"
  PROVE  LET m2 == requestMemoryRead(m, q) IN
         /\ Keep(m2, OnWire(m2), arr, n + 1)
         /\ \A r : Replies(m2, r) = Replies(m, r)
         /\ m2.length = m.length
  <1> DEFINE m1 == [m EXCEPT !.reads = Append(@, q)]
  <1>1. m \in Machine /\ n \in Nat /\ m.reads \in Seq(UserRequest)
    BY DEF Keep, Machine
  <1>2. /\ m1 \in Machine /\ m1.dg = m.dg /\ m1.reads = Append(m.reads, q)
        /\ m1.writes = m.writes /\ m1.length = m.length /\ m1.called = m.called
    <2>1. Append(m.reads, q) \in Seq(UserRequest)
      BY <1>1
    <2> QED BY <1>1, <2>1 DEF Machine
  <1>3. requestMemoryRead(m, q) = IF Len(m1.reads) = 1 THEN SendRequest(m1, q) ELSE m1
    BY DEF requestMemoryRead, requestMemoryReadNext
  <1> HIDE DEF m1
  <1>4. /\ Len(m1.reads) = Len(m.reads) + 1 /\ m1.reads # << >>
        /\ \A k \in 1 .. Len(m.reads) : m1.reads[k] = m.reads[k]
        /\ m1.reads[Len(m.reads) + 1] = q
        /\ Len(m.reads) \in Nat /\ (m.reads = << >> <=> Len(m.reads) = 0)
    BY <1>1, <1>2
  <1>5. Keep(m, OnWire(m), arr, n + 1)
    BY MoreRequests
  <1>6. OnWire(m1) = OnWire(m) /\ \A r : Replies(m1, r) = Replies(m, r)
    BY <1>2 DEF OnWire, Replies
  <1>7. Keep(m1, OnWire(m1), arr, n + 1)
    <2>1. Serial(m1, arr)
      <3> SUFFICES ASSUME NEW q2 \in UserRequest, Open(m1, arr, q2)
                   PROVE  /\ q2.op = "read" => m1.reads # << >> /\ q2 = m1.reads[1]
                          /\ q2.op = "length" => q2 = m1.length
        BY DEF Serial
      <3>1. Open(m, arr, q2)
        BY <1>2 DEF Open
      <3> QED BY <1>2, <1>4, <3>1 DEF Keep, Serial
    <2>2. Reads(m1, n + 1)
      <3>1. \A k \in 1 .. Len(m1.reads) :
               \/ k \in 1 .. Len(m.reads) /\ m1.reads[k] = m.reads[k]
               \/ m1.reads[k] = q
        BY <1>4
      <3>2. q.number <= n + 1
        BY <1>1
      <3> QED BY <1>5, <3>1, <3>2 DEF Keep, Reads
    <2>3. Writes(m1) /\ Fitting(m1)
      BY <1>2 DEF Keep, Writes, Fitting
    <2> QED BY <1>2, <1>5, <1>6, <2>1, <2>2, <2>3 DEF Keep
  <1>8. CASE Len(m1.reads) = 1
    <2>1. m1.reads[1] = q
      BY <1>4, <1>8
    <2>2. ~Open(m1, arr, q)
      BY <1>2, NewNotOpen DEF Open
    <2>3. q.number <= n + 1
      BY <1>1
    <2>4. SendRequest(m1, q).length = m1.length
      BY <1>2, SendRequestResult
    <2> HIDE DEF OnWire
    <2>5. /\ Keep(SendRequest(m1, q), OnWire(SendRequest(m1, q)), arr, n + 1)
          /\ \A r : Replies(SendRequest(m1, q), r) = Replies(m1, r)
      BY <1>4, <1>7, <2>1, <2>2, <2>3, SendKeepsOnWire
    <2> QED BY <1>2, <1>3, <1>6, <1>8, <2>4, <2>5
  <1>9. CASE Len(m1.reads) # 1
    BY <1>2, <1>3, <1>6, <1>7, <1>9
  <1> QED BY <1>8, <1>9

LEMMA WriteKeeps ==
  ASSUME WireTypes, NEW m, NEW arr, NEW n, Keep(m, OnWire(m), arr, n),
         NEW q \in UserRequest, q.number = n + 1, q.op = "write"
  PROVE  LET m2 == requestMemoryWrite(m, q) IN
         /\ Keep(m2, OnWire(m2), arr, n + 1)
         /\ \A r : Replies(m2, r) = Replies(m, r)
         /\ m2.length = m.length
  <1> DEFINE m1 == [m EXCEPT !.writes = Append(@, q)]
  <1>1. m \in Machine /\ n \in Nat /\ m.writes \in Seq(UserRequest)
    BY DEF Keep, Machine
  <1>2. /\ m1 \in Machine /\ m1.dg = m.dg /\ m1.reads = m.reads
        /\ m1.writes = Append(m.writes, q)
        /\ m1.length = m.length /\ m1.called = m.called
    <2>1. Append(m.writes, q) \in Seq(UserRequest)
      BY <1>1
    <2> QED BY <1>1, <2>1 DEF Machine
  <1>3. requestMemoryWrite(m, q) = SendRequest(m1, q)
    BY DEF requestMemoryWrite
  <1> HIDE DEF m1
  <1>4. OnWire(m1) = OnWire(m) /\ \A r : Replies(m1, r) = Replies(m, r)
    BY <1>2 DEF OnWire, Replies
  <1>5. Keep(m1, OnWire(m1), arr, n + 1)
    <2>1. Same(m1, m)
      BY <1>2 DEF Same
    <2>2. Writes(m1)
      BY <1>1, <1>2 DEF Keep, Writes
    <2> HIDE DEF OnWire
    <2> QED BY <1>4, <2>1, <2>2, MoreRequests, SameKeeps
  <1>6. ~Open(m1, arr, q)
    BY <1>2, NewNotOpen DEF Open
  <1>7. q.number <= n + 1 /\ q.op # "read" /\ q.op # "length"
    BY <1>1
  <1>8. SendRequest(m1, q).length = m1.length
    BY <1>2, SendRequestResult
  <1> HIDE DEF OnWire
  <1>9. /\ Keep(SendRequest(m1, q), OnWire(SendRequest(m1, q)), arr, n + 1)
        /\ \A r : Replies(SendRequest(m1, q), r) = Replies(m1, r)
    BY <1>5, <1>6, <1>7, SendKeepsOnWire
  <1> QED BY <1>2, <1>3, <1>4, <1>8, <1>9

LEMMA LengthKeeps ==
  ASSUME WireTypes, NEW m, NEW arr, NEW n, Keep(m, OnWire(m), arr, n),
         NEW q \in UserRequest, q.number = n + 1, q.op = "length"
  PROVE  LET m2 == requestSpaceLength(m, q) IN
         /\ Keep(m2, OnWire(m2), arr, n + 1)
         /\ \A r : Replies(m2, r) = Replies(m, r)
         /\ m.length # None => m2 = m
  <1>1. CASE m.length # None
    BY <1>1, MoreRequests DEF requestSpaceLength
  <1>2. CASE m.length = None
    <2> DEFINE m1 == [m EXCEPT !.length = q]
    <2>1. m \in Machine /\ n \in Nat
      BY DEF Keep
    <2>2. /\ m1 \in Machine /\ m1.dg = m.dg /\ m1.reads = m.reads
          /\ m1.writes = m.writes /\ m1.length = q /\ m1.called = m.called
      BY <2>1 DEF Machine
    <2>3. requestSpaceLength(m, q) = SendRequest(m1, q)
      BY <1>2 DEF requestSpaceLength
    <2> HIDE DEF m1
    <2>4. OnWire(m1) = OnWire(m) /\ \A r : Replies(m1, r) = Replies(m, r)
      BY <2>2 DEF OnWire, Replies
    <2>5. Keep(m1, OnWire(m1), arr, n + 1)
      <3>1. Serial(m1, arr)
        <4> SUFFICES ASSUME NEW q2 \in UserRequest, Open(m1, arr, q2)
                     PROVE  /\ q2.op = "read" => m1.reads # << >> /\ q2 = m1.reads[1]
                            /\ q2.op = "length" => q2 = m1.length
          BY DEF Serial
        <4>1. Open(m, arr, q2)
          BY <2>2 DEF Open
        <4>2. q2.op # "length"
          BY <1>2, <4>1, NoneApart DEF Keep, Serial
        <4> QED BY <2>2, <4>1, <4>2 DEF Keep, Serial
      <3>2. Keep(m, OnWire(m), arr, n + 1)
        BY MoreRequests
      <3> QED BY <2>2, <2>4, <3>1, <3>2 DEF Keep, Reads, Writes, Fitting
    <2>6. ~Open(m1, arr, q)
      BY <2>2, NewNotOpen DEF Open
    <2>7. q.number <= n + 1
      BY <2>1
    <2> HIDE DEF OnWire
    <2>8. /\ Keep(SendRequest(m1, q), OnWire(SendRequest(m1, q)), arr, n + 1)
          /\ \A r : Replies(SendRequest(m1, q), r) = Replies(m1, r)
      BY <2>2, <2>5, <2>6, <2>7, SendKeepsOnWire
    <2> QED BY <1>2, <2>3, <2>4, <2>8
  <1> QED BY <1>1, <1>2
LEMMA RequestKeeps ==
  ASSUME WireTypes, NEW m, NEW arr, NEW n, Keep(m, OnWire(m), arr, n),
         NEW q \in UserRequest, q.number = n + 1
  PROVE  LET m2 == Request(m, q) IN
         /\ Keep(m2, OnWire(m2), arr, n + 1)
         /\ \A r : Replies(m2, r) = Replies(m, r)
         /\ m.length # None => m2.length = m.length
         /\ \A q2 : Open(m2, arr, q2) => Open(m, arr, q2) \/ q2 = q
  <1>1. m \in Machine
    BY DEF Keep
  <1>2. q.op \in {"read", "write", "length"}
    BY ConstantsAssumption DEF UserRequest
  <1>3. ASSUME NEW m1 \in Machine, m1.dg = m.dg
        PROVE  \A q2 : Open(SendRequest(m1, q), arr, q2) => Open(m, arr, q2) \/ q2 = q
    <2> DEFINE p2 == SendRequest(m1, q).dg.pending
    <2>1. /\ p2 = Append(m.dg.pending, MemoOf(q))
          /\ MemoOf(q) \in Memo /\ MemoOf(q).request = q
          /\ m.dg.pending \in Seq(Memo)
      <3>1. p2 = Append(m1.dg.pending, MemoOf(q))
        BY <1>3, SendRequestResult
      <3>2. MemoOf(q) \in Memo /\ MemoOf(q).request = q
        BY MemoOfType
      <3>3. m.dg.pending \in Seq(Memo)
        BY <1>1 DEF Machine, Service
      <3> QED BY <1>3, <3>1, <3>2, <3>3
    <2> HIDE DEF p2
    <2>2. \A k \in 1 .. Len(p2) : \/ k \in 1 .. Len(m.dg.pending) /\ p2[k] = m.dg.pending[k]
                                  \/ p2[k].request = q
      BY <2>1
    <2> QED BY <2>2 DEF Open, InQueue, p2
  <1>4. CASE q.op = "read"
    <2> DEFINE m1 == [m EXCEPT !.reads = Append(@, q)]
    <2>1. m1 \in Machine /\ m1.dg = m.dg
      <3>1. Append(m.reads, q) \in Seq(UserRequest)
        BY <1>1 DEF Machine
      <3> QED BY <1>1, <3>1 DEF Machine
    <2>2. Request(m, q) = requestMemoryRead(m, q)
      BY <1>4 DEF Request
    <2>3. requestMemoryRead(m, q) = IF Len(m1.reads) = 1 THEN SendRequest(m1, q) ELSE m1
      BY DEF requestMemoryRead, requestMemoryReadNext
    <2> HIDE DEF m1
    <2>4. \A q2 : Open(m1, arr, q2) => Open(m, arr, q2)
      BY <2>1 DEF Open
    <2>5. \A q2 : Open(requestMemoryRead(m, q), arr, q2) => Open(m, arr, q2) \/ q2 = q
      BY <1>3, <2>1, <2>3, <2>4
    <2> HIDE DEF OnWire
    <2> QED BY <1>4, <2>2, <2>5, ReadKeeps
  <1>5. CASE q.op = "write"
    <2> DEFINE m1 == [m EXCEPT !.writes = Append(@, q)]
    <2>1. m1 \in Machine /\ m1.dg = m.dg
      <3>1. Append(m.writes, q) \in Seq(UserRequest)
        BY <1>1 DEF Machine
      <3> QED BY <1>1, <3>1 DEF Machine
    <2>2. Request(m, q) = requestMemoryWrite(m, q)
      BY <1>5 DEF Request
    <2>3. requestMemoryWrite(m, q) = SendRequest(m1, q)
      BY DEF requestMemoryWrite
    <2> HIDE DEF m1, OnWire
    <2> QED BY <1>3, <1>5, <2>1, <2>2, <2>3, WriteKeeps
  <1>6. CASE q.op = "length"
    <2> DEFINE m1 == [m EXCEPT !.length = q]
    <2>1. m1 \in Machine /\ m1.dg = m.dg
      BY <1>1 DEF Machine
    <2>2. Request(m, q) = requestSpaceLength(m, q)
      BY <1>6 DEF Request
    <2>3. requestSpaceLength(m, q) = IF m.length # None THEN m ELSE SendRequest(m1, q)
      BY DEF requestSpaceLength
    <2> HIDE DEF m1, OnWire
    <2>4. \A q2 : Open(requestSpaceLength(m, q), arr, q2) => Open(m, arr, q2) \/ q2 = q
      BY <1>3, <2>1, <2>3
    <2> QED BY <1>6, <2>2, <2>4, LengthKeeps
  <1> QED BY <1>2, <1>4, <1>5, <1>6

-----------------------------------------------------------------------------
(* A datagram of a remote. *)

\* A callback to the request that the remote answered, and the request made in it.
LEMMA CallbackKeeps ==
  ASSUME WireTypes, NEW m, NEW arr, NEW n, Keep(m, OnWire(m), arr, n),
         NEW q \in UserRequest, NEW dg,
         dg.answer \in Answers \cup {"none"}, dg.request \in UserRequest \cup {None},
         q.op \in {"read", "length"} => q = dg.request,
         NEW then \in UserRequest \cup {None}, then # None => then.number = n + 1
  PROVE  LET m2 == Callback(m, q, dg, then) IN
         /\ Keep(m2, OnWire(m2), arr, IF then = None THEN n ELSE n + 1)
         /\ \A r : Replies(m2, r) = Replies(m, r)
         /\ m.length # None => m2.length = m.length
         /\ \A q2 : Open(m2, arr, q2) => Open(m, arr, q2) \/ (then # None /\ q2 = then)
  <1> DEFINE call == [request |-> q, answer |-> dg.answer, of |-> dg.request]
             m1 == [m EXCEPT !.called = Append(@, call)]
  <1>1. m \in Machine /\ m.called \in Seq(Call)
    BY DEF Keep, Machine
  <1>2. call \in Call /\ call.request = q /\ call.of = dg.request
    BY DEF Call
  <1> HIDE DEF call
  <1>3. /\ m1 \in Machine /\ m1.dg = m.dg /\ m1.reads = m.reads /\ m1.writes = m.writes
        /\ m1.length = m.length /\ m1.called = Append(m.called, call)
    <2>1. Append(m.called, call) \in Seq(Call)
      BY <1>1, <1>2
    <2> QED BY <1>1, <2>1 DEF Machine
  <1>4. Callback(m, q, dg, then) = IF then = None THEN m1 ELSE Request(m1, then)
    BY DEF Callback, call
  <1> HIDE DEF m1
  <1>5. Fitting(m1)
    <2>1. \A k \in 1 .. Len(m1.called) :
             \/ k \in 1 .. Len(m.called) /\ m1.called[k] = m.called[k]
             \/ m1.called[k] = call
      BY <1>1, <1>2, <1>3
    <2>2. Fitting(m)
      BY DEF Keep
    <2> QED BY <1>2, <2>1, <2>2 DEF Fitting
  <1>6. /\ OnWire(m1) = OnWire(m)
        /\ \A r : Replies(m1, r) = Replies(m, r)
        /\ \A q2 : Open(m1, arr, q2) <=> Open(m, arr, q2)
    BY <1>3 DEF OnWire, Replies, Open
  <1>7. Keep(m1, OnWire(m1), arr, n)
    <2>1. Serial(m1, arr)
      BY <1>3, <1>6 DEF Keep, Serial
    <2> QED BY <1>3, <1>5, <1>6, <2>1 DEF Keep, Reads, Writes
  <1> HIDE DEF OnWire
  <1>8. CASE then = None
    BY <1>3, <1>4, <1>6, <1>7, <1>8
  <1>9. CASE then # None
    <2>1. then \in UserRequest /\ then.number = n + 1
      BY <1>9
    <2>2. LET m2 == Request(m1, then) IN
          /\ Keep(m2, OnWire(m2), arr, n + 1)
          /\ \A r : Replies(m2, r) = Replies(m1, r)
          /\ m1.length # None => m2.length = m1.length
          /\ \A q2 : Open(m2, arr, q2) => Open(m1, arr, q2) \/ q2 = then
      BY <1>7, <2>1, RequestKeeps
    <2> QED BY <1>3, <1>4, <1>6, <1>9, <2>2
  <1> QED BY <1>8, <1>9

LEMMA ReplyKeeps ==
  ASSUME WireTypes, NEW m, NEW arr, NEW n, Keep(m, OnWire(m), arr, n),
         m.dg.sent = << >>, NEW r \in Nodes,
         NEW m2 \in {Acknowledge(m, r), Refuse(m, r)}
  PROVE  /\ Keep(m2, OnWire(m2), arr, n)
         /\ Same(m2, m) /\ m2.writes = m.writes
         /\ Replies(m2, r) = {1}
  <1>1. m \in Machine
    BY DEF Keep
  <1>2. /\ Same(m2, m) /\ m2.writes = m.writes
        /\ Replies(m2, r) = {1}
    BY <1>1, ReplySent
  <1>3. PICK x \in Message : x.kind # "Datagram" /\ m2.dg.sent = <<x>>
    BY <1>1, ReplySent
  <1>4. Keep(m, OnWire(m2), arr, n)
    <2>1. CASE linkUp
      <3>1. OnWire(m) = wire /\ OnWire(m2) = Append(wire, x)
        BY <1>3, <2>1 DEF OnWire, WireTypes
      <3>2. Keep(m, wire, arr, n)
        BY <3>1
      <3> DEFINE w2 == Append(wire, x)
      <3>3. Datagrams(w2) = Datagrams(wire) /\ w2 \in Seq(Message)
        BY <1>3, DatagramsAppend DEF WireTypes
      <3>4. \A k \in Datagrams(wire) : w2[k] = wire[k]
        BY <1>3 DEF WireTypes, Datagrams
      <3> HIDE DEF w2
      <3> DEFINE head == m.dg.pending[1]
      <3>5. OneOutstanding(m.dg, w2, arr)
        <4>1. OneOutstanding(m.dg, wire, arr)
          BY <3>2 DEF Keep
        <4>2. \A k \in Datagrams(w2) :
                 m.dg.pending # << >> /\ w2[k].memo = head /\ w2[k].node = head.dest
          BY <3>3, <3>4, <4>1 DEF OneOutstanding
        <4>3. \A i, j \in Datagrams(w2) : i = j
          BY <3>3, <4>1 DEF OneOutstanding
        <4>4. \A u \in Nodes : \A i \in 1 .. Len(arr[u]) : arr[u][i].kind # "Datagram" =>
                 /\ m.dg.pending # << >> /\ u = head.dest
                 /\ Datagrams(w2) = {}
                 /\ \A j \in 1 .. Len(arr[u]) : arr[u][j].kind # "Datagram" => i = j
          BY <3>3, <4>1 DEF OneOutstanding
        <4> QED BY <4>2, <4>3, <4>4 DEF OneOutstanding
      <3>6. Keep(m, w2, arr, n)
        BY <3>2, <3>3, <3>5 DEF Keep
      <3> QED BY <3>1, <3>6 DEF w2
    <2>2. CASE ~linkUp
      BY <2>2 DEF OnWire
    <2> QED BY <2>1, <2>2
  <1>5. Writes(m2)
    BY <1>2 DEF Keep, Writes
  <1> HIDE DEF OnWire
  <1> QED BY <1>2, <1>4, <1>5, SameKeeps
LEMMA TailIs ==
  ASSUME NEW s \in Seq(Incoming), s # << >>, NEW t, t = Tail(s)
  PROVE  /\ t \in Seq(Incoming)
         /\ Len(t) = Len(s) - 1 /\ Len(s) \in Nat \ {0}
         /\ \A i \in 1 .. Len(s) - 1 : t[i] = s[i + 1]
         /\ Head(s) = s[1] /\ s[1] \in Incoming
         /\ \A k \in Datagrams(t) : k + 1 \in Datagrams(s) /\ t[k] = s[k + 1]
  <1>1. /\ t \in Seq(Incoming)
        /\ Len(t) = Len(s) - 1 /\ Len(s) \in Nat \ {0}
        /\ \A i \in 1 .. Len(s) - 1 : t[i] = s[i + 1]
        /\ Head(s) = s[1] /\ s[1] \in Incoming
    OBVIOUS
  <1>2. \A k \in Datagrams(t) : k + 1 \in Datagrams(s) /\ t[k] = s[k + 1]
    BY <1>1 DEF Datagrams
  <1> QED BY <1>1, <1>2

\* A datagram is received; the request that it answers is no longer open.
LEMMA TakenKeeps ==
  ASSUME NEW m, NEW w, NEW arr, NEW n, Keep(m, w, arr, n),
         NEW r \in Nodes, arr[r] # << >>, arr[r][1].kind = "Datagram"
  PROVE  LET arr2 == [arr EXCEPT ![r] = Tail(@)] IN
         /\ Keep(m, w, arr2, n)
         /\ arr[r][1].request # None => ~Open(m, arr2, arr[r][1].request)
  <1> DEFINE arr2 == [arr EXCEPT ![r] = Tail(@)]
             q == arr[r][1].request
  <1>1. /\ m \in Machine /\ arr \in [Nodes -> Seq(Incoming)] /\ n \in Nat
        /\ OneOutstanding(m.dg, w, arr) /\ Answering(m.dg, arr, n) /\ Serial(m, arr)
    BY DEF Keep
  <1>2. /\ arr2[r] = Tail(arr[r]) /\ arr2[r] \in Seq(Incoming)
        /\ \A r2 \in Nodes : r2 # r => arr2[r2] = arr[r2]
        /\ arr2 \in [Nodes -> Seq(Incoming)]
    BY <1>1, TailIs
  <1> HIDE DEF arr2
  <1>3. /\ Len(arr2[r]) = Len(arr[r]) - 1 /\ Len(arr[r]) \in Nat \ {0}
        /\ \A i \in 1 .. Len(arr[r]) - 1 : arr2[r][i] = arr[r][i + 1]
        /\ \A k \in Datagrams(arr2[r]) : k + 1 \in Datagrams(arr[r]) /\ arr2[r][k] = arr[r][k + 1]
    <2> DEFINE s == arr[r]
               t == arr2[r]
    <2>1. s \in Seq(Incoming) /\ s # << >> /\ t = Tail(s)
      BY <1>1, <1>2
    <2> HIDE DEF s, t
    <2>2. /\ Len(t) = Len(s) - 1 /\ Len(s) \in Nat \ {0}
          /\ \A i \in 1 .. Len(s) - 1 : t[i] = s[i + 1]
          /\ \A k \in Datagrams(t) : k + 1 \in Datagrams(s) /\ t[k] = s[k + 1]
      BY <2>1, TailIs
    <2> QED BY <2>2 DEF s, t
  <1>4. 1 \in Datagrams(arr[r])
    BY <1>3 DEF Datagrams
  <1>5. OneOutstanding(m.dg, w, arr2)
    <2>1. ASSUME NEW r2 \in Nodes, NEW i \in 1 .. Len(arr2[r2]), arr2[r2][i].kind # "Datagram"
          PROVE  /\ m.dg.pending # << >> /\ r2 = m.dg.pending[1].dest
                 /\ Datagrams(w) = {}
                 /\ \A j \in 1 .. Len(arr2[r2]) : arr2[r2][j].kind # "Datagram" => i = j
      <3>1. CASE r2 = r
        <4>1. /\ i + 1 \in 1 .. Len(arr[r]) /\ arr[r][i + 1].kind # "Datagram"
              /\ \A j \in 1 .. Len(arr2[r]) : j + 1 \in 1 .. Len(arr[r]) /\ arr2[r][j] = arr[r][j + 1]
          BY <1>3, <2>1, <3>1
        <4>2. PICK i1 \in 1 .. Len(arr[r]) : i1 = i + 1
          BY <4>1
        <4>3. /\ m.dg.pending # << >> /\ r = m.dg.pending[1].dest
              /\ Datagrams(w) = {}
              /\ \A j1 \in 1 .. Len(arr[r]) : arr[r][j1].kind # "Datagram" => i1 = j1
          BY <1>1, <4>1, <4>2 DEF OneOutstanding
        <4>4. \A j \in 1 .. Len(arr2[r]) : arr2[r][j].kind # "Datagram" => i + 1 = j + 1
          BY <4>1, <4>2, <4>3
        <4>5. \A j \in 1 .. Len(arr2[r]) : i + 1 = j + 1 => i = j
          BY <3>1
        <4> QED BY <3>1, <4>3, <4>4, <4>5
      <3>2. CASE r2 # r
        BY <1>1, <1>2, <2>1, <3>2 DEF OneOutstanding
      <3> QED BY <3>1, <3>2
    <2> QED BY <1>1, <2>1 DEF OneOutstanding
  <1>6. Answering(m.dg, arr2, n)
    <2> SUFFICES ASSUME NEW r2 \in Nodes, NEW j \in Datagrams(arr2[r2])
                 PROVE  IF arr2[r2][j].request = None THEN arr2[r2][j].content \in Others
                        ELSE /\ arr2[r2][j].request.node = r2
                             /\ arr2[r2][j].request.number <= n
                             /\ arr2[r2][j].content = arr2[r2][j].request.op
                             /\ \A k \in 1 .. Len(m.dg.pending) :
                                   m.dg.pending[k].request = arr2[r2][j].request =>
                                      k = 1 /\ \E i \in 1 .. j - 1 : arr2[r2][i].kind # "Datagram"
                             /\ \A i \in Datagrams(arr2[r2]) :
                                   arr2[r2][i].request = arr2[r2][j].request => i = j
      BY DEF Answering
    <2>1. CASE r2 = r
      <3>1. j + 1 \in Datagrams(arr[r]) /\ arr2[r][j] = arr[r][j + 1] /\ j \in Nat
        BY <1>3, <2>1 DEF Datagrams
      <3>2. IF arr2[r][j].request = None THEN arr2[r][j].content \in Others
            ELSE /\ arr2[r][j].request.node = r
                 /\ arr2[r][j].request.number <= n
                 /\ arr2[r][j].content = arr2[r][j].request.op
        BY <1>1, <3>1 DEF Answering
      <3>3. ASSUME arr2[r][j].request # None,
                   NEW k \in 1 .. Len(m.dg.pending), m.dg.pending[k].request = arr2[r][j].request
            PROVE  k = 1 /\ \E i \in 1 .. j - 1 : arr2[r][i].kind # "Datagram"
        <4> DEFINE j1 == j + 1
        <4>a. j1 \in Datagrams(arr[r]) /\ arr[r][j1] = arr2[r][j]
          BY <3>1
        <4> HIDE DEF j1
        <4>b. k = 1 /\ \E i \in 1 .. j1 - 1 : arr[r][i].kind # "Datagram"
          BY SMTT(60), <1>1, <3>3, <4>a DEF Answering
        <4>1. k = 1 /\ \E i \in 1 .. (j + 1) - 1 : arr[r][i].kind # "Datagram"
          BY <4>b DEF j1
        <4>2. PICK i \in 1 .. (j + 1) - 1 : arr[r][i].kind # "Datagram"
          BY <4>1
        <4>3. j + 1 \in 1 .. Len(arr[r])
          BY <3>1 DEF Datagrams
        <4>4. i # 1 /\ i - 1 \in 1 .. j - 1 /\ i - 1 \in 1 .. Len(arr[r]) - 1
          BY <3>1, <4>2, <4>3
        <4>5. arr2[r][i - 1] = arr[r][i]
          BY <1>3, <4>4
        <4> QED BY <4>1, <4>2, <4>4, <4>5
      <3>4. ASSUME arr2[r][j].request # None,
                   NEW i \in Datagrams(arr2[r]), arr2[r][i].request = arr2[r][j].request
            PROVE  i = j
        <4>1. i + 1 \in Datagrams(arr[r]) /\ arr2[r][i] = arr[r][i + 1] /\ i \in Nat
          BY <1>3 DEF Datagrams
        <4> DEFINE i1 == i + 1
                   j1 == j + 1
        <4>a. /\ i1 \in Datagrams(arr[r]) /\ j1 \in Datagrams(arr[r])
              /\ arr[r][i1] = arr2[r][i] /\ arr[r][j1] = arr2[r][j]
          BY <3>1, <4>1
        <4> HIDE DEF i1, j1
        <4>b. i1 = j1
          BY <1>1, <3>4, <4>a DEF Answering
        <4>2. i + 1 = j + 1
          BY <4>b DEF i1, j1
        <4> QED BY <3>1, <4>1, <4>2
      <3> QED BY <2>1, <3>2, <3>3, <3>4
    <2>2. CASE r2 # r
      <3>1. arr2[r2] = arr[r2] /\ j \in Datagrams(arr[r2])
        BY <1>2, <2>2
      <3> QED BY <1>1, <3>1 DEF Answering
    <2> QED BY <2>1, <2>2
  <1>7. \A q2 : Open(m, arr2, q2) => Open(m, arr, q2)
    <2>1. ASSUME NEW q2, Coming(arr2, q2) PROVE Coming(arr, q2)
      <3>1. PICK r2 \in Nodes : \E j \in Datagrams(arr2[r2]) : arr2[r2][j].request = q2
        BY <2>1 DEF Coming
      <3>2. PICK j \in Datagrams(arr2[r2]) : arr2[r2][j].request = q2
        BY <3>1
      <3>3. CASE r2 = r
        BY <1>3, <3>2, <3>3 DEF Coming
      <3>4. CASE r2 # r
        BY <1>2, <3>2, <3>4 DEF Coming
      <3> QED BY <3>3, <3>4
    <2> QED BY <2>1 DEF Open
  <1>8. Serial(m, arr2)
    BY <1>1, <1>7 DEF Serial
  <1>9. Keep(m, w, arr2, n)
    BY <1>2, <1>5, <1>6, <1>8 DEF Keep
  <1>10. ASSUME q # None PROVE ~Open(m, arr2, q)
    <2>1. /\ q.node = r
          /\ \A k \in 1 .. Len(m.dg.pending) :
                m.dg.pending[k].request = q => \E i \in 1 .. 1 - 1 : arr[r][i].kind # "Datagram"
          /\ \A i \in Datagrams(arr[r]) : arr[r][i].request = q => i = 1
      BY <1>1, <1>4, <1>10 DEF Answering
    <2>2. ~InQueue(m.dg, q)
      BY <2>1 DEF InQueue
    <2>3. ASSUME NEW r2 \in Nodes, NEW j \in Datagrams(arr2[r2]), arr2[r2][j].request = q
          PROVE  FALSE
      <3>1. CASE r2 = r
        <4>1. j + 1 \in Datagrams(arr[r]) /\ arr[r][j + 1].request = q /\ j \in Nat \ {0}
          BY <1>3, <2>3, <3>1 DEF Datagrams
        <4> QED BY <2>1, <4>1
      <3>2. CASE r2 # r
        <4>1. j \in Datagrams(arr[r2]) /\ arr[r2][j].request = q
          BY <1>2, <2>3, <3>2
        <4>2. q.node = r2
          BY <1>1, <1>10, <4>1 DEF Answering
        <4> QED BY <2>1, <3>2, <4>2
      <3> QED BY <3>1, <3>2
    <2> QED BY <2>2, <2>3 DEF Open, Coming
  <1> QED BY <1>9, <1>10 DEF arr2
LEMMA ReadReplyKeeps ==
  ASSUME WireTypes, NEW m, NEW arr, NEW n, Keep(m, OnWire(m), arr, n),
         NEW r \in Nodes, NEW dg,
         dg.answer \in Answers \cup {"none"}, dg.request \in UserRequest,
         dg.request.op = "read", dg.request.node = r, ~Open(m, arr, dg.request),
         m.reads # << >>, m.reads[1] = dg.request,
         NEW then \in UserRequest \cup {None}, then # None => then.number = n + 1
  PROVE  LET m2 == ReadReply(m, r, dg, then) IN
         /\ Keep(m2, OnWire(m2), arr, IF then = None THEN n ELSE n + 1)
         /\ \A r2 : Replies(m2, r2) = Replies(m, r2)
  <1> DEFINE k == FirstFor(m.reads, r)
             m1 == [m EXCEPT !.reads = RemoveAt(@, k)]
             m2 == IF m1.reads = << >> THEN m1 ELSE SendRequest(m1, Head(m1.reads))
  <1>1. m \in Machine /\ m.reads \in Seq(UserRequest) /\ n \in Nat
    BY DEF Keep, Machine
  <1>2. /\ Len(m.reads) \in Nat \ {0}
        /\ k = 1
    <2>1. Len(m.reads) \in Nat \ {0}
      BY <1>1
    <2>2. k \in 0 .. Len(m.reads) /\ (k = 0 => m.reads[1].node # r) /\ (k # 0 => k <= 1)
      BY <1>1, <2>1, FirstForIs
    <2> HIDE DEF k
    <2> QED BY <2>1, <2>2
  <1>3. ReadReply(m, r, dg, then) = Callback(m2, dg.request, dg, then)
    BY <1>2 DEF ReadReply, requestMemoryReadNext
  <1>4. /\ RemoveAt(m.reads, k) \in Seq(UserRequest)
        /\ Len(RemoveAt(m.reads, k)) = Len(m.reads) - 1
        /\ \A i \in 1 .. Len(m.reads) - 1 : RemoveAt(m.reads, k)[i] = m.reads[i + 1]
    <2> HIDE DEF k
    <2>1. k \in 1 .. Len(m.reads) /\ \A i \in 1 .. Len(m.reads) - 1 : ~(i < k)
      BY <1>2
    <2> QED BY <1>1, <2>1, RemoveAtIs
  <1> HIDE DEF k
  <1>5. /\ m1 \in Machine /\ m1.dg = m.dg /\ m1.reads = RemoveAt(m.reads, k)
        /\ m1.writes = m.writes /\ m1.length = m.length /\ m1.called = m.called
    BY <1>1, <1>4 DEF Machine
  <1> HIDE DEF m1
  <1>6. \A q \in UserRequest : Open(m1, arr, q) => q.op # "read"
    BY <1>5 DEF Keep, Serial, Open
  <1>7. Keep(m1, OnWire(m1), arr, n)
    <2>1. OnWire(m1) = OnWire(m)
      BY <1>5 DEF OnWire
    <2>2. Serial(m1, arr)
      BY <1>5, <1>6 DEF Keep, Serial, Open
    <2>3. Reads(m1, n)
      <3>1. \A i \in 1 .. Len(m1.reads) : i + 1 \in 1 .. Len(m.reads) /\ m1.reads[i] = m.reads[i + 1]
        BY <1>2, <1>4, <1>5
      <3> QED BY <3>1 DEF Keep, Reads
    <2>4. Writes(m1) /\ Fitting(m1)
      BY <1>5 DEF Keep, Writes, Fitting
    <2> QED BY <1>5, <2>1, <2>2, <2>3, <2>4 DEF Keep
  <1>8. \A r2 : Replies(m1, r2) = Replies(m, r2)
    BY <1>5 DEF Replies
  <1>9. /\ Keep(m2, OnWire(m2), arr, n)
        /\ \A r2 : Replies(m2, r2) = Replies(m, r2)
    <2>1. CASE m1.reads = << >>
      BY <1>7, <1>8, <2>1
    <2>2. CASE m1.reads # << >>
      <3> DEFINE q == Head(m1.reads)
      <3>1. /\ q = m1.reads[1] /\ q \in UserRequest /\ 1 \in 1 .. Len(m1.reads)
        BY <1>4, <1>5, <2>2
      <3>2. q.op = "read" /\ q.number <= n
        BY <1>7, <3>1 DEF Keep, Reads
      <3>3. ~Open(m1, arr, q)
        BY <1>6, <3>1, <3>2
      <3>4. m2 = SendRequest(m1, q)
        BY <2>2
      <3> HIDE DEF q, m2, OnWire
      <3> QED BY <1>7, <1>8, <2>2, <3>1, <3>2, <3>3, <3>4, SendKeepsOnWire
    <2> QED BY <2>1, <2>2
  <1> HIDE DEF m2, OnWire
  <1>10. LET m3 == Callback(m2, dg.request, dg, then) IN
         /\ Keep(m3, OnWire(m3), arr, IF then = None THEN n ELSE n + 1)
         /\ \A r2 : Replies(m3, r2) = Replies(m2, r2)
    BY <1>9, CallbackKeeps
  <1> QED BY <1>3, <1>9, <1>10

LEMMA WriteReplyKeeps ==
  ASSUME WireTypes, NEW m, NEW arr, NEW n, Keep(m, OnWire(m), arr, n),
         NEW r \in Nodes, NEW dg,
         dg.answer \in Answers \cup {"none"}, dg.request \in UserRequest,
         NEW then \in UserRequest \cup {None}, then # None => then.number = n + 1,
         FirstFor(m.writes, r) = 0 => then = None
  PROVE  LET m2 == WriteReply(m, r, dg, then) IN
         /\ Keep(m2, OnWire(m2), arr, IF then = None THEN n ELSE n + 1)
         /\ \A r2 : Replies(m2, r2) = Replies(m, r2)
  <1> DEFINE k == FirstFor(m.writes, r)
             m1 == [m EXCEPT !.writes = RemoveAt(@, k)]
  <1>1. m \in Machine /\ m.writes \in Seq(UserRequest)
    BY DEF Keep, Machine
  <1>2. k \in 0 .. Len(m.writes)
    BY <1>1, FirstForIs
  <1>3. CASE k = 0
    BY <1>3 DEF WriteReply
  <1>4. CASE k # 0
    <2>1. WriteReply(m, r, dg, then) = Callback(m1, m.writes[k], dg, then)
      BY <1>4 DEF WriteReply
    <2> HIDE DEF k
    <2>2. k \in 1 .. Len(m.writes) /\ Len(m.writes) \in Nat
      BY <1>1, <1>2, <1>4
    <2>3. /\ RemoveAt(m.writes, k) \in Seq(UserRequest)
          /\ Len(RemoveAt(m.writes, k)) = Len(m.writes) - 1
          /\ \A i \in 1 .. Len(m.writes) - 1 :
                RemoveAt(m.writes, k)[i] = IF i < k THEN m.writes[i] ELSE m.writes[i + 1]
      BY <1>1, <2>2, RemoveAtIs
    <2>4. m.writes[k] \in UserRequest /\ m.writes[k].op = "write"
      BY <1>1, <2>2 DEF Keep, Writes
    <2>5. Same(m1, m) /\ m1.writes = RemoveAt(m.writes, k) /\ m1.dg = m.dg
      BY <1>1, <2>3 DEF Same, Machine
    <2> HIDE DEF m1
    <2>6. Writes(m1)
      <3>1. \A i \in 1 .. Len(m1.writes) : \E j \in 1 .. Len(m.writes) : m1.writes[i] = m.writes[j]
        <4> SUFFICES ASSUME NEW i \in 1 .. Len(m1.writes)
                     PROVE  \E j \in 1 .. Len(m.writes) : m1.writes[i] = m.writes[j]
          OBVIOUS
        <4>1. /\ i \in 1 .. Len(m.writes) - 1
              /\ i \in 1 .. Len(m.writes) /\ i + 1 \in 1 .. Len(m.writes)
              /\ m1.writes[i] = IF i < k THEN m.writes[i] ELSE m.writes[i + 1]
          BY <2>2, <2>3, <2>5
        <4> QED BY <4>1
      <3> QED BY <3>1 DEF Keep, Writes
    <2>7. OnWire(m1) = OnWire(m) /\ \A r2 : Replies(m1, r2) = Replies(m, r2)
      BY <2>5 DEF OnWire, Replies
    <2> HIDE DEF OnWire
    <2>8. Keep(m1, OnWire(m1), arr, n)
      BY <2>5, <2>6, <2>7, SameKeeps
    <2> DEFINE q == m.writes[k]
    <2>9. q \in UserRequest /\ q.op \notin {"read", "length"}
      BY <2>4
    <2> HIDE DEF q
    <2>10. LET m3 == Callback(m1, q, dg, then) IN
           /\ Keep(m3, OnWire(m3), arr, IF then = None THEN n ELSE n + 1)
           /\ \A r2 : Replies(m3, r2) = Replies(m1, r2)
      BY <2>8, <2>9, CallbackKeeps
    <2> QED BY <2>1, <2>7, <2>10 DEF q
  <1> QED BY <1>3, <1>4

LEMMA LengthReplyKeeps ==
  ASSUME WireTypes, NEW m, NEW arr, NEW n, Keep(m, OnWire(m), arr, n),
         NEW dg,
         dg.answer \in Answers \cup {"none"}, dg.request \in UserRequest,
         dg.request.number <= n, ~Open(m, arr, dg.request), m.length = dg.request,
         NEW then \in UserRequest \cup {None}, then # None => then.number = n + 1
  PROVE  LET m2 == LengthReply(m, dg, then) IN
         /\ Keep(m2, OnWire(m2), arr, IF then = None THEN n ELSE n + 1)
         /\ \A r2 : Replies(m2, r2) = Replies(m, r2)
  <1> DEFINE q == dg.request
             m2 == Callback(m, q, dg, then)
             m3 == [m2 EXCEPT !.length = None]
             n2 == IF then = None THEN n ELSE n + 1
  <1>1. n \in Nat /\ q # None /\ q \in UserRequest
    BY NoneApart DEF Keep
  <1>2. LengthReply(m, dg, then) = m3
    BY <1>1 DEF LengthReply
  <1>3. /\ Keep(m2, OnWire(m2), arr, n2)
        /\ \A r2 : Replies(m2, r2) = Replies(m, r2)
        /\ m2.length = q
        /\ \A q2 : Open(m2, arr, q2) => Open(m, arr, q2) \/ (then # None /\ q2 = then)
    <2> HIDE DEF OnWire, q
    <2>1. q = dg.request
      BY DEF q
    <2> QED BY <1>1, <2>1, CallbackKeeps
  <1>4. ~Open(m2, arr, q)
    <2>1. then # None => q # then
      BY <1>1
    <2> QED BY <1>3, <2>1
  <1> HIDE DEF m2, q, n2
  <1>5. m2 \in Machine
    BY <1>3 DEF Keep
  <1>6. /\ m3 \in Machine /\ m3.dg = m2.dg /\ m3.reads = m2.reads /\ m3.writes = m2.writes
        /\ m3.length = None /\ m3.called = m2.called
    BY <1>5 DEF Machine
  <1> HIDE DEF m3
  <1>7. OnWire(m3) = OnWire(m2) /\ \A r2 : Replies(m3, r2) = Replies(m2, r2)
    BY <1>6 DEF OnWire, Replies
  <1>8. Serial(m3, arr)
    <2> SUFFICES ASSUME NEW q2 \in UserRequest, Open(m3, arr, q2)
                 PROVE  /\ q2.op = "read" => m3.reads # << >> /\ q2 = m3.reads[1]
                        /\ q2.op = "length" => q2 = m3.length
      BY DEF Serial
    <2>1. Open(m2, arr, q2)
      BY <1>6 DEF Open
    <2> QED BY <1>3, <1>4, <1>6, <2>1 DEF Keep, Serial
  <1>9. Reads(m3, n2) /\ Writes(m3) /\ Fitting(m3)
    BY <1>3, <1>6 DEF Keep, Reads, Writes, Fitting
  <1>10. Keep(m3, OnWire(m3), arr, n2)
    BY <1>3, <1>6, <1>7, <1>8, <1>9 DEF Keep
  <1> HIDE DEF OnWire
  <1> QED BY <1>2, <1>3, <1>7, <1>10 DEF n2
\* A datagram is received and handled, and there is one reply to it.
LEMMA ListenerKeeps ==
  ASSUME WireTypes, NEW m, NEW arr, NEW n, Keep(m, OnWire(m), arr, n),
         m.dg.sent = << >>,
         NEW r \in Nodes, arr[r] # << >>, arr[r][1].kind = "Datagram",
         NEW then \in UserRequest \cup {None}, then # None => then.number = n + 1,
         then # None => datagramReceivedListener(m, r, arr[r][1], then).called # m.called
  PROVE  LET m2 == datagramReceivedListener(m, r, arr[r][1], then) IN
         /\ Keep(m2, OnWire(m2), [arr EXCEPT ![r] = Tail(@)], IF then = None THEN n ELSE n + 1)
         /\ Replies(m2, r) = {1}
  <1> DEFINE dg == arr[r][1]
             arr2 == [arr EXCEPT ![r] = Tail(@)]
             m2 == datagramReceivedListener(m, r, dg, then)
             Goal == /\ Keep(m2, OnWire(m2), arr2, IF then = None THEN n ELSE n + 1)
                     /\ Replies(m2, r) = {1}
  <1>1. /\ dg.kind = "Datagram" /\ dg.content \in Operations \cup Others
        /\ dg.answer \in Answers \cup {"none"} /\ dg.request \in UserRequest \cup {None}
    <2>1. arr \in [Nodes -> Seq(Incoming)]
      BY DEF Keep
    <2>2. dg \in Incoming
      BY <2>1, TailIs
    <2> HIDE DEF dg
    <2>3. dg.kind = "Datagram"
      BY DEF dg
    <2> QED BY <2>2, <2>3 DEF Incoming, Took, Refused
  <1>2. /\ dg.request = None => dg.content \in Others
        /\ dg.request # None => /\ dg.request.node = r
                                /\ dg.request.number <= n
                                /\ dg.content = dg.request.op
                                /\ Open(m, arr, dg.request)
    <2>1. 1 \in Datagrams(arr[r])
      <3>1. arr[r] \in Seq(Incoming)
        BY DEF Keep
      <3>2. Len(arr[r]) \in Nat \ {0}
        BY <3>1
      <3> QED BY <3>2 DEF Datagrams
    <2> QED BY <2>1 DEF Keep, Answering, Open, Coming
  <1>3. /\ Keep(m, OnWire(m), arr2, n)
        /\ dg.request # None => ~Open(m, arr2, dg.request)
    <2> HIDE DEF OnWire
    <2> QED BY TakenKeeps
  <1>4. Serial(m, arr)
    BY DEF Keep
  <1> HIDE DEF dg, arr2
  <1>5. ASSUME NEW m1 \in {Acknowledge(m, r), Refuse(m, r)}
        PROVE  /\ Keep(m1, OnWire(m1), arr2, n)
               /\ Same(m1, m) /\ m1.writes = m.writes
               /\ Replies(m1, r) = {1}
    <2> HIDE DEF OnWire
    <2> QED BY <1>3, ReplyKeeps
  <1> DEFINE m1 == Acknowledge(m, r)
  <1>6. /\ Keep(m1, OnWire(m1), arr2, n)
        /\ m1.dg.pending = m.dg.pending /\ m1.reads = m.reads /\ m1.length = m.length
        /\ m1.called = m.called
        /\ Replies(m1, r) = {1}
    <2> HIDE DEF OnWire
    <2> QED BY <1>5 DEF Same
  <1>7. dg.request # None => ~Open(m1, arr2, dg.request)
    BY <1>3, <1>6 DEF Open, InQueue
  <1> HIDE DEF m1, OnWire
  <1>8. then # None => m2.called # m.called
    BY DEF dg
  <1>9. CASE dg.content \in {"Unknown", "Short"}
    <2>1. m2 = Refuse(m, r)
      BY <1>9 DEF datagramReceivedListener
    <2>2. then = None
      BY <1>5, <1>8, <2>1 DEF Same
    <2> HIDE DEF m2
    <2>3. Goal
      BY <1>5, <2>1, <2>2
    <2> QED BY <2>3 DEF dg, arr2, m2
  <1>10. CASE dg.content = "Unexpected"
    <2>1. m2 = m1
      BY <1>10 DEF datagramReceivedListener, m1
    <2>2. then = None
      BY <1>6, <1>8, <2>1
    <2> HIDE DEF m2
    <2>3. Goal
      BY <1>6, <2>1, <2>2
    <2> QED BY <2>3 DEF dg, arr2, m2
  <1>11. CASE dg.content \in {"read", "write", "length"}
    <2>1. /\ dg.request # None /\ dg.request \in UserRequest /\ dg.content = dg.request.op
          /\ dg.request.node = r /\ dg.request.number <= n
          /\ Open(m, arr, dg.request)
      BY <1>1, <1>2, <1>11, ConstantsAssumption
    <2>2. CASE dg.content = "read"
      <3>1. m2 = ReadReply(m1, r, dg, then)
        BY <2>2 DEF datagramReceivedListener, m1
      <3>2. m1.reads # << >> /\ m1.reads[1] = dg.request
        BY <1>4, <1>6, <2>1, <2>2 DEF Serial
      <3>a. dg.request.op = "read" /\ ~Open(m1, arr2, dg.request)
        BY <1>7, <2>1, <2>2
      <3> HIDE DEF m2
      <3>b. /\ Keep(m2, OnWire(m2), arr2, IF then = None THEN n ELSE n + 1)
            /\ \A r2 : Replies(m2, r2) = Replies(m1, r2)
        BY <1>1, <1>6, <2>1, <3>1, <3>2, <3>a, ReadReplyKeeps
      <3>3. Goal
        BY <1>6, <3>b
      <3> QED BY <3>3 DEF dg, arr2, m2
    <2>3. CASE dg.content = "write"
      <3>1. m2 = WriteReply(m1, r, dg, then)
        BY <2>3 DEF datagramReceivedListener, m1
      <3>2. FirstFor(m1.writes, r) = 0 => then = None
        BY <1>6, <1>8, <3>1 DEF WriteReply
      <3> HIDE DEF m2
      <3>3. Goal
        BY <1>1, <1>6, <2>1, <3>1, <3>2, WriteReplyKeeps
      <3> QED BY <3>3 DEF dg, arr2, m2
    <2>4. CASE dg.content = "length"
      <3>1. m2 = LengthReply(m1, dg, then)
        BY <2>4 DEF datagramReceivedListener, m1
      <3>2. m1.length = dg.request
        BY <1>4, <1>6, <2>1, <2>4 DEF Serial
      <3> HIDE DEF m2
      <3>3. Goal
        BY <1>1, <1>6, <1>7, <2>1, <3>1, <3>2, LengthReplyKeeps
      <3> QED BY <3>3 DEF dg, arr2, m2
    <2> QED BY <1>11, <2>2, <2>3, <2>4
  <1>12. dg.content \in {"Unknown", "Short", "Unexpected", "read", "write", "length"}
    BY <1>1, ConstantsAssumption
  <1> QED BY <1>9, <1>10, <1>11, <1>12

-----------------------------------------------------------------------------
(* What the remotes do. *)

LEMMA AppendIs ==
  ASSUME NEW s \in Seq(Incoming), NEW x \in Incoming, NEW t, t = Append(s, x)
  PROVE  /\ t \in Seq(Incoming)
         /\ Len(t) = Len(s) + 1 /\ Len(s) \in Nat
         /\ \A i \in 1 .. Len(s) : t[i] = s[i]
         /\ t[Len(s) + 1] = x
         /\ Datagrams(s) \subseteq 1 .. Len(s)
         /\ x.kind = "Datagram" => Datagrams(t) = Datagrams(s) \cup {Len(s) + 1}
         /\ x.kind # "Datagram" => Datagrams(t) = Datagrams(s)
  <1>1. /\ t \in Seq(Incoming)
        /\ Len(t) = Len(s) + 1 /\ Len(s) \in Nat
        /\ \A i \in 1 .. Len(s) : t[i] = s[i]
        /\ t[Len(s) + 1] = x
    OBVIOUS
  <1>2. /\ x.kind = "Datagram" => Datagrams(t) = Datagrams(s) \cup {Len(s) + 1}
        /\ x.kind # "Datagram" => Datagrams(t) = Datagrams(s)
    BY DatagramsAppend
  <1> QED BY <1>1, <1>2 DEF Datagrams

\* Message x of remote r is on its way.
Arrived(arr, r, x, arr2) ==
    /\ arr2 \in [Nodes -> Seq(Incoming)]
    /\ \A r2 \in Nodes : r2 # r => arr2[r2] = arr[r2]
    /\ Len(arr2[r]) = Len(arr[r]) + 1 /\ Len(arr[r]) \in Nat
    /\ \A i \in 1 .. Len(arr[r]) : arr2[r][i] = arr[r][i]
    /\ arr2[r][Len(arr[r]) + 1] = x
    /\ Datagrams(arr[r]) \subseteq 1 .. Len(arr[r])
    /\ x.kind = "Datagram" => Datagrams(arr2[r]) = Datagrams(arr[r]) \cup {Len(arr[r]) + 1}
    /\ x.kind # "Datagram" => Datagrams(arr2[r]) = Datagrams(arr[r])

LEMMA ArrivesIs ==
  ASSUME NEW arr \in [Nodes -> Seq(Incoming)], NEW r \in Nodes, NEW x \in Incoming,
         NEW arr2, arr2 = [arr EXCEPT ![r] = Append(@, x)]
  PROVE  Arrived(arr, r, x, arr2)
  <1> DEFINE s == arr[r]
             t == arr2[r]
  <1>1. /\ s \in Seq(Incoming) /\ t = Append(s, x)
        /\ arr2 \in [Nodes -> Seq(Incoming)]
        /\ \A r2 \in Nodes : r2 # r => arr2[r2] = arr[r2]
    OBVIOUS
  <1> HIDE DEF s, t
  <1>2. Len(t) = Len(s) + 1 /\ Len(s) \in Nat
    BY <1>1, AppendIs
  <1>3. (\A i \in 1 .. Len(s) : t[i] = s[i]) /\ t[Len(s) + 1] = x
    BY <1>1, AppendIs
  <1>4. Datagrams(s) \subseteq 1 .. Len(s)
    BY <1>1, AppendIs
  <1>5. /\ x.kind = "Datagram" => Datagrams(t) = Datagrams(s) \cup {Len(s) + 1}
        /\ x.kind # "Datagram" => Datagrams(t) = Datagrams(s)
    BY <1>1, AppendIs
  <1> QED BY <1>1, <1>2, <1>3, <1>4, <1>5 DEF s, t, Arrived

\* A message of a remote is taken from what is on its way to it.
LEMMA TakenIs ==
  ASSUME NEW w \in Seq(Message), NEW k \in 1 .. Len(w), NEW w2, w2 = RemoveAt(w, k)
  PROVE  /\ w2 \in Seq(Message)
         /\ \A i \in Datagrams(w2) :
               \E j \in Datagrams(w) : j = (IF i < k THEN i ELSE i + 1) /\ w2[i] = w[j]
  <1>1. /\ w2 \in Seq(Message) /\ Len(w2) = Len(w) - 1 /\ Len(w) \in Nat
        /\ \A i \in 1 .. Len(w) - 1 : w2[i] = IF i < k THEN w[i] ELSE w[i + 1]
    BY SMTT(60), RemoveAtIs
  <1>2. ASSUME NEW i \in Datagrams(w2)
        PROVE  \E j \in Datagrams(w) : j = (IF i < k THEN i ELSE i + 1) /\ w2[i] = w[j]
    <2>1. i \in 1 .. Len(w) - 1 /\ w2[i].kind = "Datagram"
      BY <1>1 DEF Datagrams
    <2> DEFINE j == IF i < k THEN i ELSE i + 1
    <2>2. j \in 1 .. Len(w) /\ w2[i] = w[j]
      BY <1>1, <2>1
    <2> HIDE DEF j
    <2>3. j \in Datagrams(w)
      BY <2>1, <2>2 DEF Datagrams
    <2> QED BY <2>2, <2>3 DEF j
  <1> QED BY <1>1, <1>2

\* The remote replies to the datagram of a request.
LEMMA TookKeeps ==
  ASSUME NEW m, NEW w, NEW arr, NEW n, Keep(m, w, arr, n), NEW r \in Nodes,
         NEW k \in Datagrams(w), w[k].node = r, NEW x \in Incoming, x.kind # "Datagram"
  PROVE  LET w2 == RemoveAt(w, k)
             arr2 == [arr EXCEPT ![r] = Append(@, x)]
         IN
         /\ Keep(m, w2, arr2, n)
         /\ m.dg.pending # << >> /\ w[k].memo = m.dg.pending[1] /\ m.dg.pending[1].dest = r
         /\ arr2[r][Len(arr2[r])].kind # "Datagram"
         /\ ~Coming(arr2, m.dg.pending[1].request)
  <1> DEFINE w2 == RemoveAt(w, k)
             arr2 == [arr EXCEPT ![r] = Append(@, x)]
             p == m.dg.pending
  <1>1. /\ m \in Machine /\ w \in Seq(Message) /\ arr \in [Nodes -> Seq(Incoming)] /\ n \in Nat
        /\ OneOutstanding(m.dg, w, arr) /\ Answering(m.dg, arr, n) /\ Serial(m, arr)
    BY DEF Keep
  <1>2. x \in Incoming /\ x.kind # "Datagram"
    OBVIOUS
  <1>3. /\ p # << >> /\ w[k].memo = p[1] /\ p[1].dest = r
        /\ \A r2 \in Nodes : \A i \in 1 .. Len(arr[r2]) : arr[r2][i].kind = "Datagram"
    BY <1>1 DEF OneOutstanding
  <1>4. k \in 1 .. Len(w)
    BY DEF Datagrams
  <1>5. w2 \in Seq(Message) /\ Datagrams(w2) = {}
    <2>1. /\ w2 \in Seq(Message)
          /\ \A i \in Datagrams(w2) : \E j \in Datagrams(w) : j = (IF i < k THEN i ELSE i + 1)
      BY <1>1, <1>4, TakenIs
    <2>2. \A i \in Datagrams(w2) : i \in Nat
      BY DEF Datagrams
    <2>3. \A j \in Datagrams(w) : j = k
      BY <1>1 DEF OneOutstanding
    <2> HIDE DEF w2
    <2>4. k \in Nat
      BY <1>4
    <2>5. ASSUME NEW i \in Datagrams(w2) PROVE FALSE
      <3>1. PICK j \in Datagrams(w) : j = (IF i < k THEN i ELSE i + 1)
        BY <2>1
      <3>2. j = k /\ i \in Nat
        BY <2>2, <2>3
      <3> QED BY <2>4, <3>1, <3>2
    <2> QED BY <2>1, <2>5
  <1>a. arr2 = [arr EXCEPT ![r] = Append(@, x)] /\ arr \in [Nodes -> Seq(Incoming)]
    BY <1>1
  <1> HIDE DEF w2, arr2, p
  <1>b. Arrived(arr, r, x, arr2)
    BY <1>a, <1>2, ArrivesIs
  <1>6. /\ arr2 \in [Nodes -> Seq(Incoming)]
        /\ \A r2 \in Nodes : r2 # r => arr2[r2] = arr[r2]
    BY <1>b DEF Arrived
  <1>7. /\ Len(arr2[r]) = Len(arr[r]) + 1 /\ Len(arr[r]) \in Nat
        /\ \A i \in 1 .. Len(arr[r]) : arr2[r][i] = arr[r][i]
        /\ arr2[r][Len(arr[r]) + 1] = x
        /\ Datagrams(arr[r]) \subseteq 1 .. Len(arr[r])
        /\ Datagrams(arr2[r]) = Datagrams(arr[r])
    BY <1>b, <1>2 DEF Arrived
  <1>8. \A r2 \in Nodes : /\ Datagrams(arr2[r2]) = Datagrams(arr[r2])
                          /\ \A j \in Datagrams(arr[r2]) : arr2[r2][j] = arr[r2][j]
    <2>1. /\ Datagrams(arr2[r]) = Datagrams(arr[r])
          /\ \A j \in Datagrams(arr[r]) : arr2[r][j] = arr[r][j]
      BY <1>7
    <2>2. \A r2 \in Nodes : r2 # r => arr2[r2] = arr[r2]
      BY <1>6
    <2> QED BY <2>1, <2>2
  <1>9. OneOutstanding(m.dg, w2, arr2)
    <2>1. ASSUME NEW r2 \in Nodes, NEW i \in 1 .. Len(arr2[r2]), arr2[r2][i].kind # "Datagram"
          PROVE  r2 = r /\ i = Len(arr[r]) + 1
      <3>1. r2 = r
        BY <1>3, <1>6, <2>1
      <3>2. i \notin 1 .. Len(arr[r])
        BY <1>3, <1>7, <2>1, <3>1
      <3> QED BY <1>7, <2>1, <3>1, <3>2
    <2> QED BY <1>3, <1>5, <2>1 DEF OneOutstanding, p
  <1>10. \A q2 : Coming(arr2, q2) <=> Coming(arr, q2)
    BY <1>8 DEF Coming
  <1>11. ~Coming(arr2, p[1].request)
    <2>1. p \in Seq(Memo)
      BY <1>1 DEF p, Machine, Service
    <2>2. 1 \in 1 .. Len(p) /\ p[1] \in Memo
      BY <1>3, <2>1
    <2>3. p[1].request # None
      BY <2>2, NoneApart DEF Memo
    <2>4. ASSUME NEW r2 \in Nodes, NEW j \in Datagrams(arr[r2]), arr[r2][j].request = p[1].request
          PROVE  FALSE
      <3>1. \E i \in 1 .. j - 1 : arr[r2][i].kind # "Datagram"
        BY <1>1, <2>2, <2>3, <2>4 DEF Answering, p
      <3>2. j \in 1 .. Len(arr[r2]) /\ Len(arr[r2]) \in Nat
        BY <1>1 DEF Datagrams
      <3> QED BY <1>3, <3>1, <3>2
    <2> QED BY <1>10, <2>4 DEF Coming
  <1>12. Answering(m.dg, arr2, n)
    <2> SUFFICES ASSUME NEW r2 \in Nodes, NEW j \in Datagrams(arr2[r2])
                 PROVE  IF arr2[r2][j].request = None THEN arr2[r2][j].content \in Others
                        ELSE /\ arr2[r2][j].request.node = r2
                             /\ arr2[r2][j].request.number <= n
                             /\ arr2[r2][j].content = arr2[r2][j].request.op
                             /\ \A i \in 1 .. Len(m.dg.pending) :
                                   m.dg.pending[i].request = arr2[r2][j].request =>
                                      i = 1 /\ \E i2 \in 1 .. j - 1 : arr2[r2][i2].kind # "Datagram"
                             /\ \A i \in Datagrams(arr2[r2]) :
                                   arr2[r2][i].request = arr2[r2][j].request => i = j
      BY DEF Answering
    <2>1. j \in Datagrams(arr[r2]) /\ arr2[r2][j] = arr[r2][j]
      BY <1>8
    <2>2. arr[r2][j].request # None =>
             \A i \in 1 .. Len(m.dg.pending) : m.dg.pending[i].request # arr[r2][j].request
      <3>1. ~ \E i2 \in 1 .. j - 1 : arr[r2][i2].kind # "Datagram"
        <4>1. j \in 1 .. Len(arr[r2]) /\ Len(arr[r2]) \in Nat
          BY <1>1, <2>1 DEF Datagrams
        <4> QED BY <1>3, <4>1
      <3> QED BY <1>1, <2>1, <3>1 DEF Answering
    <2>3. CASE arr[r2][j].request = None
      BY <1>1, <2>1, <2>3 DEF Answering
    <2>4. CASE arr[r2][j].request # None
      <3>1. /\ arr[r2][j].request.node = r2
            /\ arr[r2][j].request.number <= n
            /\ arr[r2][j].content = arr[r2][j].request.op
            /\ \A i \in Datagrams(arr[r2]) : arr[r2][i].request = arr[r2][j].request => i = j
        BY <1>1, <2>1, <2>4 DEF Answering
      <3>2. \A i \in Datagrams(arr2[r2]) : i \in Datagrams(arr[r2]) /\ arr2[r2][i] = arr[r2][i]
        BY <1>8
      <3> QED BY <2>1, <2>2, <2>4, <3>1, <3>2
    <2> QED BY <2>3, <2>4
  <1>13. Serial(m, arr2)
    BY <1>1, <1>10 DEF Serial, Open
  <1>14. Keep(m, w2, arr2, n)
    BY <1>5, <1>6, <1>9, <1>12, <1>13 DEF Keep
  <1>15. arr2[r][Len(arr2[r])].kind # "Datagram"
    BY <1>2, <1>7
  <1> QED BY <1>3, <1>7, <1>11, <1>14, <1>15 DEF w2, arr2, p
\* A datagram of a remote: the reply to the outstanding request after the reply to
\* its datagram, or one that answers no request.
LEMMA DatagramKeeps ==
  ASSUME NEW m, NEW w, NEW arr, NEW n, Keep(m, w, arr, n), NEW r \in Nodes,
         NEW x \in Incoming, x.kind = "Datagram",
         \/ x.request = None /\ x.content \in Others
         \/ /\ m.dg.pending # << >> /\ x.request = m.dg.pending[1].request
            /\ m.dg.pending[1].dest = r
            /\ x.content = x.request.op
            /\ arr[r] # << >> /\ arr[r][Len(arr[r])].kind # "Datagram"
            /\ ~Coming(arr, x.request)
  PROVE  Keep(m, w, [arr EXCEPT ![r] = Append(@, x)], n)
  <1> DEFINE arr2 == [arr EXCEPT ![r] = Append(@, x)]
             p == m.dg.pending
             Answers2 == /\ p # << >> /\ x.request = p[1].request /\ p[1].dest = r
                         /\ x.content = x.request.op
                         /\ arr[r] # << >> /\ arr[r][Len(arr[r])].kind # "Datagram"
                         /\ ~Coming(arr, x.request)
  <1>1. /\ m \in Machine /\ w \in Seq(Message) /\ arr \in [Nodes -> Seq(Incoming)] /\ n \in Nat
        /\ Queued(m.dg, n)
        /\ OneOutstanding(m.dg, w, arr) /\ Answering(m.dg, arr, n) /\ Serial(m, arr)
    BY DEF Keep
  <1>2. Arrived(arr, r, x, arr2)
    BY <1>1, ArrivesIs
  <1>3. (x.request = None /\ x.content \in Others) \/ Answers2
    OBVIOUS
  <1> HIDE DEF arr2
  <1>4. /\ arr2 \in [Nodes -> Seq(Incoming)]
        /\ \A r2 \in Nodes : r2 # r => arr2[r2] = arr[r2]
    BY <1>2 DEF Arrived
  <1>5. /\ Len(arr2[r]) = Len(arr[r]) + 1 /\ Len(arr[r]) \in Nat
        /\ \A i \in 1 .. Len(arr[r]) : arr2[r][i] = arr[r][i]
        /\ arr2[r][Len(arr[r]) + 1] = x
        /\ Datagrams(arr[r]) \subseteq 1 .. Len(arr[r])
        /\ Datagrams(arr2[r]) = Datagrams(arr[r]) \cup {Len(arr[r]) + 1}
    BY <1>2 DEF Arrived
  <1>6. \A r2 \in Nodes : \A j \in Datagrams(arr2[r2]) :
           \/ r2 = r /\ j = Len(arr[r]) + 1 /\ arr2[r2][j] = x
           \/ j \in Datagrams(arr[r2]) /\ arr2[r2][j] = arr[r2][j]
    <2>1. \A j \in Datagrams(arr2[r]) :
             \/ j = Len(arr[r]) + 1 /\ arr2[r][j] = x
             \/ j \in Datagrams(arr[r]) /\ arr2[r][j] = arr[r][j]
      BY <1>5
    <2> QED BY <1>4, <2>1
  <1>7. p \in Seq(Memo) /\ (p # << >> => 1 \in 1 .. Len(p) /\ p[1] \in Memo)
    BY <1>1 DEF p, Machine, Service
  <1> HIDE DEF p
  <1>8. Answers2 => /\ x.request \in UserRequest /\ x.request # None
                    /\ x.request.node = r /\ x.request.number <= n
    BY <1>1, <1>7, NoneApart DEF p, Memo, Queued
  <1>9. OneOutstanding(m.dg, w, arr2)
    <2>1. \A r2 \in Nodes : \A i \in 1 .. Len(arr2[r2]) :
             arr2[r2][i].kind # "Datagram" => i \in 1 .. Len(arr[r2]) /\ arr2[r2][i] = arr[r2][i]
      <3>1. \A i \in 1 .. Len(arr2[r]) :
               arr2[r][i].kind # "Datagram" => i \in 1 .. Len(arr[r]) /\ arr2[r][i] = arr[r][i]
        BY <1>5
      <3> QED BY <1>4, <3>1
    <2>2. ASSUME NEW r2 \in Nodes, NEW i \in 1 .. Len(arr2[r2]), arr2[r2][i].kind # "Datagram"
          PROVE  /\ m.dg.pending # << >> /\ r2 = m.dg.pending[1].dest
                 /\ Datagrams(w) = {}
                 /\ \A j \in 1 .. Len(arr2[r2]) : arr2[r2][j].kind # "Datagram" => i = j
      <3>1. i \in 1 .. Len(arr[r2]) /\ arr[r2][i].kind # "Datagram"
        BY <2>1, <2>2
      <3>2. /\ m.dg.pending # << >> /\ r2 = m.dg.pending[1].dest
            /\ Datagrams(w) = {}
            /\ \A j \in 1 .. Len(arr[r2]) : arr[r2][j].kind # "Datagram" => i = j
        BY <1>1, <3>1 DEF OneOutstanding
      <3>3. \A j \in 1 .. Len(arr2[r2]) : arr2[r2][j].kind # "Datagram" =>
               j \in 1 .. Len(arr[r2]) /\ arr[r2][j].kind # "Datagram"
        BY <2>1
      <3> QED BY <3>2, <3>3
    <2> QED BY <1>1, <2>2 DEF OneOutstanding
  <1>10. Answering(m.dg, arr2, n)
    <2> SUFFICES ASSUME NEW r2 \in Nodes, NEW j \in Datagrams(arr2[r2])
                 PROVE  IF arr2[r2][j].request = None THEN arr2[r2][j].content \in Others
                        ELSE /\ arr2[r2][j].request.node = r2
                             /\ arr2[r2][j].request.number <= n
                             /\ arr2[r2][j].content = arr2[r2][j].request.op
                             /\ \A k \in 1 .. Len(m.dg.pending) :
                                   m.dg.pending[k].request = arr2[r2][j].request =>
                                      k = 1 /\ \E i \in 1 .. j - 1 : arr2[r2][i].kind # "Datagram"
                             /\ \A i \in Datagrams(arr2[r2]) :
                                   arr2[r2][i].request = arr2[r2][j].request => i = j
      BY DEF Answering
    <2>1. CASE r2 = r /\ j = Len(arr[r]) + 1 /\ arr2[r2][j] = x
      <3>1. CASE x.request = None /\ x.content \in Others
        BY <2>1, <3>1
      <3>2. CASE Answers2
        <4>1. \A k \in 1 .. Len(p) : p[k].request = x.request => k = 1
          BY <1>1, <1>7, <3>2 DEF Queued, p
        <4>2. Len(arr[r]) \in 1 .. j - 1 /\ arr2[r][Len(arr[r])].kind # "Datagram"
          <5>1. arr[r] \in Seq(Incoming) /\ arr[r] # << >>
            BY <1>1, <3>2
          <5>2. Len(arr[r]) \in 1 .. Len(arr[r])
            BY <5>1
          <5> QED BY <1>5, <2>1, <3>2, <5>2
        <4>3. \A i \in Datagrams(arr2[r]) : arr2[r][i].request = x.request => i = j
          <5>1. \A i \in Datagrams(arr[r]) : arr[r][i].request # x.request
            BY <3>2 DEF Coming
          <5> QED BY <1>6, <2>1, <5>1
        <4> QED BY <1>8, <2>1, <3>2, <4>1, <4>2, <4>3 DEF p
      <3> QED BY <1>3, <3>1, <3>2
    <2>2. CASE j \in Datagrams(arr[r2]) /\ arr2[r2][j] = arr[r2][j]
      <3>1. CASE arr[r2][j].request = None
        BY <1>1, <2>2, <3>1 DEF Answering
      <3>2. CASE arr[r2][j].request # None
        <4>1. /\ arr[r2][j].request.node = r2
              /\ arr[r2][j].request.number <= n
              /\ arr[r2][j].content = arr[r2][j].request.op
          BY <1>1, <2>2, <3>2 DEF Answering
        <4>2. ASSUME NEW k \in 1 .. Len(m.dg.pending), m.dg.pending[k].request = arr[r2][j].request
              PROVE  k = 1 /\ \E i \in 1 .. j - 1 : arr2[r2][i].kind # "Datagram"
          <5>1. k = 1 /\ \E i \in 1 .. j - 1 : arr[r2][i].kind # "Datagram"
            BY <1>1, <2>2, <3>2, <4>2 DEF Answering
          <5>2. \A i \in 1 .. j - 1 : arr2[r2][i] = arr[r2][i]
            <6>1. CASE r2 = r
              <7>1. j \in 1 .. Len(arr[r])
                BY <1>5, <2>2, <6>1
              <7>2. \A i \in 1 .. j - 1 : i \in 1 .. Len(arr[r])
                BY <1>5, <7>1
              <7> QED BY <1>5, <6>1, <7>2
            <6>2. CASE r2 # r
              BY <1>4, <6>2
            <6> QED BY <6>1, <6>2
          <5> QED BY <5>1, <5>2
        <4>3. ASSUME NEW i \in Datagrams(arr2[r2]), arr2[r2][i].request = arr[r2][j].request
              PROVE  i = j
          <5>1. CASE r2 = r /\ i = Len(arr[r]) + 1 /\ arr2[r2][i] = x
            <6>1. x.request # None /\ Coming(arr, x.request)
              BY <2>2, <3>2, <4>3, <5>1 DEF Coming
            <6> QED BY <1>3, <6>1
          <5>2. CASE i \in Datagrams(arr[r2]) /\ arr2[r2][i] = arr[r2][i]
            BY <1>1, <2>2, <3>2, <4>3, <5>2 DEF Answering
          <5> QED BY <1>6, <5>1, <5>2
        <4> QED BY <2>2, <3>2, <4>1, <4>2, <4>3
      <3> QED BY <3>1, <3>2
    <2> QED BY <1>6, <2>1, <2>2
  <1>11. \A q \in UserRequest : Open(m, arr2, q) => Open(m, arr, q)
    <2>1. ASSUME NEW q \in UserRequest, Coming(arr2, q) PROVE Open(m, arr, q)
      <3>1. PICK r2 \in Nodes : \E j \in Datagrams(arr2[r2]) : arr2[r2][j].request = q
        BY <2>1 DEF Coming
      <3>2. PICK j \in Datagrams(arr2[r2]) : arr2[r2][j].request = q
        BY <3>1
      <3>3. CASE arr2[r2][j] = x
        <4>1. x.request = q /\ q # None
          BY <3>2, <3>3, NoneApart
        <4>2. Answers2
          BY <1>3, <4>1
        <4> QED BY <1>7, <4>1, <4>2 DEF Open, InQueue, p
      <3>4. CASE j \in Datagrams(arr[r2]) /\ arr2[r2][j] = arr[r2][j]
        BY <3>2, <3>4 DEF Open, Coming
      <3> QED BY <1>6, <3>3, <3>4
    <2> QED BY <2>1 DEF Open
  <1>12. Serial(m, arr2)
    BY <1>1, <1>11 DEF Serial
  <1>13. Keep(m, w, arr2, n)
    BY <1>4, <1>9, <1>10, <1>12 DEF Keep
  <1> QED BY <1>13 DEF arr2

\* The remote takes a reply to a datagram of its own.
LEMMA HeardKeeps ==
  ASSUME NEW m, NEW w, NEW arr, NEW n, Keep(m, w, arr, n),
         NEW k \in 1 .. Len(w), w[k].kind # "Datagram"
  PROVE  Keep(m, RemoveAt(w, k), arr, n)
  <1> DEFINE w2 == RemoveAt(w, k)
  <1>1. w \in Seq(Message) /\ OneOutstanding(m.dg, w, arr)
    BY DEF Keep
  <1>2. /\ w2 \in Seq(Message)
        /\ \A i \in Datagrams(w2) :
              \E j \in Datagrams(w) : j = (IF i < k THEN i ELSE i + 1) /\ w2[i] = w[j]
    BY <1>1, TakenIs
  <1>3. \A i \in Datagrams(w2) : i \in Nat
    BY DEF Datagrams
  <1> HIDE DEF w2
  <1>4. \A i, j \in Datagrams(w2) : i = j
    <2> SUFFICES ASSUME NEW i \in Datagrams(w2), NEW j \in Datagrams(w2) PROVE i = j
      OBVIOUS
    <2>1. PICK i2 \in Datagrams(w) : i2 = (IF i < k THEN i ELSE i + 1)
      BY <1>2
    <2>2. PICK j2 \in Datagrams(w) : j2 = (IF j < k THEN j ELSE j + 1)
      BY <1>2
    <2>3. i2 = j2
      BY <1>1 DEF OneOutstanding
    <2>4. i \in Nat /\ j \in Nat /\ k \in Nat
      BY <1>3
    <2> QED BY <2>1, <2>2, <2>3, <2>4
  <1>5. \A i \in Datagrams(w2) : \E j \in Datagrams(w) : w2[i] = w[j]
    BY <1>2
  <1>6. Datagrams(w) = {} => Datagrams(w2) = {}
    BY <1>5
  <1>7. OneOutstanding(m.dg, w2, arr)
    BY <1>1, <1>4, <1>5, <1>6 DEF OneOutstanding
  <1>8. Keep(m, w2, arr, n)
    BY <1>2, <1>7 DEF Keep
  <1> QED BY <1>8 DEF w2
-----------------------------------------------------------------------------
(* A reply to a datagram. *)

LEMMA RepliedKeeps ==
  ASSUME WireTypes, NEW m, NEW arr, NEW n, Keep(m, OnWire(m), arr, n), m.dg.sent = << >>,
         NEW r \in Nodes, arr[r] # << >>, arr[r][1].kind # "Datagram"
  PROVE  LET m2 == [m EXCEPT !.dg = sendNextDatagramFromQueue(Replied(m.dg, r))] IN
         /\ Keep(m2, OnWire(m2), [arr EXCEPT ![r] = Tail(@)], n)
         /\ matchToWriteMemo(m.dg, r) # None
  <1> DEFINE d1 == Replied(m.dg, r)
             d2 == sendNextDatagramFromQueue(d1)
             m2 == [m EXCEPT !.dg = d2]
             arr2 == [arr EXCEPT ![r] = Tail(@)]
             p == m.dg.pending
             p2 == d2.pending
  <1>1. /\ m \in Machine /\ arr \in [Nodes -> Seq(Incoming)] /\ n \in Nat
        /\ Queued(m.dg, n)
        /\ OneOutstanding(m.dg, OnWire(m), arr)
        /\ Answering(m.dg, arr, n) /\ Serial(m, arr)
    BY DEF Keep
  <1>2. m.dg \in Service /\ p \in Seq(Memo)
    BY <1>1 DEF Machine, Service
  <1>3. /\ arr2 \in [Nodes -> Seq(Incoming)]
        /\ \A r2 \in Nodes : r2 # r => arr2[r2] = arr[r2]
        /\ Len(arr[r]) \in Nat \ {0}
        /\ Len(arr2[r]) = Len(arr[r]) - 1
        /\ \A i \in 1 .. Len(arr[r]) - 1 : arr2[r][i] = arr[r][i + 1]
    <2>1. arr[r] \in Seq(Incoming)
      BY <1>1
    <2> QED BY <1>1, <2>1
  <1>4. /\ p # << >> /\ p[1].dest = r
        /\ Datagrams(OnWire(m)) = {}
    BY <1>1, <1>3 DEF OneOutstanding
  <1>5. /\ matchToWriteMemo(m.dg, r) # None
        /\ d1 \in Service /\ d1.pending = Tail(p) /\ d1.current = None /\ d1.sent = << >>
    BY <1>2, <1>4, RepliedResult
  <1> HIDE DEF d1
  <1>6. /\ d2 \in Service /\ p2 = Tail(p)
        /\ d2.current = IF p2 = << >> THEN None ELSE p2[1]
        /\ d2.sent = IF p2 = << >> THEN << >> ELSE Append(<< >>, MessageOf(p2[1]))
    BY <1>5, SendNextResult
  <1> HIDE DEF d2
  <1>7. /\ m2 \in Machine /\ m2.dg = d2 /\ m2.reads = m.reads /\ m2.writes = m.writes
        /\ m2.length = m.length /\ m2.called = m.called
    BY <1>1, <1>6 DEF Machine
  <1> HIDE DEF m2, arr2, p, p2
  <1>8. /\ Len(p2) = Len(p) - 1 /\ Len(p) \in Nat \ {0}
        /\ \A k \in 1 .. Len(p2) : k \in Nat \ {0} /\ k + 1 \in 1 .. Len(p) /\ p2[k] = p[k + 1]
        /\ p2 # << >> => p2[1] \in Memo
    BY <1>2, <1>4, <1>6
  <1>9. Queued(m2.dg, n)
    <2>1. \A k \in 1 .. Len(p2) : p2[k].dest = p2[k].request.node /\ p2[k].request.number <= n
      BY <1>1, <1>8 DEF Queued, p
    <2>2. ASSUME NEW i \in 1 .. Len(p2), NEW j \in 1 .. Len(p2), p2[i].request = p2[j].request
          PROVE  i = j
      <3> DEFINE i2 == i + 1
                 j2 == j + 1
      <3>1. /\ i2 \in 1 .. Len(p) /\ p2[i] = p[i2]
            /\ j2 \in 1 .. Len(p) /\ p2[j] = p[j2]
        BY <1>8
      <3> HIDE DEF i2, j2
      <3>2. i2 = j2
        BY <1>1, <2>2, <3>1 DEF Queued, p
      <3> QED BY <3>2 DEF i2, j2
    <2> QED BY <1>6, <1>7, <2>1, <2>2 DEF Queued, p2
  <1>10. \A r2 \in Nodes : \A i \in 1 .. Len(arr2[r2]) : arr2[r2][i].kind = "Datagram"
    <2> SUFFICES ASSUME NEW r2 \in Nodes, NEW i \in 1 .. Len(arr2[r2]),
                        arr2[r2][i].kind # "Datagram"
                 PROVE  FALSE
      OBVIOUS
    <2>1. CASE r2 = r
      <3> DEFINE i2 == i + 1
      <3>1. i2 \in 1 .. Len(arr[r]) /\ arr[r][i2].kind # "Datagram" /\ i2 # 1 /\ 1 \in 1 .. Len(arr[r])
        BY <1>3, <2>1
      <3> HIDE DEF i2
      <3> QED BY <1>1, <3>1 DEF OneOutstanding
    <2>2. CASE r2 # r
      <3>1. i \in 1 .. Len(arr[r2]) /\ arr[r2][i].kind # "Datagram"
        BY <1>3, <2>2
      <3>2. r2 = r
        BY <1>1, <1>4, <3>1 DEF OneOutstanding, p
      <3> QED BY <2>2, <3>2
    <2> QED BY <2>1, <2>2
  <1>11. OnWire(m2) \in Seq(Message) /\ OneOutstanding(m2.dg, OnWire(m2), arr2)
    <2>1. OnWire(m) = wire /\ wire \in Seq(Message)
      BY DEF WireTypes, OnWire
    <2>2. CASE p2 = << >> \/ ~linkUp
      <3>1. OnWire(m2) = wire
        BY <1>6, <1>7, <2>1, <2>2 DEF OnWire
      <3> QED BY <1>4, <1>10, <2>1, <3>1 DEF OneOutstanding
    <2>3. CASE p2 # << >> /\ linkUp
      <3> DEFINE x == MessageOf(p2[1])
                 w2 == Append(wire, x)
      <3>1. x \in Message /\ x.kind = "Datagram" /\ x.node = p2[1].dest /\ x.memo = p2[1]
        BY <1>8, <2>3, MessageOfType
      <3> HIDE DEF x
      <3>2. OnWire(m2) = w2
        <4>1. m2.dg.sent = Append(<< >>, x)
          BY <1>6, <1>7, <2>3 DEF x
        <4> QED BY <2>1, <2>3, <3>1, <4>1 DEF OnWire
      <3>3. w2 \in Seq(Message) /\ Datagrams(w2) = {Len(wire) + 1} /\ w2[Len(wire) + 1] = x
        BY <1>4, <2>1, <3>1, DatagramsAppend
      <3> HIDE DEF w2
      <3> QED BY <1>7, <1>10, <2>3, <3>1, <3>2, <3>3 DEF OneOutstanding, p2
    <2> QED BY <2>2, <2>3
  <1>12. \A r2 \in Nodes : \A j \in Datagrams(arr2[r2]) :
            \E i \in Datagrams(arr[r2]) :
               i = (IF r2 = r THEN j + 1 ELSE j) /\ arr2[r2][j] = arr[r2][i]
    <2> SUFFICES ASSUME NEW r2 \in Nodes, NEW j \in Datagrams(arr2[r2])
                 PROVE  \E i \in Datagrams(arr[r2]) :
                           i = (IF r2 = r THEN j + 1 ELSE j) /\ arr2[r2][j] = arr[r2][i]
      OBVIOUS
    <2>1. CASE r2 = r
      BY <1>3, <2>1 DEF Datagrams
    <2>2. CASE r2 # r
      BY <1>3, <2>2
    <2> QED BY <2>1, <2>2
  <1>13. Answering(m2.dg, arr2, n)
    <2> SUFFICES ASSUME NEW r2 \in Nodes, NEW j \in Datagrams(arr2[r2])
                 PROVE  IF arr2[r2][j].request = None THEN arr2[r2][j].content \in Others
                        ELSE /\ arr2[r2][j].request.node = r2
                             /\ arr2[r2][j].request.number <= n
                             /\ arr2[r2][j].content = arr2[r2][j].request.op
                             /\ \A k \in 1 .. Len(p2) :
                                   p2[k].request = arr2[r2][j].request =>
                                      k = 1 /\ \E i \in 1 .. j - 1 : arr2[r2][i].kind # "Datagram"
                             /\ \A i \in Datagrams(arr2[r2]) :
                                   arr2[r2][i].request = arr2[r2][j].request => i = j
      BY <1>7 DEF Answering, p2
    <2>1. PICK i \in Datagrams(arr[r2]) :
             i = (IF r2 = r THEN j + 1 ELSE j) /\ arr2[r2][j] = arr[r2][i]
      BY <1>12
    <2>2. CASE arr[r2][i].request = None
      BY <1>1, <2>1, <2>2 DEF Answering
    <2>3. CASE arr[r2][i].request # None
      <3>1. /\ arr[r2][i].request.node = r2
            /\ arr[r2][i].request.number <= n
            /\ arr[r2][i].content = arr[r2][i].request.op
        BY <1>1, <2>3 DEF Answering
      <3>2. ASSUME NEW k \in 1 .. Len(p2), p2[k].request = arr[r2][i].request
            PROVE  FALSE
        <4> DEFINE k2 == k + 1
        <4>1. k2 \in 1 .. Len(p) /\ p[k2].request = arr[r2][i].request /\ k2 # 1
          BY <1>8, <3>2
        <4> HIDE DEF k2
        <4> QED BY <1>1, <2>3, <4>1 DEF Answering, p
      <3>3. ASSUME NEW j2 \in Datagrams(arr2[r2]), arr2[r2][j2].request = arr[r2][i].request
            PROVE  j2 = j
        <4>1. PICK i2 \in Datagrams(arr[r2]) :
                 i2 = (IF r2 = r THEN j2 + 1 ELSE j2) /\ arr2[r2][j2] = arr[r2][i2]
          BY <1>12
        <4>2. i2 = i
          BY <1>1, <2>3, <3>3, <4>1 DEF Answering
        <4>3. j \in Nat /\ j2 \in Nat
          BY DEF Datagrams
        <4> QED BY <2>1, <4>1, <4>2, <4>3
      <3> QED BY <2>1, <2>3, <3>1, <3>2, <3>3
    <2> QED BY <2>2, <2>3
  <1>14. Serial(m2, arr2)
    <2>1. ASSUME NEW q, Open(m2, arr2, q) PROVE Open(m, arr, q)
      <3>1. CASE InQueue(m2.dg, q)
        <4>1. PICK k \in 1 .. Len(p2) : p2[k].request = q
          BY <1>7, <3>1 DEF InQueue, p2
        <4>2. InQueue(m.dg, q)
          BY <1>8, <4>1 DEF InQueue, p
        <4> QED BY <4>2 DEF Open
      <3>2. CASE Coming(arr2, q)
        BY <1>12, <3>2 DEF Coming, Open
      <3> QED BY <2>1, <3>1, <3>2 DEF Open
    <2> QED BY <1>1, <1>7, <2>1 DEF Serial
  <1>15. Reads(m2, n) /\ Writes(m2) /\ Fitting(m2)
    BY <1>7 DEF Keep, Reads, Writes, Fitting
  <1> HIDE DEF OnWire
  <1>16. Keep(m2, OnWire(m2), arr2, n)
    BY <1>1, <1>3, <1>7, <1>9, <1>11, <1>13, <1>14, <1>15 DEF Keep
  <1> QED BY <1>5, <1>16 DEF m2, arr2, d1, d2

-----------------------------------------------------------------------------
(* The numbers of the datagrams on their way from a remote. *)

LEMMA Finite ==
  ASSUME NEW s \in Seq(Incoming)
  PROVE  IsFiniteSet(Datagrams(s)) /\ Cardinality(Datagrams(s)) \in Nat
  <1>1. Datagrams(s) \subseteq 1 .. Len(s) /\ Len(s) \in Nat /\ IsFiniteSet(1 .. Len(s))
    BY FS_Interval DEF Datagrams
  <1> QED BY <1>1, FS_Subset, FS_CardinalityType

LEMMA CountOfTail ==
  ASSUME NEW s \in Seq(Incoming), s # << >>
  PROVE  Cardinality(Datagrams(Tail(s)))
           = IF s[1].kind = "Datagram" THEN Cardinality(Datagrams(s)) - 1
             ELSE Cardinality(Datagrams(s))
  <1> DEFINE t == Tail(s)
             S == Datagrams(t)
             T == Datagrams(s) \ {1}
             f == [k \in S |-> k + 1]
  <1>1. /\ t \in Seq(Incoming) /\ Len(t) = Len(s) - 1 /\ Len(s) \in Nat \ {0}
        /\ \A i \in 1 .. Len(s) - 1 : t[i] = s[i + 1]
    OBVIOUS
  <1>2. IsFiniteSet(S) /\ IsFiniteSet(Datagrams(s)) /\ Cardinality(Datagrams(s)) \in Nat
    BY <1>1, Finite
  <1> HIDE DEF t
  <1>3. \A k : k \in S <=> k \in 1 .. Len(s) - 1 /\ s[k + 1].kind = "Datagram"
    BY <1>1 DEF Datagrams
  <1>4. \A k : k \in T <=> k \in 2 .. Len(s) /\ s[k].kind = "Datagram"
    BY <1>1 DEF Datagrams
  <1>5. f \in Bijection(S, T)
    <2>1. f \in [S -> T]
      <3>1. \A k \in S : k + 1 \in T
        BY <1>1, <1>3, <1>4
      <3> QED BY <3>1
    <2>2. \A a, b \in S : f[a] = f[b] => a = b
      BY <1>3
    <2>3. ASSUME NEW b \in T PROVE \E a \in S : f[a] = b
      <3>1. b \in 2 .. Len(s) /\ s[b].kind = "Datagram"
        BY <1>4
      <3> DEFINE a == b - 1
      <3>2. a \in 1 .. Len(s) - 1 /\ a + 1 = b
        BY <1>1, <3>1
      <3> HIDE DEF a
      <3>3. a \in S
        BY <1>3, <3>1, <3>2
      <3> QED BY <3>2, <3>3
    <2> HIDE DEF f, S, T
    <2> QED BY <2>1, <2>2, <2>3, Fun_IsBij
  <1>6. Cardinality(T) = Cardinality(S)
    <2> HIDE DEF f, S, T
    <2>1. ExistsBijection(S, T)
      BY <1>5 DEF ExistsBijection
    <2> QED BY <1>2, <2>1, FS_Bijection
  <1>7. 1 \in Datagrams(s) <=> s[1].kind = "Datagram"
    BY <1>1 DEF Datagrams
  <1>8. Cardinality(T) = IF 1 \in Datagrams(s) THEN Cardinality(Datagrams(s)) - 1
                         ELSE Cardinality(Datagrams(s))
    <2> DEFINE D == Datagrams(s)
    <2>1. IsFiniteSet(D)
      BY <1>2
    <2> HIDE DEF D
    <2>2. Cardinality(D \ {1}) = IF 1 \in D THEN Cardinality(D) - 1 ELSE Cardinality(D)
      BY <2>1, FS_RemoveElement
    <2> QED BY <2>2 DEF D
  <1> QED BY <1>6, <1>7, <1>8 DEF t

LEMMA CountOfAppend ==
  ASSUME NEW s \in Seq(Incoming), NEW x \in Incoming
  PROVE  Cardinality(Datagrams(Append(s, x)))
           = IF x.kind = "Datagram" THEN Cardinality(Datagrams(s)) + 1
             ELSE Cardinality(Datagrams(s))
  <1>1. IsFiniteSet(Datagrams(s)) /\ Len(s) + 1 \notin Datagrams(s)
    BY Finite DEF Datagrams
  <1>2. Cardinality(Datagrams(s) \cup {Len(s) + 1}) = Cardinality(Datagrams(s)) + 1
    BY <1>1, FS_AddElement
  <1>3. Datagrams(Append(s, x)) = IF x.kind = "Datagram" THEN Datagrams(s) \cup {Len(s) + 1}
                                  ELSE Datagrams(s)
    BY DatagramsAppend
  <1> QED BY <1>2, <1>3
-----------------------------------------------------------------------------
(* The invariant of the specification, one step after the other.  What     *)
(* holds in all states comes first, then what holds as long as no datagram *)
(* has been repeated at a remote that had it.                              *)

TInv ==
    /\ State \in Machine
    /\ wire \in Seq(Message)
    /\ arriving \in [Nodes -> Seq(Incoming)]
    /\ requests \in Seq(UserRequest)
    /\ linkUp \in BOOLEAN
    /\ service.sent = << >>
    /\ owed \in [Nodes -> Int]
    /\ RepliedOnce

KeepNow == Keep(State, wire, arriving, Len(requests))

IInv == TInv /\ (~repeated => KeepNow)

LEMMA InvFacts ==
  ASSUME TInv
  PROVE  /\ WireTypes
         /\ OnWire(State) = wire
         /\ State.dg = service /\ State.dg.sent = << >>
         /\ service \in Service
         /\ Len(requests) \in Nat
  <1>1. State.dg = service
    BY DEF State
  <1>2. wire \in Seq(Message) /\ Len(requests) \in Nat /\ service \in Service
    BY <1>1 DEF TInv, Machine
  <1>3. OnWire(State) = wire
    BY <1>1, <1>2 DEF TInv, OnWire
  <1> QED BY <1>1, <1>2, <1>3 DEF TInv, WireTypes

\* The end of a handler.
LEMMA FinishIs ==
  ASSUME NEW m \in Machine, Finish(m)
  PROVE  /\ State' \in Machine /\ service'.sent = << >>
         /\ Same(State', m) /\ State'.writes = m.writes
  <1> DEFINE s == State'
             d == m.dg
             d2 == [d EXCEPT !.sent = << >>]
  <1>1. /\ service' = d2 /\ readMemos' = m.reads
        /\ writeMemos' = m.writes /\ spaceLengthCallback' = m.length /\ called' = m.called
    BY DEF Finish
  <1>2. d \in Service
    BY DEF Machine
  <1>3. s = [dg |-> d2, reads |-> m.reads, writes |-> m.writes,
             length |-> m.length, called |-> m.called]
    BY <1>1 DEF State
  <1> HIDE DEF s, d
  <1>4. << >> \in Seq(Message)
    OBVIOUS
  <1>5. d2 \in Service /\ d2.pending = d.pending /\ d2.current = d.current /\ d2.sent = << >>
    BY <1>2, <1>4 DEF Service
  <1> HIDE DEF d2
  <1>6. Same(s, m) /\ s.writes = m.writes
    BY <1>3, <1>5 DEF Same, Machine, d
  <1> QED BY <1>1, <1>5, <1>6 DEF Same, s

\* What a handler sent is on the wire.
LEMMA FinishTypes ==
  ASSUME TInv, NEW m \in Machine, Finish(m), Deliver(m)
  PROVE  /\ State' \in Machine /\ service'.sent = << >>
         /\ wire' = OnWire(m) /\ wire' \in Seq(Message)
  <1>1. m.dg.sent \in Seq(Message) /\ wire \in Seq(Message)
    BY DEF Machine, Service, TInv
  <1>2. wire' = OnWire(m)
    BY DEF Deliver, OnWire
  <1>3. wire \o m.dg.sent \in Seq(Message)
    BY <1>1
  <1> QED BY <1>1, <1>2, <1>3, FinishIs DEF OnWire

LEMMA FinishKeeps ==
  ASSUME NEW m, NEW n, Finish(m), Keep(m, wire', arriving', n), n = Len(requests')
  PROVE  KeepNow'
  <1> DEFINE s == State'
  <1>1. Same(s, m) /\ s.writes = m.writes
    BY FinishIs DEF Keep
  <1>2. Writes(s)
    BY <1>1 DEF Keep, Writes
  <1> HIDE DEF s
  <1>3. Keep(s, wire', arriving', n)
    BY <1>1, <1>2, SameKeeps
  <1> QED BY <1>3 DEF s, KeepNow

LEMMA NewRequestsType ==
  ASSUME TInv, NEW q \in NewRequests
  PROVE  q \in UserRequest /\ q.number = Len(requests) + 1
  <1>1. Len(requests) \in Nat
    BY InvFacts
  <1> QED BY <1>1 DEF NewRequests, UserRequest

LEMMA AskTypes ==
  ASSUME TInv, Ask
  PROVE  TInv'
  <1>1. PICK q \in NewRequests :
           LET m == Request(State, q) IN
           /\ requests' = Append(requests, q)
           /\ Finish(m)
           /\ Deliver(m)
           /\ UNCHANGED <<linkUp, alive, arriving, owed, repeated, others, outages>>
    BY DEF Ask
  <1>2. q \in UserRequest
    BY NewRequestsType
  <1>3. requests' \in Seq(UserRequest)
    BY <1>1, <1>2 DEF TInv
  <1>4. Request(State, q) \in Machine
    BY <1>2, RequestQuiet DEF Quiet, TInv
  <1>5. State' \in Machine /\ service'.sent = << >> /\ wire' \in Seq(Message)
    BY <1>1, <1>4, FinishTypes
  <1>6. RepliedOnce'
    BY <1>1 DEF TInv, RepliedOnce
  <1> QED BY <1>1, <1>3, <1>5, <1>6 DEF TInv

LEMMA AskKeeps ==
  ASSUME TInv, KeepNow, Ask
  PROVE  KeepNow'
  <1>1. PICK q \in NewRequests :
           LET m == Request(State, q) IN
           /\ requests' = Append(requests, q)
           /\ Finish(m)
           /\ Deliver(m)
           /\ UNCHANGED <<linkUp, alive, arriving, owed, repeated, others, outages>>
    BY DEF Ask
  <1> DEFINE m == Request(State, q)
  <1>2. q \in UserRequest /\ q.number = Len(requests) + 1
    BY NewRequestsType
  <1>3. Len(requests') = Len(requests) + 1
    BY <1>1, <1>2 DEF TInv
  <1>4. Keep(m, OnWire(m), arriving, Len(requests) + 1)
    <2> HIDE DEF OnWire
    <2> QED BY <1>2, InvFacts, RequestKeeps DEF KeepNow
  <1> HIDE DEF m
  <1>5. Finish(m) /\ wire' = OnWire(m) /\ arriving' = arriving
    BY <1>1 DEF m, Deliver, OnWire
  <1>6. Keep(m, wire', arriving', Len(requests'))
    <2> HIDE DEF OnWire
    <2> QED BY <1>3, <1>4, <1>5
  <1> QED BY <1>5, <1>6, FinishKeeps

\* The datagrams owed follow those on their way.
LEMMA CountKeeps ==
  ASSUME TInv, NEW r \in Nodes, NEW s \in Seq(Incoming),
         arriving' = [arriving EXCEPT ![r] = s],
         owed' = [owed EXCEPT ![r] = Cardinality(Datagrams(s))]
  PROVE  owed' \in [Nodes -> Int] /\ RepliedOnce' /\ arriving' \in [Nodes -> Seq(Incoming)]
  <1>1. /\ owed \in [Nodes -> Int] /\ arriving \in [Nodes -> Seq(Incoming)]
        /\ \A r2 \in Nodes : owed[r2] = Cardinality(Datagrams(arriving[r2]))
    BY DEF TInv, RepliedOnce
  <1>2. owed' \in [Nodes -> Int]
    BY <1>1, Finite
  <1>3. ASSUME NEW r2 \in Nodes
        PROVE  owed'[r2] = Cardinality(Datagrams(arriving'[r2]))
    <2>1. CASE r2 = r
      BY <1>1, <2>1
    <2>2. CASE r2 # r
      <3>1. owed'[r2] = owed[r2] /\ arriving'[r2] = arriving[r2]
        BY <1>1, <2>2
      <3> QED BY <1>1, <3>1
    <2> QED BY <2>1, <2>2
  <1> QED BY <1>1, <1>2, <1>3 DEF RepliedOnce

LEMMA TakesFacts ==
  ASSUME TInv, NEW r \in Nodes, RemoteTakes(r)
  PROVE  /\ FirstFor(wire, r) \in 1 .. Len(wire)
         /\ wire[FirstFor(wire, r)].node = r
         /\ taken(r) = wire[FirstFor(wire, r)] /\ taken(r) \in Message
         /\ wire' \in Seq(Message)
         /\ State' = State
         /\ service' = service /\ requests' = requests /\ linkUp' = linkUp
  <1>1. wire \in Seq(Message)
    BY DEF TInv
  <1>2. /\ FirstFor(wire, r) \in 0 .. Len(wire) /\ FirstFor(wire, r) # 0
        /\ wire[FirstFor(wire, r)].node = r
    BY <1>1, FirstForIs DEF RemoteTakes
  <1>3. Len(wire) \in Nat
    BY <1>1
  <1>4. FirstFor(wire, r) \in 1 .. Len(wire)
    BY <1>2, <1>3
  <1>5. RemoveAt(wire, FirstFor(wire, r)) \in Seq(Message)
    BY <1>1, <1>4, RemoveAtIs
  <1>6. taken(r) \in Message
    BY <1>1, <1>4 DEF taken
  <1>7. State' = State
    BY DEF RemoteTakes, State
  <1> QED BY <1>2, <1>4, <1>5, <1>6, <1>7 DEF RemoteTakes, taken

LEMMA CountOfSent ==
  ASSUME NEW x
  PROVE  /\ Cardinality(Datagrams(<<Took>>)) = 0
         /\ Cardinality(Datagrams(<<Refused>>)) = 0
         /\ x.kind = "Datagram" =>
               /\ Cardinality(Datagrams(<<x>>)) = 1
               /\ Cardinality(Datagrams(<<Took, x>>)) = 1
  <1>1. Datagrams(<<Took>>) = {} /\ Datagrams(<<Refused>>) = {}
    BY DEF Datagrams, Took, Refused
  <1>2. x.kind = "Datagram" => Datagrams(<<x>>) = {1}
    BY DEF Datagrams
  <1>3. x.kind = "Datagram" => Datagrams(<<Took, x>>) = {2}
    <2>1. Len(<<Took, x>>) = 2 /\ <<Took, x>>[1] = Took /\ <<Took, x>>[2] = x
            /\ Took.kind # "Datagram"
      BY DEF Took
    <2> QED BY <2>1 DEF Datagrams
  <1> QED BY <1>1, <1>2, <1>3, FS_EmptySet, FS_Singleton

\* What a remote sends is counted.
LEMMA SendsTypes ==
  ASSUME TInv, NEW r \in Nodes, NEW x \in Incoming,
         \/ Sends(r, <<x>>)
         \/ x.kind = "Datagram" /\ Sends(r, <<Took, x>>)
  PROVE  owed' \in [Nodes -> Int] /\ RepliedOnce' /\ arriving' \in [Nodes -> Seq(Incoming)]
  <1> DEFINE s1 == Append(arriving[r], Took)
  <1>1. /\ arriving \in [Nodes -> Seq(Incoming)] /\ arriving[r] \in Seq(Incoming)
        /\ Took \in Incoming /\ Took.kind # "Datagram"
        /\ owed \in [Nodes -> Int]
        /\ owed[r] = Cardinality(Datagrams(arriving[r]))
    BY DEF TInv, Incoming, Took, RepliedOnce
  <1>2. CASE Sends(r, <<x>>)
    <2> DEFINE s == Append(arriving[r], x)
               d == Cardinality(Datagrams(<<x>>))
    <2>1. arriving[r] \o <<x>> = s /\ s \in Seq(Incoming)
      BY <1>1
    <2>2. /\ arriving' = [arriving EXCEPT ![r] = s]
          /\ owed' = [owed EXCEPT ![r] = owed[r] + d]
      BY <1>2, <2>1 DEF Sends
    <2>3. d = IF x.kind = "Datagram" THEN 1 ELSE 0
      <3>1. x.kind # "Datagram" => Datagrams(<<x>>) = {}
        BY DEF Datagrams
      <3> QED BY <3>1, CountOfSent, FS_EmptySet
    <2>4. Cardinality(Datagrams(s)) = owed[r] + d
      BY <1>1, <2>3, CountOfAppend
    <2> HIDE DEF s, d
    <2> QED BY <2>1, <2>2, <2>4, CountKeeps
  <1>3. CASE x.kind = "Datagram" /\ Sends(r, <<Took, x>>)
    <2> DEFINE s == Append(s1, x)
    <2>1. arriving[r] \o <<Took, x>> = s /\ s1 \in Seq(Incoming) /\ s \in Seq(Incoming)
      BY <1>1
    <2>2. /\ arriving' = [arriving EXCEPT ![r] = s]
          /\ owed' = [owed EXCEPT ![r] = owed[r] + 1]
      BY <1>3, <2>1, CountOfSent DEF Sends
    <2>3. Cardinality(Datagrams(s1)) = owed[r]
      BY <1>1, CountOfAppend
    <2> HIDE DEF s1
    <2>4. Cardinality(Datagrams(s)) = owed[r] + 1
      BY <1>3, <2>1, <2>3, CountOfAppend
    <2> HIDE DEF s
    <2> QED BY <2>1, <2>2, <2>4, CountKeeps
  <1> QED BY <1>2, <1>3

LEMMA RemoteAnswersTypes ==
  ASSUME TInv, NEW r \in Nodes, RemoteAnswers(r)
  PROVE  TInv'
  <1> DEFINE q == taken(r).memo.request
  <1>1. PICK answer \in Answers :
           /\ RemoteTakes(r)
           /\ taken(r).kind = "Datagram"
           /\ \/ Sends(r, <<Took, ReplyDatagram(q.op, answer, q)>>)
              \/ Sends(r, <<Took>>)
              \/ Sends(r, <<Refused>>)
    BY DEF RemoteAnswers
  <1>2. q \in UserRequest
    <2>1. taken(r) \in Message
      BY <1>1, TakesFacts
    <2> QED BY <1>1, <2>1 DEF Message, Memo
  <1> DEFINE x == ReplyDatagram(q.op, answer, q)
  <1>3. x \in Incoming /\ x.kind = "Datagram" /\ Took \in Incoming /\ Refused \in Incoming
    BY <1>2 DEF ReplyDatagram, Incoming, UserRequest
  <1> HIDE DEF x
  <1>4. Sends(r, <<Took, x>>) \/ Sends(r, <<Took>>) \/ Sends(r, <<Refused>>)
    BY <1>1 DEF x
  <1>5. owed' \in [Nodes -> Int] /\ RepliedOnce' /\ arriving' \in [Nodes -> Seq(Incoming)]
    BY <1>3, <1>4, SendsTypes
  <1>6. /\ State' = State /\ wire' \in Seq(Message)
        /\ service' = service /\ requests' = requests /\ linkUp' = linkUp
    BY <1>1, TakesFacts
  <1> QED BY <1>5, <1>6 DEF TInv

LEMMA RemoteAnswersKeeps ==
  ASSUME TInv, KeepNow, NEW r \in Nodes, RemoteAnswers(r)
  PROVE  KeepNow'
  <1> DEFINE k == FirstFor(wire, r)
             q == service.pending[1].request
             n == Len(requests)
  <1>1. PICK answer \in Answers :
           /\ RemoteTakes(r)
           /\ taken(r).kind = "Datagram"
           /\ \/ /\ answer \in {"reply", "error"}
                 /\ Sends(r, <<Took, ReplyDatagram(taken(r).memo.request.op, answer,
                                                   taken(r).memo.request)>>)
              \/ answer = "done" /\ taken(r).memo.request.op = "write" /\ Sends(r, <<Took>>)
              \/ answer = "rejected" /\ Sends(r, <<Refused>>)
    BY DEF RemoteAnswers
  <1>2. /\ k \in 1 .. Len(wire) /\ wire[k].node = r /\ State' = State
        /\ wire' = RemoveAt(wire, k) /\ taken(r) = wire[k]
        /\ requests' = requests /\ service' = service
    BY <1>1, TakesFacts DEF RemoteTakes
  <1> HIDE DEF k
  <1>3. k \in Datagrams(wire)
    BY <1>1, <1>2 DEF Datagrams
  <1>4. /\ Keep(State, wire, arriving, n) /\ State.dg = service
        /\ wire \in Seq(Message) /\ arriving \in [Nodes -> Seq(Incoming)] /\ n \in Nat
        /\ State \in Machine
    BY InvFacts DEF TInv, KeepNow
  <1>5. ASSUME NEW x \in {Took, Refused}
        PROVE  LET arr2 == [arriving EXCEPT ![r] = Append(@, x)] IN
               /\ Keep(State, wire', arr2, n)
               /\ service.pending # << >> /\ wire[k].memo = service.pending[1]
               /\ service.pending[1].dest = r
               /\ arr2[r][Len(arr2[r])].kind # "Datagram"
               /\ ~Coming(arr2, q)
    <2> DEFINE w2 == RemoveAt(wire, k)
               arr2 == [arriving EXCEPT ![r] = Append(@, x)]
    <2>1. /\ Keep(State, w2, arr2, n)
          /\ State.dg.pending # << >> /\ wire[k].memo = State.dg.pending[1]
          /\ State.dg.pending[1].dest = r
          /\ arr2[r][Len(arr2[r])].kind # "Datagram"
          /\ ~Coming(arr2, State.dg.pending[1].request)
      <3>1. Keep(State, wire, arriving, n) /\ k \in Datagrams(wire) /\ wire[k].node = r
        BY <1>2, <1>3, <1>4
      <3>2. x \in Incoming /\ x.kind # "Datagram"
        BY DEF Incoming, Took, Refused
      <3> HIDE DEF n
      <3> QED BY <3>1, <3>2, TookKeeps
    <2> QED BY <1>2, <1>4, <2>1
  <1>6. /\ arriving[r] \in Seq(Incoming)
        /\ Took \in Incoming /\ Refused \in Incoming
    BY <1>4 DEF Incoming
  <1>7. ASSUME NEW x \in {Took, Refused}, Sends(r, <<x>>)
        PROVE  KeepNow'
    <2> DEFINE s == Append(arriving[r], x)
    <2>1. arriving' = [arriving EXCEPT ![r] = s]
      <3>1. arriving[r] \o <<x>> = s
        BY <1>6
      <3> QED BY <1>7, <3>1 DEF Sends
    <2> QED BY <1>2, <1>5, <2>1 DEF KeepNow
  <1>8. ASSUME NEW a \in Answers,
               Sends(r, <<Took, ReplyDatagram(taken(r).memo.request.op, a,
                                              taken(r).memo.request)>>)
        PROVE  KeepNow'
    <2> DEFINE x == ReplyDatagram(q.op, a, q)
               s1 == Append(arriving[r], Took)
               s == Append(s1, x)
               arr1 == [arriving EXCEPT ![r] = Append(@, Took)]
               arr2 == [arr1 EXCEPT ![r] = Append(@, x)]
    <2>1. /\ Keep(State, wire', arr1, n)
          /\ service.pending # << >> /\ wire[k].memo = service.pending[1]
          /\ service.pending[1].dest = r
          /\ arr1[r][Len(arr1[r])].kind # "Datagram"
          /\ ~Coming(arr1, q)
      BY <1>5
    <2>2. q \in UserRequest
      <3>1. service.pending \in Seq(Memo)
        BY <1>4 DEF Machine, Service
      <3>2. service.pending[1] \in Memo
        BY <2>1, <3>1
      <3> QED BY <3>2 DEF Memo
    <2>3. x \in Incoming /\ x.kind = "Datagram" /\ x.request = q /\ x.content = q.op
      BY <2>2 DEF ReplyDatagram, Incoming, UserRequest
    <2>4. Sends(r, <<Took, x>>)
      BY <1>2, <1>8, <2>1
    <2> HIDE DEF x, q
    <2>5. arriving[r] \o <<Took, x>> = s
      BY <1>6, <2>3
    <2>6. arr1[r] = s1 /\ arr1 \in [Nodes -> Seq(Incoming)] /\ arr2 = [arriving EXCEPT ![r] = s]
      BY <1>4, <1>6, <2>3, <2>5
    <2>7. arr1[r] # << >>
      BY <1>6, <2>6
    <2>8. arriving' = [arriving EXCEPT ![r] = s]
      BY <2>4, <2>5 DEF Sends
    <2> HIDE DEF s, s1, arr1
    <2>9. Keep(State, wire', arr2, n)
      <3>1. /\ State.dg.pending # << >> /\ x.request = State.dg.pending[1].request
            /\ State.dg.pending[1].dest = r
            /\ x.content = x.request.op
            /\ ~Coming(arr1, x.request)
        BY <1>4, <2>1, <2>3 DEF q
      <3> QED BY <2>1, <2>3, <2>7, <3>1, DatagramKeeps
    <2> QED BY <1>2, <2>6, <2>8, <2>9 DEF KeepNow
  <1> QED BY <1>1, <1>7, <1>8

LEMMA RemoteHearsReplyTypes ==
  ASSUME TInv, NEW r \in Nodes, RemoteHearsReply(r)
  PROVE  TInv'
  <1>1. /\ State' = State /\ wire' \in Seq(Message)
        /\ service' = service /\ requests' = requests /\ linkUp' = linkUp
        /\ arriving' = arriving /\ owed' = owed
    BY TakesFacts DEF RemoteHearsReply
  <1> QED BY <1>1 DEF TInv, RepliedOnce

LEMMA RemoteHearsReplyKeeps ==
  ASSUME TInv, KeepNow, NEW r \in Nodes, RemoteHearsReply(r)
  PROVE  KeepNow'
  <1> DEFINE k == FirstFor(wire, r)
  <1>1. /\ k \in 1 .. Len(wire) /\ State' = State
        /\ wire' = RemoveAt(wire, k) /\ wire[k].kind # "Datagram"
        /\ requests' = requests /\ arriving' = arriving
    BY TakesFacts DEF RemoteHearsReply, RemoteTakes
  <1> HIDE DEF k
  <1> QED BY <1>1, HeardKeeps DEF KeepNow

LEMMA RemoteSendsOtherTypes ==
  ASSUME TInv, NEW r \in Nodes, RemoteSendsOther(r)
  PROVE  TInv'
  <1>1. PICK content \in Others :
           /\ Sends(r, <<ReplyDatagram(content, "none", None)>>)
           /\ UNCHANGED <<service, readMemos, writeMemos, spaceLengthCallback, linkUp, alive,
                          wire, requests, called, repeated, outages>>
    BY DEF RemoteSendsOther
  <1> DEFINE x == ReplyDatagram(content, "none", None)
  <1>2. x \in Incoming
    BY DEF ReplyDatagram, Incoming
  <1> HIDE DEF x
  <1>3. owed' \in [Nodes -> Int] /\ RepliedOnce' /\ arriving' \in [Nodes -> Seq(Incoming)]
    BY <1>1, <1>2, SendsTypes DEF x
  <1>4. State' = State
    BY <1>1 DEF State
  <1> QED BY <1>1, <1>3, <1>4 DEF TInv

LEMMA RemoteSendsOtherKeeps ==
  ASSUME TInv, KeepNow, NEW r \in Nodes, RemoteSendsOther(r)
  PROVE  KeepNow'
  <1>1. PICK content \in Others :
           /\ Sends(r, <<ReplyDatagram(content, "none", None)>>)
           /\ UNCHANGED <<service, readMemos, writeMemos, spaceLengthCallback, linkUp, alive,
                          wire, requests, called, repeated, outages>>
    BY DEF RemoteSendsOther
  <1> DEFINE x == ReplyDatagram(content, "none", None)
  <1>2. x \in Incoming /\ x.kind = "Datagram" /\ x.request = None /\ x.content \in Others
    BY DEF ReplyDatagram, Incoming
  <1>3. arriving \in [Nodes -> Seq(Incoming)] /\ arriving[r] \in Seq(Incoming)
    BY DEF TInv
  <1> HIDE DEF x
  <1>4. arriving' = [arriving EXCEPT ![r] = Append(@, x)]
    <2>1. arriving[r] \o <<x>> = Append(arriving[r], x)
      BY <1>2, <1>3
    <2>2. arriving' = [arriving EXCEPT ![r] = @ \o <<x>>]
      BY <1>1 DEF Sends, x
    <2> QED BY <2>1, <2>2
  <1>5. Keep(State, wire, [arriving EXCEPT ![r] = Append(@, x)], Len(requests))
    BY <1>2, DatagramKeeps DEF KeepNow
  <1>6. State' = State
    BY <1>1 DEF State
  <1> QED BY <1>1, <1>4, <1>5, <1>6 DEF KeepNow

\* A message that is no datagram is received.
LEMMA ReceivesReply ==
  ASSUME TInv, NEW r \in Nodes, Receive(r), message(r).kind # "Datagram", owed' = owed
  PROVE  /\ arriving \in [Nodes -> Seq(Incoming)] /\ arriving[r] \in Seq(Incoming)
         /\ message(r) = arriving[r][1]
         /\ owed' \in [Nodes -> Int] /\ RepliedOnce' /\ arriving' \in [Nodes -> Seq(Incoming)]
  <1> DEFINE s == Tail(arriving[r])
  <1>1. arriving[r] # << >> /\ arriving' = [arriving EXCEPT ![r] = s]
    BY DEF Receive
  <1>2. /\ arriving \in [Nodes -> Seq(Incoming)] /\ arriving[r] \in Seq(Incoming)
        /\ message(r) = arriving[r][1]
        /\ s \in Seq(Incoming)
    BY <1>1 DEF message, TInv
  <1>3. owed[r] = Cardinality(Datagrams(arriving[r])) /\ owed \in [Nodes -> Int]
    BY DEF TInv, RepliedOnce
  <1>4. Cardinality(Datagrams(s)) = Cardinality(Datagrams(arriving[r]))
    BY <1>1, <1>2, CountOfTail
  <1>5. owed' = [owed EXCEPT ![r] = Cardinality(Datagrams(s))]
    BY <1>3, <1>4
  <1> HIDE DEF s
  <1>6. owed' \in [Nodes -> Int] /\ RepliedOnce' /\ arriving' \in [Nodes -> Seq(Incoming)]
    BY <1>1, <1>2, <1>5, CountKeeps
  <1> QED BY <1>2, <1>6

\* What the service forgets, whether it finds a memo or not.
LEMMA RepliedTypes ==
  ASSUME NEW s \in Service, NEW r
  PROVE  Replied(s, r) \in Service
  <1> DEFINE p == IF matchToWriteMemo(s, r) = None THEN s.pending ELSE Tail(s.pending)
  <1>1. s.pending \in Seq(Memo)
    BY DEF Service
  <1>2. p \in Seq(Memo)
    <2>1. CASE s.pending = << >>
      BY <1>1, <2>1 DEF matchToWriteMemo
    <2>2. CASE s.pending # << >>
      BY <1>1, <2>2
    <2> QED BY <2>1, <2>2
  <1>3. Replied(s, r) = [s EXCEPT !.pending = p, !.current = None]
    BY DEF Replied, Service
  <1> HIDE DEF p
  <1> QED BY <1>2, <1>3 DEF Service

LEMMA handleReplyTypes ==
  ASSUME TInv, NEW r \in Nodes, handleReply(r)
  PROVE  TInv'
  <1> DEFINE d == sendNextDatagramFromQueue(Replied(service, r))
             m == [State EXCEPT !.dg = d]
  <1>1. d \in Service
    BY InvFacts, RepliedTypes, SendNextResult
  <1>2. Finish(m) /\ Deliver(m)
    BY DEF handleReply
  <1> HIDE DEF d
  <1>3. m \in Machine
    BY <1>1 DEF TInv, Machine
  <1> HIDE DEF m
  <1>4. State' \in Machine /\ service'.sent = << >> /\ wire' \in Seq(Message)
    BY <1>2, <1>3, FinishTypes
  <1>5. owed' \in [Nodes -> Int] /\ RepliedOnce' /\ arriving' \in [Nodes -> Seq(Incoming)]
    BY ReceivesReply DEF handleReply
  <1>6. linkUp' = linkUp /\ requests' = requests
    BY DEF handleReply, Receive
  <1> QED BY <1>4, <1>5, <1>6 DEF TInv

LEMMA handleReplyKeeps ==
  ASSUME TInv, KeepNow, NEW r \in Nodes, handleReply(r)
  PROVE  KeepNow'
  <1> DEFINE m == [State EXCEPT !.dg = sendNextDatagramFromQueue(Replied(@, r))]
  <1>1. /\ arriving[r] # << >> /\ message(r).kind # "Datagram"
        /\ arriving' = [arriving EXCEPT ![r] = Tail(@)]
        /\ owed' = owed /\ requests' = requests
    BY DEF handleReply, Receive
  <1>2. Finish(m) /\ Deliver(m)
    <2>1. m = [State EXCEPT !.dg = sendNextDatagramFromQueue(Replied(service, r))]
      BY DEF State
    <2> HIDE DEF m
    <2> QED BY <2>1 DEF handleReply
  <1>3. message(r) = arriving[r][1]
    BY ReceivesReply DEF handleReply
  <1>4. Keep(m, OnWire(m), [arriving EXCEPT ![r] = Tail(@)], Len(requests))
    <2> HIDE DEF OnWire
    <2> QED BY <1>1, <1>3, InvFacts, RepliedKeeps DEF KeepNow
  <1> HIDE DEF m
  <1>5. wire' = OnWire(m)
    BY <1>2 DEF Deliver, OnWire
  <1>6. Keep(m, wire', arriving', Len(requests'))
    <2> HIDE DEF OnWire
    <2> QED BY <1>1, <1>4, <1>5
  <1> QED BY <1>2, <1>6, FinishKeeps

LEMMA handleUnmatchedReplyTypes ==
  ASSUME TInv, NEW r \in Nodes, handleUnmatchedReply(r)
  PROVE  TInv'
  <1> DEFINE d == Replied(service, r)
             m == [State EXCEPT !.dg = d]
  <1>1. d \in Service
    BY InvFacts, RepliedTypes
  <1>2. Finish(m)
    BY DEF handleUnmatchedReply
  <1> HIDE DEF d
  <1>3. m \in Machine
    BY <1>1 DEF TInv, Machine
  <1> HIDE DEF m
  <1>4. State' \in Machine /\ service'.sent = << >>
    BY <1>2, <1>3, FinishIs
  <1>5. owed' \in [Nodes -> Int] /\ RepliedOnce' /\ arriving' \in [Nodes -> Seq(Incoming)]
    BY ReceivesReply DEF handleUnmatchedReply
  <1>6. linkUp' = linkUp /\ requests' = requests /\ wire' = wire
    BY DEF handleUnmatchedReply, Receive
  <1> QED BY <1>4, <1>5, <1>6 DEF TInv

\* The service always finds the memo of a reply, so this never happens.
LEMMA RepliesAreMatched ==
  ASSUME TInv, KeepNow, NEW r \in Nodes, arriving[r] # << >>, message(r).kind # "Datagram"
  PROVE  matchToWriteMemo(service, r) # None
  <1>1. arriving[r] \in Seq(Incoming)
    BY DEF TInv
  <1>2. arriving[r][1].kind # "Datagram"
    BY <1>1 DEF message
  <1>3. matchToWriteMemo(State.dg, r) # None
    <2> HIDE DEF OnWire
    <2> QED BY <1>2, InvFacts, RepliedKeeps DEF KeepNow
  <1> QED BY <1>3, InvFacts

LEMMA handleDatagramTypes ==
  ASSUME TInv, NEW r \in Nodes, handleDatagram(r)
  PROVE  TInv'
  <1>1. PICK then \in NewRequests \cup {None} :
           LET m == datagramReceivedListener(State, r, message(r), then) IN
           /\ Receive(r)
           /\ message(r).kind = "Datagram"
           /\ requests' = IF then = None THEN requests ELSE Append(requests, then)
           /\ Finish(m)
           /\ Deliver(m)
           /\ owed' = [owed EXCEPT ![r] = @ - Cardinality(Replies(m, r))]
    BY DEF handleDatagram
  <1> DEFINE m == datagramReceivedListener(State, r, message(r), then)
             s == Tail(arriving[r])
  <1>2. /\ arriving[r] # << >> /\ arriving' = [arriving EXCEPT ![r] = s] /\ linkUp' = linkUp
    BY <1>1 DEF Receive
  <1>3. /\ arriving[r] \in Seq(Incoming) /\ s \in Seq(Incoming)
        /\ message(r) = arriving[r][1] /\ message(r) \in Incoming
    BY <1>2 DEF message, TInv
  <1>4. then \in UserRequest \cup {None}
    BY NewRequestsType
  <1>5. requests' \in Seq(UserRequest)
    BY <1>1, <1>4 DEF TInv
  <1>6. m \in Machine /\ Replies(m, r) = {1}
    <2>1. State \in Machine /\ State.dg.sent = << >>
      BY InvFacts DEF TInv
    <2> QED BY <1>1, <1>3, <1>4, <2>1, ListenerReplies
  <1>7. /\ Finish(m) /\ Deliver(m)
        /\ owed' = [owed EXCEPT ![r] = @ - Cardinality(Replies(m, r))]
    BY <1>1
  <1> HIDE DEF m
  <1>8. State' \in Machine /\ service'.sent = << >> /\ wire' \in Seq(Message)
    BY <1>6, <1>7, FinishTypes
  <1>9. owed' \in [Nodes -> Int] /\ RepliedOnce' /\ arriving' \in [Nodes -> Seq(Incoming)]
    <2>1. owed[r] = Cardinality(Datagrams(arriving[r])) /\ owed \in [Nodes -> Int]
      BY DEF TInv, RepliedOnce
    <2>2. Cardinality(Datagrams(s)) = Cardinality(Datagrams(arriving[r])) - 1
      BY <1>1, <1>2, <1>3, CountOfTail
    <2>3. Cardinality(Replies(m, r)) = 1
      BY <1>6, FS_Singleton
    <2>4. owed' = [owed EXCEPT ![r] = Cardinality(Datagrams(s))]
      BY <1>7, <2>1, <2>2, <2>3
    <2> HIDE DEF s
    <2> QED BY <1>2, <1>3, <2>4, CountKeeps
  <1> QED BY <1>2, <1>5, <1>8, <1>9 DEF TInv

LEMMA handleDatagramKeeps ==
  ASSUME TInv, KeepNow, NEW r \in Nodes, handleDatagram(r)
  PROVE  KeepNow'
  <1>1. PICK then \in NewRequests \cup {None} :
           LET m == datagramReceivedListener(State, r, message(r), then) IN
           /\ Receive(r)
           /\ message(r).kind = "Datagram"
           /\ then # None => m.called # called
           /\ requests' = IF then = None THEN requests ELSE Append(requests, then)
           /\ Finish(m)
           /\ Deliver(m)
    BY DEF handleDatagram
  <1> DEFINE m == datagramReceivedListener(State, r, arriving[r][1], then)
             s == Tail(arriving[r])
             n == IF then = None THEN Len(requests) ELSE Len(requests) + 1
  <1>2. arriving[r] # << >> /\ arriving' = [arriving EXCEPT ![r] = s]
    BY <1>1 DEF Receive
  <1>3. message(r) = arriving[r][1]
    BY <1>2 DEF message, TInv
  <1>4. then \in UserRequest \cup {None} /\ (then # None => then.number = Len(requests) + 1)
    BY NewRequestsType
  <1>5. Len(requests') = n
    <2>1. requests \in Seq(UserRequest)
      BY DEF TInv
    <2> QED BY <1>1, <1>4, <2>1
  <1>6. then # None => m.called # State.called
    BY <1>1, <1>3 DEF State
  <1>7. Finish(m) /\ wire' = OnWire(m)
    BY <1>1, <1>3 DEF Deliver, OnWire
  <1>8. Keep(m, OnWire(m), [arriving EXCEPT ![r] = Tail(@)], n)
    <2>1. arriving[r][1].kind = "Datagram"
      BY <1>1, <1>3
    <2> DEFINE st == State
               N == Len(requests)
    <2>2. /\ WireTypes /\ Keep(st, OnWire(st), arriving, N) /\ st.dg.sent = << >>
      BY InvFacts DEF KeepNow
    <2>3. m.called # st.called \/ then = None
      BY <1>6
    <2>4. then # None => then.number = N + 1
      BY <1>4
    <2> HIDE DEF OnWire, s, st, N
    <2>5. LET m2 == datagramReceivedListener(st, r, arriving[r][1], then) IN
          Keep(m2, OnWire(m2), [arriving EXCEPT ![r] = Tail(@)], IF then = None THEN N ELSE N + 1)
      <3>1. then # None => datagramReceivedListener(st, r, arriving[r][1], then).called # st.called
        BY <2>3 DEF st
      <3> HIDE DEF m
      <3> QED BY ZenonT(60), <1>2, <1>4, <2>1, <2>2, <2>4, <3>1, ListenerKeeps
    <2> QED BY <2>5 DEF st, N
  <1> HIDE DEF m
  <1>9. Keep(m, wire', arriving', Len(requests'))
    BY <1>2, <1>5, <1>7, <1>8
  <1> QED BY <1>7, <1>9, FinishKeeps

LEMMA LinkQuiesceTypes ==
  ASSUME TInv, LinkQuiesce
  PROVE  /\ TInv'
         /\ Same(State', State) /\ State'.writes = State.writes
         /\ wire' = wire /\ arriving' = arriving /\ requests' = requests
  <1>1. /\ linkUp' = FALSE /\ requests' = requests /\ wire' = wire /\ arriving' = arriving
        /\ owed' = owed
        /\ service' = [service EXCEPT !.quiesced = TRUE]
        /\ readMemos' = readMemos /\ writeMemos' = writeMemos
        /\ spaceLengthCallback' = spaceLengthCallback /\ called' = called
    BY DEF LinkQuiesce, handleLinkQuiesce
  <1>2. service \in Service /\ service.sent = << >> /\ State \in Machine
    BY InvFacts DEF TInv
  <1>3. /\ service' \in Service /\ service'.pending = service.pending
        /\ service'.current = service.current /\ service'.sent = << >>
    BY <1>1, <1>2 DEF Service
  <1>4. Same(State', State) /\ State'.writes = State.writes
    BY <1>1, <1>2, <1>3 DEF State, Same, Machine
  <1>5. RepliedOnce'
    BY <1>1 DEF TInv, RepliedOnce
  <1> QED BY <1>1, <1>3, <1>4, <1>5 DEF TInv, Same

LEMMA LinkQuiesceKeeps ==
  ASSUME TInv, KeepNow, LinkQuiesce
  PROVE  KeepNow'
  <1> DEFINE m2 == State'
  <1>1. Same(m2, State) /\ m2.writes = State.writes
    BY LinkQuiesceTypes
  <1> HIDE DEF m2
  <1>2. Writes(m2)
    BY <1>1 DEF KeepNow, Keep, Writes
  <1>3. Keep(m2, wire, arriving, Len(requests))
    BY <1>1, <1>2, SameKeeps DEF KeepNow
  <1> QED BY <1>3, LinkQuiesceTypes DEF KeepNow, m2

\* What an outage leaves is the end of what there was.
LEMMA LeftoversAre ==
  ASSUME NEW S, NEW s \in Seq(S), NEW t \in Leftovers(s)
  PROVE  /\ t \in Seq(S)
         /\ \E d \in Nat : \A i \in 1 .. Len(t) : i + d \in 1 .. Len(s) /\ t[i] = s[i + d]
  <1>1. CASE t = << >>
    BY <1>1
  <1>2. ASSUME NEW l \in 1 .. Len(s), t = SubSeq(s, l, Len(s))
        PROVE  /\ t \in Seq(S)
               /\ \E d \in Nat : \A i \in 1 .. Len(t) : i + d \in 1 .. Len(s) /\ t[i] = s[i + d]
    <2> DEFINE d == l - 1
    <2>1. d \in Nat /\ Len(s) \in Nat
      OBVIOUS
    <2>2. t \in Seq(S) /\ Len(t) = Len(s) - l + 1
      BY <1>2
    <2>3. \A i \in 1 .. Len(s) - l + 1 : t[i] = s[l + i - 1]
      BY <1>2
    <2>4. \A i \in 1 .. Len(t) : i + d \in 1 .. Len(s) /\ t[i] = s[i + d]
      BY <2>1, <2>2, <2>3
    <2> QED BY <2>1, <2>2, <2>4
  <1> QED BY <1>1, <1>2 DEF Leftovers, Suffixes

LEMMA RestartTypes ==
  ASSUME NEW s \in Service
  PROVE  handleLinkRestarted(s) \in Service
  <1> DEFINE s1 == [s EXCEPT !.quiesced = FALSE]
  <1>1. s1 \in Service
    BY DEF Service
  <1>2. handleLinkRestarted(s) = IF s1.current # None THEN sendDatagramMessage(s1, s1.current)
                                 ELSE sendNextDatagramFromQueue(s1)
    BY DEF handleLinkRestarted
  <1> HIDE DEF s1
  <1>3. s1.current # None => s1.current \in Memo
    BY <1>1 DEF Service
  <1> QED BY <1>1, <1>2, <1>3, SendMessageResult, SendNextResult

LEMMA LinkRestartedTypes ==
  ASSUME TInv, LinkRestarted
  PROVE  TInv'
  <1> DEFINE d2 == handleLinkRestarted(service)
             m == [State EXCEPT !.dg = d2]
  <1>1. /\ linkUp' = TRUE /\ Finish(m) /\ requests' = requests
        /\ \E w \in Leftovers(wire) : wire' = w \o d2.sent
        /\ \A r \in Nodes : arriving'[r] \in Leftovers(arriving[r])
        /\ DOMAIN arriving' = Nodes /\ arriving' = [r \in Nodes |-> arriving'[r]]
        /\ owed' = [r \in Nodes |-> Cardinality(Datagrams(arriving'[r]))]
    BY DEF LinkRestarted
  <1>2. d2 \in Service
    BY InvFacts, RestartTypes
  <1> HIDE DEF d2
  <1>3. m \in Machine
    BY <1>2 DEF TInv, Machine
  <1>4. State' \in Machine /\ service'.sent = << >>
    <2> HIDE DEF m
    <2> QED BY <1>1, <1>3, FinishIs
  <1>5. wire' \in Seq(Message)
    <2>1. PICK w \in Leftovers(wire) : wire' = w \o d2.sent
      BY <1>1
    <2>2. w \in Seq(Message)
      BY LeftoversAre DEF TInv
    <2> QED BY <1>2, <2>1, <2>2 DEF Service
  <1>6. arriving' \in [Nodes -> Seq(Incoming)]
    <2>1. \A r \in Nodes : arriving'[r] \in Seq(Incoming)
      BY <1>1, LeftoversAre DEF TInv
    <2> QED BY <1>1, <2>1
  <1>7. owed' \in [Nodes -> Int] /\ RepliedOnce'
    BY <1>1, <1>6, Finite DEF RepliedOnce
  <1> QED BY <1>1, <1>4, <1>5, <1>6, <1>7 DEF TInv

\* If the remote of the outstanding datagram has nothing of it or of its answer any more, the
\* datagram that is sent again is the only one.
LEMMA LinkRestartedKeeps ==
  ASSUME TInv, KeepNow, LinkRestarted, ~repeated'
  PROVE  KeepNow'
  <1> DEFINE d2 == handleLinkRestarted(service)
             m == [State EXCEPT !.dg = d2]
             p == service.pending
             n == Len(requests)
             arr == arriving'
  <1>1. PICK w \in Leftovers(wire) :
           /\ wire' = w \o d2.sent
           /\ service.current # None =>
                 ~StillAtRemote(service.current, w, arr[service.current.dest])
    BY DEF LinkRestarted
  <1>2. /\ Finish(m) /\ requests' = requests
        /\ \A r \in Nodes : arr[r] \in Leftovers(arriving[r])
        /\ arr \in [Nodes -> Seq(Incoming)] /\ wire' \in Seq(Message)
    BY LinkRestartedTypes DEF LinkRestarted, TInv
  <1>3. /\ Keep(State, wire, arriving, n) /\ State \in Machine /\ State.dg = service
        /\ service \in Service /\ service.sent = << >>
        /\ Queued(service, n) /\ OneOutstanding(service, wire, arriving)
        /\ Answering(service, arriving, n) /\ Serial(State, arriving)
        /\ p \in Seq(Memo)
        /\ wire \in Seq(Message) /\ arriving \in [Nodes -> Seq(Incoming)]
    BY InvFacts DEF TInv, KeepNow, Keep, Service
  <1>4. /\ d2 \in Service /\ d2.pending = p /\ d2.current = service.current
        /\ d2.sent = IF p = << >> THEN << >> ELSE Append(<< >>, MessageOf(p[1]))
    <2>1. service.current = IF service.pending = << >> THEN None ELSE service.pending[1]
      BY <1>3 DEF Queued
    <2> QED BY <1>3, <2>1, RestartedResult
  <1>5. p # << >> => /\ p[1] \in Memo /\ p[1] # None /\ service.current = p[1]
                     /\ ~StillAtRemote(p[1], w, arr[p[1].dest])
    BY <1>1, <1>3, NoneApart DEF Queued
  <1> HIDE DEF d2
  <1>6. Same(m, State) /\ m.writes = State.writes /\ m.dg = d2
    BY <1>3, <1>4 DEF Same, Machine
  <1> HIDE DEF m, p, n, arr
  <1>7. /\ w \in Seq(Message)
        /\ \E d \in Nat : \A i \in 1 .. Len(w) : i + d \in 1 .. Len(wire) /\ w[i] = wire[i + d]
    BY <1>3, LeftoversAre
  <1>8. \A r \in Nodes : \E d \in Nat :
           \A i \in 1 .. Len(arr[r]) : i + d \in 1 .. Len(arriving[r]) /\ arr[r][i] = arriving[r][i + d]
    <2> TAKE r \in Nodes
    <2>1. arriving[r] \in Seq(Incoming) /\ arr[r] \in Leftovers(arriving[r])
      BY <1>2, <1>3
    <2> QED BY <2>1, LeftoversAre
  <1>9. Datagrams(w) = {}
    <2> SUFFICES ASSUME NEW k \in Datagrams(w) PROVE FALSE
      OBVIOUS
    <2>1. PICK d \in Nat : \A i \in 1 .. Len(w) : i + d \in 1 .. Len(wire) /\ w[i] = wire[i + d]
      BY <1>7
    <2>2. k + d \in Datagrams(wire) /\ w[k] = wire[k + d]
      BY <2>1 DEF Datagrams
    <2>3. p # << >> /\ w[k].memo = p[1]
      BY <1>3, <2>2 DEF OneOutstanding, p
    <2> QED BY <1>5, <2>3 DEF StillAtRemote
  <1>10. \A r \in Nodes : \A i \in 1 .. Len(arr[r]) : arr[r][i].kind = "Datagram"
    <2> SUFFICES ASSUME NEW r \in Nodes, NEW i \in 1 .. Len(arr[r]), arr[r][i].kind # "Datagram"
                 PROVE  FALSE
      OBVIOUS
    <2>1. PICK j \in 1 .. Len(arriving[r]) : arr[r][i] = arriving[r][j]
      BY <1>8
    <2>2. p # << >> /\ r = p[1].dest
      BY <1>3, <2>1 DEF OneOutstanding, p
    <2> QED BY <1>5, <2>2 DEF StillAtRemote
  <1>11. \A r \in Nodes : \E d \in Nat : \A j \in Datagrams(arr[r]) :
            j + d \in Datagrams(arriving[r]) /\ arr[r][j] = arriving[r][j + d]
    <2> TAKE r \in Nodes
    <2>1. PICK d \in Nat :
            \A i \in 1 .. Len(arr[r]) : i + d \in 1 .. Len(arriving[r]) /\ arr[r][i] = arriving[r][i + d]
      BY <1>8
    <2>2. \A j \in Datagrams(arr[r]) : j + d \in Datagrams(arriving[r]) /\ arr[r][j] = arriving[r][j + d]
      BY <2>1 DEF Datagrams
    <2> QED BY <2>2
  <1>12. Answering(d2, arr, n)
    <2> SUFFICES ASSUME NEW r \in Nodes, NEW j \in Datagrams(arr[r])
                 PROVE  IF arr[r][j].request = None THEN arr[r][j].content \in Others
                        ELSE /\ arr[r][j].request.node = r
                             /\ arr[r][j].request.number <= n
                             /\ arr[r][j].content = arr[r][j].request.op
                             /\ \A k \in 1 .. Len(p) :
                                   p[k].request = arr[r][j].request =>
                                      k = 1 /\ \E i \in 1 .. j - 1 : arr[r][i].kind # "Datagram"
                             /\ \A i \in Datagrams(arr[r]) :
                                   arr[r][i].request = arr[r][j].request => i = j
      BY <1>4 DEF Answering
    <2>1. PICK d \in Nat : \A i \in Datagrams(arr[r]) :
            i + d \in Datagrams(arriving[r]) /\ arr[r][i] = arriving[r][i + d]
      BY <1>11
    <2> DEFINE x == arr[r][j]
               jd == j + d
    <2>2. jd \in Datagrams(arriving[r]) /\ x = arriving[r][jd]
      BY <2>1
    <2> HIDE DEF x, jd
    <2>3. CASE x.request = None
      BY <1>3, <2>2, <2>3 DEF Answering, x
    <2>4. CASE x.request # None
      <3>1. /\ x.request.node = r
            /\ x.request.number <= n
            /\ x.content = x.request.op
        BY <1>3, <2>2, <2>4 DEF Answering
      <3>2. ASSUME NEW k \in 1 .. Len(p), p[k].request = x.request PROVE FALSE
        <4>1. k = 1
          BY <1>3, <2>2, <2>4, <3>2 DEF Answering, p
        <4>2. p # << >> /\ p[1].request = x.request
          BY <1>3, <3>2, <4>1
        <4>3. p[1].dest = r
          BY <1>3, <3>1, <3>2, <4>1, <4>2 DEF Queued, p
        <4>4. j \in 1 .. Len(arr[r])
          BY DEF Datagrams
        <4> QED BY <1>5, <4>2, <4>3, <4>4 DEF StillAtRemote, x
      <3>3. ASSUME NEW i \in Datagrams(arr[r]), arr[r][i].request = x.request PROVE i = j
        <4> DEFINE id == i + d
        <4>1. id \in Datagrams(arriving[r]) /\ arr[r][i] = arriving[r][id]
          BY <2>1
        <4> HIDE DEF id
        <4>2. id = jd
          BY <1>3, <2>2, <2>4, <3>3, <4>1 DEF Answering
        <4>3. i \in Nat /\ j \in Nat
          BY DEF Datagrams
        <4> QED BY <4>2, <4>3 DEF id, jd
      <3> QED BY <2>4, <3>1, <3>2, <3>3 DEF x
    <2> QED BY <2>3, <2>4
  <1>13. OneOutstanding(d2, w \o d2.sent, arr)
    <2>1. CASE p = << >>
      <3>1. d2.sent = << >> /\ w \o d2.sent = w
        BY <1>4, <1>7, <2>1
      <3> QED BY <1>9, <1>10, <3>1 DEF OneOutstanding
    <2>2. CASE p # << >>
      <3> DEFINE x == MessageOf(p[1])
                 w2 == Append(w, x)
      <3>1. x \in Message /\ x.kind = "Datagram" /\ x.node = p[1].dest /\ x.memo = p[1]
        BY <1>5, <2>2, MessageOfType
      <3>2. d2.sent = Append(<< >>, x)
        BY <1>4, <2>2
      <3> HIDE DEF x
      <3>3. w \o d2.sent = w2
        BY <1>7, <3>1, <3>2
      <3>4. Datagrams(w2) = {Len(w) + 1} /\ w2[Len(w) + 1] = x
        BY <1>7, <1>9, <3>1, DatagramsAppend
      <3> HIDE DEF w2
      <3> QED BY <1>4, <1>10, <2>2, <3>1, <3>3, <3>4 DEF OneOutstanding
    <2> QED BY <2>1, <2>2
  <1>14. Serial(m, arr)
    <2>1. ASSUME NEW q, Open(m, arr, q) PROVE Open(State, arriving, q)
      <3>1. InQueue(m.dg, q) => InQueue(service, q)
        BY <1>4, <1>6 DEF InQueue, p
      <3>2. Coming(arr, q) => Coming(arriving, q)
        BY <1>11 DEF Coming
      <3> QED BY <1>3, <2>1, <3>1, <3>2 DEF Open
    <2> QED BY <1>3, <1>6, <2>1 DEF Serial, Same
  <1>15. /\ m \in Machine /\ n \in Nat /\ Queued(m.dg, n)
         /\ Reads(m, n) /\ Writes(m) /\ Fitting(m)
    BY <1>3, <1>4, <1>6 DEF Keep, Queued, Reads, Writes, Fitting, Same, p
  <1>16. Keep(m, wire', arr, n)
    BY <1>1, <1>2, <1>6, <1>12, <1>13, <1>14, <1>15 DEF Keep, arr
  <1> QED BY <1>2, <1>16, FinishKeeps DEF n, arr

LEMMA InitIInv ==
  ASSUME Init
  PROVE  IInv
  <1> DEFINE m == State
  <1>1. /\ wire = << >> /\ requests = << >> /\ linkUp = TRUE
        /\ arriving = [r \in Nodes |-> << >>] /\ owed = [r \in Nodes |-> 0]
        /\ m.dg = NewService /\ m.reads = << >> /\ m.writes = << >> /\ m.length = None
        /\ m.called = << >>
        /\ m = [dg |-> NewService, reads |-> << >>, writes |-> << >>, length |-> None,
                called |-> << >>]
    BY DEF Init, State
  <1>2. /\ NewService \in Service /\ NewService.pending = << >> /\ NewService.sent = << >>
        /\ NewService.current = None
    BY DEF NewService, Service
  <1>3. m \in Machine
    BY <1>1, <1>2 DEF Machine
  <1>4. Datagrams(<< >>) = {}
    BY DEF Datagrams
  <1> HIDE DEF m
  <1>5. /\ Queued(m.dg, 0) /\ OneOutstanding(m.dg, wire, arriving)
        /\ Answering(m.dg, arriving, 0)
    BY <1>1, <1>2, <1>4 DEF Queued, OneOutstanding, Answering
  <1>6. Serial(m, arriving)
    BY <1>1, <1>2, <1>4 DEF Serial, Open, InQueue, Coming
  <1>7. Reads(m, 0) /\ Writes(m) /\ Fitting(m)
    BY <1>1 DEF Reads, Writes, Fitting
  <1>8. KeepNow
    BY <1>1, <1>3, <1>5, <1>6, <1>7 DEF Keep, KeepNow, m
  <1>9. RepliedOnce
    BY <1>1, <1>4, FS_EmptySet DEF RepliedOnce
  <1>10. service.sent = << >>
    BY <1>2 DEF Init
  <1> QED BY <1>1, <1>3, <1>8, <1>9, <1>10 DEF IInv, TInv, m

\* Every step of the users, the remotes, the service and the link keeps the invariant.
THEOREM AlwaysIInv == Spec => []IInv
  <1>1. Init => IInv
    BY InitIInv
  <1>2. IInv /\ [Next]_vars => IInv'
    <2> SUFFICES ASSUME IInv, [Next]_vars PROVE IInv'
      OBVIOUS
    <2> USE DEF IInv
    <2>1. CASE Ask
      <3>1. repeated' = repeated
        BY <2>1 DEF Ask
      <3> QED BY <2>1, <3>1, AskTypes, AskKeeps
    <2>2. ASSUME NEW r \in Nodes, RemoteAnswers(r) PROVE IInv'
      <3>1. repeated' = repeated
        BY <2>2 DEF RemoteAnswers, RemoteTakes
      <3> QED BY <2>2, <3>1, RemoteAnswersTypes, RemoteAnswersKeeps
    <2>3. ASSUME NEW r \in Nodes, RemoteHearsReply(r) PROVE IInv'
      <3>1. repeated' = repeated
        BY <2>3 DEF RemoteHearsReply, RemoteTakes
      <3> QED BY <2>3, <3>1, RemoteHearsReplyTypes, RemoteHearsReplyKeeps
    <2>4. ASSUME NEW r \in Nodes, RemoteSendsOther(r) PROVE IInv'
      <3>1. repeated' = repeated
        BY <2>4 DEF RemoteSendsOther
      <3> QED BY <2>4, <3>1, RemoteSendsOtherTypes, RemoteSendsOtherKeeps
    <2>5. ASSUME NEW r \in Nodes, handleReply(r) PROVE IInv'
      <3>1. repeated' = repeated
        BY <2>5 DEF handleReply, Receive
      <3> QED BY <2>5, <3>1, handleReplyTypes, handleReplyKeeps
    <2>6. ASSUME NEW r \in Nodes, handleUnmatchedReply(r) PROVE IInv'
      <3>1. /\ repeated' = repeated
            /\ arriving[r] # << >> /\ message(r).kind # "Datagram"
            /\ matchToWriteMemo(service, r) = None
        BY <2>6 DEF handleUnmatchedReply, Receive
      <3>2. repeated
        BY <3>1, RepliesAreMatched
      <3> QED BY <2>6, <3>1, <3>2, handleUnmatchedReplyTypes
    <2>7. ASSUME NEW r \in Nodes, handleDatagram(r) PROVE IInv'
      <3>1. repeated' = repeated
        BY <2>7 DEF handleDatagram, Receive
      <3> QED BY <2>7, <3>1, handleDatagramTypes, handleDatagramKeeps
    <2>8. CASE LinkQuiesce
      <3>1. repeated' = repeated
        BY <2>8 DEF LinkQuiesce
      <3> QED BY <2>8, <3>1, LinkQuiesceTypes, LinkQuiesceKeeps
    <2>9. CASE LinkRestarted
      <3>1. repeated => repeated'
        BY <2>9 DEF LinkRestarted
      <3> QED BY <2>9, <3>1, LinkRestartedTypes, LinkRestartedKeeps
    <2>10. CASE UNCHANGED vars
      <3>1. State' = State
        BY <2>10 DEF vars, State
      <3> QED BY <2>10, <3>1 DEF vars, TInv, KeepNow, RepliedOnce
    <2> QED BY <2>1, <2>2, <2>3, <2>4, <2>5, <2>6, <2>7, <2>8, <2>9, <2>10 DEF Next
  <1> QED BY <1>1, <1>2, PTL DEF Spec

-----------------------------------------------------------------------------
(* What the invariant says of the service. *)

\* "Read requests are serialized": whatever is asked, refused, answered or lost in an
\* outage, the only read in the datagram queue, on its way or being answered is the
\* oldest read that has no answer, as long as the outstanding datagram has not been sent
\* again (datagramservice.py:246) to a remote that still had it or its answer.
THEOREM OneReadAtATime == Spec => []ReadsSerialized
  <1>1. IInv => ReadsSerialized
    <2> SUFFICES ASSUME IInv, ~repeated, NEW q \in InProgress \ {None}, q.op = "read"
                 PROVE  readMemos # << >> /\ q = Head(readMemos)
      BY DEF ReadsSerialized
    <2>1. /\ State \in Machine /\ State.dg = service /\ State.reads = readMemos
          /\ OneOutstanding(service, wire, arriving) /\ Serial(State, arriving)
          /\ arriving \in [Nodes -> Seq(Incoming)]
      BY DEF IInv, KeepNow, Keep, State
    <2>2. service.pending \in Seq(Memo) /\ readMemos \in Seq(UserRequest)
      BY <2>1 DEF Machine, Service
    <2>3. InQueue(service, q) \/ Coming(arriving, q)
      <3>1. CASE q \in {service.pending[k].request : k \in 1 .. Len(service.pending)}
        BY <3>1 DEF InQueue
      <3>2. CASE q \in {wire[k].memo.request : k \in Datagrams(wire)}
        <4>1. PICK k \in Datagrams(wire) : q = wire[k].memo.request
          BY <3>2
        <4>2. service.pending # << >> /\ wire[k].memo = service.pending[1]
          BY <2>1, <4>1 DEF OneOutstanding
        <4>3. 1 \in 1 .. Len(service.pending)
          BY <2>2, <4>2
        <4> QED BY <4>1, <4>2, <4>3 DEF InQueue
      <3>3. CASE q \in UNION {{arriving[r][k].request : k \in Datagrams(arriving[r])} : r \in Nodes}
        BY <3>3 DEF Coming
      <3> QED BY <3>1, <3>2, <3>3 DEF InProgress
    <2>4. q \in UserRequest
      <3>1. CASE InQueue(service, q)
        <4>1. PICK k \in 1 .. Len(service.pending) : service.pending[k].request = q
          BY <3>1 DEF InQueue
        <4>2. service.pending[k] \in Memo
          BY <2>2
        <4> QED BY <4>1, <4>2 DEF Memo
      <3>2. CASE Coming(arriving, q)
        <4>1. PICK r \in Nodes : \E j \in Datagrams(arriving[r]) : arriving[r][j].request = q
          BY <3>2 DEF Coming
        <4>2. PICK j \in Datagrams(arriving[r]) : arriving[r][j].request = q
          BY <4>1
        <4>3. arriving[r][j] \in Incoming /\ arriving[r][j].kind = "Datagram"
          BY <2>1 DEF Datagrams
        <4> QED BY <4>2, <4>3 DEF Incoming, Took, Refused
      <3> QED BY <2>3, <3>1, <3>2
    <2>5. readMemos # << >> /\ q = readMemos[1]
      BY <2>1, <2>3, <2>4 DEF Serial, Open
    <2> QED BY <2>2, <2>5
  <1> QED BY <1>1, AlwaysIInv, PTL

\* The callback of a read gets the answer to that read, though a reply names only its
\* sender, whatever was rejected, answered late or lost in an outage before, as long as no
\* datagram was sent again to a remote that still had it or its answer: its second answer
\* would be given to the next read (memoryservice.py:183).
THEOREM ReadsGetTheirAnswers == Spec => []ReadAnswersMatch
  <1>1. IInv => ReadAnswersMatch
    <2> SUFFICES ASSUME IInv, ~repeated PROVE ReadAnswersMatch
      BY DEF ReadAnswersMatch
    <2>1. Fitting(State) /\ State.called = called
      BY DEF IInv, KeepNow, Keep, State
    <2> QED BY <2>1 DEF Fitting, ReadAnswersMatch
  <1> QED BY <1>1, AlwaysIInv, PTL

\* A reply to a datagram comes from the destination of the oldest one, so matchToWriteMemo
\* finds the memo, as long as no datagram was sent again to a remote that still had it or
\* its answer: that remote's second reply would find no memo, or another's.
THEOREM RepliesFindTheirMemo == Spec => []RepliesMatch
  <1>1. IInv => RepliesMatch
    BY RepliesAreMatched DEF IInv, RepliesMatch
  <1> QED BY <1>1, AlwaysIInv, PTL

\* Every datagram of a remote gets exactly one positive or negative reply, in the handler
\* that receives it: none is left without, and none is replied to twice, whatever comes
\* after an outage.
THEOREM ExactlyOneReply == Spec => []RepliedOnce
  <1>1. IInv => RepliedOnce
    BY DEF IInv, TInv
  <1> QED BY <1>1, AlwaysIInv, PTL

=============================================================================
