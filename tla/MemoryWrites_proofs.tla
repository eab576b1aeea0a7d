------------------------ MODULE MemoryWrites_proofs ------------------------
(***************************************************************************)
(* Proofs about the writes of MemoryAccess.  A reply to a write names only *)
(* its sender, and the write that was queued first for that node is taken: *)
(* that is the right one as long as every request is taken and answered    *)
(* with a datagram, and the link stays up.                                 *)
(***************************************************************************)
EXTENDS MemoryAccess_proofs

\* Every request gets a reply datagram ...
AlwaysAnswered == Answers \subseteq {"reply", "error"}

\* ... and none is lost.
NoOutages == MaxOutages = 0

-----------------------------------------------------------------------------
(* The inductive invariant: the writes are remembered, sent and answered   *)
(* in one order.  "x" is the request that is being answered, or None.      *)

IsWrite(q) == q \in UserRequest /\ q.op = "write"

\* The memos are in the order of the calls, and their requests are open.
Remembered(m, arr, n, x) ==
    /\ \A i, j \in 1 .. Len(m.writes) : i < j => m.writes[i].number < m.writes[j].number
    /\ \A i \in 1 .. Len(m.writes) :
          m.writes[i].number <= n /\ (Open(m, arr, m.writes[i]) \/ m.writes[i] = x)

\* An open write has a memo.
HasMemo(m, arr) ==
    \A q \in UserRequest :
        q.op = "write" /\ Open(m, arr, q) => \E i \in 1 .. Len(m.writes) : m.writes[i] = q

\* So are the writes in the datagram queue.
QueueInOrder(p, n) ==
    \A i \in 1 .. Len(p) : IsWrite(p[i].request) =>
        /\ p[i].request.number <= n
        /\ \A j \in 1 .. Len(p) :
              i < j /\ IsWrite(p[j].request) => p[i].request.number < p[j].request.number

\* A remote's replies to writes come in that order, and before those to the writes that
\* are still in the queue.
AnswersInOrder(p, arr, n) ==
    \A r \in Nodes : \A j \in Datagrams(arr[r]) : IsWrite(arr[r][j].request) =>
        /\ arr[r][j].request.number <= n
        /\ \A i \in Datagrams(arr[r]) :
              j < i /\ IsWrite(arr[r][i].request)
                 => arr[r][j].request.number < arr[r][i].request.number
        /\ \A k \in 1 .. Len(p) :
              IsWrite(p[k].request) /\ p[k].request.node = r /\ p[k].request # arr[r][j].request
                 => arr[r][j].request.number < p[k].request.number

\* The reply to a request's datagram is followed by the reply datagram.
AnswerFollows(p, arr) ==
    \A r \in Nodes : \A i \in 1 .. Len(arr[r]) : arr[r][i].kind # "Datagram" =>
        /\ p # << >>
        /\ \E j \in Datagrams(arr[r]) : i < j /\ arr[r][j].request = p[1].request

Written(m, arr, n, x) ==
    /\ m \in Machine /\ arr \in [Nodes -> Seq(Incoming)] /\ n \in Nat
    /\ Remembered(m, arr, n, x)
    /\ HasMemo(m, arr)
    /\ QueueInOrder(m.dg.pending, n)
    /\ AnswersInOrder(m.dg.pending, arr, n)
    /\ AnswerFollows(m.dg.pending, arr)

\* Write q, whose answer is being received, is the oldest that is remembered for r.
Oldest(m, arr, r, q) ==
    /\ q.node = r /\ ~Open(m, arr, q)
    /\ \E i \in 1 .. Len(m.writes) : m.writes[i] = q
    /\ \A i \in 1 .. Len(m.writes) :
          m.writes[i].node = r /\ m.writes[i] # q => q.number < m.writes[i].number

Matched(m) == \A k \in 1 .. Len(m.called) : m.called[k].request = m.called[k].of

LEMMA WrittenSame ==
  ASSUME NEW m, NEW arr, NEW n, NEW x, Written(m, arr, n, x), NEW m2 \in Machine,
         m2.dg.pending = m.dg.pending, m2.writes = m.writes
  PROVE  /\ Written(m2, arr, n, x)
         /\ \A q : Open(m2, arr, q) <=> Open(m, arr, q)
  <1>1. \A q : Open(m2, arr, q) <=> Open(m, arr, q)
    BY DEF Open, InQueue
  <1>2. Remembered(m2, arr, n, x) /\ HasMemo(m2, arr)
    BY <1>1 DEF Written, Remembered, HasMemo
  <1> QED BY <1>1, <1>2 DEF Written

LEMMA WrittenMore ==
  ASSUME NEW m, NEW arr, NEW n, NEW x, Written(m, arr, n, x)
  PROVE  Written(m, arr, n + 1, x)
  <1>1. n \in Nat /\ m.writes \in Seq(UserRequest)
    BY DEF Written, Machine
  <1>2. \A q \in UserRequest : q.number \in Nat
    BY DEF UserRequest
  <1>3. Remembered(m, arr, n + 1, x)
    <2>1. \A i \in 1 .. Len(m.writes) : m.writes[i].number \in Nat /\ m.writes[i].number <= n
      BY <1>1, <1>2 DEF Written, Remembered
    <2>2. \A i \in 1 .. Len(m.writes) : m.writes[i].number <= n + 1
      BY <1>1, <2>1
    <2> QED BY <2>2 DEF Written, Remembered
  <1>4. \A q : IsWrite(q) /\ q.number <= n => q.number <= n + 1
    BY <1>1, <1>2 DEF IsWrite
  <1>5. QueueInOrder(m.dg.pending, n + 1) /\ AnswersInOrder(m.dg.pending, arr, n + 1)
    BY <1>4 DEF Written, QueueInOrder, AnswersInOrder
  <1> QED BY <1>1, <1>3, <1>5 DEF Written

-----------------------------------------------------------------------------
(* Requests. *)
\* A request is put at the end of the datagram queue: a new write, whose memo is put at
\* the end of the memos, or a request of another kind.
LEMMA WrittenQueued ==
  ASSUME NEW m, NEW arr, NEW n, NEW x, Written(m, arr, n, x),
         NEW m2 \in Machine, NEW q \in UserRequest, NEW n2,
         m2.dg.pending = Append(m.dg.pending, MemoOf(q)),
         \/ q.op # "write" /\ m2.writes = m.writes /\ n2 = n
         \/ /\ q.op = "write" /\ q.number = n + 1 /\ n2 = n + 1
            /\ m2.writes = Append(m.writes, q)
  PROVE  Written(m2, arr, n2, x)
  <1> DEFINE p == m.dg.pending
             p2 == m2.dg.pending
             W == m.writes
             W2 == m2.writes
             IsNew == q.op = "write" /\ q.number = n + 1 /\ n2 = n + 1 /\ W2 = Append(W, q)
             IsOther == q.op # "write" /\ W2 = W /\ n2 = n
  <1>1. /\ n \in Nat /\ n2 \in Nat /\ n <= n2
        /\ p \in Seq(Memo) /\ W \in Seq(UserRequest) /\ W2 \in Seq(UserRequest)
        /\ arr \in [Nodes -> Seq(Incoming)]
    BY DEF Written, Machine, Service
  <1>2. /\ p2 = Append(p, MemoOf(q)) /\ MemoOf(q) \in Memo /\ MemoOf(q).request = q
    BY MemoOfType
  <1>3. IsNew \/ IsOther
    OBVIOUS
  <1>4. /\ Remembered(m, arr, n, x) /\ HasMemo(m, arr) /\ QueueInOrder(p, n)
        /\ AnswersInOrder(p, arr, n) /\ AnswerFollows(p, arr)
    BY DEF Written
  <1> HIDE DEF p, p2, W, W2
  <1>5. /\ Len(p) \in Nat /\ Len(p2) = Len(p) + 1 /\ p2 # << >>
        /\ \A k \in 1 .. Len(p) : k \in 1 .. Len(p2) /\ p2[k] = p[k]
        /\ p2[Len(p) + 1].request = q /\ Len(p) + 1 \in 1 .. Len(p2)
        /\ \A k \in 1 .. Len(p2) :
              \/ k \in 1 .. Len(p) /\ p2[k] = p[k]
              \/ k = Len(p) + 1 /\ p2[k].request = q
    <2>1. /\ Len(p) \in Nat /\ Len(p2) = Len(p) + 1
          /\ \A k \in 1 .. Len(p) : p2[k] = p[k]
          /\ p2[Len(p) + 1] = MemoOf(q)
      BY <1>1, <1>2
    <2>2. \A k \in 1 .. Len(p2) : k \in 1 .. Len(p) \/ k = Len(p) + 1
      BY <2>1
    <2>3. p2 # << >>
      BY SMTT(60), <1>1, <1>2
    <2>4. /\ \A k \in 1 .. Len(p) : k \in 1 .. Len(p2)
          /\ Len(p) + 1 \in 1 .. Len(p2)
      BY <2>1
    <2> QED BY <1>2, <2>1, <2>2, <2>3, <2>4
  <1>6. \A q2 : Open(m2, arr, q2) <=> Open(m, arr, q2) \/ q2 = q
    <2>1. \A q2 : InQueue(m2.dg, q2) <=> InQueue(m.dg, q2) \/ q2 = q
      BY <1>5 DEF InQueue, p, p2
    <2> QED BY <2>1 DEF Open
  <1>7. /\ Len(W) \in Nat
        /\ \A i \in 1 .. Len(W) : i \in 1 .. Len(W2) /\ W2[i] = W[i]
        /\ \A i \in 1 .. Len(W2) :
              \/ i \in 1 .. Len(W) /\ W2[i] = W[i]
              \/ i = Len(W) + 1 /\ IsNew /\ W2[i] = q
        /\ IsNew => Len(W) + 1 \in 1 .. Len(W2) /\ W2[Len(W) + 1] = q
    <2>0. Len(W) \in Nat
      BY <1>1
    <2>1. CASE IsOther
      BY <2>0, <2>1
    <2>2. CASE IsNew
      <3>1. /\ Len(W2) = Len(W) + 1
            /\ \A i \in 1 .. Len(W) : W2[i] = W[i]
            /\ W2[Len(W) + 1] = q
        BY <1>1, <2>2
      <3>2. /\ \A i \in 1 .. Len(W2) : i \in 1 .. Len(W) \/ i = Len(W) + 1
            /\ \A i \in 1 .. Len(W) : i \in 1 .. Len(W2)
            /\ Len(W) + 1 \in 1 .. Len(W2)
        BY <2>0, <3>1
      <3> QED BY <2>0, <2>2, <3>1, <3>2
    <2> QED BY <1>3, <2>1, <2>2
  <1>8. \A q2 \in UserRequest : q2.number \in Nat
    BY DEF UserRequest
  <1>9. Remembered(m2, arr, n2, x)
    <2>0. \A i \in 1 .. Len(W) : W[i] \in UserRequest /\ W[i].number \in Nat /\ W[i].number <= n
      BY <1>1, <1>4, <1>8 DEF Remembered, W
    <2>1. ASSUME NEW i \in 1 .. Len(W2), NEW j \in 1 .. Len(W2), i < j
          PROVE  W2[i].number < W2[j].number
      <3>1. CASE j \in 1 .. Len(W) /\ W2[j] = W[j]
        <4>1. i \in 1 .. Len(W) /\ W2[i] = W[i]
          BY <1>7, <2>1, <3>1
        <4> QED BY <1>4, <2>1, <3>1, <4>1 DEF Remembered, W
      <3>2. CASE j = Len(W) + 1 /\ IsNew /\ W2[j] = q
        <4>1. i \in 1 .. Len(W) /\ W2[i] = W[i]
          BY <1>7, <2>1, <3>2
        <4> QED BY <1>1, <2>0, <3>2, <4>1
      <3> QED BY <1>7, <3>1, <3>2
    <2>2. ASSUME NEW i \in 1 .. Len(W2)
          PROVE  W2[i].number <= n2 /\ (Open(m2, arr, W2[i]) \/ W2[i] = x)
      <3>1. CASE i \in 1 .. Len(W) /\ W2[i] = W[i]
        <4>1. Open(m, arr, W[i]) \/ W[i] = x
          BY <1>4, <3>1 DEF Remembered, W
        <4> QED BY <1>1, <1>6, <2>0, <3>1, <4>1
      <3>2. CASE i = Len(W) + 1 /\ IsNew /\ W2[i] = q
        BY <1>1, <1>6, <3>2
      <3> QED BY <1>7, <3>1, <3>2
    <2> QED BY <2>1, <2>2 DEF Remembered, W2
  <1>10. HasMemo(m2, arr)
    <2> SUFFICES ASSUME NEW q2 \in UserRequest, q2.op = "write", Open(m2, arr, q2)
                 PROVE  \E i \in 1 .. Len(W2) : W2[i] = q2
      BY DEF HasMemo, W2
    <2>1. CASE Open(m, arr, q2)
      BY <1>4, <1>7, <2>1 DEF HasMemo, W
    <2>2. CASE q2 = q
      BY <1>3, <1>7, <2>2
    <2> QED BY <1>6, <2>1, <2>2
  <1>11. QueueInOrder(p2, n2)
    <2> SUFFICES ASSUME NEW i \in 1 .. Len(p2), IsWrite(p2[i].request)
                 PROVE  /\ p2[i].request.number <= n2
                        /\ \A j \in 1 .. Len(p2) : i < j /\ IsWrite(p2[j].request)
                              => p2[i].request.number < p2[j].request.number
      BY DEF QueueInOrder
    <2>1. CASE i \in 1 .. Len(p) /\ p2[i] = p[i]
      <3>1. p[i].request.number \in Nat /\ p[i].request.number <= n
        BY <1>4, <1>8, <2>1 DEF QueueInOrder, IsWrite
      <3>2. ASSUME NEW j \in 1 .. Len(p2), i < j, IsWrite(p2[j].request)
            PROVE  p2[i].request.number < p2[j].request.number
        <4>1. CASE j \in 1 .. Len(p) /\ p2[j] = p[j]
          BY <1>4, <2>1, <3>2, <4>1 DEF QueueInOrder
        <4>2. CASE j = Len(p) + 1 /\ p2[j].request = q
          <5>1. q.op = "write"
            BY <3>2, <4>2 DEF IsWrite
          <5>2. q.number = n + 1
            BY <1>3, <5>1
          <5> QED BY <1>1, <2>1, <3>1, <4>2, <5>2
        <4> QED BY <1>5, <4>1, <4>2
      <3> QED BY <1>1, <2>1, <3>1, <3>2
    <2>2. CASE i = Len(p) + 1 /\ p2[i].request = q
      <3>1. q.op = "write" /\ q.number = n + 1 /\ n2 = n + 1
        BY <1>3, <2>2 DEF IsWrite
      <3>2. \A j \in 1 .. Len(p2) : ~(i < j)
        BY <1>5, <2>2
      <3> QED BY <1>1, <2>2, <3>1, <3>2
    <2> QED BY <1>5, <2>1, <2>2
  <1>12. AnswersInOrder(p2, arr, n2)
    <2> SUFFICES ASSUME NEW r \in Nodes, NEW j \in Datagrams(arr[r]), IsWrite(arr[r][j].request)
                 PROVE  /\ arr[r][j].request.number <= n2
                        /\ \A i \in Datagrams(arr[r]) : j < i /\ IsWrite(arr[r][i].request)
                              => arr[r][j].request.number < arr[r][i].request.number
                        /\ \A k \in 1 .. Len(p2) :
                              /\ IsWrite(p2[k].request) /\ p2[k].request.node = r
                              /\ p2[k].request # arr[r][j].request
                              => arr[r][j].request.number < p2[k].request.number
      BY DEF AnswersInOrder
    <2>1. /\ arr[r][j].request.number \in Nat /\ arr[r][j].request.number <= n
          /\ \A i \in Datagrams(arr[r]) : j < i /\ IsWrite(arr[r][i].request)
                => arr[r][j].request.number < arr[r][i].request.number
          /\ \A k \in 1 .. Len(p) :
                /\ IsWrite(p[k].request) /\ p[k].request.node = r
                /\ p[k].request # arr[r][j].request
                => arr[r][j].request.number < p[k].request.number
      BY <1>4, <1>8 DEF AnswersInOrder, IsWrite
    <2>2. ASSUME NEW k \in 1 .. Len(p2), IsWrite(p2[k].request), p2[k].request.node = r,
                 p2[k].request # arr[r][j].request
          PROVE  arr[r][j].request.number < p2[k].request.number
      <3>1. CASE k \in 1 .. Len(p) /\ p2[k] = p[k]
        BY <2>1, <2>2, <3>1
      <3>2. CASE k = Len(p) + 1 /\ p2[k].request = q
        <4>1. q.op = "write"
          BY <2>2, <3>2 DEF IsWrite
        <4>2. q.number = n + 1
          BY <1>3, <4>1
        <4> QED BY <1>1, <2>1, <3>2, <4>2
      <3> QED BY <1>5, <3>1, <3>2
    <2> QED BY <1>1, <2>1, <2>2
  <1>13. AnswerFollows(p2, arr)
    <2> SUFFICES ASSUME NEW r \in Nodes, NEW i \in 1 .. Len(arr[r]), arr[r][i].kind # "Datagram"
                 PROVE  \E j \in Datagrams(arr[r]) : i < j /\ arr[r][j].request = p2[1].request
      BY <1>5 DEF AnswerFollows
    <2>1. p # << >> /\ \E j \in Datagrams(arr[r]) : i < j /\ arr[r][j].request = p[1].request
      BY <1>4 DEF AnswerFollows
    <2>2. 1 \in 1 .. Len(p)
      BY <1>1, <2>1
    <2> QED BY <1>5, <2>1, <2>2
  <1> QED BY <1>1, <1>9, <1>10, <1>11, <1>12, <1>13 DEF Written, p2

\* What the users' requests do to the queue and the memos.
LEMMA WrittenRequest ==
  ASSUME NEW m, NEW arr, NEW n, NEW x, Written(m, arr, n, x),
         NEW q \in UserRequest, q.number = n + 1
  PROVE  Written(Request(m, q), arr, n + 1, x) /\ Request(m, q).called = m.called
  <1>1. m \in Machine /\ n \in Nat
    BY DEF Written
  <1>2. q.op \in {"read", "write", "length"}
    BY ConstantsAssumption DEF UserRequest
  <1>3. Written(m, arr, n + 1, x)
    BY WrittenMore
  <1>4. ASSUME NEW m1 \in Machine, m1.dg = m.dg, m1.writes = m.writes, m1.called = m.called,
               q.op # "write"
        PROVE  /\ Written(m1, arr, n + 1, x)
               /\ Written(SendRequest(m1, q), arr, n + 1, x)
               /\ SendRequest(m1, q).called = m.called
    <2> DEFINE m2 == SendRequest(m1, q)
               n1 == n + 1
    <2>1. /\ m2 \in Machine /\ m2.dg.pending = Append(m.dg.pending, MemoOf(q))
          /\ m2.writes = m.writes /\ m2.called = m.called
      BY <1>4, SendRequestResult
    <2> HIDE DEF m2, n1
    <2>2. Written(m, arr, n1, x)
      BY <1>3 DEF n1
    <2>3. Written(m1, arr, n1, x)
      BY <1>4, <2>2, WrittenSame
    <2>4. Written(m2, arr, n1, x)
      BY <1>4, <2>1, <2>2, WrittenQueued
    <2> QED BY <2>1, <2>3, <2>4 DEF m2, n1
  <1>5. CASE q.op = "read"
    <2> DEFINE m1 == [m EXCEPT !.reads = Append(@, q)]
    <2>1. m1 \in Machine /\ m1.dg = m.dg /\ m1.writes = m.writes /\ m1.called = m.called
      <3>1. Append(m.reads, q) \in Seq(UserRequest)
        BY <1>1 DEF Machine
      <3> QED BY <1>1, <3>1 DEF Machine
    <2>2. Request(m, q) = IF Len(m1.reads) = 1 THEN SendRequest(m1, q) ELSE m1
      BY <1>5 DEF Request, requestMemoryRead, requestMemoryReadNext
    <2> HIDE DEF m1
    <2> QED BY <1>4, <1>5, <2>1, <2>2
  <1>6. CASE q.op = "length"
    <2> DEFINE m1 == [m EXCEPT !.length = q]
    <2>1. m1 \in Machine /\ m1.dg = m.dg /\ m1.writes = m.writes /\ m1.called = m.called
      BY <1>1 DEF Machine
    <2>2. Request(m, q) = IF m.length # None THEN m ELSE SendRequest(m1, q)
      BY <1>6 DEF Request, requestSpaceLength
    <2> HIDE DEF m1
    <2> QED BY <1>3, <1>4, <1>6, <2>1, <2>2
  <1>7. CASE q.op = "write"
    <2> DEFINE m1 == [m EXCEPT !.writes = Append(@, q)]
               m2 == SendRequest(m1, q)
               n1 == n + 1
    <2>1. m1 \in Machine /\ m1.dg = m.dg /\ m1.writes = Append(m.writes, q)
            /\ m1.called = m.called
      <3>1. Append(m.writes, q) \in Seq(UserRequest)
        BY <1>1 DEF Machine
      <3> QED BY <1>1, <3>1 DEF Machine
    <2>2. Request(m, q) = m2
      BY <1>7 DEF Request, requestMemoryWrite
    <2> HIDE DEF m1
    <2>3. /\ m2 \in Machine /\ m2.dg.pending = Append(m.dg.pending, MemoOf(q))
          /\ m2.writes = Append(m.writes, q) /\ m2.called = m.called
      BY <2>1, SendRequestResult
    <2> HIDE DEF m2
    <2>4. n1 = n + 1
      OBVIOUS
    <2> HIDE DEF n1
    <2>5. Written(m2, arr, n1, x)
      BY <1>7, <2>3, <2>4, WrittenQueued
    <2> QED BY <2>2, <2>3, <2>4, <2>5
  <1> QED BY <1>2, <1>5, <1>6, <1>7
-----------------------------------------------------------------------------
(* A datagram of a remote. *)

LEMMA WrittenCallback ==
  ASSUME NEW m, NEW arr, NEW n, NEW x, Written(m, arr, n, x), Matched(m),
         NEW q \in UserRequest, NEW dg, dg.answer \in Answers \cup {"none"}, dg.request = q,
         NEW then \in UserRequest \cup {None}, then # None => then.number = n + 1
  PROVE  LET m2 == Callback(m, q, dg, then) IN
         Written(m2, arr, IF then = None THEN n ELSE n + 1, x) /\ Matched(m2)
  <1> DEFINE call == [request |-> q, answer |-> dg.answer, of |-> dg.request]
             m1 == [m EXCEPT !.called = Append(@, call)]
  <1>1. m \in Machine /\ m.called \in Seq(Call)
    BY DEF Written, Machine
  <1>2. call \in Call /\ call.request = q /\ call.of = q
    BY DEF Call
  <1> HIDE DEF call
  <1>3. /\ m1 \in Machine /\ m1.dg = m.dg /\ m1.writes = m.writes
        /\ m1.called = Append(m.called, call)
    <2>1. Append(m.called, call) \in Seq(Call)
      BY <1>1, <1>2
    <2> QED BY <1>1, <2>1 DEF Machine
  <1>4. Callback(m, q, dg, then) = IF then = None THEN m1 ELSE Request(m1, then)
    BY DEF Callback, call
  <1> HIDE DEF m1
  <1>5. Written(m1, arr, n, x)
    BY <1>3, WrittenSame
  <1>6. Matched(m1)
    <2>1. \A k \in 1 .. Len(m1.called) :
             \/ k \in 1 .. Len(m.called) /\ m1.called[k] = m.called[k]
             \/ m1.called[k] = call
      BY <1>1, <1>2, <1>3
    <2> QED BY <1>2, <2>1 DEF Matched
  <1>7. CASE then = None
    BY <1>4, <1>5, <1>6, <1>7
  <1>8. CASE then # None
    <2>1. then \in UserRequest /\ then.number = n + 1
      BY <1>8
    <2>2. Written(Request(m1, then), arr, n + 1, x) /\ Request(m1, then).called = m1.called
      BY <1>5, <2>1, WrittenRequest
    <2> QED BY <1>4, <1>6, <1>8, <2>2 DEF Matched
  <1> QED BY <1>7, <1>8

LEMMA WrittenReadReply ==
  ASSUME NEW m, NEW arr, NEW n, NEW x, Written(m, arr, n, x), Matched(m),
         NEW r \in Nodes, NEW dg,
         dg.answer \in Answers \cup {"none"}, dg.request \in UserRequest, dg.request.node = r,
         m.reads # << >>, m.reads[1] = dg.request,
         \A k \in 1 .. Len(m.reads) : m.reads[k].op = "read",
         NEW then \in UserRequest \cup {None}, then # None => then.number = n + 1
  PROVE  LET m2 == ReadReply(m, r, dg, then) IN
         Written(m2, arr, IF then = None THEN n ELSE n + 1, x) /\ Matched(m2)
  <1> DEFINE k == FirstFor(m.reads, r)
             m1 == [m EXCEPT !.reads = RemoveAt(@, k)]
             m2 == IF m1.reads = << >> THEN m1 ELSE SendRequest(m1, Head(m1.reads))
  <1>1. m \in Machine /\ m.reads \in Seq(UserRequest) /\ n \in Nat
    BY DEF Written, Machine
  <1>2. Len(m.reads) \in Nat \ {0} /\ k = 1
    <2>1. Len(m.reads) \in Nat \ {0}
      BY <1>1
    <2>2. k \in 0 .. Len(m.reads) /\ (k = 0 => m.reads[1].node # r) /\ (k # 0 => k <= 1)
      BY <1>1, <2>1, FirstForIs
    <2> HIDE DEF k
    <2> QED BY <2>1, <2>2
  <1>3. ReadReply(m, r, dg, then) = Callback(m2, dg.request, dg, then)
    BY <1>2 DEF ReadReply, requestMemoryReadNext
  <1> HIDE DEF k
  <1>4. /\ RemoveAt(m.reads, k) \in Seq(UserRequest)
        /\ Len(RemoveAt(m.reads, k)) = Len(m.reads) - 1
        /\ \A i \in 1 .. Len(m.reads) - 1 : RemoveAt(m.reads, k)[i] = m.reads[i + 1]
    <2>1. k \in 1 .. Len(m.reads) /\ \A i \in 1 .. Len(m.reads) - 1 : ~(i < k)
      BY <1>2
    <2> QED BY <1>1, <2>1, RemoveAtIs
  <1>5. /\ m1 \in Machine /\ m1.dg = m.dg /\ m1.reads = RemoveAt(m.reads, k)
        /\ m1.writes = m.writes /\ m1.called = m.called
    BY <1>1, <1>4 DEF Machine
  <1> HIDE DEF m1
  <1>6. Written(m1, arr, n, x)
    BY <1>5, WrittenSame
  <1>7. Written(m2, arr, n, x) /\ m2.called = m.called
    <2>1. CASE m1.reads = << >>
      BY <1>5, <1>6, <2>1
    <2>2. CASE m1.reads # << >>
      <3> DEFINE q == Head(m1.reads)
      <3>1. q = m.reads[2] /\ 2 \in 1 .. Len(m.reads) /\ q \in UserRequest
        BY <1>1, <1>4, <1>5, <2>2
      <3>2. q.op # "write"
        BY <3>1
      <3>3. m2 = SendRequest(m1, q)
        BY <2>2
      <3> HIDE DEF q, m2
      <3>4. /\ m2 \in Machine /\ m2.dg.pending = Append(m1.dg.pending, MemoOf(q))
            /\ m2.writes = m1.writes /\ m2.called = m1.called
        BY <1>5, <3>1, <3>3, SendRequestResult
      <3>5. Written(m2, arr, n, x)
        BY <1>6, <3>1, <3>2, <3>4, WrittenQueued
      <3> QED BY <1>5, <3>4, <3>5
    <2> QED BY <2>1, <2>2
  <1> HIDE DEF m2
  <1>8. Matched(m2)
    BY <1>7 DEF Matched
  <1> QED BY <1>3, <1>7, <1>8, WrittenCallback

LEMMA WrittenLengthReply ==
  ASSUME NEW m, NEW arr, NEW n, NEW x, Written(m, arr, n, x), Matched(m),
         NEW dg,
         dg.answer \in Answers \cup {"none"}, dg.request \in UserRequest, m.length = dg.request,
         NEW then \in UserRequest \cup {None}, then # None => then.number = n + 1
  PROVE  LET m2 == LengthReply(m, dg, then) IN
         Written(m2, arr, IF then = None THEN n ELSE n + 1, x) /\ Matched(m2)
  <1> DEFINE m1 == Callback(m, dg.request, dg, then)
             m2 == [m1 EXCEPT !.length = None]
             n2 == IF then = None THEN n ELSE n + 1
  <1>1. LengthReply(m, dg, then) = m2
    BY NoneApart DEF LengthReply
  <1>2. Written(m1, arr, n2, x) /\ Matched(m1)
    BY WrittenCallback
  <1> HIDE DEF m1, n2
  <1>3. m1 \in Machine
    BY <1>2 DEF Written
  <1>4. m2 \in Machine /\ m2.dg = m1.dg /\ m2.writes = m1.writes /\ m2.called = m1.called
    BY <1>3 DEF Machine
  <1> HIDE DEF m2
  <1>5. Written(m2, arr, n2, x) /\ Matched(m2)
    BY <1>2, <1>4, WrittenSame DEF Matched
  <1> QED BY <1>1, <1>5 DEF n2

\* The memo that was queued first for the remote is the one of the write it answers.
LEMMA WrittenWriteReply ==
  ASSUME NEW m, NEW arr, NEW n, NEW q, Written(m, arr, n, q), Matched(m),
         NEW r \in Nodes, NEW dg,
         dg.answer \in Answers \cup {"none"}, dg.request = q, IsWrite(q),
         Oldest(m, arr, r, q),
         NEW then \in UserRequest \cup {None}, then # None => then.number = n + 1
  PROVE  LET m2 == WriteReply(m, r, dg, then) IN
         Written(m2, arr, IF then = None THEN n ELSE n + 1, None) /\ Matched(m2)
  <1> DEFINE W == m.writes
             k == FirstFor(W, r)
             m1 == [m EXCEPT !.writes = RemoveAt(@, k)]
             W1 == m1.writes
             n2 == IF then = None THEN n ELSE n + 1
  <1>1. /\ m \in Machine /\ W \in Seq(UserRequest) /\ q \in UserRequest
        /\ Remembered(m, arr, n, q) /\ HasMemo(m, arr)
    BY DEF Written, Machine, IsWrite
  <1>a. /\ ~Open(m, arr, q)
        /\ \E i \in 1 .. Len(W) : W[i] = q
        /\ \A i \in 1 .. Len(W) : W[i].node = r /\ W[i] # q => q.number < W[i].number
        /\ q.node = r
    BY DEF Oldest
  <1>2. \A i \in 1 .. Len(W) : W[i] \in UserRequest /\ W[i].number \in Nat
    <2> HIDE DEF W
    <2>1. \A i \in 1 .. Len(W) : W[i] \in UserRequest
      BY <1>1
    <2> QED BY <2>1 DEF UserRequest
  <1>3. PICK kq \in 1 .. Len(W) : W[kq] = q
    BY <1>a
  <1>4. k \in 1 .. Len(W) /\ W[k] = q
    <2>1. /\ k \in 0 .. Len(W)
          /\ k = 0 => \A i \in 1 .. Len(W) : W[i].node # r
          /\ k # 0 => W[k].node = r /\ k <= kq
      BY <1>1, <1>3, <1>a, FirstForIs
    <2> HIDE DEF k
    <2>2. k \in 1 .. Len(W) /\ W[k].node = r /\ k <= kq
      BY <1>3, <1>a, <2>1
    <2>3. k < kq => W[k].number < q.number
      BY <1>1, <1>3, <2>2 DEF Remembered
    <2>4. W[k] # q => q.number < W[k].number
      BY <1>a, <2>2
    <2>5. k < kq \/ k = kq
      BY <2>2
    <2> QED BY <1>2, <1>3, <2>2, <2>3, <2>4, <2>5
  <1>5. WriteReply(m, r, dg, then) = Callback(m1, q, dg, then)
    BY <1>4 DEF WriteReply
  <1> HIDE DEF k
  <1>6. /\ RemoveAt(W, k) \in Seq(UserRequest) /\ Len(W) \in Nat
        /\ Len(RemoveAt(W, k)) = Len(W) - 1
        /\ \A i \in 1 .. Len(W) - 1 : RemoveAt(W, k)[i] = IF i < k THEN W[i] ELSE W[i + 1]
    <2> HIDE DEF W
    <2>1. Len(W) \in Nat
      BY <1>1
    <2> QED BY <1>1, <1>4, <2>1, RemoveAtIs
  <1>7. /\ m1 \in Machine /\ W1 = RemoveAt(W, k) /\ m1.dg = m.dg /\ m1.called = m.called
    BY <1>1, <1>6 DEF Machine
  <1> HIDE DEF m1, W, W1
  <1>8. \A i \in 1 .. Len(W1) :
           LET j == IF i < k THEN i ELSE i + 1 IN
           j \in 1 .. Len(W) /\ j # k /\ W1[i] = W[j] /\ i \in Nat
    BY <1>4, <1>6, <1>7
  <1>9. \A q2 : Open(m1, arr, q2) <=> Open(m, arr, q2)
    BY <1>7 DEF Open, InQueue
  <1>10. \A i \in 1 .. Len(W) : W[i] = q => i = k
    <2> SUFFICES ASSUME NEW i \in 1 .. Len(W), W[i] = q PROVE i = k
      OBVIOUS
    <2>1. ~(W[i].number < W[k].number) /\ ~(W[k].number < W[i].number)
      BY <1>2, <1>4
    <2>2. (i < k => W[i].number < W[k].number) /\ (k < i => W[k].number < W[i].number)
      BY <1>1, <1>4 DEF Remembered, W
    <2> QED BY <1>4, <2>1, <2>2
  <1>11. Remembered(m1, arr, n, None)
    <2>1. ASSUME NEW i \in 1 .. Len(W1), NEW j \in 1 .. Len(W1), i < j
          PROVE  W1[i].number < W1[j].number
      <3> DEFINE i2 == IF i < k THEN i ELSE i + 1
                 j2 == IF j < k THEN j ELSE j + 1
      <3>1. /\ i2 \in 1 .. Len(W) /\ W1[i] = W[i2]
            /\ j2 \in 1 .. Len(W) /\ W1[j] = W[j2]
        BY <1>8
      <3>2. i2 < j2
        BY <1>4, <2>1
      <3> HIDE DEF i2, j2
      <3> QED BY <1>1, <3>1, <3>2 DEF Remembered, W
    <2>2. ASSUME NEW i \in 1 .. Len(W1)
          PROVE  W1[i].number <= n /\ (Open(m1, arr, W1[i]) \/ W1[i] = None)
      <3> DEFINE i2 == IF i < k THEN i ELSE i + 1
      <3>1. i2 \in 1 .. Len(W) /\ i2 # k /\ W1[i] = W[i2]
        BY <1>8
      <3> HIDE DEF i2
      <3>2. W[i2] # q
        BY <1>10, <3>1
      <3> QED BY <1>1, <1>9, <3>1, <3>2 DEF Remembered, W
    <2> QED BY <2>1, <2>2 DEF Remembered, W1
  <1>12. HasMemo(m1, arr)
    <2> SUFFICES ASSUME NEW q2 \in UserRequest, q2.op = "write", Open(m1, arr, q2)
                 PROVE  \E i \in 1 .. Len(W1) : W1[i] = q2
      BY DEF HasMemo, W1
    <2>1. Open(m, arr, q2) /\ q2 # q
      BY <1>9, <1>a
    <2>2. PICK j \in 1 .. Len(W) : W[j] = q2
      BY <1>1, <2>1 DEF HasMemo, W
    <2>3. j # k
      BY <1>4, <2>1, <2>2
    <2> DEFINE i == IF j < k THEN j ELSE j - 1
    <2>4. i \in 1 .. Len(W) - 1 /\ (IF i < k THEN i ELSE i + 1) = j
      BY <1>4, <1>6, <2>3
    <2> HIDE DEF i
    <2>5. W1[i] = IF i < k THEN W[i] ELSE W[i + 1]
      BY <1>6, <1>7, <2>4
    <2>6. W1[i] = W[j] /\ i \in 1 .. Len(W1)
      BY <1>6, <1>7, <2>4, <2>5
    <2> QED BY <2>2, <2>6
  <1>13. Written(m1, arr, n, None) /\ Matched(m1)
    BY <1>7, <1>11, <1>12 DEF Written, Matched
  <1>14. LET m2 == Callback(m1, q, dg, then) IN
         Written(m2, arr, n2, None) /\ Matched(m2)
    BY <1>1, <1>13, WrittenCallback
  <1> QED BY <1>5, <1>14

\* The first message of remote r has been taken.
Left(arr, r, arr2) ==
    /\ \A r2 \in Nodes : \A i \in 1 .. Len(arr2[r2]) :
          \E j \in 1 .. Len(arr[r2]) :
             j = (IF r2 = r THEN i + 1 ELSE i) /\ arr2[r2][i] = arr[r2][j]
    /\ \A r2 \in Nodes : \A j \in 1 .. Len(arr[r2]) :
          r2 # r \/ j # 1 =>
             \E i \in 1 .. Len(arr2[r2]) :
                j = (IF r2 = r THEN i + 1 ELSE i) /\ arr2[r2][i] = arr[r2][j]

LEMMA LeftIs ==
  ASSUME NEW arr \in [Nodes -> Seq(Incoming)], NEW r \in Nodes, arr[r] # << >>,
         NEW arr2, arr2 = [arr EXCEPT ![r] = Tail(@)]
  PROVE  /\ Left(arr, r, arr2)
         /\ arr2 \in [Nodes -> Seq(Incoming)]
         /\ 1 \in 1 .. Len(arr[r])
  <1>1. arr[r] \in Seq(Incoming) /\ Len(arr[r]) \in Nat \ {0}
    OBVIOUS
  <1>2. /\ arr2 \in [Nodes -> Seq(Incoming)]
        /\ \A r2 \in Nodes : r2 # r => arr2[r2] = arr[r2]
        /\ Len(arr2[r]) = Len(arr[r]) - 1
        /\ \A i \in 1 .. Len(arr[r]) - 1 : arr2[r][i] = arr[r][i + 1]
    BY <1>1
  <1>3. \A i \in 1 .. Len(arr2[r]) : i + 1 \in 1 .. Len(arr[r]) /\ arr2[r][i] = arr[r][i + 1]
    BY <1>1, <1>2
  <1>4. ASSUME NEW j \in 1 .. Len(arr[r]), j # 1
        PROVE  \E i \in 1 .. Len(arr2[r]) : j = i + 1 /\ arr2[r][i] = arr[r][j]
    <2>1. j - 1 \in 1 .. Len(arr2[r]) /\ j = (j - 1) + 1
      BY <1>1, <1>2, <1>4
    <2>2. arr2[r][j - 1] = arr[r][(j - 1) + 1]
      BY <1>3, <2>1
    <2> QED BY <2>1, <2>2
  <1>5. ASSUME NEW r2 \in Nodes
        PROVE  /\ \A i \in 1 .. Len(arr2[r2]) :
                     \E j \in 1 .. Len(arr[r2]) :
                        j = (IF r2 = r THEN i + 1 ELSE i) /\ arr2[r2][i] = arr[r2][j]
               /\ \A j \in 1 .. Len(arr[r2]) :
                     r2 # r \/ j # 1 =>
                        \E i \in 1 .. Len(arr2[r2]) :
                           j = (IF r2 = r THEN i + 1 ELSE i) /\ arr2[r2][i] = arr[r2][j]
    <2>1. CASE r2 = r
      BY <1>3, <1>4, <2>1
    <2>2. CASE r2 # r
      BY <1>2, <2>2
    <2> QED BY <2>1, <2>2
  <1>6. Left(arr, r, arr2)
    BY Zenon, <1>5 DEF Left
  <1> QED BY <1>1, <1>2, <1>6

LEMMA LeftComing ==
  ASSUME NEW arr, NEW r \in Nodes, NEW arr2, Left(arr, r, arr2)
  PROVE  /\ \A q : Coming(arr2, q) => Coming(arr, q)
         /\ \A q : Coming(arr, q) =>
               \/ Coming(arr2, q)
               \/ arr[r][1].kind = "Datagram" /\ arr[r][1].request = q
  <1>1. \A r2 \in Nodes : \A i \in Datagrams(arr2[r2]) :
           \E j \in Datagrams(arr[r2]) :
              j = (IF r2 = r THEN i + 1 ELSE i) /\ arr2[r2][i] = arr[r2][j]
    BY DEF Left, Datagrams
  <1>2. \A r2 \in Nodes : \A j \in Datagrams(arr[r2]) :
           r2 # r \/ j # 1 =>
              \E i \in Datagrams(arr2[r2]) :
                 j = (IF r2 = r THEN i + 1 ELSE i) /\ arr2[r2][i] = arr[r2][j]
    BY SMTT(60) DEF Left, Datagrams
  <1>3. \A q : Coming(arr2, q) => Coming(arr, q)
    BY <1>1 DEF Coming
  <1>4. ASSUME NEW q, Coming(arr, q)
        PROVE  Coming(arr2, q) \/ (arr[r][1].kind = "Datagram" /\ arr[r][1].request = q)
    <2>1. PICK r2 \in Nodes : \E j \in Datagrams(arr[r2]) : arr[r2][j].request = q
      BY <1>4 DEF Coming
    <2>2. PICK j \in Datagrams(arr[r2]) : arr[r2][j].request = q
      BY <2>1
    <2>3. CASE r2 = r /\ j = 1
      BY <2>2, <2>3 DEF Datagrams
    <2>4. CASE ~(r2 = r /\ j = 1)
      BY <1>2, <2>2, <2>4 DEF Coming
    <2> QED BY <2>3, <2>4
  <1> QED BY <1>3, <1>4

\* What is left is in the same order.
LEMMA LeftInOrder ==
  ASSUME NEW arr, NEW r \in Nodes, NEW arr2, Left(arr, r, arr2), NEW p, NEW n
  PROVE  /\ AnswersInOrder(p, arr, n) => AnswersInOrder(p, arr2, n)
         /\ AnswerFollows(p, arr) => AnswerFollows(p, arr2)
  <1>1. \A r2 \in Nodes : \A i \in Datagrams(arr2[r2]) :
           \E j \in Datagrams(arr[r2]) :
              j = (IF r2 = r THEN i + 1 ELSE i) /\ arr2[r2][i] = arr[r2][j]
    BY DEF Left, Datagrams
  <1>2. \A r2 \in Nodes : \A j \in Datagrams(arr[r2]) :
           r2 # r \/ j # 1 =>
              \E i \in Datagrams(arr2[r2]) :
                 j = (IF r2 = r THEN i + 1 ELSE i) /\ arr2[r2][i] = arr[r2][j]
    BY SMTT(60) DEF Left, Datagrams
  <1>3. \A r2 \in Nodes : \A i \in Datagrams(arr2[r2]) : i \in Nat
    BY DEF Datagrams
  <1>4. ASSUME AnswersInOrder(p, arr, n),
               NEW r2 \in Nodes, NEW j \in Datagrams(arr2[r2]), IsWrite(arr2[r2][j].request)
        PROVE  /\ arr2[r2][j].request.number <= n
               /\ \A i \in Datagrams(arr2[r2]) : j < i /\ IsWrite(arr2[r2][i].request)
                     => arr2[r2][j].request.number < arr2[r2][i].request.number
               /\ \A k \in 1 .. Len(p) :
                     /\ IsWrite(p[k].request) /\ p[k].request.node = r2
                     /\ p[k].request # arr2[r2][j].request
                     => arr2[r2][j].request.number < p[k].request.number
    <2>1. PICK j2 \in Datagrams(arr[r2]) :
             j2 = (IF r2 = r THEN j + 1 ELSE j) /\ arr2[r2][j] = arr[r2][j2]
      BY <1>1
    <2>2. ASSUME NEW i \in Datagrams(arr2[r2]), j < i, IsWrite(arr2[r2][i].request)
          PROVE  arr2[r2][j].request.number < arr2[r2][i].request.number
      <3>1. PICK i2 \in Datagrams(arr[r2]) :
               i2 = (IF r2 = r THEN i + 1 ELSE i) /\ arr2[r2][i] = arr[r2][i2]
        BY <1>1
      <3>2. j2 < i2
        <4>1. i \in Nat /\ j \in Nat
          BY <1>3
        <4>2. CASE r2 = r
          BY <2>1, <2>2, <3>1, <4>1, <4>2
        <4>3. CASE r2 # r
          BY <2>1, <2>2, <3>1, <4>1, <4>3
        <4> QED BY <4>2, <4>3
      <3> QED BY <1>4, <2>1, <2>2, <3>1, <3>2 DEF AnswersInOrder
    <2> QED BY <1>4, <2>1, <2>2 DEF AnswersInOrder
  <1>5. ASSUME AnswerFollows(p, arr),
               NEW r2 \in Nodes, NEW i \in 1 .. Len(arr2[r2]), arr2[r2][i].kind # "Datagram"
        PROVE  /\ p # << >>
               /\ \E j \in Datagrams(arr2[r2]) : i < j /\ arr2[r2][j].request = p[1].request
    <2>1. PICK i2 \in 1 .. Len(arr[r2]) :
             i2 = (IF r2 = r THEN i + 1 ELSE i) /\ arr2[r2][i] = arr[r2][i2]
      BY DEF Left
    <2>2. p # << >> /\ \E j \in Datagrams(arr[r2]) : i2 < j /\ arr[r2][j].request = p[1].request
      BY <1>5, <2>1 DEF AnswerFollows
    <2>3. PICK j2 \in Datagrams(arr[r2]) : i2 < j2 /\ arr[r2][j2].request = p[1].request
      BY <2>2
    <2>4. j2 # 1
      BY <2>1, <2>3
    <2>5. PICK j \in Datagrams(arr2[r2]) :
             j2 = (IF r2 = r THEN j + 1 ELSE j) /\ arr2[r2][j] = arr[r2][j2]
      BY <1>2, <2>4
    <2>6. i < j
      BY <1>3, <2>1, <2>3, <2>5
    <2> QED BY <2>2, <2>3, <2>5, <2>6
  <1> QED BY <1>4, <1>5 DEF AnswersInOrder, AnswerFollows

\* A datagram of a remote is received: if it answers a write, that is the oldest of the
\* remote.
LEMMA WrittenTaken ==
  ASSUME NEW m, NEW w, NEW arr, NEW n, Keep(m, w, arr, n), Written(m, arr, n, None),
         NEW r \in Nodes, arr[r] # << >>, arr[r][1].kind = "Datagram",
         NEW arr2, arr2 = [arr EXCEPT ![r] = Tail(@)],
         NEW q, q = arr[r][1].request
  PROVE  /\ ~IsWrite(q) => Written(m, arr2, n, None)
         /\ IsWrite(q) => Written(m, arr2, n, q) /\ Oldest(m, arr2, r, q)
  <1> DEFINE W == m.writes
             p == m.dg.pending
  <1>1. /\ m \in Machine /\ arr \in [Nodes -> Seq(Incoming)] /\ n \in Nat
        /\ Answering(m.dg, arr, n) /\ Writes(m)
        /\ Remembered(m, arr, n, None) /\ HasMemo(m, arr) /\ QueueInOrder(p, n)
        /\ AnswersInOrder(p, arr, n) /\ AnswerFollows(p, arr)
    BY DEF Keep, Written
  <1>2. \A i \in 1 .. Len(W) : W[i] \in UserRequest /\ W[i].op = "write" /\ W[i] # None
    <2>1. W \in Seq(UserRequest)
      BY <1>1 DEF Machine
    <2> HIDE DEF W
    <2>2. \A i \in 1 .. Len(W) : W[i] \in UserRequest
      BY <2>1
    <2> QED BY <1>1, <2>2, NoneApart DEF Writes, W
  <1>3. /\ Left(arr, r, arr2) /\ arr2 \in [Nodes -> Seq(Incoming)]
        /\ 1 \in Datagrams(arr[r])
    BY <1>1, LeftIs DEF Datagrams
  <1>4. /\ AnswersInOrder(p, arr2, n) /\ AnswerFollows(p, arr2)
        /\ \A q2 : Coming(arr2, q2) => Coming(arr, q2)
        /\ \A q2 : Coming(arr, q2) => Coming(arr2, q2) \/ q = q2
    <2> HIDE DEF p
    <2>1. /\ AnswersInOrder(p, arr, n) => AnswersInOrder(p, arr2, n)
          /\ AnswerFollows(p, arr) => AnswerFollows(p, arr2)
      BY <1>3, LeftInOrder
    <2>2. \A q2 : Coming(arr2, q2) => Coming(arr, q2)
      BY <1>3, LeftComing
    <2>3. \A q2 : Coming(arr, q2) =>
             \/ Coming(arr2, q2)
             \/ arr[r][1].kind = "Datagram" /\ arr[r][1].request = q2
      BY <1>3, LeftComing
    <2> QED BY <1>1, <2>1, <2>2, <2>3
  <1>5. HasMemo(m, arr2)
    BY <1>1, <1>4 DEF HasMemo, Open
  <1>6. \A i \in 1 .. Len(W) : Open(m, arr, W[i]) /\ (Open(m, arr2, W[i]) \/ W[i] = q)
    BY <1>1, <1>2, <1>4 DEF Remembered, Open
  <1>7. Written(m, arr2, n, q)
    BY <1>1, <1>3, <1>4, <1>5, <1>6 DEF Written, Remembered
  <1>8. ASSUME ~IsWrite(q)
        PROVE  Written(m, arr2, n, None)
    <2>1. \A i \in 1 .. Len(W) : W[i] # q
      BY <1>2, <1>8 DEF IsWrite
    <2>2. Remembered(m, arr2, n, None)
      BY <1>1, <1>6, <2>1 DEF Remembered
    <2> QED BY <1>7, <2>2 DEF Written
  <1>9. ASSUME IsWrite(q)
        PROVE  /\ q.node = r /\ ~Open(m, arr2, q)
               /\ \E i \in 1 .. Len(W) : W[i] = q
               /\ \A i \in 1 .. Len(W) : W[i].node = r /\ W[i] # q => q.number < W[i].number
    <2>1. q \in UserRequest /\ q.op = "write" /\ q # None
      BY <1>9, NoneApart DEF IsWrite
    <2>2. q.node = r
      BY <1>1, <1>3, <2>1 DEF Answering
    <2>3. ~Open(m, arr2, q)
      BY <2>1, TakenKeeps
    <2>4. \E i \in 1 .. Len(W) : W[i] = q
      <3>1. Coming(arr, q)
        BY <1>3 DEF Coming
      <3> QED BY <1>1, <2>1, <3>1 DEF HasMemo, Open
    <2>5. ASSUME NEW i \in 1 .. Len(W), W[i].node = r, W[i] # q
          PROVE  q.number < W[i].number
      <3>0. IsWrite(W[i]) /\ W[i] # None
        BY <1>2 DEF IsWrite
      <3>1. CASE InQueue(m.dg, W[i])
        <4>1. PICK k \in 1 .. Len(p) : p[k].request = W[i]
          BY <3>1 DEF InQueue
        <4> QED BY <1>1, <1>3, <1>9, <2>5, <3>0, <4>1 DEF AnswersInOrder
      <3>2. CASE Coming(arr, W[i])
        <4>1. PICK r2 \in Nodes : \E j \in Datagrams(arr[r2]) : arr[r2][j].request = W[i]
          BY <3>2 DEF Coming
        <4>2. PICK j \in Datagrams(arr[r2]) : arr[r2][j].request = W[i]
          BY <4>1
        <4>3. r2 = r
          BY <1>1, <2>5, <3>0, <4>2 DEF Answering
        <4>4. 1 < j
          <5>1. j # 1 /\ j \in Nat \ {0}
            BY <2>5, <4>2, <4>3 DEF Datagrams
          <5> QED BY <5>1
        <4> QED BY <1>1, <1>3, <1>9, <3>0, <4>2, <4>3, <4>4 DEF AnswersInOrder
      <3> QED BY <1>6, <3>1, <3>2 DEF Open
    <2> QED BY <2>2, <2>3, <2>4, <2>5
  <1> QED BY <1>7, <1>8, <1>9 DEF Oldest

\* A datagram of a remote is handled: the callback of a write reports its answer.
LEMMA WrittenListener ==
  ASSUME WireTypes, NEW m, NEW arr, NEW n, Keep(m, OnWire(m), arr, n), m.dg.sent = << >>,
         Written(m, arr, n, None), Matched(m),
         NEW r \in Nodes, arr[r] # << >>, arr[r][1].kind = "Datagram",
         NEW arr2, arr2 = [arr EXCEPT ![r] = Tail(@)],
         NEW then \in UserRequest \cup {None}, then # None => then.number = n + 1,
         then # None => datagramReceivedListener(m, r, arr[r][1], then).called # m.called
  PROVE  LET m2 == datagramReceivedListener(m, r, arr[r][1], then) IN
         Written(m2, arr2, IF then = None THEN n ELSE n + 1, None) /\ Matched(m2)
  <1> DEFINE dg == arr[r][1]
             m2 == datagramReceivedListener(m, r, dg, then)
             n2 == IF then = None THEN n ELSE n + 1
             Goal == Written(m2, arr2, n2, None) /\ Matched(m2)
  <1>1. /\ dg.kind = "Datagram" /\ dg.content \in Operations \cup Others
        /\ dg.answer \in Answers \cup {"none"} /\ dg.request \in UserRequest \cup {None}
    <2>1. arr \in [Nodes -> Seq(Incoming)]
      BY DEF Keep
    <2>2. dg \in Incoming
      BY <2>1, TailIs
    <2> HIDE DEF dg
    <2>3. dg.kind = "Datagram"
      BY DEF dg
    <2> QED BY <2>2, <2>3 DEF Incoming, Took, Refused
  <1>2. /\ dg.request = None => dg.content \in Others
        /\ dg.request # None => /\ dg.request.node = r
                                /\ dg.content = dg.request.op
                                /\ Open(m, arr, dg.request)
    <2>1. 1 \in Datagrams(arr[r])
      <3>1. arr[r] \in Seq(Incoming)
        BY DEF Keep
      <3>2. Len(arr[r]) \in Nat \ {0}
        BY <3>1
      <3> QED BY <3>2 DEF Datagrams
    <2> QED BY <2>1 DEF Keep, Answering, Open, Coming
  <1>3. /\ ~IsWrite(dg.request) => Written(m, arr2, n, None)
        /\ IsWrite(dg.request) =>
              Written(m, arr2, n, dg.request) /\ Oldest(m, arr2, r, dg.request)
    <2> DEFINE w == OnWire(m)
               q == dg.request
    <2>1. Keep(m, w, arr, n) /\ q = arr[r][1].request
      OBVIOUS
    <2> HIDE DEF w, q, dg, m2
    <2>2. /\ ~IsWrite(q) => Written(m, arr2, n, None)
          /\ IsWrite(q) => Written(m, arr2, n, q) /\ Oldest(m, arr2, r, q)
      BY <2>1, WrittenTaken
    <2> QED BY <2>2 DEF q
  <1>4. Serial(m, arr) /\ Reads(m, n)
    BY DEF Keep
  <1> HIDE DEF dg
  <1>5. ASSUME NEW m1 \in {Acknowledge(m, r), Refuse(m, r)}
        PROVE  /\ m1 \in Machine
               /\ m1.dg.pending = m.dg.pending /\ m1.reads = m.reads /\ m1.length = m.length
               /\ m1.called = m.called /\ m1.writes = m.writes
    <2> HIDE DEF OnWire
    <2>1. Same(m1, m) /\ m1.writes = m.writes
      BY ReplyKeeps
    <2> QED BY <2>1 DEF Same
  <1>6. ASSUME NEW m1 \in {Acknowledge(m, r), Refuse(m, r)}, ~IsWrite(dg.request)
        PROVE  Written(m1, arr2, n, None) /\ Matched(m1)
    <2>1. Written(m, arr2, n, None)
      BY <1>3, <1>6
    <2>2. m1 \in Machine /\ m1.dg.pending = m.dg.pending /\ m1.writes = m.writes
            /\ m1.called = m.called
      BY <1>5
    <2>3. Written(m1, arr2, n, None)
      BY <2>1, <2>2, WrittenSame
    <2> QED BY <2>2, <2>3 DEF Matched
  <1> DEFINE m1 == Acknowledge(m, r)
  <1>7. /\ m1 \in Machine
        /\ m1.dg.pending = m.dg.pending /\ m1.reads = m.reads /\ m1.length = m.length
        /\ m1.called = m.called /\ m1.writes = m.writes
    BY <1>5
  <1>8. ~IsWrite(dg.request) => Written(m1, arr2, n, None) /\ Matched(m1)
    BY <1>6
  <1> HIDE DEF m1, OnWire
  <1>9. then # None => m2.called # m.called
    BY DEF dg
  <1>10. CASE dg.request = None
    <2>1. ~IsWrite(dg.request)
      BY <1>10, NoneApart DEF IsWrite
    <2>2. dg.content \in {"Unknown", "Short", "Unexpected"}
      BY <1>2, <1>10, ConstantsAssumption
    <2>3. m2 \in {Acknowledge(m, r), Refuse(m, r)}
      BY <2>2 DEF datagramReceivedListener
    <2>4. then = None
      BY <1>5, <1>9, <2>3
    <2> HIDE DEF m2
    <2>5. Goal
      BY <1>6, <2>1, <2>3, <2>4
    <2> QED BY <2>5 DEF dg, m2
  <1>11. CASE dg.request # None
    <2>1. /\ dg.request \in UserRequest /\ dg.content = dg.request.op
          /\ dg.request.node = r /\ Open(m, arr, dg.request)
          /\ dg.request.op \in {"read", "write", "length"}
      BY <1>1, <1>2, <1>11, ConstantsAssumption DEF UserRequest
    <2>2. CASE dg.request.op = "read"
      <3>1. m2 = ReadReply(m1, r, dg, then)
        BY <2>1, <2>2 DEF datagramReceivedListener, m1
      <3>2. /\ m1.reads # << >> /\ m1.reads[1] = dg.request
            /\ \A k \in 1 .. Len(m1.reads) : m1.reads[k].op = "read"
        BY <1>4, <1>7, <2>1, <2>2 DEF Serial, Reads
      <3>3. Written(m1, arr2, n, None) /\ Matched(m1)
        BY <1>8, <2>2 DEF IsWrite
      <3> HIDE DEF m2
      <3>4. Goal
        BY <1>1, <2>1, <3>1, <3>2, <3>3, WrittenReadReply
      <3> QED BY <3>4 DEF dg, m2
    <2>3. CASE dg.request.op = "write"
      <3>1. m2 = WriteReply(m1, r, dg, then)
        BY <2>1, <2>3 DEF datagramReceivedListener, m1
      <3> DEFINE q == dg.request
      <3>2. IsWrite(q)
        BY <2>1, <2>3 DEF IsWrite
      <3>3. Written(m, arr2, n, q)
        BY <1>3, <3>2
      <3> HIDE DEF q, m2
      <3>4. Written(m1, arr2, n, q) /\ \A q2 : Open(m1, arr2, q2) <=> Open(m, arr2, q2)
        BY <1>7, <3>3, WrittenSame
      <3>5. Matched(m1)
        BY <1>7 DEF Matched
      <3>6. Oldest(m1, arr2, r, q)
        <4>1. Oldest(m, arr2, r, q)
          BY <1>3, <3>2 DEF q
        <4> QED BY <1>7, <3>4, <4>1 DEF Oldest
      <3>7. dg.request = q /\ dg.answer \in Answers \cup {"none"}
        BY <1>1 DEF q
      <3>8. Goal
        BY <3>1, <3>2, <3>4, <3>5, <3>6, <3>7, WrittenWriteReply
      <3> QED BY <3>8 DEF dg, m2
    <2>4. CASE dg.request.op = "length"
      <3>1. m2 = LengthReply(m1, dg, then)
        BY <2>1, <2>4 DEF datagramReceivedListener, m1
      <3>2. m1.length = dg.request
        BY <1>4, <1>7, <2>1, <2>4 DEF Serial
      <3>3. Written(m1, arr2, n, None) /\ Matched(m1)
        BY <1>8, <2>4 DEF IsWrite
      <3> HIDE DEF m2
      <3>4. Goal
        BY <1>1, <2>1, <3>1, <3>2, <3>3, WrittenLengthReply
      <3> QED BY <3>4 DEF dg, m2
    <2> QED BY <2>1, <2>2, <2>3, <2>4
  <1> QED BY <1>10, <1>11

-----------------------------------------------------------------------------
(* A reply to the datagram of a request: the queue moves on. *)

LEMMA WrittenReplied ==
  ASSUME WireTypes, NEW m, NEW arr, NEW n, Keep(m, OnWire(m), arr, n),
         Written(m, arr, n, None),
         NEW r \in Nodes, arr[r] # << >>, arr[r][1].kind # "Datagram",
         NEW arr2, arr2 = [arr EXCEPT ![r] = Tail(@)],
         NEW m2 \in Machine, m2.dg.pending = Tail(m.dg.pending), m2.writes = m.writes
  PROVE  Written(m2, arr2, n, None)
  <1> DEFINE p == m.dg.pending
             p2 == m2.dg.pending
             q == p[1].request
  <1>1. /\ m \in Machine /\ arr \in [Nodes -> Seq(Incoming)] /\ n \in Nat
        /\ OneOutstanding(m.dg, OnWire(m), arr)
        /\ Remembered(m, arr, n, None) /\ HasMemo(m, arr) /\ QueueInOrder(p, n)
        /\ AnswersInOrder(p, arr, n) /\ AnswerFollows(p, arr)
        /\ p \in Seq(Memo)
    BY DEF Keep, Written, Machine, Service
  <1>2. /\ Left(arr, r, arr2) /\ arr2 \in [Nodes -> Seq(Incoming)]
        /\ 1 \in 1 .. Len(arr[r])
    BY <1>1, LeftIs
  <1>3. p # << >> /\ Coming(arr, q)
    BY <1>1, <1>2 DEF AnswerFollows, Coming
  <1>4. p2 = Tail(p)
    OBVIOUS
  <1> HIDE DEF p, p2, q
  <1>5. /\ Len(p) \in Nat \ {0}
        /\ \A k \in 1 .. Len(p2) : k \in Nat /\ k + 1 \in 1 .. Len(p) /\ p2[k] = p[k + 1]
        /\ \A k \in 1 .. Len(p) : k # 1 => k - 1 \in 1 .. Len(p2) /\ p2[k - 1] = p[k]
    <2>1. Len(p) \in Nat \ {0} /\ Len(p2) = Len(p) - 1
          /\ \A k \in 1 .. Len(p) - 1 : p2[k] = p[k + 1]
      BY <1>1, <1>3, <1>4
    <2>2. \A k \in 1 .. Len(p2) : k \in Nat /\ k + 1 \in 1 .. Len(p) /\ p2[k] = p[k + 1]
      BY <2>1
    <2>3. ASSUME NEW k \in 1 .. Len(p), k # 1
          PROVE  k - 1 \in 1 .. Len(p2) /\ p2[k - 1] = p[k]
      <3>1. k - 1 \in 1 .. Len(p2) /\ (k - 1) + 1 = k
        BY <2>1, <2>3
      <3>2. p2[k - 1] = p[(k - 1) + 1]
        BY <2>2, <3>1
      <3> QED BY <3>1, <3>2
    <2> QED BY <2>1, <2>2, <2>3
  <1>6. AnswersInOrder(p, arr2, n)
    BY <1>1, <1>2, LeftInOrder
  <1>7. /\ \A q2 : Coming(arr2, q2) <=> Coming(arr, q2)
    BY <1>2, LeftComing
  <1>8. \A q2 : Open(m2, arr2, q2) <=> Open(m, arr, q2)
    <2>1. \A q2 : InQueue(m2.dg, q2) => InQueue(m.dg, q2)
      BY <1>5 DEF InQueue, p, p2
    <2>2. \A q2 : InQueue(m.dg, q2) => InQueue(m2.dg, q2) \/ q2 = q
      <3> SUFFICES ASSUME NEW q2, InQueue(m.dg, q2), q2 # q PROVE InQueue(m2.dg, q2)
        OBVIOUS
      <3>1. PICK k \in 1 .. Len(p) : p[k].request = q2
        BY DEF InQueue, p
      <3>2. k # 1
        BY <3>1 DEF q
      <3> QED BY <1>5, <3>1, <3>2 DEF InQueue, p2
    <2> QED BY <1>3, <1>7, <2>1, <2>2 DEF Open
  <1>9. Remembered(m2, arr2, n, None) /\ HasMemo(m2, arr2)
    BY <1>1, <1>8 DEF Remembered, HasMemo
  <1>10. QueueInOrder(p2, n)
    <2> SUFFICES ASSUME NEW i \in 1 .. Len(p2), IsWrite(p2[i].request)
                 PROVE  /\ p2[i].request.number <= n
                        /\ \A j \in 1 .. Len(p2) : i < j /\ IsWrite(p2[j].request)
                              => p2[i].request.number < p2[j].request.number
      BY DEF QueueInOrder
    <2> DEFINE i2 == i + 1
    <2>1. i2 \in 1 .. Len(p) /\ p2[i] = p[i2]
      BY <1>5
    <2>2. ASSUME NEW j \in 1 .. Len(p2), i < j, IsWrite(p2[j].request)
          PROVE  p2[i].request.number < p2[j].request.number
      <3> DEFINE j2 == j + 1
      <3>1. j2 \in 1 .. Len(p) /\ p2[j] = p[j2] /\ i2 < j2
        BY <1>5, <2>2
      <3> HIDE DEF i2, j2
      <3> QED BY <1>1, <2>1, <2>2, <3>1 DEF QueueInOrder
    <2> HIDE DEF i2
    <2> QED BY <1>1, <2>1, <2>2 DEF QueueInOrder
  <1>11. AnswersInOrder(p2, arr2, n)
    <2>1. \A k \in 1 .. Len(p2) : \E k2 \in 1 .. Len(p) : p2[k] = p[k2]
      BY <1>5
    <2> SUFFICES ASSUME NEW r2 \in Nodes, NEW j \in Datagrams(arr2[r2]),
                        IsWrite(arr2[r2][j].request),
                        NEW k \in 1 .. Len(p2), IsWrite(p2[k].request),
                        p2[k].request.node = r2, p2[k].request # arr2[r2][j].request
                 PROVE  arr2[r2][j].request.number < p2[k].request.number
      BY <1>6 DEF AnswersInOrder
    <2>2. PICK k2 \in 1 .. Len(p) : p2[k] = p[k2]
      BY <2>1
    <2> QED BY <1>6, <2>2 DEF AnswersInOrder
  <1>12. AnswerFollows(p2, arr2)
    <2> SUFFICES ASSUME NEW r2 \in Nodes, NEW i \in 1 .. Len(arr2[r2]),
                        arr2[r2][i].kind # "Datagram"
                 PROVE  FALSE
      BY DEF AnswerFollows
    <2>1. PICK j \in 1 .. Len(arr[r2]) :
             j = (IF r2 = r THEN i + 1 ELSE i) /\ arr2[r2][i] = arr[r2][j]
      BY <1>2 DEF Left
    <2>2. r2 = r
      BY <1>1, <1>2, <2>1 DEF OneOutstanding
    <2>3. j = 1
      BY <1>1, <1>2, <2>1, <2>2 DEF OneOutstanding
    <2> QED BY <2>1, <2>2, <2>3
  <1> QED BY <1>1, <1>2, <1>9, <1>10, <1>11, <1>12 DEF Written, p2

-----------------------------------------------------------------------------
(* What the remotes do. *)

\* Message x is the last of remote r.
Extended(arr, r, x, arr2) ==
    /\ \A r2 \in Nodes : \A i \in 1 .. Len(arr[r2]) :
          i \in 1 .. Len(arr2[r2]) /\ arr2[r2][i] = arr[r2][i]
    /\ Len(arr[r]) + 1 \in 1 .. Len(arr2[r]) /\ arr2[r][Len(arr[r]) + 1] = x
    /\ \A i \in 1 .. Len(arr[r]) : i < Len(arr[r]) + 1
    /\ \A r2 \in Nodes : \A i \in 1 .. Len(arr2[r2]) :
          \/ i \in 1 .. Len(arr[r2]) /\ arr2[r2][i] = arr[r2][i]
          \/ r2 = r /\ i = Len(arr[r]) + 1 /\ arr2[r2][i] = x

LEMMA ExtendedIs ==
  ASSUME NEW arr \in [Nodes -> Seq(Incoming)], NEW r \in Nodes, NEW x \in Incoming,
         NEW arr2, arr2 = [arr EXCEPT ![r] = Append(@, x)]
  PROVE  Extended(arr, r, x, arr2) /\ arr2 \in [Nodes -> Seq(Incoming)]
  <1>1. Arrived(arr, r, x, arr2)
    BY ArrivesIs
  <1>2. /\ \A r2 \in Nodes : r2 # r => arr2[r2] = arr[r2]
        /\ Len(arr2[r]) = Len(arr[r]) + 1 /\ Len(arr[r]) \in Nat
        /\ \A i \in 1 .. Len(arr[r]) : arr2[r][i] = arr[r][i]
        /\ arr2[r][Len(arr[r]) + 1] = x
        /\ arr2 \in [Nodes -> Seq(Incoming)]
    BY <1>1 DEF Arrived
  <1>3. /\ \A i \in 1 .. Len(arr[r]) : i \in 1 .. Len(arr2[r])
        /\ Len(arr[r]) + 1 \in 1 .. Len(arr2[r])
        /\ \A i \in 1 .. Len(arr[r]) : i < Len(arr[r]) + 1
        /\ \A i \in 1 .. Len(arr2[r]) : i \in 1 .. Len(arr[r]) \/ i = Len(arr[r]) + 1
    BY <1>2
  <1>4. ASSUME NEW r2 \in Nodes, NEW i \in 1 .. Len(arr[r2])
        PROVE  i \in 1 .. Len(arr2[r2]) /\ arr2[r2][i] = arr[r2][i]
    BY <1>2, <1>3
  <1>5. ASSUME NEW r2 \in Nodes, NEW i \in 1 .. Len(arr2[r2])
        PROVE  \/ i \in 1 .. Len(arr[r2]) /\ arr2[r2][i] = arr[r2][i]
               \/ r2 = r /\ i = Len(arr[r]) + 1 /\ arr2[r2][i] = x
    BY <1>2, <1>3
  <1>6. Extended(arr, r, x, arr2)
    BY Zenon, <1>2, <1>3, <1>4, <1>5 DEF Extended
  <1> QED BY <1>2, <1>6

\* A message that answers no request leaves the order alone.
Unasked(x) == x.kind = "Datagram" => ~IsWrite(x.request) /\ x.request = None

LEMMA ExtendedComing ==
  ASSUME NEW arr, NEW r \in Nodes, NEW x, NEW arr2, Extended(arr, r, x, arr2), Unasked(x)
  PROVE  /\ \A q \in UserRequest : Coming(arr2, q) <=> Coming(arr, q)
         /\ \A r2 \in Nodes : \A j \in Datagrams(arr2[r2]) :
               \/ j \in Datagrams(arr[r2]) /\ arr2[r2][j] = arr[r2][j]
               \/ arr2[r2][j] = x /\ x.kind = "Datagram"
  <1>1. /\ \A r2 \in Nodes : \A j \in Datagrams(arr2[r2]) :
              \/ j \in Datagrams(arr[r2]) /\ arr2[r2][j] = arr[r2][j]
              \/ arr2[r2][j] = x /\ x.kind = "Datagram"
        /\ \A r2 \in Nodes : \A j \in Datagrams(arr[r2]) :
              j \in Datagrams(arr2[r2]) /\ arr2[r2][j] = arr[r2][j]
    BY DEF Extended, Datagrams
  <1>2. \A q \in UserRequest : Coming(arr2, q) <=> Coming(arr, q)
    BY <1>1, NoneApart DEF Coming, Unasked
  <1> QED BY <1>1, <1>2

LEMMA ExtendedInOrder ==
  ASSUME NEW arr, NEW r \in Nodes, NEW x, NEW arr2, Extended(arr, r, x, arr2), Unasked(x),
         NEW p, NEW n, AnswersInOrder(p, arr, n)
  PROVE  AnswersInOrder(p, arr2, n)
  <1>1. \A r2 \in Nodes : \A j \in Datagrams(arr2[r2]) :
           IsWrite(arr2[r2][j].request) => j \in Datagrams(arr[r2]) /\ arr2[r2][j] = arr[r2][j]
    BY ExtendedComing DEF Unasked
  <1> QED BY <1>1 DEF AnswersInOrder

\* A datagram that answers no request.
LEMMA WrittenOther ==
  ASSUME NEW m, NEW arr, NEW n, Written(m, arr, n, None), NEW r \in Nodes,
         NEW x \in Incoming, x.kind = "Datagram", x.request = None,
         NEW arr2, arr2 = [arr EXCEPT ![r] = Append(@, x)]
  PROVE  Written(m, arr2, n, None)
  <1> DEFINE p == m.dg.pending
  <1>1. /\ m \in Machine /\ arr \in [Nodes -> Seq(Incoming)] /\ n \in Nat
        /\ Remembered(m, arr, n, None) /\ HasMemo(m, arr) /\ QueueInOrder(p, n)
        /\ AnswersInOrder(p, arr, n) /\ AnswerFollows(p, arr)
        /\ m.writes \in Seq(UserRequest)
    BY DEF Written, Machine
  <1>2. Extended(arr, r, x, arr2) /\ arr2 \in [Nodes -> Seq(Incoming)]
    BY <1>1, ExtendedIs
  <1>3. Unasked(x)
    BY NoneApart DEF IsWrite, Unasked
  <1> HIDE DEF p
  <1>4. /\ AnswersInOrder(p, arr2, n)
        /\ \A q \in UserRequest : Coming(arr2, q) <=> Coming(arr, q)
    <2>1. AnswersInOrder(p, arr2, n)
      BY <1>1, <1>2, <1>3, ExtendedInOrder
    <2>2. \A q \in UserRequest : Coming(arr2, q) <=> Coming(arr, q)
      BY <1>2, <1>3, ExtendedComing
    <2> QED BY <2>1, <2>2
  <1>5. \A q \in UserRequest : Open(m, arr2, q) <=> Open(m, arr, q)
    BY <1>4 DEF Open
  <1>6. \A i \in 1 .. Len(m.writes) : m.writes[i] \in UserRequest
    BY <1>1
  <1>7. Remembered(m, arr2, n, None) /\ HasMemo(m, arr2)
    BY <1>1, <1>5, <1>6 DEF Remembered, HasMemo
  <1>8. AnswerFollows(p, arr2)
    <2> SUFFICES ASSUME NEW r2 \in Nodes, NEW i \in 1 .. Len(arr2[r2]),
                        arr2[r2][i].kind # "Datagram"
                 PROVE  /\ p # << >>
                        /\ \E j \in Datagrams(arr2[r2]) :
                              i < j /\ arr2[r2][j].request = p[1].request
      BY DEF AnswerFollows
    <2>1. i \in 1 .. Len(arr[r2]) /\ arr2[r2][i] = arr[r2][i]
      BY <1>2 DEF Extended
    <2>2. p # << >> /\ \E j \in Datagrams(arr[r2]) : i < j /\ arr[r2][j].request = p[1].request
      BY <1>1, <2>1 DEF AnswerFollows
    <2>3. \A j \in Datagrams(arr[r2]) : j \in Datagrams(arr2[r2]) /\ arr2[r2][j] = arr[r2][j]
      BY <1>2 DEF Extended, Datagrams
    <2> QED BY <2>2, <2>3
  <1> QED BY <1>1, <1>2, <1>4, <1>7, <1>8 DEF Written, p

\* The remote takes the datagram of the outstanding request and answers it.
LEMMA WrittenAnswered ==
  ASSUME NEW m, NEW w2, NEW arr, NEW n, Written(m, arr, n, None),
         NEW r \in Nodes, NEW arr1 \in [Nodes -> Seq(Incoming)], Keep(m, w2, arr1, n),
         m.dg.pending # << >>, m.dg.pending[1].dest = r,
         ~Coming(arr1, m.dg.pending[1].request), Extended(arr, r, Took, arr1),
         NEW x, x.kind = "Datagram", x.request = m.dg.pending[1].request,
         NEW arr2 \in [Nodes -> Seq(Incoming)], Extended(arr1, r, x, arr2)
  PROVE  Written(m, arr2, n, None)
  <1> DEFINE p == m.dg.pending
             q == p[1].request
  <1>1. /\ m \in Machine /\ arr \in [Nodes -> Seq(Incoming)] /\ n \in Nat
        /\ Queued(m.dg, n)
        /\ Remembered(m, arr, n, None) /\ HasMemo(m, arr) /\ QueueInOrder(p, n)
        /\ AnswersInOrder(p, arr, n)
        /\ m.writes \in Seq(UserRequest) /\ p \in Seq(Memo)
    BY DEF Keep, Written, Machine, Service
  <1>2. Took.kind # "Datagram"
    BY DEF Took
  <1>3. p # << >> /\ p[1].dest = r /\ ~Coming(arr1, q)
    OBVIOUS
  <1>4. OneOutstanding(m.dg, w2, arr1)
    BY DEF Keep
  <1>5. Extended(arr, r, Took, arr1) /\ arr1 \in [Nodes -> Seq(Incoming)]
    OBVIOUS
  <1>6. Extended(arr1, r, x, arr2) /\ arr2 \in [Nodes -> Seq(Incoming)]
    OBVIOUS
  <1>7. x.request = q
    OBVIOUS
  <1>8. \A i \in 1 .. Len(m.writes) : m.writes[i] \in UserRequest
    BY <1>1
  <1> HIDE DEF p, q
  <1>9. /\ AnswersInOrder(p, arr1, n)
        /\ \A q2 \in UserRequest : Coming(arr1, q2) <=> Coming(arr, q2)
    <2>1. Unasked(Took)
      BY <1>2 DEF Unasked
    <2>2. AnswersInOrder(p, arr1, n)
      BY <1>1, <1>5, <2>1, ExtendedInOrder
    <2>3. \A q2 \in UserRequest : Coming(arr1, q2) <=> Coming(arr, q2)
      BY ZenonT(60), <1>5, <2>1, ExtendedComing
    <2> QED BY <2>2, <2>3
  <1>10. /\ Len(p) \in Nat /\ 1 \in 1 .. Len(p) /\ p[1] \in Memo
         /\ q \in UserRequest /\ q.node = r
    <2>1. Len(p) \in Nat /\ 1 \in 1 .. Len(p) /\ p[1] \in Memo
      BY <1>1, <1>3
    <2>2. q \in UserRequest
      BY <2>1 DEF Memo, q
    <2>3. q.node = r
      BY <1>1, <1>3, <2>1 DEF Queued, p, q
    <2> QED BY <2>1, <2>2, <2>3
  <1>a. \A r2 \in Nodes : \A j \in Datagrams(arr2[r2]) :
           \/ j \in Datagrams(arr1[r2]) /\ arr2[r2][j] = arr1[r2][j]
           \/ r2 = r /\ j = Len(arr1[r]) + 1 /\ arr2[r2][j] = x
    BY <1>6 DEF Extended, Datagrams
  <1>b. \A r2 \in Nodes : \A j \in Datagrams(arr1[r2]) :
           j \in Datagrams(arr2[r2]) /\ arr2[r2][j] = arr1[r2][j]
    BY <1>6 DEF Extended, Datagrams
  <1>11. /\ Len(arr1[r]) + 1 \in Datagrams(arr2[r]) /\ arr2[r][Len(arr1[r]) + 1] = x
         /\ \A j \in Datagrams(arr1[r]) : ~(Len(arr1[r]) + 1 < j)
    <2>1. \A j \in 1 .. Len(arr1[r]) : ~(Len(arr1[r]) + 1 < j)
      OBVIOUS
    <2> QED BY <1>6, <2>1 DEF Extended, Datagrams
  <1>12. \A q2 \in UserRequest : Open(m, arr2, q2) <=> Open(m, arr, q2)
    <2>1. \A q2 : Coming(arr2, q2) <=> Coming(arr1, q2) \/ q2 = q
      <3>1. \A q2 : Coming(arr2, q2) => Coming(arr1, q2) \/ q2 = q
        BY <1>7, <1>a DEF Coming
      <3>2. \A q2 : Coming(arr1, q2) => Coming(arr2, q2)
        <4> SUFFICES ASSUME NEW q2, NEW r2 \in Nodes, NEW j \in Datagrams(arr1[r2]),
                            arr1[r2][j].request = q2
                     PROVE  Coming(arr2, q2)
          BY DEF Coming
        <4>1. j \in Datagrams(arr2[r2]) /\ arr2[r2][j].request = q2
          BY <1>b
        <4> QED BY <4>1 DEF Coming
      <3>3. Coming(arr2, q)
        BY <1>7, <1>11 DEF Coming
      <3> QED BY <3>1, <3>2, <3>3
    <2>2. InQueue(m.dg, q)
      BY <1>10 DEF InQueue, p, q
    <2> QED BY <1>9, <2>1, <2>2 DEF Open
  <1>13. Remembered(m, arr2, n, None) /\ HasMemo(m, arr2)
    BY <1>1, <1>8, <1>12 DEF Remembered, HasMemo
  <1>14. AnswerFollows(p, arr2)
    <2> SUFFICES ASSUME NEW r2 \in Nodes, NEW i \in 1 .. Len(arr2[r2]),
                        arr2[r2][i].kind # "Datagram"
                 PROVE  \E j \in Datagrams(arr2[r2]) : i < j /\ arr2[r2][j].request = p[1].request
      BY <1>3 DEF AnswerFollows
    <2>1. i \in 1 .. Len(arr1[r2]) /\ arr2[r2][i] = arr1[r2][i]
      BY <1>6 DEF Extended
    <2>2. r2 = r
      BY <1>3, <1>4, <2>1 DEF OneOutstanding, p
    <2>3. i < Len(arr1[r]) + 1
      BY <1>6, <2>1, <2>2 DEF Extended
    <2> QED BY <1>7, <1>11, <2>2, <2>3 DEF q
  <1>15. AnswersInOrder(p, arr2, n)
    <2> SUFFICES ASSUME NEW r2 \in Nodes, NEW j \in Datagrams(arr2[r2]),
                        IsWrite(arr2[r2][j].request)
                 PROVE  /\ arr2[r2][j].request.number <= n
                        /\ \A i \in Datagrams(arr2[r2]) : j < i /\ IsWrite(arr2[r2][i].request)
                              => arr2[r2][j].request.number < arr2[r2][i].request.number
                        /\ \A i \in 1 .. Len(p) :
                              /\ IsWrite(p[i].request) /\ p[i].request.node = r2
                              /\ p[i].request # arr2[r2][j].request
                              => arr2[r2][j].request.number < p[i].request.number
      BY DEF AnswersInOrder
    <2>1. CASE j \in Datagrams(arr1[r2]) /\ arr2[r2][j] = arr1[r2][j]
      <3>1. /\ arr1[r2][j].request.number <= n
            /\ \A i \in Datagrams(arr1[r2]) : j < i /\ IsWrite(arr1[r2][i].request)
                  => arr1[r2][j].request.number < arr1[r2][i].request.number
            /\ \A i \in 1 .. Len(p) :
                  /\ IsWrite(p[i].request) /\ p[i].request.node = r2
                  /\ p[i].request # arr1[r2][j].request
                  => arr1[r2][j].request.number < p[i].request.number
        BY <1>9, <2>1 DEF AnswersInOrder
      <3>2. ASSUME NEW i \in Datagrams(arr2[r2]), j < i, IsWrite(arr2[r2][i].request)
            PROVE  arr1[r2][j].request.number < arr2[r2][i].request.number
        <4>1. CASE i \in Datagrams(arr1[r2]) /\ arr2[r2][i] = arr1[r2][i]
          BY <3>1, <3>2, <4>1
        <4>2. CASE r2 = r /\ i = Len(arr1[r]) + 1 /\ arr2[r2][i] = x
          <5>1. arr1[r2][j].request # q
            BY <1>3, <2>1 DEF Coming
          <5>2. IsWrite(q)
            BY <1>7, <3>2, <4>2
          <5>3. 1 \in 1 .. Len(p) /\ p[1].request = q /\ q.node = r
            BY <1>10 DEF q
          <5>4. arr1[r2][j].request.number < q.number
            BY <3>1, <4>2, <5>1, <5>2, <5>3
          <5> QED BY <1>7, <4>2, <5>4
        <4> QED BY <1>a, <4>1, <4>2
      <3> QED BY <2>1, <3>1, <3>2
    <2>2. CASE r2 = r /\ j = Len(arr1[r]) + 1 /\ arr2[r2][j] = x
      <3>1. IsWrite(q)
        BY <1>7, <2>2
      <3>2. q.number <= n
        BY <1>1, <1>10, <3>1 DEF QueueInOrder, q
      <3>3. \A i \in Datagrams(arr2[r2]) : ~(j < i)
        <4> SUFFICES ASSUME NEW i \in Datagrams(arr2[r2]) PROVE ~(j < i)
          OBVIOUS
        <4>1. j \in Nat
          BY DEF Datagrams
        <4>2. CASE i \in Datagrams(arr1[r2])
          BY <1>11, <2>2, <4>2
        <4>3. CASE i = Len(arr1[r]) + 1
          BY <2>2, <4>1, <4>3
        <4> QED BY <1>a, <4>2, <4>3
      <3>4. ASSUME NEW i \in 1 .. Len(p), IsWrite(p[i].request), p[i].request # q
            PROVE  q.number < p[i].request.number
        <4>1. 1 < i
          BY <1>10, <3>4 DEF q
        <4> QED BY <1>1, <1>10, <3>1, <3>4, <4>1 DEF QueueInOrder, q
      <3>5. arr2[r2][j].request = q
        BY <1>7, <2>2
      <3> QED BY <3>2, <3>3, <3>4, <3>5
    <2> QED BY <1>a, <2>1, <2>2
  <1> QED BY <1>1, <1>6, <1>13, <1>14, <1>15 DEF Written, p

-----------------------------------------------------------------------------
(* The steps. *)

WInv ==
    /\ TInv
    /\ KeepNow
    /\ Written(State, arriving, Len(requests), None)
    /\ Matched(State)
    /\ linkUp /\ outages = 0

LEMMA WrittenFinish ==
  ASSUME NEW m, NEW n, Finish(m), Written(m, arriving', n, None), Matched(m),
         n = Len(requests'), TInv'
  PROVE  Written(State', arriving', Len(requests'), None) /\ Matched(State')
  <1> DEFINE s == State'
  <1>1. s \in Machine
    BY DEF TInv
  <1>2. m \in Machine /\ m.dg \in Service
    BY DEF Written, Machine
  <1>3. /\ s.dg = [m.dg EXCEPT !.sent = << >>] /\ s.writes = m.writes
        /\ s.called = m.called
    BY DEF Finish, State
  <1>4. s.dg.pending = m.dg.pending
    BY <1>2, <1>3 DEF Service
  <1> HIDE DEF s
  <1>5. Written(s, arriving', n, None)
    BY <1>1, <1>3, <1>4, WrittenSame
  <1> QED BY <1>3, <1>5 DEF Matched, s

LEMMA AskWritten ==
  ASSUME WInv, Ask
  PROVE  WInv'
  <1>1. PICK q \in NewRequests :
           LET m == Request(State, q) IN
           /\ requests' = Append(requests, q)
           /\ Finish(m)
           /\ UNCHANGED <<linkUp, alive, arriving, owed, repeated, others, outages>>
    BY DEF Ask
  <1> DEFINE m == Request(State, q)
             n == Len(requests)
  <1>2. TInv /\ KeepNow /\ TInv' /\ KeepNow'
    BY AskTypes, AskKeeps DEF WInv
  <1>3. q \in UserRequest /\ q.number = n + 1
    BY <1>2, NewRequestsType
  <1>4. Written(State, arriving, n, None) /\ Matched(State)
    BY DEF WInv
  <1>5. Len(requests') = n + 1
    BY <1>1, <1>2, <1>3 DEF TInv
  <1> HIDE DEF n
  <1>6. Written(m, arriving, n + 1, None) /\ m.called = State.called
    BY <1>3, <1>4, WrittenRequest
  <1>7. Matched(m)
    BY <1>4, <1>6 DEF Matched
  <1>8. Finish(m) /\ arriving' = arriving /\ linkUp' = linkUp /\ outages' = outages
    BY <1>1
  <1> HIDE DEF m
  <1>9. Written(m, arriving', n + 1, None)
    BY <1>6, <1>8
  <1>10. Written(State', arriving', Len(requests'), None) /\ Matched(State')
    BY <1>2, <1>5, <1>7, <1>8, <1>9, WrittenFinish
  <1> QED BY <1>2, <1>8, <1>10 DEF WInv

LEMMA RemoteAnswersWritten ==
  ASSUME AlwaysAnswered, WInv, NEW r \in Nodes, RemoteAnswers(r)
  PROVE  WInv'
  <1> DEFINE k == FirstFor(wire, r)
             q == service.pending[1].request
             n == Len(requests)
  <1>1. PICK answer \in Answers :
           /\ RemoteTakes(r)
           /\ taken(r).kind = "Datagram"
           /\ Sends(r, <<Took, ReplyDatagram(taken(r).memo.request.op, answer,
                                             taken(r).memo.request)>>)
    BY DEF RemoteAnswers, AlwaysAnswered
  <1>2. TInv /\ KeepNow /\ TInv' /\ KeepNow' /\ Written(State, arriving, n, None) /\ Matched(State)
          /\ linkUp /\ outages = 0
    BY RemoteAnswersTypes, RemoteAnswersKeeps DEF WInv
  <1>3. /\ k \in 1 .. Len(wire) /\ wire[k].node = r /\ State' = State
        /\ wire' = RemoveAt(wire, k) /\ taken(r) = wire[k]
        /\ requests' = requests /\ linkUp' = linkUp /\ outages' = outages
    BY <1>1, <1>2, TakesFacts DEF RemoteTakes, taken
  <1> HIDE DEF k
  <1>4. k \in Datagrams(wire)
    BY <1>1, <1>3 DEF Datagrams
  <1>5. /\ Keep(State, wire, arriving, n) /\ State.dg = service
        /\ arriving \in [Nodes -> Seq(Incoming)]
        /\ State \in Machine
    BY <1>2, InvFacts DEF TInv, KeepNow
  <1>6. Took \in Incoming /\ Took.kind # "Datagram"
    BY DEF Incoming, Took
  <1> DEFINE w2 == RemoveAt(wire, k)
             arr1 == [arriving EXCEPT ![r] = Append(@, Took)]
  <1>7. /\ Keep(State, w2, arr1, n)
        /\ State.dg.pending # << >> /\ wire[k].memo = State.dg.pending[1]
        /\ State.dg.pending[1].dest = r
        /\ ~Coming(arr1, State.dg.pending[1].request)
    <2> DEFINE y == Took
    <2>1. y \in Incoming /\ y.kind # "Datagram"
      BY <1>6
    <2> HIDE DEF y, n
    <2> DEFINE arr3 == [arriving EXCEPT ![r] = Append(@, y)]
    <2>2. /\ Keep(State, w2, arr3, n)
          /\ State.dg.pending # << >> /\ wire[k].memo = State.dg.pending[1]
          /\ State.dg.pending[1].dest = r
          /\ arr3[r][Len(arr3[r])].kind # "Datagram"
          /\ ~Coming(arr3, State.dg.pending[1].request)
      <3>1. Keep(State, wire, arriving, n) /\ k \in Datagrams(wire) /\ wire[k].node = r
        BY <1>3, <1>4, <1>5
      <3> QED BY <2>1, <3>1, TookKeeps
    <2>3. arr3 = arr1
      BY DEF y
    <2> HIDE DEF arr3
    <2> QED BY <2>2, <2>3
  <1>8. q \in UserRequest
    <2>1. service.pending \in Seq(Memo)
      BY <1>5 DEF Machine, Service
    <2>2. service.pending[1] \in Memo
      BY <1>5, <1>7, <2>1
    <2> QED BY <2>2 DEF Memo
  <1> DEFINE x == ReplyDatagram(q.op, answer, q)
             arr2 == [arr1 EXCEPT ![r] = Append(@, x)]
  <1>9. x \in Incoming /\ x.kind = "Datagram" /\ x.request = q
    BY <1>8 DEF ReplyDatagram, Incoming, UserRequest
  <1>10. Sends(r, <<Took, x>>)
    BY <1>1, <1>3, <1>5, <1>7
  <1> HIDE DEF x, q
  <1>11. arriving' = arr2
    <2>1. arriving[r] \in Seq(Incoming)
      BY <1>5
    <2>2. arriving[r] \o <<Took, x>> = Append(Append(arriving[r], Took), x)
      BY <1>6, <1>9, <2>1
    <2>3. arriving' = [arriving EXCEPT ![r] = Append(Append(arriving[r], Took), x)]
      BY <1>2, <1>10, <2>2 DEF Sends
    <2> QED BY <1>5, <2>3
  <1>12. Extended(arriving, r, Took, arr1) /\ arr1 \in [Nodes -> Seq(Incoming)]
    BY <1>5, <1>6, ExtendedIs
  <1> HIDE DEF arr1
  <1>13. Extended(arr1, r, x, arr2) /\ arr2 \in [Nodes -> Seq(Incoming)]
    BY <1>9, <1>12, ExtendedIs
  <1> HIDE DEF arr2, w2, n
  <1>14. x.request = State.dg.pending[1].request
    BY <1>5, <1>9 DEF q
  <1>15. Written(State, arr2, n, None)
    BY <1>2, <1>7, <1>9, <1>12, <1>13, <1>14, WrittenAnswered
  <1> QED BY <1>2, <1>3, <1>11, <1>15 DEF WInv, n

LEMMA RemoteSendsOtherWritten ==
  ASSUME WInv, NEW r \in Nodes, RemoteSendsOther(r)
  PROVE  WInv'
  <1>1. PICK content \in Others :
           /\ Sends(r, <<ReplyDatagram(content, "none", None)>>)
           /\ UNCHANGED <<service, readMemos, writeMemos, spaceLengthCallback, linkUp, alive,
                          wire, requests, called, repeated, outages>>
    BY DEF RemoteSendsOther
  <1> DEFINE x == ReplyDatagram(content, "none", None)
             n == Len(requests)
             arr2 == [arriving EXCEPT ![r] = Append(@, x)]
  <1>2. TInv /\ KeepNow /\ TInv' /\ KeepNow' /\ Written(State, arriving, n, None) /\ Matched(State)
          /\ linkUp /\ outages = 0
    BY RemoteSendsOtherTypes, RemoteSendsOtherKeeps DEF WInv
  <1>3. x \in Incoming /\ x.kind = "Datagram" /\ x.request = None
    BY DEF ReplyDatagram, Incoming
  <1>4. arriving \in [Nodes -> Seq(Incoming)] /\ arriving[r] \in Seq(Incoming)
    BY <1>2 DEF TInv
  <1>5. Sends(r, <<x>>)
    BY <1>1
  <1> HIDE DEF x
  <1>6. arriving' = arr2
    <2>1. arriving[r] \o <<x>> = Append(arriving[r], x)
      BY <1>3, <1>4
    <2> QED BY <1>2, <1>5, <2>1 DEF Sends
  <1> HIDE DEF n
  <1>7. Written(State, arr2, n, None)
    BY <1>2, <1>3, WrittenOther
  <1>8. State' = State /\ requests' = requests /\ linkUp' = linkUp /\ outages' = outages
    BY <1>1 DEF State
  <1> HIDE DEF arr2
  <1> QED BY <1>2, <1>6, <1>7, <1>8 DEF WInv, n

LEMMA handleReplyWritten ==
  ASSUME WInv, NEW r \in Nodes, handleReply(r)
  PROVE  WInv'
  <1> DEFINE d1 == Replied(service, r)
             d2 == sendNextDatagramFromQueue(d1)
             m == [State EXCEPT !.dg = d2]
             n == Len(requests)
             st == State
  <1>1. /\ arriving[r] # << >> /\ message(r).kind # "Datagram"
        /\ arriving' = [arriving EXCEPT ![r] = Tail(@)]
        /\ Finish(m)
        /\ linkUp' = linkUp /\ outages' = outages /\ requests' = requests
    BY DEF handleReply, Receive
  <1>2. TInv /\ KeepNow /\ TInv' /\ KeepNow' /\ Written(st, arriving, n, None) /\ Matched(st)
          /\ linkUp /\ outages = 0
    BY handleReplyTypes, handleReplyKeeps DEF WInv
  <1>3. /\ WireTypes /\ Keep(st, OnWire(st), arriving, n)
        /\ st.dg = service /\ st \in Machine /\ service \in Service
        /\ arriving[r][1].kind # "Datagram" /\ 1 \in 1 .. Len(arriving[r])
    <2>1. arriving[r] \in Seq(Incoming) /\ Len(arriving[r]) \in Nat \ {0}
      BY <1>1, <1>2 DEF TInv
    <2>2. st \in Machine /\ st.dg = service
      BY <1>2, InvFacts DEF TInv
    <2> QED BY <1>1, <1>2, <2>1, <2>2, InvFacts DEF message, Machine, KeepNow
  <1>4. service.pending # << >> /\ service.pending[1].dest = r
    <2> HIDE DEF OnWire
    <2>1. OneOutstanding(st.dg, OnWire(st), arriving)
      BY <1>3 DEF Keep
    <2> QED BY <1>3, <2>1 DEF OneOutstanding
  <1>5. d1 \in Service /\ d1.pending = Tail(service.pending)
    BY <1>3, <1>4, RepliedResult
  <1> HIDE DEF d1
  <1>6. d2 \in Service /\ d2.pending = Tail(service.pending)
    BY <1>5, SendNextResult
  <1> HIDE DEF d2
  <1>7. /\ m \in Machine /\ m.dg.pending = Tail(st.dg.pending) /\ m.writes = st.writes
        /\ m.called = st.called
    BY <1>3, <1>6 DEF Machine
  <1> HIDE DEF m, n, st, OnWire
  <1>8. Written(m, arriving', n, None)
    BY <1>1, <1>2, <1>3, <1>7, WrittenReplied
  <1>9. Matched(m)
    BY <1>2, <1>7 DEF Matched
  <1>10. n = Len(requests')
    BY <1>1 DEF n
  <1>11. Written(State', arriving', Len(requests'), None) /\ Matched(State')
    BY <1>1, <1>2, <1>8, <1>9, <1>10, WrittenFinish
  <1> QED BY <1>1, <1>2, <1>11 DEF WInv

LEMMA handleDatagramWritten ==
  ASSUME WInv, NEW r \in Nodes, handleDatagram(r)
  PROVE  WInv'
  <1>1. PICK then \in NewRequests \cup {None} :
           LET m == datagramReceivedListener(State, r, message(r), then) IN
           /\ Receive(r)
           /\ message(r).kind = "Datagram"
           /\ then # None => m.called # called
           /\ requests' = IF then = None THEN requests ELSE Append(requests, then)
           /\ Finish(m)
    BY DEF handleDatagram
  <1> DEFINE st == State
             m == datagramReceivedListener(st, r, arriving[r][1], then)
             N == Len(requests)
             n == IF then = None THEN N ELSE N + 1
             arr2 == [arriving EXCEPT ![r] = Tail(@)]
  <1>2. TInv /\ KeepNow /\ TInv' /\ KeepNow' /\ Written(st, arriving, N, None) /\ Matched(st)
          /\ linkUp /\ outages = 0
    BY handleDatagramTypes, handleDatagramKeeps DEF WInv
  <1>3. /\ arriving[r] # << >> /\ arriving' = arr2
        /\ linkUp' = linkUp /\ outages' = outages
    BY <1>1 DEF Receive
  <1>4. arriving[r] \in Seq(Incoming) /\ message(r) = arriving[r][1]
    BY <1>2, <1>3 DEF message, TInv
  <1>5. then \in UserRequest \cup {None} /\ (then # None => then.number = N + 1)
    BY <1>2, NewRequestsType
  <1>6. Len(requests') = n
    <2>1. requests \in Seq(UserRequest)
      BY <1>2 DEF TInv
    <2> QED BY <1>1, <1>5, <2>1
  <1>7. /\ Finish(m) /\ arriving[r][1].kind = "Datagram"
        /\ then # None => m.called # st.called
    BY <1>1, <1>4 DEF State
  <1>8. WireTypes /\ Keep(st, OnWire(st), arriving, N) /\ st.dg.sent = << >>
    BY <1>2, InvFacts DEF KeepNow
  <1> HIDE DEF st, N, OnWire
  <1>9. Written(m, arr2, n, None) /\ Matched(m)
    <2>1. then # None => datagramReceivedListener(st, r, arriving[r][1], then).called # st.called
      BY <1>7
    <2>2. arr2 = [arriving EXCEPT ![r] = Tail(@)]
      OBVIOUS
    <2> HIDE DEF arr2
    <2>3. LET m2 == datagramReceivedListener(st, r, arriving[r][1], then) IN
          Written(m2, arr2, IF then = None THEN N ELSE N + 1, None) /\ Matched(m2)
      <3> HIDE DEF m
      <3> QED BY <1>2, <1>3, <1>5, <1>7, <1>8, <2>1, <2>2, WrittenListener
    <2> QED BY <2>3
  <1> HIDE DEF m, arr2, n
  <1>10. Written(m, arriving', n, None)
    BY <1>3, <1>9
  <1>11. Written(State', arriving', Len(requests'), None) /\ Matched(State')
    BY <1>2, <1>6, <1>7, <1>9, <1>10, WrittenFinish
  <1> QED BY <1>2, <1>3, <1>11 DEF WInv

LEMMA InitWritten ==
  ASSUME Init
  PROVE  WInv
  <1> DEFINE m == State
  <1>1. /\ requests = << >> /\ linkUp = TRUE /\ outages = 0
        /\ arriving = [r \in Nodes |-> << >>]
        /\ m.dg = NewService /\ m.writes = << >> /\ m.called = << >>
    BY DEF Init, State
  <1>2. NewService.pending = << >>
    BY DEF NewService
  <1>3. TInv /\ KeepNow /\ m \in Machine /\ arriving \in [Nodes -> Seq(Incoming)]
    BY InitIInv DEF Init, IInv, TInv
  <1>4. Datagrams(<< >>) = {}
    BY DEF Datagrams
  <1> HIDE DEF m
  <1>5. \A q : ~Open(m, arriving, q)
    BY <1>1, <1>2, <1>4 DEF Open, InQueue, Coming
  <1>6. Remembered(m, arriving, 0, None) /\ HasMemo(m, arriving)
    BY <1>1, <1>5 DEF Remembered, HasMemo
  <1>7. /\ QueueInOrder(m.dg.pending, 0) /\ AnswersInOrder(m.dg.pending, arriving, 0)
        /\ AnswerFollows(m.dg.pending, arriving)
    BY <1>1, <1>2, <1>4 DEF QueueInOrder, AnswersInOrder, AnswerFollows
  <1>8. Written(m, arriving, Len(requests), None) /\ Matched(m)
    BY <1>1, <1>3, <1>6, <1>7 DEF Written, Matched
  <1> QED BY <1>1, <1>3, <1>8 DEF WInv, m

\* As long as every request is taken and answered with a reply datagram, an error or not,
\* and the link stays up, a callback reports the answer to the request it was made for,
\* though a reply names only its sender and several writes to it may be open.
THEOREM WritesGetTheirAnswers ==
  ASSUME AlwaysAnswered, NoOutages
  PROVE  Spec => []AnswersMatch
  <1>1. Init => WInv
    BY InitWritten
  <1>2. WInv /\ [Next]_vars => WInv'
    <2> SUFFICES ASSUME WInv, [Next]_vars PROVE WInv'
      OBVIOUS
    <2>1. CASE Ask
      BY <2>1, AskWritten
    <2>2. ASSUME NEW r \in Nodes, RemoteAnswers(r) PROVE WInv'
      BY <2>2, RemoteAnswersWritten
    <2>3. ASSUME NEW r \in Nodes, RemoteHearsReply(r) PROVE WInv'
      <3>1. TInv' /\ KeepNow'
        BY <2>3, RemoteHearsReplyTypes, RemoteHearsReplyKeeps DEF WInv
      <3>2. /\ State' = State /\ arriving' = arriving /\ requests' = requests
            /\ linkUp' = linkUp /\ outages' = outages
        BY <2>3 DEF RemoteHearsReply, RemoteTakes, State
      <3> QED BY <3>1, <3>2 DEF WInv
    <2>4. ASSUME NEW r \in Nodes, RemoteSendsOther(r) PROVE WInv'
      BY <2>4, RemoteSendsOtherWritten
    <2>5. ASSUME NEW r \in Nodes, handleReply(r) PROVE WInv'
      BY <2>5, handleReplyWritten
    <2>6. ASSUME NEW r \in Nodes PROVE ~handleUnmatchedReply(r)
      <3> SUFFICES ASSUME handleUnmatchedReply(r) PROVE FALSE
        OBVIOUS
      <3>1. /\ arriving[r] # << >> /\ message(r).kind # "Datagram"
            /\ matchToWriteMemo(service, r) = None
        BY DEF handleUnmatchedReply, Receive
      <3> QED BY <3>1, RepliesAreMatched DEF WInv
    <2>7. ASSUME NEW r \in Nodes, handleDatagram(r) PROVE WInv'
      BY <2>7, handleDatagramWritten
    <2>8. ~LinkQuiesce
      BY DEF LinkQuiesce, WInv, NoOutages
    <2>9. ~LinkRestarted
      BY DEF LinkRestarted, WInv
    <2>10. CASE UNCHANGED vars
      <3>1. State' = State
        BY <2>10 DEF vars, State
      <3> QED BY <2>10, <3>1 DEF vars, WInv, TInv, KeepNow, RepliedOnce
    <2> QED BY <2>1, <2>2, <2>3, <2>4, <2>5, <2>6, <2>7, <2>8, <2>9, <2>10 DEF Next
  <1>3. WInv => AnswersMatch
    BY DEF WInv, Matched, AnswersMatch, State
  <1> QED BY <1>1, <1>2, <1>3, PTL DEF Spec

=============================================================================
