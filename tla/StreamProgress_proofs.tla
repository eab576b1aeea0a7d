------------------------ MODULE StreamProgress_proofs ------------------------
(***************************************************************************)
(* Proofs about the progress of StreamTransfer: that checker and node are  *)
(* never both waiting for the other, for windows, messages and transfers   *)
(* of any size.                                                            *)
(***************************************************************************)
EXTENDS StreamTransfer_proofs

-----------------------------------------------------------------------------
(* The inductive invariant.                                                *)

\* The node has done nothing that excuses a timeout.
Alive == ~node.gaveUp /\ ~node.ahead

Zeros(d) == \A i \in 1 .. Len(d) : d[i] = 0

\* Every request to open a stream offers a window, and every reply accepts n.
Offers(q) ==
    \A k \in 1 .. Len(q) : q[k].mti = "Stream_Initiate_Request" => q[k].size > 0
Accepts(q, n) ==
    \A k \in 1 .. Len(q) : q[k].mti = "Stream_Initiate_Reply" => q[k].size = n
Refuses(q) ==
    \E k \in 1 .. Len(q) : q[k].mti = "Stream_Initiate_Reply" /\ q[k].size = 0

\* The reply datagram is in q with none of the stream's bytes before it, and, once the
\* stream has "ended", with its end after it.
ReplyFirst(q, ended) ==
    \E j \in 1 .. Len(q) :
        /\ q[j].mti = "Datagram"
        /\ \A k \in 1 .. j - 1 : Zeros(q[k].data)
        /\ ended => \E k \in j + 1 .. Len(q) : q[k].mti = "Stream_Data_Complete"

\* While the checker waits for the reply datagram.
Ordered ==
    \/ ~node.replied /\ node.done = 0 /\ ~node.complete
    \/ node.replied /\ ReplyFirst(toChecker, node.complete)

\* What is left of the window: it is with the node, on its way, or counted already.
WindowOut == node.credit + (node.done - Count(Taken)) + window

\* The checker reads.
ReadMoves ==
    /\ node.replied => node.open \/ node.gaveUp
    /\ Holds("Datagram", toChecker) \/ pc = "receive" => node.replied
    /\ Offers(toChecker)
    /\ Accepts(toNode, buf_size)
    /\ pc = "accept" =>
          /\ ~node.replied
          /\ node.asked => node.gaveUp \/ Holds("Stream_Initiate_Request", toChecker)
    /\ pc \in {"reply", "receive"} /\ ~node.gaveUp =>
          /\ window < buf_size
          /\ node.open \/ Holds("Stream_Initiate_Reply", toNode)
          /\ node.open => node.size = buf_size
    /\ pc \in {"reply", "receive"} /\ Alive /\ node.open =>
          Holds("Stream_Data_Proceed", toNode) \/ WindowOut >= buf_size
    /\ pc = "reply" /\ ~node.ahead => Ordered
    /\ pc = "receive" /\ ~node.ahead /\ node.complete =>
          Holds("Stream_Data_Complete", toChecker)

\* The checker writes.
WriteMoves ==
    /\ Refuses(toChecker) => node.gaveUp
    /\ pc = "open" \/ Holds("Stream_Initiate_Request", toNode) =>
          /\ pc \in {"open", "opening"} /\ ~node.open /\ ~node.gaveUp
          /\ toChecker = << >>
    /\ pc = "opening" =>
          \/ Holds("Stream_Initiate_Request", toNode)
          \/ Holds("Stream_Initiate_Reply", toChecker)
    /\ \/ Holds("Stream_Initiate_Reply", toChecker)
       \/ pc \in {"send", "proceed", "reply"}
       => node.open \/ node.gaveUp
    /\ pc = "proceed" /\ ~node.gaveUp =>
          bytes_sent > node.done \/ Holds("Stream_Data_Proceed", toChecker)
    /\ Holds("Stream_Data_Complete", toNode) \/ node.complete =>
          pc \in {"reply", "returned", "raised"}
    /\ node.replied => node.complete
    /\ pc = "reply" =>
          /\ node.complete \/ Holds("Stream_Data_Complete", toNode)
          /\ node.replied => Holds("Datagram", toChecker)

Blameless ==
    /\ Holds("Terminate_Due_To_Error", toChecker) => node.gaveUp
    /\ NoNeedlessTimeout

MovesInv ==
    /\ Blameless
    /\ mode = "read" => ReadMoves
    /\ mode = "write" => WriteMoves

-----------------------------------------------------------------------------
(* Queues of messages.                                                     *)

\* A message that is not the first one is still there when the first one is taken.
LEMMA HoldsLeft ==
  ASSUME NEW S, NEW q \in Seq(S), q # << >>, NEW mti, Holds(mti, q), Head(q).mti # mti
  PROVE  Holds(mti, Tail(q))
  <1>1. PICK k \in 1 .. Len(q) : q[k].mti = mti
    BY DEF Holds
  <1>2. /\ Len(q) \in Nat /\ Len(q) >= 1 /\ Head(q) = q[1]
        /\ Len(Tail(q)) = Len(q) - 1
        /\ \A j \in 1 .. Len(q) - 1 : Tail(q)[j] = q[j + 1]
    OBVIOUS
  <1>3. k # 1 /\ k - 1 \in 1 .. Len(q) - 1 /\ (k - 1) + 1 = k
    BY <1>1, <1>2
  <1>4. k - 1 \in 1 .. Len(Tail(q)) /\ Tail(q)[k - 1] = q[k]
    BY <1>2, <1>3
  <1> QED BY <1>1, <1>4 DEF Holds

LEMMA HoldsNothing == \A mti : ~Holds(mti, << >>)
  <1>1. Len(<< >>) = 0
    OBVIOUS
  <1> QED BY <1>1 DEF Holds

LEMMA SizesAppended ==
  ASSUME NEW S, NEW q \in Seq(S), NEW m \in S
  PROVE  /\ Offers(q) /\ (m.mti = "Stream_Initiate_Request" => m.size > 0)
               => Offers(Append(q, m))
         /\ \A n : Accepts(q, n) /\ (m.mti = "Stream_Initiate_Reply" => m.size = n)
               => Accepts(Append(q, m), n)
         /\ Refuses(Append(q, m)) =>
               Refuses(q) \/ (m.mti = "Stream_Initiate_Reply" /\ m.size = 0)
  <1>1. /\ Len(q) \in Nat /\ Len(Append(q, m)) = Len(q) + 1
        /\ Append(q, m)[Len(q) + 1] = m
        /\ \A k \in 1 .. Len(q) : Append(q, m)[k] = q[k]
    OBVIOUS
  <1>2. Offers(q) /\ (m.mti = "Stream_Initiate_Request" => m.size > 0) => Offers(Append(q, m))
    BY <1>1 DEF Offers
  <1>3. \A n : Accepts(q, n) /\ (m.mti = "Stream_Initiate_Reply" => m.size = n)
               => Accepts(Append(q, m), n)
    BY <1>1 DEF Accepts
  <1>4. Refuses(Append(q, m)) =>
           Refuses(q) \/ (m.mti = "Stream_Initiate_Reply" /\ m.size = 0)
    BY <1>1 DEF Refuses
  <1> QED BY <1>2, <1>3, <1>4

LEMMA SizesTaken ==
  ASSUME NEW S, NEW q \in Seq(S), q # << >>
  PROVE  /\ Offers(q) => /\ Offers(Tail(q))
                         /\ Head(q).mti = "Stream_Initiate_Request" => Head(q).size > 0
         /\ \A n : Accepts(q, n) =>
               /\ Accepts(Tail(q), n)
               /\ Head(q).mti = "Stream_Initiate_Reply" => Head(q).size = n
         /\ Refuses(Tail(q)) => Refuses(q)
         /\ Head(q).mti = "Stream_Initiate_Reply" /\ Head(q).size = 0 => Refuses(q)
  <1>1. /\ Len(q) \in Nat /\ Len(q) >= 1 /\ Head(q) = q[1]
        /\ Len(Tail(q)) = Len(q) - 1
        /\ \A k \in 1 .. Len(q) - 1 : Tail(q)[k] = q[k + 1]
    OBVIOUS
  <1>2. Offers(q) => /\ Offers(Tail(q))
                     /\ Head(q).mti = "Stream_Initiate_Request" => Head(q).size > 0
    BY <1>1 DEF Offers
  <1>3. \A n : Accepts(q, n) =>
           /\ Accepts(Tail(q), n)
           /\ Head(q).mti = "Stream_Initiate_Reply" => Head(q).size = n
    BY <1>1 DEF Accepts
  <1>4. /\ Refuses(Tail(q)) => Refuses(q)
        /\ Head(q).mti = "Stream_Initiate_Reply" /\ Head(q).size = 0 => Refuses(q)
    BY <1>1 DEF Refuses
  <1> QED BY <1>2, <1>3, <1>4

\* After the reply datagram, the stream.
LEMMA ReplyFirstAppended ==
  ASSUME NEW S, NEW q \in Seq(S), NEW m \in S, NEW ended, NEW more, ReplyFirst(q, ended),
         more => ended \/ m.mti = "Stream_Data_Complete"
  PROVE  ReplyFirst(Append(q, m), more)
  <1> DEFINE r == Append(q, m)
  <1>1. /\ Len(q) \in Nat /\ Len(r) = Len(q) + 1 /\ r[Len(q) + 1] = m
        /\ \A k \in 1 .. Len(q) : r[k] = q[k]
    OBVIOUS
  <1>2. PICK j \in 1 .. Len(q) :
          /\ q[j].mti = "Datagram"
          /\ \A k \in 1 .. j - 1 : Zeros(q[k].data)
          /\ ended => \E k \in j + 1 .. Len(q) : q[k].mti = "Stream_Data_Complete"
    BY DEF ReplyFirst
  <1> HIDE DEF r
  <1>3. j \in 1 .. Len(r) /\ r[j].mti = "Datagram"
    BY <1>1, <1>2
  <1>4. \A k \in 1 .. j - 1 : Zeros(r[k].data)
    BY <1>1, <1>2
  <1>5. ASSUME more PROVE \E k \in j + 1 .. Len(r) : r[k].mti = "Stream_Data_Complete"
    <2>1. CASE ended
      <3>1. PICK k \in j + 1 .. Len(q) : q[k].mti = "Stream_Data_Complete"
        BY <1>2, <2>1
      <3>2. k \in j + 1 .. Len(r) /\ r[k] = q[k]
        BY <1>1, <3>1
      <3> QED BY <3>1, <3>2
    <2>2. CASE m.mti = "Stream_Data_Complete"
      <3>1. Len(q) + 1 \in j + 1 .. Len(r)
        BY <1>1
      <3> QED BY <1>1, <2>2, <3>1
    <2> QED BY <1>5, <2>1, <2>2
  <1> QED BY <1>3, <1>4, <1>5 DEF ReplyFirst, r

\* The reply datagram comes after messages of other streams only.
LEMMA ReplyAppended ==
  ASSUME NEW S, NEW q \in Seq(S), NEW m \in S, m.mti = "Datagram",
         \A k \in 1 .. Len(q) : Zeros(q[k].data)
  PROVE  ReplyFirst(Append(q, m), FALSE)
  <1> DEFINE r == Append(q, m)
  <1>1. /\ Len(q) \in Nat /\ Len(r) = Len(q) + 1 /\ r[Len(q) + 1] = m
        /\ \A k \in 1 .. Len(q) : r[k] = q[k]
    OBVIOUS
  <1> HIDE DEF r
  <1>2. Len(q) + 1 \in 1 .. Len(r) /\ (Len(q) + 1) - 1 = Len(q)
    BY <1>1
  <1>3. \A k \in 1 .. Len(q) : Zeros(r[k].data)
    BY <1>1
  <1> QED BY <1>1, <1>2, <1>3 DEF ReplyFirst, r

\* What is taken before the reply datagram has none of the stream's bytes.
LEMMA ReplyFirstTaken ==
  ASSUME NEW S, NEW q \in Seq(S), q # << >>, NEW ended, ReplyFirst(q, ended)
  PROVE  /\ Head(q).mti # "Datagram" => Zeros(Head(q).data) /\ ReplyFirst(Tail(q), ended)
         /\ ended => Holds("Stream_Data_Complete", Tail(q))
  <1> DEFINE r == Tail(q)
  <1>1. /\ Len(q) \in Nat /\ Len(q) >= 1 /\ Head(q) = q[1]
        /\ Len(r) = Len(q) - 1
        /\ \A k \in 1 .. Len(q) - 1 : r[k] = q[k + 1]
    OBVIOUS
  <1>2. PICK j \in 1 .. Len(q) :
          /\ q[j].mti = "Datagram"
          /\ \A k \in 1 .. j - 1 : Zeros(q[k].data)
          /\ ended => \E k \in j + 1 .. Len(q) : q[k].mti = "Stream_Data_Complete"
    BY DEF ReplyFirst
  <1> HIDE DEF r
  <1>3. ASSUME ended
        PROVE  \E k \in j .. Len(r) : r[k].mti = "Stream_Data_Complete"
    <2>1. PICK k \in j + 1 .. Len(q) : q[k].mti = "Stream_Data_Complete"
      BY <1>2, <1>3
    <2>2. k - 1 \in j .. Len(r) /\ k - 1 \in 1 .. Len(q) - 1 /\ (k - 1) + 1 = k
      BY <1>1, <2>1
    <2>3. r[k - 1] = q[k]
      BY <1>1, <2>2
    <2> QED BY <2>1, <2>2, <2>3
  <1>4. ended => Holds("Stream_Data_Complete", r)
    <2>1. j .. Len(r) \subseteq 1 .. Len(r)
      BY <1>1
    <2> QED BY <1>3, <2>1 DEF Holds
  <1>5. ASSUME Head(q).mti # "Datagram"
        PROVE  Zeros(Head(q).data) /\ ReplyFirst(r, ended)
    <2> DEFINE i == j - 1
    <2>1. j # 1 /\ i \in 1 .. Len(q) - 1 /\ i + 1 = j
      BY <1>1, <1>2, <1>5
    <2>2. 1 \in 1 .. j - 1 /\ i \in 1 .. Len(r)
      BY <1>1, <2>1
    <2>3. Zeros(Head(q).data)
      BY <1>1, <1>2, <2>2
    <2>4. r[i].mti = "Datagram"
      BY <1>1, <1>2, <2>1
    <2> HIDE DEF i
    <2>5. \A k \in 1 .. i - 1 : Zeros(r[k].data)
      <3> SUFFICES ASSUME NEW k \in 1 .. i - 1 PROVE Zeros(r[k].data)
        OBVIOUS
      <3>1. k \in 1 .. Len(q) - 1 /\ k + 1 \in 1 .. j - 1
        BY <1>1, <2>1
      <3> QED BY <1>1, <1>2, <3>1
    <2>6. ended => \E k \in i + 1 .. Len(r) : r[k].mti = "Stream_Data_Complete"
      BY <1>3, <2>1
    <2> QED BY <2>2, <2>3, <2>4, <2>5, <2>6 DEF ReplyFirst
  <1> QED BY <1>4, <1>5 DEF r

\* Nothing of the stream is in a queue that follows up to 0.
LEMMA FollowsZeros ==
  ASSUME NEW q, Len(q) \in Nat, \A k \in 1 .. Len(q) : q[k].data \in Seq(Nat),
         NEW a, NEW mixed, Follows(q, a, 0, mixed)
  PROVE  \A k \in 1 .. Len(q) : Zeros(q[k].data)
  <1> SUFFICES ASSUME NEW k \in 1 .. Len(q) PROVE Zeros(q[k].data)
    OBVIOUS
  <1>1. PICK f \in [1 .. Len(q) + 1 -> Nat] :
          /\ f[Len(q) + 1] = 0
          /\ \A j \in 1 .. Len(q) : f[j] <= 0 /\ Part(q[j].data, f[j], f[j + 1])
    BY DEF Follows
  <1>2. k + 1 \in 1 .. Len(q) \/ k + 1 = Len(q) + 1
    OBVIOUS
  <1>3. f[k] \in Nat /\ f[k + 1] \in Nat /\ f[k] <= 0 /\ f[k + 1] <= 0
    BY <1>1, <1>2
  <1>4. f[k] = 0 /\ f[k + 1] = 0 /\ Part(q[k].data, 0, 0)
    <2>1. f[k] = 0 /\ f[k + 1] = 0
      BY <1>3
    <2> QED BY <1>1, <2>1
  <1> DEFINE d == q[k].data
  <1>5. Len(d) \in Nat
    OBVIOUS
  <1> HIDE DEF d
  <1>6. Part(d, 0, 0)
    BY <1>4 DEF d
  <1>7. Zeros(d)
    BY <1>5, <1>6 DEF Part, Zeros
  <1> QED BY <1>7 DEF d

\* What follows is no less than what comes before, and an empty queue has nothing.
LEMMA FollowsUp ==
  ASSUME NEW q, Len(q) \in Nat, NEW a \in Nat, NEW b \in Nat, NEW mixed,
         Follows(q, a, b, mixed)
  PROVE  a <= b /\ (q = << >> => a = b)
  <1>1. PICK f \in [1 .. Len(q) + 1 -> Nat] :
          /\ f[1] = a /\ f[Len(q) + 1] = b
          /\ \A k \in 1 .. Len(q) : f[k] <= b
    BY DEF Follows
  <1>2. CASE Len(q) = 0
    BY <1>1, <1>2
  <1>3. CASE Len(q) # 0
    <2>1. 1 \in 1 .. Len(q)
      BY <1>3
    <2>2. q # << >>
      BY <1>3
    <2> QED BY <1>1, <2>1, <2>2
  <1> QED BY <1>2, <1>3
-----------------------------------------------------------------------------
(* The steps when the checker reads. *)

LEMMA ReadsProgress ==
  ASSUME IInv, BytesInv, MovesInv, mode = "read"
  PROVE  /\ Types /\ ReadCounts /\ ReadBytes /\ ReadMoves /\ Blameless
         /\ toChecker \in Seq(AnyMessage) /\ toNode \in Seq(Reader)
         /\ node \in NodeState /\ Count(Taken) \in Nat /\ node.done \in Nat
         /\ node.credit \in Int /\ node.credit >= 0 /\ node.size \in Nat
         /\ buf_size \in Nat /\ window \in Nat /\ Count(Taken) <= node.done
         /\ pc \in {"accept", "reply", "receive", "returned", "raised"}
  <1>1. /\ Types /\ ReadCounts /\ ReadMoves /\ Blameless
    BY DEF IInv, MovesInv
  <1>2. /\ ReadBytes
        /\ toChecker \in Seq(AnyMessage) /\ toNode \in Seq(Reader)
        /\ node \in NodeState /\ Count(Taken) \in Nat /\ node.done \in Nat
    BY ReadFacts
  <1>3. /\ buf_size \in Nat /\ window \in Nat
        /\ pc \in {"accept", "reply", "receive", "returned", "raised"}
    BY <1>1, StreamAssumption DEF Types
  <1>4. node.credit \in Int /\ node.credit >= 0 /\ node.size \in Nat
    BY <1>1, <1>2 DEF NodeState, ReadCounts
  <1>5. Follows(toChecker, Count(Taken), node.done, foreign) /\ Len(toChecker) \in Nat
    BY <1>2 DEF ReadBytes
  <1>6. Count(Taken) <= node.done
    BY <1>2, <1>5, FollowsUp
  <1> QED BY <1>1, <1>2, <1>3, <1>4, <1>6

LEMMA WindowSame ==
  ASSUME node.credit \in Int, node.done \in Int, node'.credit \in Int, node'.done \in Int,
         window \in Int, window' = window,
         Count(Taken) \in Int, Count(Taken)' = Count(Taken),
         node'.credit + node'.done = node.credit + node.done
  PROVE  WindowOut' = WindowOut
  <1> DEFINE t == Count(Taken)
  <1>1. WindowOut = node.credit + (node.done - t) + window
    BY DEF WindowOut
  <1>2. WindowOut' = node'.credit + (node'.done - t) + window
    BY DEF WindowOut
  <1>3. t \in Int
    OBVIOUS
  <1> HIDE DEF t
  <1> QED BY <1>1, <1>2, <1>3

\* What is taken from the channel and counted is still in the window.
LEMMA WindowCounted ==
  ASSUME node' = node, node.credit \in Int, node.done \in Int,
         window \in Int, window' \in Int, Count(Taken) \in Int, Count(Taken)' \in Int,
         window' - Count(Taken)' >= window - Count(Taken),
         NEW n \in Int, WindowOut >= n
  PROVE  WindowOut' >= n
  <1> DEFINE a == Count(Taken)
             c == Count(Taken)'
  <1>1. WindowOut = node.credit + (node.done - a) + window
    BY DEF WindowOut
  <1>2. WindowOut' = node.credit + (node.done - c) + window'
    BY DEF WindowOut
  <1>3. a \in Int /\ c \in Int /\ window' - c >= window - a
    OBVIOUS
  <1> HIDE DEF a, c
  <1>4. \A x, y, z \in Int : \A v, w \in Int :
           v - y >= w - z /\ x + (node.done - z) + w >= n => x + (node.done - y) + v >= n
    OBVIOUS
  <1> QED BY <1>1, <1>2, <1>3, <1>4

\* The node sends a message and does not give up.
LEMMA SentMoves ==
  ASSUME IInv, BytesInv, MovesInv, mode = "read", NEW m \in AnyMessage, NodeSends(m),
         UNCHANGED <<mode, pc, buf_size, collected, skipped, window, toNode>>,
         m.mti # "Terminate_Due_To_Error",
         m.mti = "Datagram" => node'.replied,
         m.mti = "Stream_Initiate_Request" => m.size > 0,
         node' \in NodeState,
         node'.gaveUp <=> node.gaveUp, node'.open <=> node.open, node'.size = node.size,
         node.ahead => node'.ahead,
         node.replied => node'.replied, node'.replied => node.replied \/ node.open,
         node'.asked => node.asked \/ m.mti = "Stream_Initiate_Request",
         node'.credit + node'.done = node.credit + node.done,
         node'.complete => node.complete \/ m.mti = "Stream_Data_Complete",
         pc = "reply" /\ ~node'.ahead => Ordered'
  PROVE  MovesInv'
  <1>1. /\ ReadCounts /\ ReadBytes /\ ReadMoves /\ Blameless
        /\ toChecker \in Seq(AnyMessage) /\ toChecker' = Append(toChecker, m)
        /\ Count(Taken) \in Nat /\ window \in Nat
    BY ReadsProgress DEF NodeSends
  <1>2. Count(Taken)' = Count(Taken)
    BY DEF Taken
  <1>3. \A mti : Holds(mti, toChecker') <=> Holds(mti, toChecker) \/ m.mti = mti
    BY <1>1, HoldsAppended
  <1>4. Blameless'
    BY <1>1, <1>3 DEF Blameless, NoNeedlessTimeout
  <1>5. Offers(toChecker') /\ Accepts(toNode', buf_size')
    BY <1>1, SizesAppended DEF ReadMoves
  <1>6. Alive' => Alive
    BY DEF Alive
  <1>7. WindowOut' = WindowOut
    <2>1. /\ node.credit \in Int /\ node.done \in Int /\ window \in Int
          /\ node'.credit \in Int /\ node'.done \in Int /\ Count(Taken) \in Int
      BY <1>1, ReadsProgress DEF NodeState
    <2> QED BY <1>2, <2>1, WindowSame
  <1>8. /\ node'.replied => node'.open \/ node'.gaveUp
        /\ Holds("Datagram", toChecker') \/ pc' = "receive" => node'.replied
    BY <1>1, <1>3 DEF ReadMoves
  <1>9. pc' = "accept" =>
          /\ ~node'.replied
          /\ node'.asked => node'.gaveUp \/ Holds("Stream_Initiate_Request", toChecker')
    <2> SUFFICES ASSUME pc = "accept"
                 PROVE  /\ ~node'.replied
                        /\ node'.asked =>
                              node'.gaveUp \/ Holds("Stream_Initiate_Request", toChecker')
      OBVIOUS
    <2>1. ~node.open
      BY <1>1 DEF ReadBytes, Unaccepted
    <2> QED BY <1>1, <1>3, <2>1 DEF ReadMoves
  <1>10. pc' \in {"reply", "receive"} /\ ~node'.gaveUp =>
          /\ window' < buf_size'
          /\ node'.open \/ Holds("Stream_Initiate_Reply", toNode')
          /\ node'.open => node'.size = buf_size'
    BY <1>1 DEF ReadMoves
  <1>11. pc' \in {"reply", "receive"} /\ Alive' /\ node'.open =>
            Holds("Stream_Data_Proceed", toNode') \/ WindowOut' >= buf_size'
    BY <1>1, <1>6, <1>7 DEF ReadMoves
  <1>12. pc' = "receive" /\ ~node'.ahead /\ node'.complete =>
            Holds("Stream_Data_Complete", toChecker')
    BY <1>1, <1>3 DEF ReadMoves
  <1>13. pc' = "reply" /\ ~node'.ahead => Ordered'
    OBVIOUS
  <1>14. ReadMoves'
    BY <1>5, <1>8, <1>9, <1>10, <1>11, <1>12, <1>13 DEF ReadMoves
  <1> QED BY <1>4, <1>14 DEF MovesInv

\* A message that changes nothing of the order keeps it.
LEMMA OrderedKept ==
  ASSUME IInv, BytesInv, MovesInv, mode = "read", NEW m \in AnyMessage, NodeSends(m),
         pc = "reply", ~node.ahead,
         node'.replied <=> node.replied,
         node'.done = node.done, node'.complete <=> node.complete
  PROVE  Ordered'
  <1>1. Ordered /\ toChecker \in Seq(AnyMessage) /\ toChecker' = Append(toChecker, m)
    BY ReadsProgress DEF ReadMoves, NodeSends
  <1>2. CASE ~node.replied
    BY <1>1, <1>2 DEF Ordered
  <1>3. CASE node.replied
    <2>1. ReplyFirst(toChecker, node.complete)
      BY <1>1, <1>3 DEF Ordered
    <2>2. ReplyFirst(Append(toChecker, m), node'.complete)
      BY <1>1, <2>1, ReplyFirstAppended
    <2> QED BY <1>1, <1>3, <2>2 DEF Ordered
  <1> QED BY <1>2, <1>3

LEMMA NodeAsksMoves == IInv /\ BytesInv /\ MovesInv /\ NodeAsks => MovesInv'
  <1> SUFFICES ASSUME IInv, BytesInv, MovesInv, NodeAsks PROVE MovesInv'
    OBVIOUS
  <1>1. PICK b \in Buffers : NodeSends(Sized("Stream_Initiate_Request", b))
    BY DEF NodeAsks
  <1> DEFINE m == Sized("Stream_Initiate_Request", b)
  <1>2. m \in AnyMessage /\ m.mti = "Stream_Initiate_Request" /\ m.size > 0
    BY StreamAssumption DEF Sized, AnyMessage, Mtis
  <1>3. /\ mode = "read" /\ node' = [node EXCEPT !.asked = TRUE] /\ NodeSends(m)
        /\ UNCHANGED <<mode, pc, buf_size, collected, skipped, window, toNode>>
    BY <1>1 DEF NodeAsks
  <1>4. /\ node' \in NodeState /\ node'.gaveUp = node.gaveUp /\ node'.open = node.open
        /\ node'.size = node.size /\ node'.ahead = node.ahead
        /\ node'.replied = node.replied /\ node'.credit = node.credit
        /\ node'.done = node.done /\ node'.complete = node.complete
    BY <1>3, ReadFacts DEF NodeState
  <1> HIDE DEF m
  <1>5. pc = "reply" /\ ~node'.ahead => Ordered'
    BY <1>2, <1>3, <1>4, OrderedKept
  <1> QED BY <1>2, <1>3, <1>4, <1>5, SentMoves

LEMMA ForeignDataMoves == IInv /\ BytesInv /\ MovesInv /\ ForeignData => MovesInv'
  <1> SUFFICES ASSUME IInv, BytesInv, MovesInv, ForeignData PROVE MovesInv'
    OBVIOUS
  <1>1. PICK m \in {Data(<<0>>), Other("Stream_Data_Complete")} : NodeSends(m)
    BY DEF ForeignData
  <1>2. m \in AnyMessage /\ m.mti \in {"Stream_Data_Send", "Stream_Data_Complete"}
    <2>1. CASE m = Data(<<0>>)
      <3>1. <<0>> \in Seq(Nat)
        OBVIOUS
      <3> QED BY <2>1, <3>1 DEF Data, AnyMessage, Mtis
    <2>2. CASE m = Other("Stream_Data_Complete")
      BY <2>2, OtherIs
    <2> QED BY <2>1, <2>2
  <1>3. /\ mode = "read" /\ node' = node
        /\ UNCHANGED <<mode, pc, buf_size, collected, skipped, window, toNode>>
    BY DEF ForeignData
  <1>4. node' \in NodeState
    BY <1>3, ReadFacts
  <1>5. pc = "reply" /\ ~node'.ahead => Ordered'
    BY <1>1, <1>2, <1>3, OrderedKept
  <1> QED BY <1>1, <1>2, <1>3, <1>4, <1>5, SentMoves

\* Before the reply datagram nothing of the stream is on its way, unless the node is ahead.
LEMMA ReadRepliesMoves == IInv /\ BytesInv /\ MovesInv /\ mode = "read" /\ NodeReplies => MovesInv'
  <1> SUFFICES ASSUME IInv, BytesInv, MovesInv, mode = "read", NodeReplies PROVE MovesInv'
    OBVIOUS
  <1> DEFINE m == Other("Datagram")
  <1>1. /\ NodeSends(m) /\ node' = [node EXCEPT !.replied = TRUE]
        /\ node.open /\ ~node.replied
        /\ UNCHANGED <<mode, pc, buf_size, collected, skipped, window, toNode>>
    BY DEF NodeReplies
  <1>2. m \in AnyMessage /\ m.mti = "Datagram"
    BY OtherIs
  <1>3. /\ node' \in NodeState /\ node'.gaveUp = node.gaveUp /\ node'.open = node.open
        /\ node'.size = node.size /\ node'.ahead = node.ahead
        /\ node'.replied = TRUE /\ node'.credit = node.credit /\ node'.asked = node.asked
        /\ node'.done = node.done /\ node'.complete = node.complete
    BY <1>1, ReadFacts DEF NodeState
  <1> HIDE DEF m
  <1>4. ASSUME pc = "reply", ~node'.ahead PROVE Ordered'
    <2>1. ReadMoves /\ ReadBytes /\ toChecker \in Seq(AnyMessage) /\ Count(Taken) \in Nat
      BY ReadsProgress
    <2>2. node.done = 0 /\ ~node.complete
      BY <1>1, <1>3, <1>4, <2>1 DEF ReadMoves, Ordered
    <2>3. Follows(toChecker, Count(Taken), 0, foreign)
      BY <2>1, <2>2 DEF ReadBytes
    <2>4. /\ Len(toChecker) \in Nat
          /\ \A k \in 1 .. Len(toChecker) : toChecker[k].data \in Seq(Nat)
      <3>1. Len(toChecker) \in Nat /\ \A k \in 1 .. Len(toChecker) : toChecker[k] \in AnyMessage
        BY <2>1
      <3> QED BY <3>1 DEF AnyMessage
    <2>5. \A k \in 1 .. Len(toChecker) : Zeros(toChecker[k].data)
      BY <2>3, <2>4, FollowsZeros
    <2>6. ReplyFirst(Append(toChecker, m), FALSE)
      BY <1>2, <2>1, <2>5, ReplyAppended
    <2>7. node'.complete = FALSE /\ toChecker' = Append(toChecker, m)
      BY <1>1, <1>3, <2>1, <2>2, ReadFacts DEF NodeSends, NodeState
    <2> QED BY <1>3, <2>6, <2>7 DEF Ordered
  <1> QED BY <1>1, <1>2, <1>3, <1>4, SentMoves

LEMMA NodeSendsDataMoves == IInv /\ BytesInv /\ MovesInv /\ NodeSendsData => MovesInv'
  <1> SUFFICES ASSUME IInv, BytesInv, MovesInv, NodeSendsData PROVE MovesInv'
    OBVIOUS
  <1>1. /\ mode = "read" /\ node.open /\ ~node.complete
        /\ UNCHANGED <<mode, pc, buf_size, collected, skipped, window, toNode>>
    BY DEF NodeSendsData
  <1>2. /\ node \in NodeState /\ node.done \in Nat /\ total \in Nat /\ node.credit \in Int
        /\ ReadMoves /\ toChecker \in Seq(AnyMessage)
    BY <1>1, ReadFacts, ReadsProgress
  <1>3. ASSUME NEW m \in AnyMessage, NodeSends(m), pc = "reply", ~node'.ahead,
               node'.ahead <=> node.ahead \/ ~node.replied,
               node'.replied <=> node.replied,
               node'.complete <=> m.mti = "Stream_Data_Complete"
        PROVE  Ordered'
    <2>1. node.replied /\ ~node.ahead
      BY <1>3
    <2>2. ReplyFirst(toChecker, node.complete)
      BY <1>2, <1>3, <2>1 DEF ReadMoves, Ordered
    <2>3. ReplyFirst(Append(toChecker, m), node'.complete)
      BY <1>2, <1>3, <2>2, ReplyFirstAppended
    <2> QED BY <1>3, <2>1, <2>3 DEF Ordered, NodeSends
  <1>4. ASSUME NEW n \in 1 .. Smaller(node.credit, total - node.done),
               NodeSends(Data(Range1(node.done + 1, node.done + n))),
               node' = [node EXCEPT !.done = @ + n, !.credit = @ - n,
                                    !.ahead = @ \/ ~node.replied]
        PROVE  MovesInv'
    <2> DEFINE d == Range1(node.done + 1, node.done + n)
               m == Data(d)
    <2>1. n \in Nat /\ d \in Seq(Nat) /\ NodeSends(m)
      <3>1. n \in Nat
        BY <1>2 DEF Smaller
      <3>2. d \in Seq(Nat)
        BY <1>2, <3>1, RangeIs
      <3> QED BY <1>4, <3>1, <3>2
    <2> HIDE DEF d
    <2>2. m \in AnyMessage /\ m.mti = "Stream_Data_Send"
      BY <2>1 DEF Data, AnyMessage, Mtis
    <2>3. /\ node' \in NodeState /\ node'.gaveUp = node.gaveUp /\ node'.open = node.open
          /\ node'.size = node.size /\ node'.replied = node.replied
          /\ node'.asked = node.asked /\ node'.complete = node.complete
          /\ node'.done = node.done + n /\ node'.credit = node.credit - n
      <3>1. node.done + n \in Nat /\ node.credit - n \in Int
        BY <1>2, <2>1
      <3> QED BY <1>2, <1>4, <3>1 DEF NodeState
    <2>4. node'.ahead <=> node.ahead \/ ~node.replied
      BY <1>2, <1>4 DEF NodeState
    <2>5. node'.credit + node'.done = node.credit + node.done
      BY <1>2, <2>1, <2>3
    <2> HIDE DEF m
    <2>6. pc = "reply" /\ ~node'.ahead => Ordered'
      BY <1>1, <1>3, <2>1, <2>2, <2>3, <2>4
    <2> QED BY <1>1, <2>1, <2>2, <2>3, <2>4, <2>5, <2>6, SentMoves
  <1>5. ASSUME NodeSends(Other("Stream_Data_Complete")),
               node' = [node EXCEPT !.complete = TRUE, !.ahead = @ \/ ~node.replied]
        PROVE  MovesInv'
    <2> DEFINE m == Other("Stream_Data_Complete")
    <2>1. m \in AnyMessage /\ m.mti = "Stream_Data_Complete" /\ NodeSends(m)
      BY <1>5, OtherIs
    <2>2. /\ node' \in NodeState /\ node'.gaveUp = node.gaveUp /\ node'.open = node.open
          /\ node'.size = node.size /\ node'.replied = node.replied
          /\ node'.asked = node.asked /\ node'.complete = TRUE
          /\ node'.done = node.done /\ node'.credit = node.credit
      BY <1>2, <1>5 DEF NodeState
    <2>3. node'.ahead <=> node.ahead \/ ~node.replied
      BY <1>2, <1>5 DEF NodeState
    <2> HIDE DEF m
    <2>4. pc = "reply" /\ ~node'.ahead => Ordered'
      BY <1>3, <2>1, <2>2, <2>3
    <2> QED BY <1>1, <2>1, <2>2, <2>3, <2>4, SentMoves
  <1> QED BY <1>4, <1>5 DEF NodeSendsData

LEMMA ReadTerminatesMoves ==
  IInv /\ BytesInv /\ MovesInv /\ mode = "read" /\ NodeTerminates => MovesInv'
  <1> SUFFICES ASSUME IInv, BytesInv, MovesInv, mode = "read", NodeTerminates
               PROVE MovesInv'
    OBVIOUS
  <1> DEFINE m == Other("Terminate_Due_To_Error")
  <1>1. /\ NodeSends(m)
        /\ node' = [node EXCEPT !.gaveUp = TRUE, !.open = FALSE, !.asked = TRUE]
        /\ UNCHANGED <<mode, pc, buf_size, collected, skipped, window, toNode>>
    BY DEF NodeTerminates
  <1>2. m \in AnyMessage /\ m.mti = "Terminate_Due_To_Error"
    BY OtherIs
  <1>3. /\ node'.gaveUp /\ ~node'.open /\ node'.ahead = node.ahead
        /\ node'.replied = node.replied
        /\ node'.done = node.done /\ node'.complete = node.complete
    BY <1>1, ReadFacts DEF NodeState
  <1> HIDE DEF m
  <1>4. ReadMoves /\ toChecker \in Seq(AnyMessage) /\ toChecker' = Append(toChecker, m)
    BY <1>1, ReadsProgress DEF NodeSends
  <1>5. \A mti : Holds(mti, toChecker') <=> Holds(mti, toChecker) \/ m.mti = mti
    BY <1>2, <1>4, HoldsAppended
  <1>6. Offers(toChecker') /\ Accepts(toNode', buf_size')
    BY <1>1, <1>2, <1>4, SizesAppended DEF ReadMoves
  <1>7. pc' = "reply" /\ ~node'.ahead => Ordered'
    BY <1>1, <1>2, <1>3, OrderedKept
  <1>8. Holds("Datagram", toChecker') \/ pc' = "receive" => node'.replied
    BY <1>1, <1>2, <1>3, <1>4, <1>5 DEF ReadMoves
  <1>9. pc' = "accept" => ~node'.replied
    BY <1>1, <1>3, <1>4 DEF ReadMoves
  <1>10. pc' = "receive" /\ ~node'.ahead /\ node'.complete =>
            Holds("Stream_Data_Complete", toChecker')
    BY <1>1, <1>3, <1>4, <1>5 DEF ReadMoves
  <1>11. ReadMoves'
    BY <1>3, <1>6, <1>7, <1>8, <1>9, <1>10 DEF ReadMoves, Alive
  <1>12. Blameless'
    BY <1>3 DEF Blameless, NoNeedlessTimeout
  <1> QED BY <1>1, <1>11, <1>12 DEF MovesInv

\* What every loop of the checker that takes a message leaves true.
LEMMA Took ==
  ASSUME IInv, BytesInv, MovesInv, mode = "read", toChecker # << >>,
         toChecker' = Tail(toChecker), node' = node,
         pc' = "raised" => received.mti = "Terminate_Due_To_Error"
  PROVE  /\ Blameless'
         /\ node'.replied => node'.open \/ node'.gaveUp
         /\ Holds("Datagram", toChecker') => node'.replied
         /\ Offers(toChecker')
         /\ received.mti = "Datagram" => node.replied
         /\ received.mti = "Stream_Initiate_Request" => received.size > 0
         /\ \A mti : Holds(mti, toChecker) /\ received.mti # mti => Holds(mti, toChecker')
  <1>1. ReadMoves /\ Blameless /\ toChecker \in Seq(AnyMessage) /\ received = Head(toChecker)
    BY ReadsProgress DEF received
  <1>2. /\ \A mti : Holds(mti, toChecker') => Holds(mti, toChecker)
        /\ \A mti : received.mti = mti => Holds(mti, toChecker)
    BY <1>1, HoldsTaken
  <1>3. \A mti : Holds(mti, toChecker) /\ received.mti # mti => Holds(mti, toChecker')
    BY <1>1, HoldsLeft
  <1>4. Blameless'
    BY <1>1, <1>2 DEF Blameless, NoNeedlessTimeout
  <1>5. /\ Offers(toChecker')
        /\ received.mti = "Stream_Initiate_Request" => received.size > 0
    BY <1>1, SizesTaken DEF ReadMoves
  <1>6. /\ node'.replied => node'.open \/ node'.gaveUp
        /\ Holds("Datagram", toChecker') => node'.replied
        /\ received.mti = "Datagram" => node.replied
    BY <1>1, <1>2 DEF ReadMoves
  <1> QED BY <1>3, <1>4, <1>5, <1>6

LEMMA AcceptMoves ==
  IInv /\ BytesInv /\ MovesInv /\ accept_incoming_stream => MovesInv'
  <1> SUFFICES ASSUME IInv, BytesInv, MovesInv, accept_incoming_stream PROVE MovesInv'
    OBVIOUS
  <1>1. /\ mode = "read" /\ mode' = mode /\ pc = "accept" /\ toChecker # << >>
        /\ toChecker' = Tail(toChecker) /\ node' = node /\ window' = window
    BY ModesApart DEF IInv, Types, accept_incoming_stream, Takes
  <1>2. /\ ReadMoves /\ ReadBytes /\ ReadCounts /\ toChecker \in Seq(AnyMessage)
        /\ received \in AnyMessage
    BY <1>1, ReadsProgress, Received
  <1>3. /\ toNode = << >> /\ node.done = 0 /\ ~node.open /\ ~node.complete /\ window = 0
        /\ ~node.replied
    BY <1>1, <1>2 DEF ReadBytes, Unaccepted, ReadCounts, ReadMoves
  <1>4. pc' = "raised" => received.mti = "Terminate_Due_To_Error"
    BY <1>1 DEF accept_incoming_stream
  <1>5. /\ Blameless'
        /\ node'.replied => node'.open \/ node'.gaveUp
        /\ Holds("Datagram", toChecker') => node'.replied
        /\ Offers(toChecker')
        /\ received.mti = "Stream_Initiate_Request" => received.size > 0
        /\ \A mti : Holds(mti, toChecker) /\ received.mti # mti => Holds(mti, toChecker')
    BY <1>1, <1>4, Took
  <1>6. CASE received.mti = "Stream_Initiate_Request"
    <2> DEFINE m == Sized("Stream_Initiate_Reply", buf_size')
    <2>1. /\ buf_size' = Smaller(received.size, MaxBuffer)
          /\ toNode' = Append(toNode, m) /\ pc' = "reply"
      BY <1>6 DEF accept_incoming_stream
    <2>2. buf_size' \in Nat /\ buf_size' > 0
      <3>1. received.size \in Nat /\ received.size > 0
        BY <1>2, <1>5, <1>6 DEF AnyMessage
      <3>2. MaxBuffer \in Nat /\ MaxBuffer > 0
        BY StreamAssumption
      <3> QED BY <2>1, <3>1, <3>2 DEF Smaller
    <2>3. m \in Reader /\ m.mti = "Stream_Initiate_Reply" /\ m.size = buf_size'
      BY <2>2 DEF Sized, Reader
    <2> HIDE DEF m
    <2>4. Holds("Stream_Initiate_Reply", toNode')
      BY <1>2, <1>1, <2>1, <2>3, ReadFacts, HoldsAppended
    <2>5. Accepts(toNode', buf_size')
      <3>1. Accepts(toNode, buf_size')
        <4>1. Len(<< >>) = 0
          OBVIOUS
        <4> QED BY <1>3, <4>1 DEF Accepts
      <3>2. toNode \in Seq(Reader)
        BY <1>1, ReadFacts
      <3> QED BY <2>1, <2>3, <3>1, <3>2, SizesAppended
    <2>6. Ordered'
      BY <1>1, <1>3 DEF Ordered
    <2>7. /\ pc' = "reply" /\ window' < buf_size' /\ ~node'.open /\ ~node'.complete
      BY <1>1, <1>3, <2>1, <2>2
    <2>8. ReadMoves'
      BY <1>5, <2>4, <2>5, <2>6, <2>7 DEF ReadMoves
    <2> QED BY <1>1, <1>5, <2>8 DEF MovesInv
  <1>7. CASE received.mti # "Stream_Initiate_Request"
    <2>1. buf_size' = buf_size /\ toNode' = toNode /\ pc' \in {"accept", "raised"}
      BY <1>1, <1>7 DEF accept_incoming_stream
    <2>2. /\ Accepts(toNode', buf_size') /\ ~node'.replied
          /\ node'.asked => node'.gaveUp \/ Holds("Stream_Initiate_Request", toChecker')
      BY <1>1, <1>2, <1>5, <1>7, <2>1 DEF ReadMoves
    <2>3. ReadMoves'
      BY <1>5, <2>1, <2>2 DEF ReadMoves
    <2> QED BY <1>1, <1>5, <2>3 DEF MovesInv
  <1> QED BY <1>6, <1>7

\* What is taken is counted: all of its bytes are the stream's, or none.
LEMMA TakenCounts ==
  ASSUME IInv, BytesInv, mode = "read", toChecker # << >>,
         Taken' = Taken \o received.data
  PROVE  /\ Count(Taken)' \in Nat
         /\ Len(received.data) \in Nat
         /\ Count(Taken)' <= Count(Taken) + Len(received.data)
         /\ Zeros(received.data) => Count(Taken)' = Count(Taken)
         /\ received.mti # "Stream_Data_Send" =>
               received.data = << >> /\ Zeros(received.data)
  <1> DEFINE q == toChecker
             a == Count(Taken)
             b == node.done
             d == received.data
  <1>1. /\ ReadBytes /\ q \in Seq(AnyMessage) /\ a \in Nat /\ b \in Nat /\ q # << >>
        /\ Taken \in Seq(Nat) /\ foreign \in Nat /\ received = Head(q)
    BY ReadFacts DEF received
  <1>2. d \in Seq(Nat) /\ Len(d) \in Nat
    <2>1. received.data \in Seq(Nat)
      BY ReadFacts, Received DEF AnyMessage
    <2> QED BY <2>1
  <1>3. Follows(q, a, b, foreign) /\ InOrder(Taken) /\ Bare(q)
    BY <1>1 DEF ReadBytes
  <1> HIDE DEF q, a, b, d
  <1>4. PICK c \in Nat : Part(Head(q).data, a, c)
    BY <1>1, <1>3, FollowsTaken
  <1>5. Part(d, a, c)
    BY <1>1, <1>4 DEF d
  <1>6. Count(Taken \o d) = c
    BY <1>1, <1>2, <1>3, <1>5, InOrderJoined DEF a
  <1>7. Count(Taken)' = c
    BY <1>6 DEF d
  <1>8. c <= a + Len(d) /\ (Zeros(d) => c = a)
    <2>1. CASE c = a /\ \A i \in 1 .. Len(d) : d[i] = 0
      BY <1>1, <1>2, <2>1
    <2>2. CASE c = a + Len(d) /\ \A i \in 1 .. Len(d) : d[i] = a + i
      <3>1. ASSUME Zeros(d), Len(d) # 0 PROVE FALSE
        <4>1. 1 \in 1 .. Len(d)
          BY <1>2, <3>1
        <4>2. d[1] = 0 /\ d[1] = a + 1
          BY <2>2, <3>1, <4>1 DEF Zeros
        <4> QED BY <1>1, <4>2
      <3> QED BY <1>1, <1>2, <2>2, <3>1
    <2> QED BY <1>5, <2>1, <2>2 DEF Part
  <1>9. received.mti # "Stream_Data_Send" => d = << >> /\ Zeros(d)
    <2>1. received.mti # "Stream_Data_Send" => d = << >>
      BY <1>1, <1>3, BareTaken DEF d
    <2>2. Len(<< >>) = 0
      OBVIOUS
    <2>3. d = << >> => Zeros(d)
      BY <2>2 DEF Zeros
    <2> QED BY <2>1, <2>3
  <1> QED BY <1>2, <1>7, <1>8, <1>9 DEF a, d

LEMMA ReadReplyMoves ==
  IInv /\ BytesInv /\ MovesInv /\ mode = "read" /\ WaitForReply => MovesInv'
  <1> SUFFICES ASSUME IInv, BytesInv, MovesInv, mode = "read", WaitForReply
               PROVE MovesInv'
    OBVIOUS
  <1>1. /\ toChecker # << >> /\ toChecker' = Tail(toChecker) /\ pc = "reply"
        /\ mode' = mode /\ node' = node /\ collected' = collected
        /\ buf_size' = buf_size /\ window' = window
    BY DEF WaitForReply, Takes
  <1>2. /\ ReadBytes /\ ReadMoves /\ toChecker \in Seq(AnyMessage) /\ toNode \in Seq(Reader)
        /\ skipped \in Seq(Nat) /\ collected = << >> /\ received = Head(toChecker)
    BY <1>1, ReadFacts, ReadsProgress DEF ReadBytes, received
  <1>3. received.data \in Seq(Nat)
    BY <1>1, ReadFacts, Received DEF AnyMessage
  <1>4. \/ received.mti = "Datagram" /\ pc' = "receive"
           /\ toNode' = Append(toNode, Other("Datagram_Received_OK"))
        \/ received.mti # "Datagram" /\ pc' = "reply" /\ toNode' = toNode
    BY <1>1 DEF WaitForReply
  <1>5. Taken' = Taken \o received.data
    <2>1. received.mti = "Datagram" => received.data = << >>
      BY <1>1, <1>2, BareTaken DEF ReadBytes
    <2>2. skipped' = skipped \o received.data
      <3>1. CASE received.mti = "Datagram"
        BY <1>2, <2>1, <3>1 DEF WaitForReply
      <3>2. CASE received.mti # "Datagram"
        BY <3>2 DEF WaitForReply
      <3> QED BY <3>1, <3>2
    <2> QED BY <1>1, <1>2, <1>3, <2>2 DEF Taken
  <1>6. /\ Zeros(received.data) => Count(Taken)' = Count(Taken)
        /\ received.mti # "Stream_Data_Send" => Zeros(received.data)
    BY <1>1, <1>5, TakenCounts
  <1>7. /\ Blameless'
        /\ node'.replied => node'.open \/ node'.gaveUp
        /\ Holds("Datagram", toChecker') => node'.replied
        /\ Offers(toChecker')
        /\ received.mti = "Datagram" => node.replied
    <2>1. pc' # "raised"
      BY <1>4
    <2> QED BY <1>1, <2>1, Took
  <1>8. /\ Accepts(toNode', buf_size')
        /\ \A mti : Holds(mti, toNode) => Holds(mti, toNode')
    <2> DEFINE m == Other("Datagram_Received_OK")
    <2>1. m \in Reader /\ m.mti # "Stream_Initiate_Reply"
      BY DEF Other, Reader
    <2>2. toNode' = toNode \/ toNode' = Append(toNode, m)
      BY <1>4
    <2> HIDE DEF m
    <2>3. Accepts(Append(toNode, m), buf_size)
      BY <1>2, <2>1, SizesAppended DEF ReadMoves
    <2>4. \A mti : Holds(mti, toNode) => Holds(mti, Append(toNode, m))
      BY <1>2, <2>1, HoldsAppended
    <2> QED BY <1>1, <1>2, <2>2, <2>3, <2>4 DEF ReadMoves
  <1>9. ASSUME ~node.ahead
        PROVE  /\ Zeros(received.data)
               /\ pc' = "reply" => Ordered'
               /\ pc' = "receive" /\ node.complete =>
                     Holds("Stream_Data_Complete", toChecker')
    <2>1. Ordered
      BY <1>1, <1>2, <1>9 DEF ReadMoves
    <2>2. CASE node.replied
      <3>1. ReplyFirst(toChecker, node.complete)
        BY <2>1, <2>2 DEF Ordered
      <3>2. /\ received.mti # "Datagram" =>
                  Zeros(received.data) /\ ReplyFirst(toChecker', node.complete)
            /\ node.complete => Holds("Stream_Data_Complete", toChecker')
        BY <1>1, <1>2, <3>1, ReplyFirstTaken
      <3>3. Zeros(received.data)
        BY <1>6, <3>2
      <3>4. pc' = "reply" => Ordered'
        BY <1>1, <1>4, <2>2, <3>2 DEF Ordered
      <3> QED BY <3>2, <3>3, <3>4
    <2>3. CASE ~node.replied
      <3>1. node.done = 0 /\ ~node.complete
        BY <2>1, <2>3 DEF Ordered
      <3>2. Zeros(received.data)
        <4>1. Follows(toChecker, Count(Taken), 0, foreign)
          BY <1>2, <3>1 DEF ReadBytes
        <4>2. /\ Len(toChecker) \in Nat
              /\ \A k \in 1 .. Len(toChecker) : toChecker[k] \in AnyMessage
          BY <1>2
        <4>3. \A k \in 1 .. Len(toChecker) : toChecker[k].data \in Seq(Nat)
          BY <4>2 DEF AnyMessage
        <4>4. \A k \in 1 .. Len(toChecker) : Zeros(toChecker[k].data)
          BY <4>1, <4>2, <4>3, FollowsZeros
        <4>5. 1 \in 1 .. Len(toChecker) /\ received = toChecker[1]
          BY <1>1, <1>2
        <4> QED BY <4>4, <4>5
      <3>3. Ordered'
        BY <1>1, <2>3, <3>1 DEF Ordered
      <3> QED BY <3>1, <3>2, <3>3
    <2> QED BY <2>2, <2>3
  <1>10. ~node.gaveUp =>
           /\ window' < buf_size'
           /\ node'.open \/ Holds("Stream_Initiate_Reply", toNode')
           /\ node'.open => node'.size = buf_size'
    BY <1>1, <1>2, <1>8 DEF ReadMoves
  <1>11. Alive' /\ node'.open => Holds("Stream_Data_Proceed", toNode') \/ WindowOut' >= buf_size'
    <2> SUFFICES ASSUME Alive', node'.open
                 PROVE  Holds("Stream_Data_Proceed", toNode') \/ WindowOut' >= buf_size'
      OBVIOUS
    <2>1. ~node.ahead /\ Alive /\ node.open
      BY <1>1 DEF Alive
    <2>2. Count(Taken)' = Count(Taken)
      BY <1>6, <1>9, <2>1
    <2>3. WindowOut' = WindowOut
      BY <1>1, <2>2 DEF WindowOut
    <2>4. Holds("Stream_Data_Proceed", toNode) \/ WindowOut >= buf_size
      BY <1>1, <1>2, <2>1 DEF ReadMoves
    <2> QED BY <1>1, <1>8, <2>3, <2>4
  <1>12. pc' = "receive" => node'.replied
    BY <1>1, <1>4, <1>7
  <1>13. ReadMoves'
    BY <1>1, <1>4, <1>7, <1>8, <1>9, <1>10, <1>11, <1>12 DEF ReadMoves
  <1> QED BY <1>1, <1>7, <1>13 DEF MovesInv

\* What is taken is counted in the window, and a window that is full is given back.
LEMMA ReceiveMoves == IInv /\ BytesInv /\ MovesInv /\ receive_stream_data => MovesInv'
  <1> SUFFICES ASSUME IInv, BytesInv, MovesInv, receive_stream_data PROVE MovesInv'
    OBVIOUS
  <1> DEFINE n == Len(received.data)
  <1>1. /\ mode = "read" /\ mode' = mode /\ toChecker # << >> /\ toChecker' = Tail(toChecker)
        /\ pc = "receive" /\ node' = node /\ buf_size' = buf_size /\ skipped' = skipped
        /\ collected' = collected \o received.data
    BY ModesApart DEF IInv, Types, receive_stream_data, Takes, Extended
  <1>2. /\ ReadBytes /\ ReadMoves /\ ReadCounts /\ toNode \in Seq(Reader)
        /\ node \in NodeState /\ node.credit \in Int /\ node.credit >= 0
        /\ node.done \in Nat /\ Count(Taken) \in Nat
        /\ Count(Taken) <= node.done /\ buf_size \in Nat /\ window \in Nat
    BY <1>1, ReadsProgress
  <1>3. Taken' = Taken \o received.data
    <2> DEFINE d == received.data
    <2>1. skipped \in Seq(Nat) /\ collected \in Seq(Nat) /\ d \in Seq(Nat)
      BY <1>1, ReadFacts, Received DEF AnyMessage
    <2> HIDE DEF d
    <2>2. (skipped \o collected) \o d = skipped \o (collected \o d)
      BY <2>1, JoinedTwice
    <2> QED BY <1>1, <2>2 DEF Taken, d
  <1>4. /\ Count(Taken)' \in Nat /\ n \in Nat /\ Count(Taken)' <= Count(Taken) + n
        /\ received.mti # "Stream_Data_Send" => Count(Taken)' = Count(Taken)
    <2>1. toChecker # << >> /\ mode = "read"
      BY <1>1
    <2>2. /\ Count(Taken)' \in Nat /\ Len(received.data) \in Nat
          /\ Count(Taken)' <= Count(Taken) + Len(received.data)
          /\ Zeros(received.data) => Count(Taken)' = Count(Taken)
          /\ received.mti # "Stream_Data_Send" => Zeros(received.data)
      BY <1>3, <2>1, TakenCounts
    <2> QED BY <2>2
  <1>5. \/ /\ received.mti = "Stream_Data_Send" /\ pc' = "receive"
           /\ window' = Counted(window + n)
           /\ IF Full(window + n)
              THEN toNode' = Append(toNode, Other("Stream_Data_Proceed"))
              ELSE toNode' = toNode
        \/ /\ received.mti # "Stream_Data_Send" /\ window' = window /\ toNode' = toNode
           /\ pc' = "receive" => received.mti # "Stream_Data_Complete"
           /\ pc' = "raised" => received.mti = "Terminate_Due_To_Error"
           /\ pc' \in {"receive", "raised", "returned"}
    BY <1>1 DEF receive_stream_data
  <1>6. /\ Blameless'
        /\ node'.replied => node'.open \/ node'.gaveUp
        /\ Holds("Datagram", toChecker') => node'.replied
        /\ Offers(toChecker')
        /\ \A mti : Holds(mti, toChecker) /\ received.mti # mti => Holds(mti, toChecker')
    <2>1. pc' = "raised" => received.mti = "Terminate_Due_To_Error"
      BY <1>5
    <2> QED BY <1>1, <2>1, Took
  <1>7. /\ Accepts(toNode', buf_size')
        /\ \A mti : Holds(mti, toNode) => Holds(mti, toNode')
        /\ toNode' # toNode => Holds("Stream_Data_Proceed", toNode')
    <2> DEFINE m == Other("Stream_Data_Proceed")
    <2>1. m \in Reader /\ m.mti = "Stream_Data_Proceed"
      BY DEF Other, Reader
    <2>2. toNode' = toNode \/ toNode' = Append(toNode, m)
      BY <1>5
    <2> HIDE DEF m
    <2>3. Accepts(Append(toNode, m), buf_size)
      BY <1>2, <2>1, SizesAppended DEF ReadMoves
    <2>4. /\ \A mti : Holds(mti, toNode) => Holds(mti, Append(toNode, m))
          /\ Holds("Stream_Data_Proceed", Append(toNode, m))
      BY <1>2, <2>1, HoldsAppended
    <2> QED BY <1>1, <1>2, <2>2, <2>3, <2>4 DEF ReadMoves
  <1> HIDE DEF n
  <1>8. pc' = "receive" /\ ~node'.gaveUp =>
           /\ window' < buf_size'
           /\ node'.open \/ Holds("Stream_Initiate_Reply", toNode')
           /\ node'.open => node'.size = buf_size'
    <2> SUFFICES ASSUME ~node.gaveUp
                 PROVE  /\ window' < buf_size
                        /\ node.open \/ Holds("Stream_Initiate_Reply", toNode')
                        /\ node.open => node.size = buf_size
      BY <1>1
    <2>1. /\ window < buf_size
          /\ node.open \/ Holds("Stream_Initiate_Reply", toNode)
          /\ node.open => node.size = buf_size
      BY <1>1, <1>2 DEF ReadMoves
    <2>2. window' < buf_size
      BY <1>2, <1>4, <1>5, <2>1 DEF Counted, Full
    <2> QED BY <1>7, <2>1, <2>2
  <1>9. Alive' /\ node'.open => Holds("Stream_Data_Proceed", toNode') \/ WindowOut' >= buf_size'
    <2> SUFFICES ASSUME Alive', node'.open, ~Holds("Stream_Data_Proceed", toNode')
                 PROVE  WindowOut' >= buf_size
      BY <1>1
    <2>1. toNode' = toNode /\ Alive /\ node.open
      BY <1>1, <1>7 DEF Alive
    <2>2. WindowOut >= buf_size
      BY <1>1, <1>2, <2>1 DEF ReadMoves
    <2> DEFINE a == Count(Taken)
               c == Count(Taken)'
    <2>3. window' \in Nat /\ window' - c >= window - a
      <3>1. CASE received.mti = "Stream_Data_Send"
        <4>1. ~Full(window + n)
          <5>1. Full(window + n) => Holds("Stream_Data_Proceed", toNode')
            <6> DEFINE m == Other("Stream_Data_Proceed")
            <6>1. m \in Reader /\ m.mti = "Stream_Data_Proceed"
              BY DEF Other, Reader
            <6>2. Full(window + n) => toNode' = Append(toNode, m)
              BY <1>5, <3>1
            <6> HIDE DEF m
            <6>3. Holds("Stream_Data_Proceed", Append(toNode, m))
              BY <1>2, <6>1, HoldsAppended
            <6> QED BY <6>2, <6>3
          <5> QED BY <5>1
        <4>2. window' = window + n
          BY <1>5, <3>1, <4>1 DEF Counted
        <4> HIDE DEF a, c
        <4>3. a \in Nat /\ c \in Nat /\ c <= a + n
          BY <1>2, <1>4 DEF a, c
        <4> QED BY <1>2, <1>4, <4>2, <4>3
      <3>2. CASE received.mti # "Stream_Data_Send"
        <4>1. window' = window /\ c = a /\ a \in Nat
          BY <1>2, <1>4, <1>5, <3>2
        <4> HIDE DEF a, c
        <4> QED BY <1>2, <4>1
      <3> QED BY <3>1, <3>2
    <2>4. /\ node.credit \in Int /\ node.done \in Int /\ window \in Int /\ window' \in Int
          /\ buf_size \in Int /\ Count(Taken) \in Int /\ Count(Taken)' \in Int
      BY <1>2, <1>4, <2>3
    <2>5. window' - Count(Taken)' >= window - Count(Taken)
      BY <2>3
    <2> HIDE DEF a, c
    <2> QED BY <1>1, <2>2, <2>4, <2>5, WindowCounted
  <1>10. pc' = "receive" /\ ~node'.ahead /\ node'.complete =>
            Holds("Stream_Data_Complete", toChecker')
    <2> SUFFICES ASSUME pc' = "receive", ~node.ahead, node.complete
                 PROVE  Holds("Stream_Data_Complete", toChecker')
      BY <1>1
    <2>1. Holds("Stream_Data_Complete", toChecker)
      BY <1>1, <1>2 DEF ReadMoves
    <2>2. received.mti # "Stream_Data_Complete"
      BY <1>5
    <2> QED BY <1>6, <2>1, <2>2
  <1>11. pc' = "receive" => node'.replied
    BY <1>1, <1>2 DEF ReadMoves
  <1>12. pc' \notin {"accept", "reply"}
    BY <1>5
  <1>13. ReadMoves'
    BY <1>6, <1>7, <1>8, <1>9, <1>10, <1>11, <1>12 DEF ReadMoves
  <1> QED BY <1>1, <1>6, <1>13 DEF MovesInv

LEMMA ReadNodeReceivesMoves ==
  IInv /\ BytesInv /\ MovesInv /\ mode = "read" /\ NodeReceives => MovesInv'
  <1> SUFFICES ASSUME IInv, BytesInv, MovesInv, mode = "read", NodeReceives
               PROVE MovesInv'
    OBVIOUS
  <1> DEFINE m == Head(toNode)
  <1>1. /\ toNode # << >> /\ toNode' = Tail(toNode) /\ toNode \in Seq(Reader)
        /\ UNCHANGED <<mode, pc, collected, skipped, buf_size, window>>
        /\ node \in NodeState /\ ReadMoves /\ ReadBytes /\ ReadCounts /\ Blameless
        /\ node.done \in Nat /\ node.credit \in Int /\ node.credit >= 0 /\ node.size \in Nat
        /\ Count(Taken) \in Nat /\ Count(Taken) <= node.done
        /\ buf_size \in Nat /\ window \in Nat
    BY ReadsProgress DEF NodeReceives
  <1>2. /\ m \in Reader /\ m.size \in Nat
        /\ m.mti \in {"Stream_Initiate_Reply", "Stream_Data_Proceed", "Datagram_Received_OK"}
    <2>1. m \in Reader
      BY <1>1
    <2> QED BY <2>1 DEF Reader
  <1>3. /\ Accepts(toNode', buf_size')
        /\ m.mti = "Stream_Initiate_Reply" => m.size = buf_size
        /\ \A mti : Holds(mti, toNode) /\ m.mti # mti => Holds(mti, toNode')
    BY <1>1, SizesTaken, HoldsLeft DEF ReadMoves
  <1>4. /\ toChecker' = toChecker /\ node' \in NodeState
        /\ node'.done = node.done /\ node'.complete = node.complete
        /\ node'.gaveUp = node.gaveUp /\ node'.ahead = node.ahead
        /\ node'.replied = node.replied /\ node'.asked = node.asked
        /\ CASE m.mti = "Stream_Initiate_Reply" ->
                  /\ node'.open <=> ~node.gaveUp
                  /\ node'.size = m.size /\ node'.credit = m.size
             [] m.mti = "Stream_Data_Proceed" ->
                  /\ node'.open = node.open /\ node'.size = node.size
                  /\ node'.credit = node.credit + node.size
             [] m.mti = "Datagram_Received_OK" -> node' = node
    <2>1. CASE m.mti = "Stream_Initiate_Reply"
      <3>1. /\ node' = [node EXCEPT !.open = ~node.gaveUp, !.size = m.size, !.credit = m.size]
            /\ toChecker' = toChecker
        BY <2>1 DEF NodeReceives
      <3>2. m.size \in Int
        BY <1>2
      <3> HIDE DEF m
      <3> QED BY <1>1, <1>2, <2>1, <3>1, <3>2 DEF NodeState
    <2>2. CASE m.mti = "Stream_Data_Proceed"
      <3>1. node' = [node EXCEPT !.credit = @ + node.size] /\ toChecker' = toChecker
        BY <2>2 DEF NodeReceives
      <3>2. node.credit + node.size \in Int
        BY <1>1
      <3> HIDE DEF m
      <3> QED BY <1>1, <2>2, <3>1, <3>2 DEF NodeState
    <2>3. CASE m.mti = "Datagram_Received_OK"
      <3>1. node' = node /\ toChecker' = toChecker
        BY <2>3 DEF NodeReceives
      <3> HIDE DEF m
      <3> QED BY <1>1, <2>3, <3>1
    <2> QED BY <1>2, <2>1, <2>2, <2>3
  <1>5. Count(Taken)' = Count(Taken)
    BY <1>1 DEF Taken
  <1> HIDE DEF m
  <1>6. node'.replied => node'.open \/ node'.gaveUp
    BY <1>1, <1>2, <1>4 DEF ReadMoves
  <1>7. /\ Holds("Datagram", toChecker') \/ pc' = "receive" => node'.replied
        /\ Offers(toChecker')
        /\ pc' = "accept" =>
              /\ ~node'.replied
              /\ node'.asked => node'.gaveUp \/ Holds("Stream_Initiate_Request", toChecker')
        /\ pc' = "receive" /\ ~node'.ahead /\ node'.complete =>
              Holds("Stream_Data_Complete", toChecker')
    BY <1>1, <1>4 DEF ReadMoves
  <1>8. pc' = "reply" /\ ~node'.ahead => Ordered'
    <2>1. Ordered => Ordered'
      BY <1>4 DEF Ordered
    <2> QED BY <1>1, <1>4, <2>1 DEF ReadMoves
  <1>9. ASSUME pc' \in {"reply", "receive"}, ~node'.gaveUp
        PROVE  /\ window' < buf_size'
               /\ node'.open \/ Holds("Stream_Initiate_Reply", toNode')
               /\ node'.open => node'.size = buf_size'
    <2>1. /\ ~node.gaveUp /\ window < buf_size
          /\ node.open \/ Holds("Stream_Initiate_Reply", toNode)
          /\ node.open => node.size = buf_size
      BY <1>1, <1>4, <1>9 DEF ReadMoves
    <2> QED BY <1>1, <1>2, <1>3, <1>4, <2>1
  <1>10. ASSUME pc' \in {"reply", "receive"}, Alive', node'.open
         PROVE  Holds("Stream_Data_Proceed", toNode') \/ WindowOut' >= buf_size'
    <2>1. pc \in {"reply", "receive"} /\ Alive /\ ~node.gaveUp
      BY <1>1, <1>4, <1>10 DEF Alive
    <2> DEFINE a == Count(Taken)
    <2>2. /\ WindowOut = node.credit + (node.done - a) + window
          /\ WindowOut' = node'.credit + (node.done - a) + window
          /\ a \in Nat /\ a <= node.done
      BY <1>1, <1>4, <1>5 DEF WindowOut
    <2> HIDE DEF a
    <2>3. /\ node.credit \in Int /\ node.credit >= 0 /\ node.done \in Nat
          /\ window \in Nat /\ buf_size \in Nat /\ buf_size' = buf_size
      BY <1>1
    <2>4. CASE m.mti = "Stream_Initiate_Reply"
      <3>1. node'.credit = buf_size
        BY <1>3, <1>4, <2>4
      <3> QED BY <2>2, <2>3, <3>1
    <2>5. CASE m.mti = "Stream_Data_Proceed"
      <3>1. node.open
        BY <1>4, <1>10, <2>5
      <3>2. node.size = buf_size
        BY <1>1, <2>1, <3>1 DEF ReadMoves
      <3>3. node'.credit = node.credit + buf_size
        BY <1>4, <2>5, <3>2
      <3> QED BY <2>2, <2>3, <3>3
    <2>6. CASE m.mti = "Datagram_Received_OK"
      <3>1. node' = node
        BY <1>4, <2>6
      <3>2. Holds("Stream_Data_Proceed", toNode) \/ WindowOut >= buf_size
        BY <1>1, <1>10, <2>1, <3>1 DEF ReadMoves
      <3>3. WindowOut' = WindowOut
        BY <2>2, <3>1
      <3> QED BY <1>1, <1>3, <2>6, <3>2, <3>3
    <2> QED BY <1>2, <2>4, <2>5, <2>6
  <1>11. ReadMoves'
    BY <1>3, <1>6, <1>7, <1>8, <1>9, <1>10 DEF ReadMoves
  <1>12. Blameless'
    BY <1>1, <1>4 DEF Blameless, NoNeedlessTimeout
  <1> QED BY <1>1, <1>11, <1>12 DEF MovesInv

\* The checker's time is up: nothing is on its way and the node has nothing to do, so it
\* has given up, or was ahead.
LEMMA ReadTimeoutMoves ==
  IInv /\ BytesInv /\ MovesInv /\ mode = "read" /\ Timeout => MovesInv'
  <1> SUFFICES ASSUME IInv, BytesInv, MovesInv, mode = "read", Timeout PROVE MovesInv'
    OBVIOUS
  <1>1. /\ ~Ended /\ toChecker = << >> /\ ~NodeActs /\ pc' = "raised"
        /\ UNCHANGED <<mode, buf_size, collected, window, node, toNode, toChecker, skipped>>
    BY DEF Timeout
  <1>2. /\ ReadMoves /\ ReadBytes /\ ReadCounts /\ Blameless
        /\ node \in NodeState /\ node.done \in Nat /\ node.credit \in Int /\ node.credit >= 0
        /\ Count(Taken) \in Nat /\ buf_size \in Nat /\ window \in Nat
        /\ pc \in {"accept", "reply", "receive"}
    BY <1>1, ReadsProgress DEF Ended
  <1>3. /\ toNode = << >> /\ node.asked
        /\ node.open => node.replied
        /\ node.open => node.complete \/ (node.done # total /\ ~(node.credit > 0))
    BY <1>1 DEF NodeActs
  <1>4. \A mti : ~Holds(mti, toNode) /\ ~Holds(mti, toChecker)
    BY <1>1, <1>3, HoldsNothing
  <1>5. ASSUME Alive PROVE FALSE
    <2>1. ~node.gaveUp /\ ~node.ahead
      BY <1>5 DEF Alive
    <2>2. pc # "accept"
      BY <1>2, <1>3, <1>4, <2>1 DEF ReadMoves
    <2>3. node.open /\ window < buf_size
      BY <1>2, <1>4, <2>1, <2>2 DEF ReadMoves
    <2>4. CASE pc = "reply"
      <3>1. ReplyFirst(toChecker, node.complete)
        BY <1>2, <1>3, <2>1, <2>3, <2>4 DEF ReadMoves, Ordered
      <3>2. Len(<< >>) = 0
        OBVIOUS
      <3> QED BY <1>1, <3>1, <3>2 DEF ReplyFirst
    <2>5. CASE pc = "receive"
      <3>1. ~node.complete
        BY <1>2, <1>4, <2>1, <2>5 DEF ReadMoves
      <3>2. node.credit = 0
        BY <1>2, <1>3, <2>3, <3>1
      <3>3. WindowOut >= buf_size
        BY <1>2, <1>4, <1>5, <2>3, <2>5 DEF ReadMoves
      <3>4. Count(Taken) = node.done
        <4>1. Follows(toChecker, Count(Taken), node.done, foreign)
          BY <1>2 DEF ReadBytes
        <4>2. Len(toChecker) \in Nat
          BY <1>1
        <4> QED BY <1>1, <1>2, <4>1, <4>2, FollowsUp
      <3>5. WindowOut = node.credit + (node.done - Count(Taken)) + window
        BY DEF WindowOut
      <3> DEFINE a == Count(Taken)
      <3>6. a = node.done /\ WindowOut = node.credit + (node.done - a) + window
        BY <3>4, <3>5
      <3> HIDE DEF a
      <3>7. WindowOut = window
        BY <1>2, <3>2, <3>6
      <3> QED BY <1>2, <2>3, <3>3, <3>7
    <2> QED BY <1>2, <2>2, <2>4, <2>5
  <1>6. Blameless'
    BY <1>1, <1>2, <1>5 DEF Alive, Blameless, NoNeedlessTimeout
  <1>7. ReadMoves'
    BY <1>1, <1>2 DEF ReadMoves
  <1> QED BY <1>1, <1>6, <1>7 DEF MovesInv

-----------------------------------------------------------------------------
(* The steps when the checker writes. *)

LEMMA WritesProgress ==
  ASSUME IInv, BytesInv, MovesInv, mode = "write"
  PROVE  /\ Types /\ WriteCounts /\ WriteMoves /\ Blameless
         /\ toChecker \in Seq(AnyMessage) /\ toNode \in Seq(Writer)
         /\ node \in NodeState /\ node.done \in Nat /\ bytes_sent \in Nat /\ total \in Nat
         /\ node.done <= bytes_sent
         /\ pc \in {"open", "opening", "send", "proceed", "reply", "returned", "raised"}
  <1>1. /\ Types /\ WriteCounts /\ WriteMoves /\ Blameless
    BY DEF IInv, MovesInv
  <1>2. /\ toChecker \in Seq(AnyMessage) /\ toNode \in Seq(Writer)
        /\ node \in NodeState /\ node.done \in Nat /\ bytes_sent \in Nat /\ total \in Nat
    BY WriteFacts
  <1>3. pc \in {"open", "opening", "send", "proceed", "reply", "returned", "raised"}
    BY <1>1 DEF Types
  <1>4. node.done <= bytes_sent
    BY <1>1, <1>2, CarriesInOrder DEF WriteCounts
  <1> QED BY <1>1, <1>2, <1>3, <1>4

\* What every loop of the checker that takes a message leaves true.
LEMMA WriterTook ==
  ASSUME IInv, BytesInv, MovesInv, mode = "write", toChecker # << >>,
         toChecker' = Tail(toChecker), node' = node,
         pc' = "raised" =>
            \/ received.mti = "Terminate_Due_To_Error"
            \/ received.mti = "Stream_Initiate_Reply" /\ received.size = 0
  PROVE  /\ Blameless'
         /\ Refuses(toChecker') => node'.gaveUp
         /\ pc # "open" /\ ~Holds("Stream_Initiate_Request", toNode)
         /\ \A mti : Holds(mti, toChecker') => Holds(mti, toChecker)
         /\ \A mti : received.mti = mti => Holds(mti, toChecker)
         /\ \A mti : Holds(mti, toChecker) /\ received.mti # mti => Holds(mti, toChecker')
  <1>1. WriteMoves /\ Blameless /\ toChecker \in Seq(AnyMessage) /\ received = Head(toChecker)
    BY WritesProgress DEF received
  <1>2. /\ \A mti : Holds(mti, toChecker') => Holds(mti, toChecker)
        /\ \A mti : received.mti = mti => Holds(mti, toChecker)
    BY <1>1, HoldsTaken
  <1>3. \A mti : Holds(mti, toChecker) /\ received.mti # mti => Holds(mti, toChecker')
    BY <1>1, HoldsLeft
  <1>4. /\ Refuses(toChecker') => Refuses(toChecker)
        /\ received.mti = "Stream_Initiate_Reply" /\ received.size = 0 => Refuses(toChecker)
    BY <1>1, SizesTaken
  <1>5. Refuses(toChecker) => node.gaveUp
    BY <1>1 DEF WriteMoves
  <1>6. Blameless'
    BY <1>1, <1>2, <1>4, <1>5 DEF Blameless, NoNeedlessTimeout
  <1>7. pc # "open" /\ ~Holds("Stream_Initiate_Request", toNode)
    BY <1>1 DEF WriteMoves
  <1> QED BY <1>2, <1>3, <1>4, <1>5, <1>6, <1>7

LEMMA OpenMoves == IInv /\ BytesInv /\ MovesInv /\ open_outbound_stream => MovesInv'
  <1> SUFFICES ASSUME IInv, BytesInv, MovesInv, open_outbound_stream PROVE MovesInv'
    OBVIOUS
  <1>1. /\ mode = "write" /\ mode' = mode /\ node' = node /\ bytes_sent' = bytes_sent
    BY ModesApart DEF IInv, Types, open_outbound_stream, Takes
  <1>2. /\ WriteMoves /\ WriteCounts /\ Blameless /\ toNode \in Seq(Writer)
        /\ node \in NodeState
    BY <1>1, WritesProgress
  <1>3. CASE pc = "open" /\ toNode' = Append(toNode, Opening) /\ pc' = "opening"
             /\ toChecker' = toChecker
    <2>1. Opening \in Writer /\ Opening.mti = "Stream_Initiate_Request"
      BY DEF Writer, Opening, Sized
    <2>2. \A mti : Holds(mti, toNode') <=> Holds(mti, toNode) \/ Opening.mti = mti
      BY <1>2, <1>3, <2>1, HoldsAppended
    <2>3. /\ ~node.open /\ ~node.gaveUp /\ toChecker = << >> /\ ~node.complete
          /\ ~Holds("Stream_Data_Complete", toNode)
      BY <1>2, <1>3 DEF WriteMoves
    <2>4. ~Holds("Stream_Data_Complete", toNode') /\ Holds("Stream_Initiate_Request", toNode')
      BY <2>1, <2>2, <2>3
    <2>5. \A mti : ~Holds(mti, toChecker')
      BY <1>3, <2>3, HoldsNothing
    <2>6. WriteMoves'
      BY <1>1, <1>2, <1>3, <2>3, <2>4, <2>5 DEF WriteMoves
    <2>7. Blameless'
      BY <1>1, <1>2, <1>3 DEF Blameless, NoNeedlessTimeout
    <2> QED BY <1>1, <2>6, <2>7 DEF MovesInv
  <1>4. CASE /\ pc = "opening" /\ toChecker # << >> /\ toChecker' = Tail(toChecker)
             /\ toNode' = toNode
             /\ IF received.mti = "Stream_Initiate_Reply"
                THEN pc' = IF received.size = 0 THEN "raised" ELSE "send"
                ELSE pc' = pc
    <2>1. /\ Blameless'
          /\ Refuses(toChecker') => node'.gaveUp
          /\ ~Holds("Stream_Initiate_Request", toNode)
          /\ \A mti : Holds(mti, toChecker') => Holds(mti, toChecker)
          /\ \A mti : received.mti = mti => Holds(mti, toChecker)
          /\ \A mti : Holds(mti, toChecker) /\ received.mti # mti => Holds(mti, toChecker')
      <3>1. pc' = "raised" => received.mti = "Stream_Initiate_Reply" /\ received.size = 0
        BY <1>4
      <3> QED BY <1>1, <1>4, <3>1, WriterTook
    <2>2. pc' \in {"opening", "raised", "send"}
      BY <1>4
    <2>3. /\ ~Holds("Stream_Data_Complete", toNode) /\ ~node.complete /\ ~node.replied
          /\ Holds("Stream_Initiate_Reply", toChecker)
          /\ node.open \/ node.gaveUp
      BY <1>2, <1>4, <2>1 DEF WriteMoves
    <2>4. pc' = "opening" => Holds("Stream_Initiate_Reply", toChecker')
      BY <1>4, <2>1, <2>3
    <2>5. WriteMoves'
      BY <1>1, <1>4, <2>1, <2>2, <2>3, <2>4 DEF WriteMoves
    <2> QED BY <1>1, <2>1, <2>5 DEF MovesInv
  <1>5. \/ /\ pc = "open" /\ toNode' = Append(toNode, Opening) /\ pc' = "opening"
           /\ toChecker' = toChecker
        \/ /\ pc = "opening" /\ toChecker # << >> /\ toChecker' = Tail(toChecker)
           /\ toNode' = toNode
           /\ IF received.mti = "Stream_Initiate_Reply"
              THEN pc' = IF received.size = 0 THEN "raised" ELSE "send"
              ELSE pc' = pc
    BY DEF open_outbound_stream, Opening, Takes
  <1> QED BY <1>3, <1>4, <1>5

LEMMA SendMoves == IInv /\ BytesInv /\ MovesInv /\ send_stream_data => MovesInv'
  <1> SUFFICES ASSUME IInv, BytesInv, MovesInv, send_stream_data PROVE MovesInv'
    OBVIOUS
  <1>1. /\ mode = "write" /\ mode' = mode /\ node' = node /\ toChecker' = toChecker
        /\ pc = "send"
    BY ModesApart DEF IInv, Types, send_stream_data
  <1>2. /\ Types /\ WriteMoves /\ WriteCounts /\ Blameless /\ toNode \in Seq(Writer)
        /\ node \in NodeState /\ node.done \in Nat /\ bytes_sent \in Nat /\ total \in Nat
        /\ node.done <= bytes_sent /\ bytes_sent <= total
    BY <1>1, WritesProgress, WriteFacts
  <1>3. /\ ~Holds("Stream_Data_Complete", toNode) /\ ~node.complete /\ ~node.replied
        /\ ~Holds("Stream_Initiate_Request", toNode)
        /\ node.open \/ node.gaveUp
    BY <1>1, <1>2 DEF WriteMoves
  <1>4. PICK m \in Writer :
          /\ toNode' = Append(toNode, m) /\ m.mti # "Stream_Initiate_Request"
          /\ \/ m.mti = "Stream_Data_Complete" /\ pc' = "reply"
             \/ /\ m.mti # "Stream_Data_Complete" /\ pc' \in {"send", "proceed"}
                /\ bytes_sent' > bytes_sent
    <2>1. CASE bytes_sent = total
      <3> DEFINE m == Other("Stream_Data_Complete")
      <3>1. m \in Writer /\ m.mti = "Stream_Data_Complete"
        BY DEF Other, Writer
      <3>2. toNode' = Append(toNode, m) /\ pc' = "reply"
        BY <2>1 DEF send_stream_data
      <3> HIDE DEF m
      <3> QED BY <3>1, <3>2
    <2>2. CASE bytes_sent # total
      <3> DEFINE c == ChunkSize
                 d == Range1(bytes_sent + 1, bytes_sent + c)
                 m == Data(d)
      <3>1. /\ toNode' = Append(toNode, m) /\ bytes_sent' = bytes_sent + c
            /\ pc' \in {"send", "proceed"}
        BY <1>1, <2>2 DEF send_stream_data
      <3>2. bytes_sent < total /\ window < buf_size
        BY <1>1, <1>2, <2>2 DEF WriteCounts, Sending
      <3>3. c \in Nat /\ c > 0
        BY <1>2, <3>2, ChunkFits
      <3> HIDE DEF c
      <3>4. d \in Seq(Nat)
        BY <1>2, <3>3, RangeIs
      <3> HIDE DEF d
      <3>5. m \in Writer /\ m.mti = "Stream_Data_Send"
        BY <3>4 DEF Data, Writer
      <3>6. bytes_sent' > bytes_sent
        BY <1>2, <3>1, <3>3
      <3> HIDE DEF m
      <3> QED BY <3>1, <3>5, <3>6
    <2> QED BY <2>1, <2>2
  <1>5. \A mti : Holds(mti, toNode') <=> Holds(mti, toNode) \/ m.mti = mti
    BY <1>2, <1>4, HoldsAppended
  <1>6. /\ ~Holds("Stream_Initiate_Request", toNode')
        /\ Holds("Stream_Data_Complete", toNode') <=> pc' = "reply"
    BY <1>3, <1>4, <1>5
  <1>7. pc' = "proceed" => bytes_sent' > node'.done
    <2> SUFFICES ASSUME pc' = "proceed" PROVE bytes_sent' > node.done
      BY <1>1
    <2>1. bytes_sent' > bytes_sent /\ bytes_sent' \in Nat
      BY <1>4, SendInvariant, StreamAssumption DEF IInv, Types
    <2>2. node.done \in Nat /\ bytes_sent \in Nat /\ node.done <= bytes_sent
      BY <1>2
    <2> QED BY <2>1, <2>2
  <1>8. pc' \in {"send", "proceed", "reply"}
    BY <1>4
  <1>9. Refuses(toChecker') => node'.gaveUp
    BY <1>1, <1>2 DEF WriteMoves
  <1>10. WriteMoves'
    BY <1>1, <1>3, <1>6, <1>7, <1>8, <1>9 DEF WriteMoves
  <1>11. Blameless'
    BY <1>1, <1>2, <1>8 DEF Blameless, NoNeedlessTimeout
  <1> QED BY <1>1, <1>10, <1>11 DEF MovesInv

LEMMA ProceedMoves == IInv /\ BytesInv /\ MovesInv /\ _wait_for_proceed => MovesInv'
  <1> SUFFICES ASSUME IInv, BytesInv, MovesInv, _wait_for_proceed PROVE MovesInv'
    OBVIOUS
  <1>1. /\ mode = "write" /\ mode' = mode /\ toChecker # << >> /\ toChecker' = Tail(toChecker)
        /\ UNCHANGED <<node, bytes_sent, toNode>> /\ pc = "proceed"
    BY ModesApart DEF IInv, Types, _wait_for_proceed, Takes
  <1>2. WriteMoves /\ node \in NodeState
    BY <1>1, WritesProgress
  <1>3. \/ received.mti = "Stream_Data_Proceed" /\ pc' = "send"
        \/ received.mti = "Terminate_Due_To_Error" /\ pc' = "raised"
        \/ received.mti # "Stream_Data_Proceed" /\ pc' = "proceed"
    BY <1>1 DEF _wait_for_proceed
  <1>4. /\ Blameless'
        /\ Refuses(toChecker') => node'.gaveUp
        /\ ~Holds("Stream_Initiate_Request", toNode)
        /\ \A mti : Holds(mti, toChecker') => Holds(mti, toChecker)
        /\ \A mti : Holds(mti, toChecker) /\ received.mti # mti => Holds(mti, toChecker')
    <2>1. pc' = "raised" => received.mti = "Terminate_Due_To_Error"
      BY <1>3
    <2> QED BY <1>1, <2>1, WriterTook
  <1>5. /\ ~Holds("Stream_Data_Complete", toNode) /\ ~node.complete /\ ~node.replied
        /\ node.open \/ node.gaveUp
        /\ ~node.gaveUp => bytes_sent > node.done \/ Holds("Stream_Data_Proceed", toChecker)
    BY <1>1, <1>2 DEF WriteMoves
  <1>6. pc' = "proceed" /\ ~node'.gaveUp =>
           bytes_sent' > node'.done \/ Holds("Stream_Data_Proceed", toChecker')
    BY <1>1, <1>3, <1>4, <1>5
  <1>7. pc' \in {"send", "raised", "proceed"}
    BY <1>3
  <1>8. WriteMoves'
    BY <1>1, <1>4, <1>5, <1>6, <1>7 DEF WriteMoves
  <1> QED BY <1>1, <1>4, <1>8 DEF MovesInv

LEMMA WriteReplyMoves ==
  IInv /\ BytesInv /\ MovesInv /\ mode = "write" /\ WaitForReply => MovesInv'
  <1> SUFFICES ASSUME IInv, BytesInv, MovesInv, mode = "write", WaitForReply
               PROVE MovesInv'
    OBVIOUS
  <1>1. /\ toChecker # << >> /\ toChecker' = Tail(toChecker) /\ pc = "reply"
        /\ mode' = mode /\ UNCHANGED <<node, bytes_sent>>
    BY DEF WaitForReply, Takes
  <1>2. \/ received.mti = "Datagram" /\ pc' = "returned"
           /\ toNode' = Append(toNode, Other("Datagram_Received_OK"))
        \/ received.mti # "Datagram" /\ pc' = "reply" /\ toNode' = toNode
    BY <1>1 DEF WaitForReply
  <1>3. WriteMoves /\ node \in NodeState /\ toNode \in Seq(Writer)
    BY WritesProgress
  <1>4. /\ Blameless'
        /\ Refuses(toChecker') => node'.gaveUp
        /\ ~Holds("Stream_Initiate_Request", toNode)
        /\ \A mti : Holds(mti, toChecker') => Holds(mti, toChecker)
        /\ \A mti : Holds(mti, toChecker) /\ received.mti # mti => Holds(mti, toChecker')
    <2>1. pc' # "raised"
      BY <1>2
    <2> QED BY <1>1, <2>1, WriterTook
  <1>5. /\ \A mti : Holds(mti, toNode) => Holds(mti, toNode')
        /\ ~Holds("Stream_Initiate_Request", toNode')
    <2> DEFINE m == Other("Datagram_Received_OK")
    <2>1. m \in Writer /\ m.mti = "Datagram_Received_OK"
      BY DEF Other, Writer
    <2>2. toNode' = toNode \/ toNode' = Append(toNode, m)
      BY <1>2
    <2> HIDE DEF m
    <2>3. \A mti : Holds(mti, Append(toNode, m)) <=> Holds(mti, toNode) \/ m.mti = mti
      BY <1>3, <2>1, HoldsAppended
    <2> QED BY <1>4, <2>1, <2>2, <2>3
  <1>6. /\ node.replied => node.complete
        /\ node.open \/ node.gaveUp
        /\ node.complete \/ Holds("Stream_Data_Complete", toNode)
        /\ node.replied => Holds("Datagram", toChecker)
    BY <1>1, <1>3 DEF WriteMoves
  <1>7. pc' = "reply" /\ node'.replied => Holds("Datagram", toChecker')
    BY <1>1, <1>2, <1>4, <1>6
  <1>8. pc' \in {"reply", "returned"}
    BY <1>2
  <1>9. WriteMoves'
    BY <1>1, <1>4, <1>5, <1>6, <1>7, <1>8 DEF WriteMoves
  <1> QED BY <1>1, <1>4, <1>9 DEF MovesInv

\* The node sends a message that answers nothing and gives nothing back.
LEMMA NodeSentMoves ==
  ASSUME IInv, BytesInv, MovesInv, mode = "write", NEW m \in AnyMessage, NodeSends(m),
         UNCHANGED <<mode, pc, toNode, bytes_sent>>,
         m.mti # "Stream_Initiate_Reply", node.open,
         node'.open \/ node'.gaveUp, node.gaveUp => node'.gaveUp,
         m.mti = "Terminate_Due_To_Error" => node'.gaveUp,
         node'.done = node.done, node'.complete <=> node.complete,
         node'.ahead <=> node.ahead,
         node'.replied => node.replied \/ (node.complete /\ m.mti = "Datagram")
  PROVE  MovesInv'
  <1>1. WriteMoves /\ Blameless /\ toChecker \in Seq(AnyMessage)
          /\ toChecker' = Append(toChecker, m)
    BY WritesProgress DEF NodeSends
  <1>2. \A mti : Holds(mti, toChecker') <=> Holds(mti, toChecker) \/ m.mti = mti
    BY <1>1, HoldsAppended
  <1>3. Refuses(toChecker') => node'.gaveUp
    BY <1>1, SizesAppended DEF WriteMoves
  <1>4. Blameless'
    BY <1>1, <1>2 DEF Blameless, NoNeedlessTimeout
  <1>5. pc # "open" /\ ~Holds("Stream_Initiate_Request", toNode)
    BY <1>1 DEF WriteMoves
  <1>6. pc' = "opening" => Holds("Stream_Initiate_Reply", toChecker')
    BY <1>1, <1>2, <1>5 DEF WriteMoves
  <1>7. pc' = "proceed" /\ ~node'.gaveUp =>
           bytes_sent' > node'.done \/ Holds("Stream_Data_Proceed", toChecker')
    BY <1>1, <1>2 DEF WriteMoves
  <1>8. /\ Holds("Stream_Data_Complete", toNode') \/ node'.complete =>
              pc' \in {"reply", "returned", "raised"}
        /\ node'.replied => node'.complete
    BY <1>1 DEF WriteMoves
  <1>9. pc' = "reply" =>
           /\ node'.complete \/ Holds("Stream_Data_Complete", toNode')
           /\ node'.replied => Holds("Datagram", toChecker')
    BY <1>1, <1>2 DEF WriteMoves
  <1>10. WriteMoves'
    BY <1>3, <1>5, <1>6, <1>7, <1>8, <1>9 DEF WriteMoves
  <1> QED BY <1>4, <1>10 DEF MovesInv

LEMMA WriteRepliesMoves ==
  IInv /\ BytesInv /\ MovesInv /\ mode = "write" /\ NodeReplies => MovesInv'
  <1> SUFFICES ASSUME IInv, BytesInv, MovesInv, mode = "write", NodeReplies
               PROVE MovesInv'
    OBVIOUS
  <1> DEFINE m == Other("Datagram")
  <1>1. /\ NodeSends(m) /\ node' = [node EXCEPT !.replied = TRUE]
        /\ node.open /\ node.complete
        /\ UNCHANGED <<mode, pc, toNode, bytes_sent>>
    BY DEF NodeReplies
  <1>2. m \in AnyMessage /\ m.mti = "Datagram"
    BY OtherIs
  <1>3. /\ node'.open = node.open /\ node'.gaveUp = node.gaveUp /\ node'.done = node.done
        /\ node'.complete = node.complete /\ node'.ahead = node.ahead
    BY <1>1, WriteFacts DEF NodeState
  <1> HIDE DEF m
  <1> QED BY <1>1, <1>2, <1>3, NodeSentMoves

LEMMA WriteTerminatesMoves ==
  IInv /\ BytesInv /\ MovesInv /\ mode = "write" /\ NodeTerminates => MovesInv'
  <1> SUFFICES ASSUME IInv, BytesInv, MovesInv, mode = "write", NodeTerminates
               PROVE MovesInv'
    OBVIOUS
  <1> DEFINE m == Other("Terminate_Due_To_Error")
  <1>1. /\ NodeSends(m)
        /\ node' = [node EXCEPT !.gaveUp = TRUE, !.open = FALSE, !.asked = TRUE]
        /\ node.open \/ pc = "accept"
        /\ UNCHANGED <<mode, pc, toNode, bytes_sent>>
    BY DEF NodeTerminates
  <1>2. m \in AnyMessage /\ m.mti = "Terminate_Due_To_Error"
    BY OtherIs
  <1>3. /\ node'.gaveUp /\ node'.done = node.done /\ node'.replied = node.replied
        /\ node'.complete = node.complete /\ node'.ahead = node.ahead
    BY <1>1, WriteFacts DEF NodeState
  <1>4. node.open
    BY <1>1, WritesProgress
  <1> HIDE DEF m
  <1> QED BY <1>1, <1>2, <1>3, <1>4, NodeSentMoves

\* It takes the request to open a stream: it accepts or refuses.
LEMMA OpeningTaken ==
  ASSUME IInv, BytesInv, MovesInv, mode = "write", NodeReceives,
         Head(toNode).mti = "Stream_Initiate_Request"
  PROVE  MovesInv'
  <1> DEFINE m == Head(toNode)
  <1>1. /\ toNode # << >> /\ toNode' = Tail(toNode) /\ toNode \in Seq(Writer)
        /\ UNCHANGED <<mode, pc, bytes_sent>>
        /\ node \in NodeState /\ WriteMoves /\ WriteCounts /\ Blameless
    BY WritesProgress DEF NodeReceives
  <1>2. Holds("Stream_Initiate_Request", toNode)
    BY <1>1, HoldsTaken
  <1>3. /\ pc = "opening" /\ ~node.open /\ ~node.gaveUp /\ toChecker = << >>
        /\ ~node.complete /\ ~node.replied
        /\ ~Holds("Stream_Data_Complete", toNode)
    <2>1. pc \in {"open", "opening"} /\ ~node.open /\ ~node.gaveUp /\ toChecker = << >>
      BY <1>1, <1>2 DEF WriteMoves
    <2>2. pc # "open"
      BY <1>1 DEF WriteCounts, NotOpen
    <2> QED BY <1>1, <2>1, <2>2 DEF WriteMoves
  <1>4. toNode' = << >>
    <2>1. toNode = <<Opening>>
      BY <1>1, <1>3 DEF WriteCounts, NotOpen
    <2> QED BY <1>1, <2>1
  <1>5. PICK size \in Nat :
          /\ node' = [node EXCEPT !.open = size > 0, !.size = size, !.credit = size,
                                  !.gaveUp = size = 0]
          /\ NodeSends(Sized("Stream_Initiate_Reply", size))
    <2>1. PICK b \in Buffers \cup {0} :
            /\ node' = [node EXCEPT !.open = Smaller(b, m.size) > 0,
                                    !.size = Smaller(b, m.size),
                                    !.credit = Smaller(b, m.size),
                                    !.gaveUp = Smaller(b, m.size) = 0]
            /\ NodeSends(Sized("Stream_Initiate_Reply", Smaller(b, m.size)))
      BY DEF NodeReceives
    <2>2. m \in Writer
      BY <1>1
    <2>3. m.size \in Nat
      BY <2>2, StreamAssumption DEF Writer, Opening, Sized
    <2>4. Smaller(b, m.size) \in Nat
      BY <2>3, StreamAssumption DEF Smaller
    <2> QED BY <2>1, <2>4
  <1>6. /\ node'.open <=> size > 0
        /\ node'.gaveUp <=> size = 0
        /\ node'.done = node.done /\ node'.complete = node.complete
        /\ node'.replied = node.replied /\ node'.ahead = node.ahead
    BY <1>1, <1>5 DEF NodeState
  <1>7. node'.open \/ node'.gaveUp
    BY <1>6
  <1> DEFINE r == Sized("Stream_Initiate_Reply", size)
  <1>8. /\ r \in AnyMessage /\ r.mti = "Stream_Initiate_Reply" /\ r.size = size
        /\ toChecker' = Append(toChecker, r)
    BY <1>5 DEF Sized, AnyMessage, Mtis, NodeSends
  <1> HIDE DEF r, m
  <1>9. /\ Holds("Stream_Initiate_Reply", toChecker')
        /\ ~Holds("Terminate_Due_To_Error", toChecker')
        /\ Refuses(toChecker') => size = 0
    <2>1. toChecker \in Seq(AnyMessage)
      BY WritesProgress
    <2>2. \A mti : Holds(mti, toChecker') <=> Holds(mti, toChecker) \/ r.mti = mti
      BY <1>8, <2>1, HoldsAppended
    <2>3. \A mti : ~Holds(mti, toChecker)
      BY <1>3, HoldsNothing
    <2>4. ~Refuses(toChecker)
      BY <1>1, <1>3 DEF WriteMoves
    <2>5. Refuses(toChecker') => Refuses(toChecker) \/ r.size = 0
      BY <1>8, <2>1, SizesAppended
    <2> QED BY <1>8, <2>2, <2>3, <2>4, <2>5
  <1>10. \A mti : ~Holds(mti, toNode')
    BY <1>4, HoldsNothing
  <1>11. WriteMoves'
    BY <1>1, <1>3, <1>6, <1>7, <1>9, <1>10 DEF WriteMoves
  <1>12. Blameless'
    BY <1>1, <1>3, <1>9 DEF Blameless, NoNeedlessTimeout
  <1> QED BY <1>1, <1>11, <1>12 DEF MovesInv

\* It takes anything else.
LEMMA OtherTaken ==
  ASSUME IInv, BytesInv, MovesInv, mode = "write", NodeReceives,
         Head(toNode).mti # "Stream_Initiate_Request",
         node'.open = node.open, node'.gaveUp = node.gaveUp, node'.ahead = node.ahead,
         node'.replied = node.replied,
         node'.complete <=> node.complete \/ Head(toNode).mti = "Stream_Data_Complete",
         \/ toChecker' = toChecker
         \/ NodeSends(Other("Stream_Data_Proceed")),
         pc = "proceed" /\ ~node.gaveUp =>
            bytes_sent > node'.done \/ Holds("Stream_Data_Proceed", toChecker')
  PROVE  MovesInv'
  <1>1. /\ toNode # << >> /\ toNode' = Tail(toNode) /\ toNode \in Seq(Writer)
        /\ UNCHANGED <<mode, pc, bytes_sent>>
        /\ WriteMoves /\ WriteCounts /\ Blameless /\ toChecker \in Seq(AnyMessage)
    BY WritesProgress DEF NodeReceives
  <1>2. pc # "open" /\ ~Holds("Stream_Initiate_Request", toNode)
    <2>1. Head(toNode) # Opening
      BY DEF Opening, Sized
    <2>2. pc \notin {"open", "opening"}
      BY <1>1, <2>1, NoOpeningLeft DEF IInv
    <2> QED BY <1>1, <2>2 DEF WriteMoves
  <1>3. /\ ~Holds("Stream_Initiate_Request", toNode')
        /\ Holds("Stream_Data_Complete", toNode') => Holds("Stream_Data_Complete", toNode)
        /\ Head(toNode).mti = "Stream_Data_Complete" => Holds("Stream_Data_Complete", toNode)
        /\ Holds("Stream_Data_Complete", toNode) =>
              Holds("Stream_Data_Complete", toNode') \/ node'.complete
    <2>1. /\ \A mti : Holds(mti, toNode') => Holds(mti, toNode)
          /\ \A mti : Head(toNode).mti = mti => Holds(mti, toNode)
      BY <1>1, HoldsTaken
    <2>2. \A mti : Holds(mti, toNode) /\ Head(toNode).mti # mti => Holds(mti, toNode')
      BY <1>1, HoldsLeft
    <2> QED BY <1>2, <2>1, <2>2
  <1>4. /\ Refuses(toChecker') => node.gaveUp
        /\ Holds("Terminate_Due_To_Error", toChecker') => node.gaveUp
        /\ Holds("Stream_Initiate_Reply", toChecker') <=> Holds("Stream_Initiate_Reply", toChecker)
        /\ Holds("Datagram", toChecker) => Holds("Datagram", toChecker')
    <2>1. Refuses(toChecker) => node.gaveUp
      BY <1>1 DEF WriteMoves
    <2>2. Holds("Terminate_Due_To_Error", toChecker) => node.gaveUp
      BY <1>1 DEF Blameless
    <2>3. CASE toChecker' = toChecker
      BY <2>1, <2>2, <2>3
    <2>4. CASE NodeSends(Other("Stream_Data_Proceed"))
      <3> DEFINE m == Other("Stream_Data_Proceed")
      <3>1. m \in AnyMessage /\ m.mti = "Stream_Data_Proceed" /\ toChecker' = Append(toChecker, m)
        BY <2>4, OtherIs DEF NodeSends
      <3> HIDE DEF m
      <3>2. \A mti : Holds(mti, toChecker') <=> Holds(mti, toChecker) \/ m.mti = mti
        BY <1>1, <3>1, HoldsAppended
      <3>3. Refuses(toChecker') => Refuses(toChecker)
        BY <1>1, <3>1, SizesAppended
      <3> QED BY <2>1, <2>2, <3>1, <3>2, <3>3
    <2> QED BY <2>3, <2>4
  <1>5. pc' = "opening" => Holds("Stream_Initiate_Reply", toChecker')
    BY <1>1, <1>2, <1>4 DEF WriteMoves
  <1>6. \/ Holds("Stream_Initiate_Reply", toChecker')
        \/ pc' \in {"send", "proceed", "reply"}
        => node'.open \/ node'.gaveUp
    BY <1>1, <1>4 DEF WriteMoves
  <1>7. /\ Holds("Stream_Data_Complete", toNode') \/ node'.complete =>
              pc' \in {"reply", "returned", "raised"}
        /\ node'.replied => node'.complete
    BY <1>1, <1>3 DEF WriteMoves
  <1>8. pc' = "reply" =>
           /\ node'.complete \/ Holds("Stream_Data_Complete", toNode')
           /\ node'.replied => Holds("Datagram", toChecker')
    BY <1>1, <1>3, <1>4 DEF WriteMoves
  <1>9. WriteMoves'
    BY <1>1, <1>2, <1>3, <1>4, <1>5, <1>6, <1>7, <1>8 DEF WriteMoves
  <1>10. Blameless'
    BY <1>1, <1>4 DEF Blameless, NoNeedlessTimeout
  <1> QED BY <1>1, <1>9, <1>10 DEF MovesInv

\* It takes data: when all that it was sent is taken, it has sent a Proceed.
LEMMA DataTaken ==
  ASSUME IInv, BytesInv, MovesInv, mode = "write", NodeReceives,
         Head(toNode).mti = "Stream_Data_Send"
  PROVE  MovesInv'
  <1> DEFINE d == Len(Head(toNode).data)
             left == node.credit - d
             proceed == Other("Stream_Data_Proceed")
  <1>1. /\ toNode # << >> /\ toNode \in Seq(Writer) /\ node \in NodeState
        /\ WriteMoves /\ WriteCounts /\ toChecker \in Seq(AnyMessage) /\ Types
        /\ node.done \in Nat /\ bytes_sent \in Nat
    BY WritesProgress DEF NodeReceives
  <1>2. /\ node' = [node EXCEPT !.done = @ + d,
                                !.credit = IF left = 0 THEN node.size ELSE left]
        /\ IF left = 0 /\ node.open THEN NodeSends(proceed) ELSE toChecker' = toChecker
    BY DEF NodeReceives
  <1>3. /\ node'.open = node.open /\ node'.gaveUp = node.gaveUp /\ node'.ahead = node.ahead
        /\ node'.replied = node.replied /\ node'.complete = node.complete
        /\ node'.done = node.done + d
    BY <1>1, <1>2 DEF NodeState
  <1>4. d \in Nat
    <2>1. Head(toNode) \in Writer
      BY <1>1
    <2>2. Head(toNode).data \in Seq(Nat)
      BY <2>1, WriterIs
    <2> QED BY <2>2
  <1>5. node.done + d <= bytes_sent
    <2>1. Head(toNode) # Opening
      BY DEF Opening, Sized
    <2> QED BY <1>1, <2>1, NoOpeningLeft
  <1> HIDE DEF d
  <1>6. ASSUME pc = "proceed", ~node.gaveUp
        PROVE  bytes_sent > node'.done \/ Holds("Stream_Data_Proceed", toChecker')
    <2>1. node.open
      BY <1>1, <1>6 DEF WriteMoves
    <2>2. proceed \in AnyMessage /\ proceed.mti = "Stream_Data_Proceed"
      BY OtherIs
    <2> HIDE DEF proceed
    <2>3. Holds("Stream_Data_Proceed", Append(toChecker, proceed))
      BY <1>1, <2>2, HoldsAppended
    <2>4. left = 0 => Holds("Stream_Data_Proceed", toChecker')
      BY <1>2, <2>1, <2>3 DEF NodeSends
    <2>5. CASE Flying > 0 /\ node.credit = Flying
      <3>1. left = bytes_sent - node'.done /\ left >= 0 /\ left \in Int
        BY <1>1, <1>3, <1>4, <1>5, <2>5 DEF Flying
      <3>2. left # 0 => bytes_sent > node'.done
        BY <1>1, <1>3, <1>4, <3>1
      <3> QED BY <2>4, <3>2
    <2>6. CASE Flying = 0
      <3>1. ~(bytes_sent > node.done)
        BY <1>1, <2>6 DEF Flying
      <3>2. Holds("Stream_Data_Proceed", toChecker)
        BY <1>1, <1>6, <3>1 DEF WriteMoves
      <3>3. toChecker' = toChecker \/ toChecker' = Append(toChecker, proceed)
        BY <1>2 DEF NodeSends
      <3> QED BY <2>3, <3>2, <3>3
    <2> QED BY <1>1, <1>6, <2>5, <2>6 DEF WriteCounts, Waiting
  <1>7. toChecker' = toChecker \/ NodeSends(proceed)
    BY <1>2
  <1> HIDE DEF left
  <1> QED BY <1>3, <1>6, <1>7, OtherTaken

LEMMA WriteNodeReceivesMoves ==
  IInv /\ BytesInv /\ MovesInv /\ mode = "write" /\ NodeReceives => MovesInv'
  <1> SUFFICES ASSUME IInv, BytesInv, MovesInv, mode = "write", NodeReceives
               PROVE MovesInv'
    OBVIOUS
  <1> DEFINE m == Head(toNode)
  <1>1. /\ toNode # << >> /\ toNode \in Seq(Writer) /\ node \in NodeState /\ WriteMoves
    BY WritesProgress DEF NodeReceives
  <1>2. m.mti \in {"Stream_Initiate_Request", "Stream_Data_Complete",
                   "Datagram_Received_OK", "Stream_Data_Send"}
    <2>1. m \in Writer
      BY <1>1
    <2> QED BY <2>1, WriterIs
  <1>3. CASE m.mti = "Stream_Initiate_Request"
    BY <1>3, OpeningTaken
  <1>4. CASE m.mti = "Stream_Data_Send"
    BY <1>4, DataTaken
  <1>5. CASE m.mti \in {"Stream_Data_Complete", "Datagram_Received_OK"}
    <2>1. /\ toChecker' = toChecker /\ pc' = pc
          /\ \/ m.mti = "Stream_Data_Complete" /\ node' = [node EXCEPT !.complete = TRUE]
             \/ m.mti = "Datagram_Received_OK" /\ node' = node
      BY <1>5 DEF NodeReceives
    <2>2. /\ node'.open = node.open /\ node'.gaveUp = node.gaveUp
          /\ node'.ahead = node.ahead /\ node'.replied = node.replied
          /\ node'.done = node.done
          /\ node'.complete <=> node.complete \/ m.mti = "Stream_Data_Complete"
      <3> HIDE DEF m
      <3> QED BY <1>1, <2>1 DEF NodeState
    <2>3. pc = "proceed" /\ ~node.gaveUp =>
             bytes_sent > node'.done \/ Holds("Stream_Data_Proceed", toChecker')
      BY <1>1, <2>1, <2>2 DEF WriteMoves
    <2>4. m.mti # "Stream_Initiate_Request"
      BY <1>5
    <2> QED BY <2>1, <2>2, <2>3, <2>4, OtherTaken
  <1> QED BY <1>2, <1>3, <1>4, <1>5

\* The checker's time is up: the node has refused or given up.
LEMMA WriteTimeoutMoves ==
  IInv /\ BytesInv /\ MovesInv /\ mode = "write" /\ Timeout => MovesInv'
  <1> SUFFICES ASSUME IInv, BytesInv, MovesInv, mode = "write", Timeout PROVE MovesInv'
    OBVIOUS
  <1>1. /\ ~Ended /\ pc \notin {"open", "send"} /\ toChecker = << >> /\ ~NodeActs
        /\ pc' = "raised"
        /\ UNCHANGED <<mode, node, toNode, toChecker, bytes_sent>>
    BY DEF Timeout
  <1>2. /\ WriteMoves /\ WriteCounts /\ Blameless /\ node.done \in Nat /\ bytes_sent \in Nat
        /\ pc \in {"opening", "proceed", "reply"}
    BY <1>1, WritesProgress DEF Ended
  <1>3. toNode = << >> /\ (node.open /\ node.complete => node.replied)
    BY <1>1 DEF NodeActs
  <1>4. \A mti : ~Holds(mti, toNode) /\ ~Holds(mti, toChecker)
    BY <1>1, <1>3, HoldsNothing
  <1>5. node.gaveUp
    <2> SUFFICES ASSUME ~node.gaveUp PROVE FALSE
      OBVIOUS
    <2>1. CASE pc = "opening"
      BY <1>2, <1>4, <2>1 DEF WriteMoves
    <2>2. CASE pc = "proceed"
      <3>1. bytes_sent > node.done
        BY <1>2, <1>4, <2>2 DEF WriteMoves
      <3>2. bytes_sent = node.done
        <4>1. Carries(toNode, node.done, bytes_sent)
          BY <1>2 DEF WriteCounts
        <4>2. Len(toNode) = 0
          BY <1>3
        <4> QED BY <4>1, <4>2 DEF Carries
      <3> QED BY <1>2, <3>1, <3>2
    <2>3. CASE pc = "reply"
      <3>1. node.open /\ node.complete
        BY <1>2, <1>4, <2>3 DEF WriteMoves
      <3>2. node.replied
        BY <1>3, <3>1
      <3> QED BY <1>2, <1>4, <2>3, <3>2 DEF WriteMoves
    <2> QED BY <1>2, <2>1, <2>2, <2>3
  <1>6. Blameless'
    BY <1>1, <1>5 DEF Blameless, NoNeedlessTimeout
  <1>7. WriteMoves'
    BY <1>1, <1>2, <1>4, <1>5 DEF WriteMoves
  <1> QED BY <1>1, <1>6, <1>7 DEF MovesInv

-----------------------------------------------------------------------------
(* Theorems. *)

LEMMA StepMoves == IInv /\ BytesInv /\ MovesInv /\ [Next]_vars => MovesInv'
  <1> SUFFICES ASSUME IInv, BytesInv, MovesInv, [Next]_vars PROVE MovesInv'
    OBVIOUS
  <1>1. mode \in {"read", "write"}
    BY ModesApart DEF IInv
  <1>2. CASE Checker
    BY <1>1, <1>2, AcceptMoves, ReadReplyMoves, WriteReplyMoves, ReceiveMoves, OpenMoves,
       SendMoves, ProceedMoves, ReadTimeoutMoves, WriteTimeoutMoves DEF Checker
  <1>3. CASE Node
    BY <1>1, <1>3, NodeAsksMoves, ReadRepliesMoves, WriteRepliesMoves, NodeSendsDataMoves,
       ReadNodeReceivesMoves, WriteNodeReceivesMoves DEF Node
  <1>4. CASE NodeTerminates
    BY <1>1, <1>4, ReadTerminatesMoves, WriteTerminatesMoves
  <1>5. CASE ForeignData
    BY <1>5, ForeignDataMoves
  <1>6. CASE UNCHANGED vars
    <2>1. UNCHANGED <<mode, pc, buf_size, collected, bytes_sent, window, node, toNode,
                      toChecker, skipped>>
      BY <1>6 DEF vars
    <2>2. WindowOut' = WindowOut /\ (Ordered' <=> Ordered) /\ (Alive' <=> Alive)
      BY <2>1 DEF WindowOut, Taken, Ordered, Alive
    <2>3. ReadMoves => ReadMoves'
      BY <2>1, <2>2 DEF ReadMoves
    <2>4. WriteMoves => WriteMoves'
      BY <2>1 DEF WriteMoves
    <2>5. Blameless => Blameless'
      BY <2>1 DEF Blameless, NoNeedlessTimeout
    <2> QED BY <2>1, <2>3, <2>4, <2>5 DEF MovesInv
  <1> QED BY <1>2, <1>3, <1>4, <1>5, <1>6 DEF Next, Finished

LEMMA InitMoves == Init => MovesInv
  <1> SUFFICES ASSUME Init PROVE MovesInv
    OBVIOUS
  <1>1. /\ toNode = << >> /\ toChecker = << >> /\ bytes_sent = 0
        /\ pc = IF mode = "read" THEN "accept" ELSE "open"
        /\ ~node.asked /\ ~node.replied /\ ~node.open /\ ~node.complete /\ ~node.gaveUp
    BY DEF Init
  <1>2. \A mti : ~Holds(mti, toNode) /\ ~Holds(mti, toChecker)
    BY <1>1, HoldsNothing
  <1>3. Offers(toChecker) /\ Accepts(toNode, buf_size) /\ ~Refuses(toChecker)
    <2>1. Len(<< >>) = 0
      OBVIOUS
    <2> QED BY <1>1, <2>1 DEF Offers, Accepts, Refuses
  <1>4. mode = "read" => ReadMoves
    BY <1>1, <1>2, <1>3 DEF ReadMoves
  <1>5. mode = "write" => WriteMoves
    BY <1>1, <1>2, <1>3 DEF WriteMoves
  <1>6. Blameless
    BY <1>1, <1>2 DEF Blameless, NoNeedlessTimeout
  <1> QED BY <1>4, <1>5, <1>6 DEF MovesInv

\* For windows, messages and transfers of every size, and however the messages of checker
\* and node are interleaved: read_via_stream and write_via_stream never wait for a message
\* that will not come from a node that neither gives up nor sends data before its reply
\* datagram.  When one of their getMessage calls times out, the node has done one of these.
THEOREM NeverBothWait == Spec => []NoNeedlessTimeout
  <1>1. Init => IInv /\ BytesInv /\ MovesInv
    BY InitInvariant, InitBytes, InitMoves
  <1>2. IInv /\ BytesInv /\ MovesInv /\ [Next]_vars => (IInv /\ BytesInv /\ MovesInv)'
    BY StepInvariant, StepBytes, StepMoves
  <1>3. MovesInv => NoNeedlessTimeout
    BY DEF MovesInv, Blameless
  <1> QED BY <1>1, <1>2, <1>3, PTL DEF Spec

=============================================================================
