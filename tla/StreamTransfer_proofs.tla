------------------------ MODULE StreamTransfer_proofs ------------------------
(***************************************************************************)
(* Proofs about StreamTransfer for windows, messages and transfers of any  *)
(* size: the turns of sender and receiver, and the bytes that arrive.      *)
(***************************************************************************)
EXTENDS StreamTransfer, SequenceTheorems, FiniteSetTheorems, TLAPS

-----------------------------------------------------------------------------
(* The inductive invariant. *)

NodeState ==
    [asked : BOOLEAN, replied : BOOLEAN, open : BOOLEAN, size : Nat, credit : Int,
     done : Nat, complete : BOOLEAN, gaveUp : BOOLEAN, ahead : BOOLEAN]

Mtis ==
    {"Stream_Initiate_Request", "Stream_Initiate_Reply", "Stream_Data_Send",
     "Stream_Data_Complete", "Stream_Data_Proceed", "Terminate_Due_To_Error",
     "Datagram", "Datagram_Received_OK"}
AnyMessage == [mti : Mtis, data : Seq(Nat), size : Nat]

\* What the checker sends when it reads, and when it writes.
Reader ==
    [mti : {"Stream_Initiate_Reply", "Stream_Data_Proceed", "Datagram_Received_OK"},
     data : {<< >>}, size : Nat]
Opening == Sized("Stream_Initiate_Request", MaxBuffer)
Writer ==
    {Opening}
      \cup [mti : {"Stream_Data_Complete", "Datagram_Received_OK"}, data : {<< >>},
            size : {0}]
      \cup [mti : {"Stream_Data_Send"}, data : Seq(Nat), size : {0}]

Types ==
    /\ mode \in Modes /\ total \in Totals
    /\ pc \in IF mode = "read" THEN {"accept", "reply", "receive", "returned", "raised"}
              ELSE {"open", "opening", "send", "proceed", "reply", "returned", "raised"}
    /\ buf_size \in 0 .. MaxBuffer
    /\ window \in 0 .. buf_size
    /\ bytes_sent \in 0 .. total
    /\ collected \in Seq(Nat)
    /\ proceeds \in Nat
    /\ node \in NodeState
    /\ toNode \in Seq(IF mode = "read" THEN Reader ELSE Writer)
    /\ toChecker \in Seq(AnyMessage)

\* When the checker reads: the bytes it has collected are those it has sent Proceeds
\* for and those that it counts.
ReadCounts ==
    /\ node.credit >= 0
    /\ window + proceeds * buf_size <= Len(collected)
    /\ pc = "accept" => proceeds = 0 /\ window = 0

\* The data of the messages in q is what comes between "from" and "upTo".
Carries(q, from, upTo) ==
    \E f \in [1 .. Len(q) + 1 -> Nat] :
        /\ f[1] = from
        /\ f[Len(q) + 1] = upTo
        /\ \A k \in 1 .. Len(q) : f[k] <= upTo /\ f[k + 1] = f[k] + Len(q[k].data)

Flying == bytes_sent - node.done

Holds(mti, q) == \E k \in 1 .. Len(q) : q[k].mti = mti
Once(mti, q) ==
    \A j, k \in 1 .. Len(q) : q[j].mti = mti /\ q[k].mti = mti => j = k

\* Before the stream is open.
NotOpen ==
    /\ bytes_sent = 0 /\ node.done = 0 /\ window = 0
    /\ ~Holds("Stream_Data_Proceed", toChecker)
    /\ \/ pc = "open" /\ toNode = << >> /\ ~Holds("Stream_Initiate_Reply", toChecker)
       \/ /\ pc = "opening"
          /\ toNode = <<Opening>> /\ ~Holds("Stream_Initiate_Reply", toChecker)
       \/ /\ pc = "opening"
          /\ toNode = << >> /\ node.credit = node.size /\ node.size <= MaxBuffer
          /\ \A k \in 1 .. Len(toChecker) :
                toChecker[k].mti = "Stream_Initiate_Reply" => toChecker[k].size = node.size

\* While there is window left.
Sending ==
    /\ buf_size = node.size /\ window < buf_size
    /\ bytes_sent < total =>
          /\ node.credit = Flying + buf_size - window
          /\ ~Holds("Stream_Data_Proceed", toChecker)

\* While the checker waits for a Proceed: the data is on its way, or the node has
\* taken it all and sent one Proceed at most.
Waiting ==
    /\ buf_size = node.size /\ buf_size > 0 /\ window = 0
    /\ \/ /\ Flying > 0 /\ node.credit = Flying
          /\ ~Holds("Stream_Data_Proceed", toChecker)
       \/ /\ Flying = 0 /\ node.credit = node.size
          /\ Once("Stream_Data_Proceed", toChecker)

WriteCounts ==
    /\ Carries(toNode, node.done, bytes_sent)
    /\ node.credit >= Flying
    /\ Holds("Stream_Initiate_Request", toNode) =>
          pc \in {"opening", "raised"} /\ bytes_sent = 0
    /\ pc \in {"open", "opening"} => NotOpen
    /\ pc = "send" => Sending
    /\ pc = "proceed" => Waiting

IInv ==
    /\ Types
    /\ mode = "read" => ReadCounts
    /\ mode = "write" => WriteCounts

-----------------------------------------------------------------------------
(* Sequences. *)

LEMMA CarriesNothing ==
  ASSUME NEW n \in Nat
  PROVE Carries(<< >>, n, n)
  <1> DEFINE f == [k \in 1 .. 1 |-> n]
  <1>1. Len(<< >>) = 0
    OBVIOUS
  <1>2. f \in [1 .. 1 -> Nat] /\ f[1] = n
    OBVIOUS
  <1> HIDE DEF f
  <1>3. /\ f \in [1 .. Len(<< >>) + 1 -> Nat]
        /\ f[1] = n
        /\ f[Len(<< >>) + 1] = n
        /\ \A k \in 1 .. Len(<< >>) : FALSE
    BY <1>1, <1>2
  <1> QED BY <1>3 DEF Carries

LEMMA CarriesInOrder ==
  ASSUME NEW S, NEW q \in Seq(S), NEW a \in Nat, NEW b \in Nat, Carries(q, a, b)
  PROVE a <= b
  <1>1. PICK f \in [1 .. Len(q) + 1 -> Nat] :
          /\ f[1] = a
          /\ f[Len(q) + 1] = b
          /\ \A k \in 1 .. Len(q) : f[k] <= b /\ f[k + 1] = f[k] + Len(q[k].data)
    BY DEF Carries
  <1>2. Len(q) \in Nat
    OBVIOUS
  <1>3. CASE Len(q) = 0
    BY <1>1, <1>3
  <1>4. CASE Len(q) # 0
    <2>1. 1 \in 1 .. Len(q)
      BY <1>2, <1>4
    <2> QED BY <1>1, <2>1
  <1> QED BY <1>3, <1>4

\* One more message at the end.
LEMMA CarriesAppended ==
  ASSUME NEW S, NEW q \in Seq(S), NEW m \in S, Len(m.data) \in Nat,
         NEW a \in Nat, NEW b \in Nat, Carries(q, a, b)
  PROVE Carries(Append(q, m), a, b + Len(m.data))
  <1>1. PICK f \in [1 .. Len(q) + 1 -> Nat] :
          /\ f[1] = a
          /\ f[Len(q) + 1] = b
          /\ \A k \in 1 .. Len(q) : f[k] <= b /\ f[k + 1] = f[k] + Len(q[k].data)
    BY DEF Carries
  <1> DEFINE n == Len(q)
             r == Append(q, m)
             c == b + Len(m.data)
             g == [k \in 1 .. n + 2 |-> IF k = n + 2 THEN c ELSE f[k]]
  <1>2. n \in Nat /\ Len(r) = n + 1 /\ r[n + 1] = m /\ \A k \in 1 .. n : r[k] = q[k]
    OBVIOUS
  <1>3. g \in [1 .. Len(r) + 1 -> Nat]
    BY <1>2
  <1>4. g[1] = a /\ g[Len(r) + 1] = c
    BY <1>1, <1>2
  <1>5. ASSUME NEW k \in 1 .. Len(r)
        PROVE g[k] <= c /\ g[k + 1] = g[k] + Len(r[k].data)
    <2>1. CASE k = n + 1
      BY <1>1, <1>2, <2>1
    <2>2. CASE k \in 1 .. n
      <3>1. k # n + 2 /\ k + 1 # n + 2 /\ k \in 1 .. n + 2 /\ k + 1 \in 1 .. n + 2
        BY <1>2, <2>2
      <3>2. g[k] = f[k] /\ g[k + 1] = f[k + 1] /\ r[k] = q[k]
        BY <1>2, <2>2, <3>1
      <3>3. f[k] \in Nat /\ f[k] <= b /\ f[k + 1] = f[k] + Len(q[k].data) /\ b <= c
        BY <1>1, <1>2, <2>2
      <3>4. f[k] <= c
        BY <3>3
      <3> HIDE DEF g, r, c
      <3> QED BY <3>2, <3>3, <3>4
    <2> QED BY <1>2, <2>1, <2>2
  <1> QED BY <1>3, <1>4, <1>5 DEF Carries

\* The first message taken.
LEMMA CarriesTaken ==
  ASSUME NEW S, NEW q \in Seq(S), q # << >>, Len(Head(q).data) \in Nat,
         NEW a \in Nat, NEW b \in Nat, Carries(q, a, b)
  PROVE /\ a + Len(Head(q).data) <= b
        /\ Carries(Tail(q), a + Len(Head(q).data), b)
  <1>1. PICK f \in [1 .. Len(q) + 1 -> Nat] :
          /\ f[1] = a
          /\ f[Len(q) + 1] = b
          /\ \A k \in 1 .. Len(q) : f[k] <= b /\ f[k + 1] = f[k] + Len(q[k].data)
    BY DEF Carries
  <1> DEFINE n == Len(q)
             g == [k \in 1 .. n |-> f[k + 1]]
  <1>2. n \in Nat /\ n >= 1 /\ Head(q) = q[1]
    OBVIOUS
  <1>3. Len(Tail(q)) = n - 1 /\ \A k \in 1 .. n - 1 : Tail(q)[k] = q[k + 1]
    BY <1>2
  <1>4. g \in [1 .. Len(Tail(q)) + 1 -> Nat]
    BY <1>2, <1>3
  <1>5. g[1] = a + Len(Head(q).data) /\ g[Len(Tail(q)) + 1] = b
    BY <1>1, <1>2, <1>3
  <1>6. g[1] <= b
    BY <1>1, <1>2
  <1>7. ASSUME NEW k \in 1 .. Len(Tail(q))
        PROVE g[k] <= b /\ g[k + 1] = g[k] + Len(Tail(q)[k].data)
    BY <1>1, <1>2, <1>3
  <1> QED BY <1>4, <1>5, <1>6, <1>7 DEF Carries

\* Which messages a queue holds after one is added or taken.
LEMMA HoldsAppended ==
  ASSUME NEW S, NEW q \in Seq(S), NEW m \in S, NEW mti
  PROVE Holds(mti, Append(q, m)) <=> Holds(mti, q) \/ m.mti = mti
  <1>1. /\ Len(q) \in Nat /\ Len(Append(q, m)) = Len(q) + 1
        /\ Append(q, m)[Len(q) + 1] = m
        /\ \A k \in 1 .. Len(q) : Append(q, m)[k] = q[k]
    OBVIOUS
  <1> QED BY <1>1 DEF Holds

LEMMA HoldsTaken ==
  ASSUME NEW S, NEW q \in Seq(S), q # << >>, NEW mti
  PROVE /\ Holds(mti, Tail(q)) => Holds(mti, q)
        /\ Head(q).mti = mti => Holds(mti, q)
  <1>1. /\ Len(q) \in Nat /\ Len(q) >= 1 /\ Head(q) = q[1]
        /\ Len(Tail(q)) = Len(q) - 1
        /\ \A k \in 1 .. Len(q) - 1 : Tail(q)[k] = q[k + 1]
    OBVIOUS
  <1> QED BY <1>1 DEF Holds

\* At most one message of a kind stays at most one.
LEMMA OnceAppended ==
  ASSUME NEW S, NEW q \in Seq(S), NEW m \in S, NEW mti, Once(mti, q),
         m.mti # mti \/ ~Holds(mti, q)
  PROVE Once(mti, Append(q, m))
  <1>1. /\ Len(q) \in Nat /\ Len(Append(q, m)) = Len(q) + 1
        /\ Append(q, m)[Len(q) + 1] = m
        /\ \A k \in 1 .. Len(q) : Append(q, m)[k] = q[k]
    OBVIOUS
  <1> QED BY <1>1 DEF Holds, Once

LEMMA OnceTaken ==
  ASSUME NEW S, NEW q \in Seq(S), q # << >>, NEW mti, Once(mti, q)
  PROVE /\ Once(mti, Tail(q))
        /\ Head(q).mti = mti => ~Holds(mti, Tail(q))
  <1>1. /\ Len(q) \in Nat /\ Len(q) >= 1 /\ Head(q) = q[1]
        /\ Len(Tail(q)) = Len(q) - 1
        /\ \A k \in 1 .. Len(q) - 1 : Tail(q)[k] = q[k + 1]
    OBVIOUS
  <1> QED BY <1>1 DEF Holds, Once

LEMMA NoneIsOnce ==
  ASSUME NEW q, NEW mti, ~Holds(mti, q)
  PROVE Once(mti, q)
  BY DEF Holds, Once

-----------------------------------------------------------------------------
(* The steps.  First what they have in common.                              *)

\* The message that the checker takes.
LEMMA Received ==
  ASSUME Types, toChecker # << >>
  PROVE received \in AnyMessage /\ Tail(toChecker) \in Seq(AnyMessage)
  BY DEF Types, received

LEMMA ModesApart == Types => mode \in {"read", "write"}
  BY StreamAssumption DEF Types

\* The first messages: none is on its way.
LEMMA InitInvariant == Init => IInv
  <1> SUFFICES ASSUME Init PROVE IInv
    OBVIOUS
  <1>1. Types
    <2>1. node \in NodeState
      BY DEF Init, NodeState
    <2>2. buf_size \in 0 .. MaxBuffer /\ window \in 0 .. buf_size
            /\ bytes_sent \in 0 .. total
      BY StreamAssumption DEF Init
    <2> QED BY <2>1, <2>2 DEF Init, Types
  <1>2. ~Holds("Stream_Data_Proceed", << >>) /\ ~Holds("Stream_Initiate_Reply", << >>)
          /\ ~Holds("Stream_Initiate_Request", << >>)
    BY DEF Holds
  <1>3. ReadCounts
    BY DEF Init, ReadCounts
  <1>4. WriteCounts
    BY <1>2, CarriesNothing DEF Init, WriteCounts, Flying, NotOpen
  <1> QED BY <1>1, <1>3, <1>4 DEF IInv

\* Where nothing changes but the loop that is left, and messages taken from or sent
\* to the checker that are no Proceed and no reply to its request.
LEMMA WriteCountsKept ==
  ASSUME Types, mode = "write", WriteCounts,
         UNCHANGED <<mode, total, buf_size, bytes_sent, window, toNode>>,
         pc' \in {pc, "raised"},
         node'.size = node.size, node'.credit = node.credit, node'.done = node.done,
         \/ toChecker' = toChecker
         \/ toChecker # << >> /\ toChecker' = Tail(toChecker)
         \/ \E m \in AnyMessage :
               /\ m.mti \notin {"Stream_Data_Proceed", "Stream_Initiate_Reply"}
               /\ toChecker' = Append(toChecker, m)
  PROVE WriteCounts'
  <1> DEFINE Quiet(mti) == Holds(mti, toChecker') => Holds(mti, toChecker)
  <1>1. toChecker \in Seq(AnyMessage)
    BY DEF Types
  <1>2. Quiet("Stream_Data_Proceed") /\ Quiet("Stream_Initiate_Reply")
    <2>1. CASE toChecker' = toChecker
      BY <2>1
    <2>2. CASE toChecker # << >> /\ toChecker' = Tail(toChecker)
      BY <1>1, <2>2, HoldsTaken
    <2>3. ASSUME NEW m \in AnyMessage,
                 m.mti \notin {"Stream_Data_Proceed", "Stream_Initiate_Reply"},
                 toChecker' = Append(toChecker, m)
          PROVE Quiet("Stream_Data_Proceed") /\ Quiet("Stream_Initiate_Reply")
      BY <1>1, <2>3, HoldsAppended
    <2> QED BY <2>1, <2>2, <2>3
  <1>3. Once("Stream_Data_Proceed", toChecker) => Once("Stream_Data_Proceed", toChecker')
    BY <1>1, OnceAppended, OnceTaken
  <1>4. ASSUME NEW n,
               \A k \in 1 .. Len(toChecker) :
                  toChecker[k].mti = "Stream_Initiate_Reply" => toChecker[k].size = n
        PROVE \A k \in 1 .. Len(toChecker') :
                 toChecker'[k].mti = "Stream_Initiate_Reply" => toChecker'[k].size = n
    <2>1. CASE toChecker' = toChecker
      BY <1>4, <2>1
    <2>2. CASE toChecker # << >> /\ toChecker' = Tail(toChecker)
      BY <1>1, <1>4, <2>2
    <2>3. ASSUME NEW m \in AnyMessage, m.mti # "Stream_Initiate_Reply",
                 toChecker' = Append(toChecker, m)
          PROVE \A k \in 1 .. Len(toChecker') :
                   toChecker'[k].mti = "Stream_Initiate_Reply" => toChecker'[k].size = n
      BY <1>1, <1>4, <2>3
    <2> QED BY <2>1, <2>2, <2>3
  <1>5. Flying' = Flying
    BY DEF Flying
  <1>6. /\ Carries(toNode', node'.done, bytes_sent')
        /\ node'.credit >= Flying'
        /\ Holds("Stream_Initiate_Request", toNode') =>
              pc' \in {"opening", "raised"} /\ bytes_sent' = 0
    BY <1>5 DEF WriteCounts
  <1>7. pc' \in {"open", "opening"} => NotOpen'
    BY <1>2, <1>4 DEF WriteCounts, NotOpen
  <1>8. pc' = "send" => Sending'
    BY <1>2, <1>5 DEF WriteCounts, Sending
  <1>9. pc' = "proceed" => Waiting'
    BY <1>2, <1>3, <1>5 DEF WriteCounts, Waiting
  <1> QED BY <1>6, <1>7, <1>8, <1>9 DEF WriteCounts

-----------------------------------------------------------------------------
(* The checker's steps.                                                    *)

LEMMA Acknowledged ==
  ASSUME Types, toNode' = Append(toNode, Other("Datagram_Received_OK"))
  PROVE /\ toNode' \in Seq(IF mode = "read" THEN Reader ELSE Writer)
        /\ mode = "write" =>
              /\ \A a, b \in Nat : Carries(toNode, a, b) => Carries(toNode', a, b)
              /\ \A mti \in {"Stream_Initiate_Request", "Stream_Data_Send"} :
                    Holds(mti, toNode') => Holds(mti, toNode)
  <1> DEFINE m == Other("Datagram_Received_OK")
  <1>1. m \in Reader /\ m \in Writer /\ Len(m.data) = 0
          /\ m.mti \notin {"Stream_Initiate_Request", "Stream_Data_Send"}
    BY DEF Other, Reader, Writer
  <1> HIDE DEF m
  <1>2. toNode' \in Seq(IF mode = "read" THEN Reader ELSE Writer)
    BY <1>1 DEF Types, m
  <1>3. ASSUME mode = "write", NEW a \in Nat, NEW b \in Nat, Carries(toNode, a, b)
        PROVE Carries(toNode', a, b)
    <2>1. toNode \in Seq(Writer)
      BY <1>3 DEF Types
    <2>2. Carries(Append(toNode, m), a, b + Len(m.data))
      BY SMTT(60), <1>1, <1>3, <2>1, CarriesAppended
    <2> QED BY <1>1, <2>2 DEF m
  <1>4. ASSUME mode = "write", NEW mti \in {"Stream_Initiate_Request", "Stream_Data_Send"}
        PROVE Holds(mti, toNode') => Holds(mti, toNode)
    <2>1. toNode \in Seq(Writer)
      BY <1>4 DEF Types
    <2> QED BY <1>1, <2>1, <1>4, HoldsAppended DEF m
  <1> QED BY <1>2, <1>3, <1>4

LEMMA AcceptInvariant == IInv /\ accept_incoming_stream => IInv'
  <1> SUFFICES ASSUME IInv, accept_incoming_stream PROVE IInv'
    OBVIOUS
  <1>1. Types /\ mode = "read" /\ mode' = mode /\ ReadCounts /\ toChecker # << >>
    BY ModesApart DEF IInv, Types, accept_incoming_stream, Takes
  <1>2. received \in AnyMessage /\ toChecker' \in Seq(AnyMessage)
    BY <1>1, Received DEF accept_incoming_stream, Takes
  <1>3. proceeds = 0 /\ window = 0 /\ proceeds' = 0 /\ window' = 0
    BY <1>1 DEF ReadCounts, accept_incoming_stream, Takes
  <1>4. /\ buf_size' \in 0 .. MaxBuffer
        /\ toNode' \in Seq(Reader)
        /\ pc' \in {"accept", "reply", "raised"}
    <2>1. CASE received.mti = "Stream_Initiate_Request"
      <3>1. buf_size' \in 0 .. MaxBuffer
        BY <1>2, <2>1, StreamAssumption DEF accept_incoming_stream, Smaller, AnyMessage
      <3>2. Sized("Stream_Initiate_Reply", buf_size') \in Reader
        BY <3>1, StreamAssumption DEF Sized, Reader
      <3>3. toNode \in Seq(Reader)
        BY <1>1 DEF Types
      <3> QED BY <2>1, <3>1, <3>2, <3>3 DEF accept_incoming_stream
    <2>2. CASE received.mti # "Stream_Initiate_Request"
      BY <1>1, <2>2 DEF accept_incoming_stream, Types, Takes
    <2> QED BY <2>1, <2>2
  <1>5. UNCHANGED <<mode, total, collected, bytes_sent, window, node, proceeds>>
    BY DEF accept_incoming_stream
  <1>6. Types'
    BY <1>1, <1>2, <1>3, <1>4, <1>5 DEF Types
  <1>7. ReadCounts'
    BY <1>1, <1>3, <1>4, <1>5 DEF ReadCounts, Types
  <1> QED BY <1>1, <1>6, <1>7 DEF IInv

LEMMA WaitForReplyInvariant == IInv /\ WaitForReply => IInv'
  <1> SUFFICES ASSUME IInv, WaitForReply PROVE IInv'
    OBVIOUS
  <1>1. /\ Types /\ pc = "reply" /\ toChecker # << >>
        /\ UNCHANGED <<mode, total, buf_size, collected, bytes_sent, window, node, proceeds>>
    BY DEF IInv, WaitForReply, Takes
  <1>2. toChecker' \in Seq(AnyMessage)
    BY <1>1, Received DEF WaitForReply, Takes
  <1>3. /\ pc' \in {"reply", IF mode = "read" THEN "receive" ELSE "returned"}
        /\ \/ toNode' = toNode
           \/ toNode' = Append(toNode, Other("Datagram_Received_OK"))
    BY <1>1 DEF WaitForReply
  <1>4. toNode' \in Seq(IF mode = "read" THEN Reader ELSE Writer)
    BY <1>1, <1>3, Acknowledged DEF Types
  <1>5. Types'
    BY <1>1, <1>2, <1>3, <1>4 DEF Types
  <1>6. mode = "read" => ReadCounts'
    BY <1>1, <1>3 DEF IInv, ReadCounts
  <1>7. ASSUME mode = "write" PROVE WriteCounts'
    <2>1. node.done \in Nat /\ bytes_sent \in Nat
      BY <1>1, StreamAssumption DEF Types, NodeState
    <2>2. /\ Carries(toNode', node.done, bytes_sent)
          /\ ~Holds("Stream_Initiate_Request", toNode')
      BY <1>1, <1>3, <1>7, <2>1, Acknowledged DEF IInv, WriteCounts
    <2>3. node'.credit >= Flying'
      BY <1>1, <1>7 DEF IInv, WriteCounts, Flying
    <2>4. pc' \in {"reply", "returned"}
      BY <1>3, <1>7
    <2> QED BY <1>1, <2>2, <2>3, <2>4 DEF WriteCounts
  <1> QED BY <1>1, <1>5, <1>6, <1>7 DEF IInv

LEMMA ReceiveInvariant == IInv /\ receive_stream_data => IInv'
  <1> SUFFICES ASSUME IInv, receive_stream_data PROVE IInv'
    OBVIOUS
  <1>1. /\ Types /\ mode = "read" /\ ReadCounts /\ toChecker # << >>
        /\ UNCHANGED <<mode, total, buf_size, bytes_sent, node>>
    BY ModesApart DEF IInv, Types, receive_stream_data, Takes
  <1>2. received \in AnyMessage /\ toChecker' \in Seq(AnyMessage)
    BY <1>1, Received DEF receive_stream_data, Takes
  <1> DEFINE n == Len(received.data)
  <1>3. /\ n \in Nat /\ collected' \in Seq(Nat) /\ Len(collected) \in Nat
        /\ Len(collected') = Len(collected) + n
    BY SMTT(60), <1>1, <1>2 DEF receive_stream_data, Extended, AnyMessage, Types
  <1>4. /\ buf_size \in Nat /\ window \in Nat /\ proceeds \in Nat
        /\ window + proceeds * buf_size <= Len(collected)
    BY <1>1, StreamAssumption DEF Types, ReadCounts
  <1>5. proceeds * buf_size \in Nat /\ (proceeds + 1) * buf_size = proceeds * buf_size + buf_size
    BY <1>4
  <1> HIDE DEF n
  <1>6. /\ pc' \in {"receive", "returned", "raised"}
        /\ proceeds' \in Nat
        /\ window' \in 0 .. buf_size
        /\ toNode' \in Seq(Reader)
        /\ window' + proceeds' * buf_size <= Len(collected')
    <2>1. CASE received.mti = "Stream_Data_Send" /\ Full(window + n)
      <3>1. /\ window' = 0 /\ proceeds' = proceeds + 1 /\ pc' = pc
            /\ toNode' = Append(toNode, Other("Stream_Data_Proceed"))
        BY <2>1 DEF receive_stream_data, Counted, n
      <3>2. Other("Stream_Data_Proceed") \in Reader
        BY DEF Other, Reader
      <3>3. window + n >= buf_size
        BY <2>1 DEF Full
      <3>4. proceeds' * buf_size = proceeds * buf_size + buf_size
        BY <1>5, <3>1
      <3>5. window' + proceeds' * buf_size <= Len(collected')
        BY <1>3, <1>4, <1>5, <3>1, <3>3, <3>4
      <3>6. toNode \in Seq(Reader) /\ pc = "receive"
        BY <1>1 DEF Types, receive_stream_data, Takes
      <3> QED BY <1>4, <3>1, <3>2, <3>5, <3>6
    <2>2. CASE received.mti = "Stream_Data_Send" /\ ~Full(window + n)
      <3>1. window' = window + n /\ proceeds' = proceeds /\ pc' = pc /\ toNode' = toNode
        BY <2>2 DEF receive_stream_data, Counted, n
      <3>2. window + n < buf_size
        BY <1>3, <1>4, <2>2 DEF Full
      <3>3. window' + proceeds' * buf_size <= Len(collected')
        BY <1>3, <1>4, <1>5, <3>1
      <3>4. window' \in 0 .. buf_size
        BY <1>3, <1>4, <3>1, <3>2
      <3>5. toNode \in Seq(Reader) /\ pc = "receive"
        BY <1>1 DEF Types, receive_stream_data, Takes
      <3> QED BY <1>4, <3>1, <3>3, <3>4, <3>5
    <2>3. CASE received.mti # "Stream_Data_Send"
      <3>1. UNCHANGED <<window, proceeds, toNode>>
              /\ pc' \in {"receive", "returned", "raised"}
        BY <2>3 DEF receive_stream_data, Takes
      <3>2. window' + proceeds' * buf_size <= Len(collected')
        BY <1>3, <1>4, <1>5, <3>1
      <3> QED BY <1>1, <3>1, <3>2 DEF Types
    <2> QED BY <2>1, <2>2, <2>3
  <1>7. Types'
    BY <1>1, <1>2, <1>3, <1>6 DEF Types
  <1>8. ReadCounts'
    BY <1>1, <1>6 DEF ReadCounts
  <1> QED BY <1>1, <1>7, <1>8 DEF IInv

LEMMA OpenInvariant == IInv /\ open_outbound_stream => IInv'
  <1> SUFFICES ASSUME IInv, open_outbound_stream PROVE IInv'
    OBVIOUS
  <1>1. /\ Types /\ mode = "write" /\ mode' = mode /\ WriteCounts /\ NotOpen
        /\ UNCHANGED <<total, collected, bytes_sent, window, node, proceeds>>
    BY ModesApart DEF IInv, Types, open_outbound_stream, Takes, WriteCounts
  <1>2. /\ node.done = 0 /\ bytes_sent = 0 /\ node.credit \in Int /\ toNode \in Seq(Writer)
        /\ toChecker \in Seq(AnyMessage)
    BY <1>1 DEF NotOpen, Types, NodeState
  <1>3. CASE pc = "open"
    <2>1. /\ pc' = "opening" /\ toNode' = Append(toNode, Opening)
          /\ UNCHANGED <<buf_size, toChecker>>
      BY <1>3 DEF open_outbound_stream, Opening, Takes
    <2>2. toNode = << >> /\ ~Holds("Stream_Initiate_Reply", toChecker)
            /\ ~Holds("Stream_Data_Proceed", toChecker)
      BY <1>1, <1>3 DEF NotOpen
    <2>3. toNode' = <<Opening>>
      BY <2>1, <2>2
    <2>4. Opening \in Writer /\ Len(Opening.data) = 0
      BY DEF Writer, Opening, Sized
    <2>5. Carries(toNode', 0, 0)
      <3>1. Carries(toNode, 0, 0)
        BY <1>1, <1>2 DEF WriteCounts
      <3>2. Carries(Append(toNode, Opening), 0, 0 + Len(Opening.data))
        BY <1>2, <2>4, <3>1, CarriesAppended
      <3> QED BY <2>1, <2>4, <3>2
    <2>6. toNode' \in Seq(Writer)
      BY <1>2, <2>1, <2>4
    <2>7. Types'
      BY <1>1, <2>1, <2>6 DEF Types
    <2>8. NotOpen'
      BY <1>1, <1>2, <2>1, <2>2, <2>3 DEF NotOpen
    <2>9. WriteCounts'
      BY <1>1, <1>2, <2>1, <2>5, <2>8 DEF WriteCounts, Flying
    <2> QED BY <1>1, <2>7, <2>9 DEF IInv
  <1>4. CASE pc = "opening" /\ received.mti = "Stream_Initiate_Reply"
    <2>1. /\ toChecker # << >> /\ toChecker' = Tail(toChecker)
          /\ pc' = (IF received.size = 0 THEN "raised" ELSE "send")
          /\ buf_size' = received.size
          /\ toNode' = toNode
      BY <1>4 DEF open_outbound_stream, Takes
    <2>2. received \in AnyMessage /\ toChecker' \in Seq(AnyMessage)
      BY <1>1, <2>1, Received
    <2>3. Holds("Stream_Initiate_Reply", toChecker)
      BY <1>2, <1>4, <2>1, HoldsTaken DEF received
    <2>4. /\ toNode = << >> /\ node.credit = node.size /\ node.size <= MaxBuffer
          /\ \A k \in 1 .. Len(toChecker) :
                toChecker[k].mti = "Stream_Initiate_Reply" => toChecker[k].size = node.size
      BY <1>1, <1>4, <2>3 DEF NotOpen
    <2>5. received = toChecker[1] /\ 1 \in 1 .. Len(toChecker)
      BY <1>2, <2>1 DEF received
    <2>6. received.size = node.size
      BY <1>4, <2>4, <2>5
    <2>7. buf_size' = node.size /\ buf_size' \in 0 .. MaxBuffer
      BY <2>1, <2>2, <2>4, <2>6, StreamAssumption DEF AnyMessage
    <2>8. window' = 0
      BY <1>1 DEF NotOpen
    <2>9. Types'
      BY <1>1, <2>1, <2>2, <2>7, <2>8 DEF Types
    <2>10. ~Holds("Stream_Data_Proceed", toChecker')
      BY <1>1, <1>2, <2>1, HoldsTaken DEF NotOpen
    <2>11. Carries(toNode', node'.done, bytes_sent') /\ Flying' = 0 /\ node'.credit = node.size
      BY <1>1, <1>2, <2>1, <2>4 DEF WriteCounts, Flying
    <2>12. pc' = "send" => Sending'
      <3> SUFFICES ASSUME pc' = "send" PROVE Sending'
        OBVIOUS
      <3>1. buf_size' > 0
        BY <2>1, <2>7
      <3> QED BY <1>1, <2>7, <2>8, <2>10, <2>11, <3>1 DEF Sending
    <2>13. ~Holds("Stream_Initiate_Request", toNode')
      BY <2>1, <2>4 DEF Holds
    <2>14. node'.credit >= Flying'
      BY <2>7, <2>11
    <2> QED BY <1>1, <2>1, <2>9, <2>11, <2>12, <2>13, <2>14 DEF IInv, WriteCounts
  <1>5. CASE pc = "opening" /\ received.mti # "Stream_Initiate_Reply"
    <2>1. /\ toChecker # << >> /\ toChecker' = Tail(toChecker)
          /\ UNCHANGED <<pc, buf_size, toNode>>
      BY <1>5 DEF open_outbound_stream, Takes
    <2>2. WriteCounts'
      BY <1>1, <2>1, WriteCountsKept
    <2>3. Types'
      BY <1>1, <2>1, Received DEF Types
    <2> QED BY <1>1, <2>2, <2>3 DEF IInv
  <1> QED BY <1>3, <1>4, <1>5 DEF open_outbound_stream, Takes

\* The bytes of one message.
LEMMA RangeLength ==
  ASSUME NEW a \in Nat, NEW n \in Nat
  PROVE Range1(a + 1, a + n) \in Seq(Nat) /\ Len(Range1(a + 1, a + n)) = n
  <1>1. a + n - (a + 1) + 1 = n
    OBVIOUS
  <1> DEFINE s == [k \in 1 .. n |-> a + 1 + k - 1]
  <1>2. Range1(a + 1, a + n) = s
    BY <1>1 DEF Range1
  <1>3. s \in Seq(Nat) /\ Len(s) = n
    OBVIOUS
  <1> QED BY <1>2, <1>3

\* A message is no larger than what the window and the data have left.
LEMMA ChunkFits ==
  ASSUME Types, window < buf_size, bytes_sent < total
  PROVE /\ ChunkSize \in Nat
        /\ ChunkSize <= buf_size - window
        /\ ChunkSize <= total - bytes_sent
        /\ ChunkSize > 0
  BY StreamAssumption DEF Types, ChunkSize, Smaller

LEMMA SendInvariant == IInv /\ send_stream_data => IInv'
  <1> SUFFICES ASSUME IInv, send_stream_data PROVE IInv'
    OBVIOUS
  <1>1. /\ Types /\ mode = "write" /\ mode' = mode /\ WriteCounts /\ Sending
        /\ pc = "send"
        /\ UNCHANGED <<total, buf_size, collected, node, toChecker, proceeds>>
    BY ModesApart DEF IInv, Types, send_stream_data, WriteCounts
  <1>2. /\ node.done \in Nat /\ bytes_sent \in Nat /\ total \in Nat /\ bytes_sent <= total
        /\ node.credit \in Int /\ toNode \in Seq(Writer) /\ buf_size \in Nat /\ window \in Nat
        /\ Carries(toNode, node.done, bytes_sent)
        /\ ~Holds("Stream_Initiate_Request", toNode)
        /\ node.credit >= Flying
    BY <1>1, StreamAssumption DEF Types, NodeState, WriteCounts
  <1>3. CASE bytes_sent = total
    <2>1. /\ toNode' = Append(toNode, Other("Stream_Data_Complete"))
          /\ pc' = "reply" /\ UNCHANGED <<bytes_sent, window>>
      BY <1>3 DEF send_stream_data
    <2> DEFINE m == Other("Stream_Data_Complete")
    <2>2. m \in Writer /\ Len(m.data) = 0 /\ m.mti # "Stream_Initiate_Request"
      BY DEF Other, Writer
    <2> HIDE DEF m
    <2>3. Carries(toNode', node.done, bytes_sent)
      <3>1. Len(m.data) \in Nat /\ m \in Writer
        BY <2>2
      <3>2. Carries(Append(toNode, m), node.done, bytes_sent + Len(m.data))
        BY <1>2, <3>1, CarriesAppended
      <3>3. bytes_sent + Len(m.data) = bytes_sent
        BY <1>2, <2>2
      <3>4. toNode' = Append(toNode, m)
        BY <2>1 DEF m
      <3> QED BY <3>2, <3>3, <3>4
    <2>4. toNode' \in Seq(Writer) /\ ~Holds("Stream_Initiate_Request", toNode')
      BY <1>2, <2>1, <2>2, HoldsAppended DEF m
    <2>5. Types'
      <3>1. /\ mode \in Modes /\ total \in Totals /\ buf_size \in 0 .. MaxBuffer
            /\ window \in 0 .. buf_size /\ bytes_sent \in 0 .. total
            /\ collected \in Seq(Nat) /\ proceeds \in Nat
            /\ node \in NodeState /\ toChecker \in Seq(AnyMessage)
        BY <1>1 DEF Types
      <3> QED BY <1>1, <2>1, <2>4, <3>1 DEF Types
    <2>6. WriteCounts'
      BY <1>1, <1>2, <2>1, <2>3, <2>4 DEF WriteCounts, Flying
    <2> QED BY <1>1, <2>5, <2>6 DEF IInv
  <1>4. CASE bytes_sent # total
    <2> DEFINE c == ChunkSize
               m == Data(Range1(bytes_sent + 1, bytes_sent + c))
    <2>1. /\ toNode' = Append(toNode, m) /\ bytes_sent' = bytes_sent + c
          /\ window' = (IF Full(window + c) THEN 0 ELSE window + c)
          /\ pc' = (IF Full(window + c) /\ bytes_sent' < total THEN "proceed" ELSE pc)
      BY <1>4 DEF send_stream_data
    <2>2. bytes_sent < total /\ window < buf_size /\ buf_size = node.size
            /\ node.credit = Flying + buf_size - window
            /\ ~Holds("Stream_Data_Proceed", toChecker)
      BY <1>1, <1>2, <1>4 DEF Sending
    <2>3. c \in Nat /\ c <= buf_size - window /\ c <= total - bytes_sent /\ c > 0
      BY <1>1, <2>2, ChunkFits
    <2> HIDE DEF c
    <2>4. m \in Writer /\ Len(m.data) = c /\ m.mti # "Stream_Initiate_Request"
      <3>2. Range1(bytes_sent + 1, bytes_sent + c) \in Seq(Nat)
              /\ Len(Range1(bytes_sent + 1, bytes_sent + c)) = c
        BY <1>2, <2>3, RangeLength
      <3> QED BY <3>2 DEF Data, Writer
    <2> HIDE DEF m
    <2>5. Carries(toNode', node.done, bytes_sent')
      <3>1. Carries(Append(toNode, m), node.done, bytes_sent + Len(m.data))
        BY <1>2, <2>3, <2>4, CarriesAppended
      <3> QED BY <2>1, <2>4, <3>1
    <2>6. toNode' \in Seq(Writer) /\ ~Holds("Stream_Initiate_Request", toNode')
      BY <1>2, <2>1, <2>4, HoldsAppended
    <2>7. Flying' = Flying + c /\ Flying \in Int
      BY <1>1, <1>2, <2>1, <2>3 DEF Flying
    <2>8. node'.credit >= Flying'
      BY <1>1, <1>2, <2>2, <2>3, <2>7
    <2>9. CASE Full(window + c)
      <3>1. c = buf_size - window
        BY <1>2, <2>2, <2>3, <2>9 DEF Full
      <3>2. node.credit = Flying' /\ Flying' > 0
        <4>1. Flying >= 0
          BY <1>2, CarriesInOrder DEF Flying
        <4>2. node.credit = Flying + (buf_size - window)
          BY <1>2, <2>2, <2>7
        <4> QED BY <2>3, <2>7, <3>1, <4>1, <4>2
      <3>3. window' = 0 /\ window' < buf_size'
        BY <1>1, <1>2, <2>1, <2>2, <2>9
      <3>4. pc' = "proceed" => Waiting'
        BY <1>1, <1>2, <2>2, <3>2, <3>3 DEF Waiting
      <3>5. pc' = "send" => Sending'
        BY <1>1, <2>1, <2>2, <2>9, <3>3 DEF Sending
      <3>6. bytes_sent' \in 0 .. total /\ pc' \in {"send", "proceed"}
        BY <1>1, <1>2, <2>1, <2>3
      <3>7. Types'
        BY <1>1, <1>2, <2>6, <3>3, <3>6 DEF Types
      <3> QED BY <1>1, <2>5, <2>6, <2>8, <3>4, <3>5, <3>6, <3>7 DEF IInv, WriteCounts
    <2>10. CASE ~Full(window + c)
      <3>1. window' = window + c /\ window + c < buf_size /\ pc' = "send"
        BY <1>1, <1>2, <2>1, <2>3, <2>10 DEF Full
      <3>2. Sending'
        BY <1>1, <1>2, <2>2, <2>3, <2>7, <3>1 DEF Sending
      <3>3. bytes_sent' \in 0 .. total
        BY <1>2, <2>1, <2>3
      <3>4. window' \in 0 .. buf_size
        BY <1>2, <2>3, <3>1
      <3>5. Types'
        BY <1>1, <2>6, <3>1, <3>3, <3>4 DEF Types
      <3> QED BY <1>1, <2>5, <2>6, <2>8, <3>1, <3>2, <3>5 DEF IInv, WriteCounts
    <2> QED BY <2>9, <2>10
  <1> QED BY <1>3, <1>4

LEMMA ProceedInvariant == IInv /\ _wait_for_proceed => IInv'
  <1> SUFFICES ASSUME IInv, _wait_for_proceed PROVE IInv'
    OBVIOUS
  <1>1. /\ Types /\ mode = "write" /\ mode' = mode /\ WriteCounts /\ Waiting
        /\ pc = "proceed" /\ toChecker # << >> /\ toChecker' = Tail(toChecker)
        /\ UNCHANGED <<total, buf_size, collected, bytes_sent, window, node, toNode, proceeds>>
    BY ModesApart DEF IInv, Types, _wait_for_proceed, Takes, WriteCounts
  <1>2. toChecker \in Seq(AnyMessage) /\ toChecker' \in Seq(AnyMessage)
    BY <1>1, Received DEF Types
  <1>3. pc' \in {"proceed", "send", "raised"}
    BY <1>1 DEF _wait_for_proceed
  <1>4. Types'
    BY <1>1, <1>2, <1>3 DEF Types
  <1>5. CASE received.mti = "Stream_Data_Proceed"
    <2>1. pc' = "send"
      BY <1>5 DEF _wait_for_proceed
    <2>2. Holds("Stream_Data_Proceed", toChecker)
      BY <1>1, <1>2, <1>5, HoldsTaken DEF received
    <2>3. Flying = 0 /\ node.credit = node.size /\ Once("Stream_Data_Proceed", toChecker)
            /\ buf_size = node.size /\ buf_size > 0 /\ window = 0
      BY <1>1, <2>2 DEF Waiting
    <2>4. ~Holds("Stream_Data_Proceed", toChecker')
      BY <1>1, <1>2, <1>5, <2>3, OnceTaken DEF received
    <2>5. Flying' = 0 /\ buf_size \in Nat
      BY <1>1, <2>3, StreamAssumption DEF Flying, Types
    <2>6. Sending'
      BY <1>1, <2>3, <2>4, <2>5 DEF Sending
    <2>7. ~Holds("Stream_Initiate_Request", toNode')
      BY <1>1 DEF WriteCounts
    <2>8. Carries(toNode', node'.done, bytes_sent') /\ node'.credit >= Flying'
      BY <1>1 DEF WriteCounts, Flying
    <2> QED BY <1>1, <1>4, <2>1, <2>6, <2>7, <2>8 DEF IInv, WriteCounts
  <1>6. CASE received.mti # "Stream_Data_Proceed"
    <2>1. pc' \in {pc, "raised"}
      BY <1>6 DEF _wait_for_proceed
    <2>2. WriteCounts'
      BY <1>1, <2>1, WriteCountsKept
    <2> QED BY <1>1, <1>4, <2>2 DEF IInv
  <1> QED BY <1>5, <1>6

LEMMA TimeoutInvariant == IInv /\ Timeout => IInv'
  <1> SUFFICES ASSUME IInv, Timeout PROVE IInv'
    OBVIOUS
  <1>1. /\ Types /\ pc' = "raised"
        /\ UNCHANGED <<mode, total, buf_size, collected, bytes_sent, window, node, toNode,
                       toChecker, proceeds>>
    BY DEF IInv, Timeout
  <1>2. Types'
    BY <1>1 DEF Types
  <1>3. mode = "read" => ReadCounts'
    BY <1>1 DEF IInv, ReadCounts
  <1>4. mode = "write" => WriteCounts'
    BY <1>1, WriteCountsKept DEF IInv
  <1> QED BY <1>1, <1>2, <1>3, <1>4 DEF IInv

-----------------------------------------------------------------------------
(* The node's steps.                                                       *)

\* A message to a checker that reads changes none of what it counts.
LEMMA SentToReader ==
  ASSUME IInv, mode = "read", NEW m \in AnyMessage, NodeSends(m),
         UNCHANGED <<mode, total, pc, buf_size, collected, bytes_sent, window, toNode,
                     proceeds>>,
         node' \in NodeState, node'.credit >= 0
  PROVE IInv'
  <1>1. toChecker' \in Seq(AnyMessage)
    BY DEF NodeSends, IInv, Types
  <1>2. Types'
    BY <1>1 DEF IInv, Types
  <1>3. ReadCounts'
    BY DEF IInv, ReadCounts
  <1> QED BY <1>2, <1>3 DEF IInv

\* Nor one to a checker that writes, if it is no Proceed and no reply to its request.
LEMMA SentToWriter ==
  ASSUME IInv, mode = "write", NEW m \in AnyMessage, NodeSends(m),
         m.mti \notin {"Stream_Data_Proceed", "Stream_Initiate_Reply"},
         UNCHANGED <<mode, total, pc, buf_size, collected, bytes_sent, window, toNode,
                     proceeds>>,
         node' \in NodeState, node'.credit = node.credit, node'.size = node.size,
         node'.done = node.done
  PROVE IInv'
  <1>1. toChecker' = Append(toChecker, m) /\ toChecker' \in Seq(AnyMessage)
    BY DEF NodeSends, IInv, Types
  <1>2. Types'
    BY <1>1 DEF IInv, Types
  <1>3. WriteCounts'
    BY <1>1, WriteCountsKept DEF IInv
  <1> QED BY <1>2, <1>3 DEF IInv

LEMMA NodeAsksInvariant == IInv /\ NodeAsks => IInv'
  <1> SUFFICES ASSUME IInv, NodeAsks PROVE IInv'
    OBVIOUS
  <1>1. PICK b \in Buffers : NodeSends(Sized("Stream_Initiate_Request", b))
    BY DEF NodeAsks
  <1>2. Sized("Stream_Initiate_Request", b) \in AnyMessage
    BY StreamAssumption DEF Sized, AnyMessage, Mtis
  <1>3. node' \in NodeState /\ node'.credit >= 0 /\ mode = "read"
    BY DEF NodeAsks, IInv, Types, NodeState, ReadCounts
  <1>4. UNCHANGED <<mode, total, pc, buf_size, collected, bytes_sent, window, toNode,
                    proceeds>>
    BY DEF NodeAsks
  <1> QED BY <1>1, <1>2, <1>3, <1>4, SentToReader

LEMMA NodeRepliesInvariant == IInv /\ NodeReplies => IInv'
  <1> SUFFICES ASSUME IInv, NodeReplies PROVE IInv'
    OBVIOUS
  <1>1. Other("Datagram") \in AnyMessage /\ NodeSends(Other("Datagram"))
          /\ Other("Datagram").mti = "Datagram"
    BY DEF Other, AnyMessage, Mtis, NodeReplies
  <1>2. node' \in NodeState /\ node'.credit = node.credit /\ node'.size = node.size
          /\ node'.done = node.done
    BY DEF NodeReplies, IInv, Types, NodeState
  <1>3. UNCHANGED <<mode, total, pc, buf_size, collected, bytes_sent, window, toNode,
                    proceeds>>
    BY DEF NodeReplies
  <1>4. CASE mode = "read"
    <2>1. node'.credit >= 0
      BY <1>2, <1>4 DEF IInv, ReadCounts
    <2> QED BY <1>1, <1>2, <1>3, <1>4, <2>1, SentToReader
  <1>5. CASE mode = "write"
    BY <1>1, <1>2, <1>3, <1>5, SentToWriter
  <1> QED BY <1>4, <1>5, ModesApart DEF IInv

LEMMA NodeTerminatesInvariant == IInv /\ NodeTerminates => IInv'
  <1> SUFFICES ASSUME IInv, NodeTerminates PROVE IInv'
    OBVIOUS
  <1> DEFINE m == Other("Terminate_Due_To_Error")
  <1>1. m \in AnyMessage /\ NodeSends(m) /\ m.mti = "Terminate_Due_To_Error"
    BY DEF Other, AnyMessage, Mtis, NodeTerminates
  <1> HIDE DEF m
  <1>2. node' \in NodeState /\ node'.credit = node.credit /\ node'.size = node.size
          /\ node'.done = node.done
    BY DEF NodeTerminates, IInv, Types, NodeState
  <1>3. UNCHANGED <<mode, total, pc, buf_size, collected, bytes_sent, window, toNode,
                    proceeds>>
    BY DEF NodeTerminates
  <1>4. CASE mode = "read"
    <2>1. node'.credit >= 0
      BY <1>2, <1>4 DEF IInv, ReadCounts
    <2> QED BY <1>1, <1>2, <1>3, <1>4, <2>1, SentToReader
  <1>5. CASE mode = "write"
    BY <1>1, <1>2, <1>3, <1>5, SentToWriter
  <1> QED BY <1>4, <1>5, ModesApart DEF IInv

LEMMA NodeSendsDataInvariant == IInv /\ NodeSendsData => IInv'
  <1> SUFFICES ASSUME IInv, NodeSendsData PROVE IInv'
    OBVIOUS
  <1>1. /\ mode = "read" /\ ReadCounts /\ node \in NodeState /\ total \in Nat
        /\ UNCHANGED <<mode, total, pc, buf_size, collected, bytes_sent, window, toNode,
                       proceeds>>
    BY StreamAssumption DEF NodeSendsData, IInv, Types
  <1>2. ASSUME NEW n \in 1 .. Smaller(node.credit, total - node.done),
               NodeSends(Data(Range1(node.done + 1, node.done + n))),
               node' = [node EXCEPT !.done = @ + n, !.credit = @ - n,
                                    !.ahead = @ \/ ~node.replied]
        PROVE IInv'
    <2>1. n \in Nat /\ n <= node.credit
      BY <1>1, <1>2 DEF Smaller, NodeState
    <2>2. Data(Range1(node.done + 1, node.done + n)) \in AnyMessage
      BY <1>1, <2>1, RangeLength DEF Data, AnyMessage, Mtis, NodeState
    <2>3. node' \in NodeState
      <3>1. node.done + n \in Nat /\ node.credit - n \in Int
        BY <1>1, <2>1 DEF NodeState
      <3>2. (node.ahead \/ ~node.replied) \in BOOLEAN
        OBVIOUS
      <3> QED BY <1>1, <1>2, <3>1, <3>2, Zenon DEF NodeState
    <2>4. node'.credit >= 0
      BY <1>1, <1>2, <2>1 DEF NodeState
    <2> QED BY <1>1, <1>2, <2>2, <2>3, <2>4, SentToReader
  <1>3. ASSUME NodeSends(Other("Stream_Data_Complete")),
               node' = [node EXCEPT !.complete = TRUE, !.ahead = @ \/ ~node.replied]
        PROVE IInv'
    <2>1. Other("Stream_Data_Complete") \in AnyMessage
      BY DEF Other, AnyMessage, Mtis
    <2>2. node' \in NodeState /\ node'.credit >= 0
      BY <1>1, <1>3 DEF NodeState, ReadCounts
    <2> QED BY <1>1, <1>3, <2>1, <2>2, SentToReader
  <1> QED BY <1>2, <1>3 DEF NodeSendsData

LEMMA ForeignDataInvariant == IInv /\ ForeignData => IInv'
  <1> SUFFICES ASSUME IInv, ForeignData PROVE IInv'
    OBVIOUS
  <1>1. PICK m \in {Data(<<0>>), Other("Stream_Data_Complete")} : NodeSends(m)
    BY DEF ForeignData
  <1>2. m \in AnyMessage
    <2>1. <<0>> \in Seq(Nat)
      OBVIOUS
    <2>2. Data(<<0>>) \in AnyMessage
      BY <2>1 DEF Data, AnyMessage, Mtis
    <2>3. Other("Stream_Data_Complete") \in AnyMessage
      BY DEF Other, AnyMessage, Mtis
    <2> QED BY <2>2, <2>3
  <1>3. node' = node /\ node \in NodeState /\ node.credit >= 0 /\ mode = "read"
          /\ UNCHANGED <<mode, total, pc, buf_size, collected, bytes_sent, window, toNode,
                         proceeds>>
    BY DEF ForeignData, IInv, Types, ReadCounts
  <1> QED BY <1>1, <1>2, <1>3, SentToReader

LEMMA NodeTakes ==
  ASSUME NodeReceives
  PROVE /\ toNode # << >> /\ toNode' = Tail(toNode)
        /\ UNCHANGED <<mode, total, pc, buf_size, collected, bytes_sent, window>>
  BY DEF NodeReceives

LEMMA WriterFacts ==
  ASSUME IInv, mode = "write"
  PROVE /\ Types /\ WriteCounts
        /\ toNode \in Seq(Writer) /\ toChecker \in Seq(AnyMessage)
        /\ node \in NodeState /\ bytes_sent \in Nat /\ total \in Nat
        /\ buf_size \in Nat /\ window \in Nat /\ proceeds \in Nat
  <1>1. Types /\ WriteCounts
    BY DEF IInv
  <1>2. MaxBuffer \in Nat /\ total \in Nat
    BY <1>1, StreamAssumption DEF Types
  <1> QED BY <1>1, <1>2 DEF Types

\* The node takes a message of a checker that reads.
LEMMA NodeReceivesFromReader == IInv /\ mode = "read" /\ NodeReceives => IInv'
  <1> SUFFICES ASSUME IInv, mode = "read", NodeReceives PROVE IInv'
    OBVIOUS
  <1> DEFINE m == Head(toNode)
  <1>1. /\ toNode # << >> /\ toNode' = Tail(toNode) /\ toNode \in Seq(Reader)
        /\ UNCHANGED <<mode, total, pc, buf_size, collected, bytes_sent, window>>
        /\ node \in NodeState /\ node.credit >= 0
    BY DEF NodeReceives, IInv, Types, ReadCounts
  <1>2. m \in Reader /\ toNode' \in Seq(Reader)
    BY <1>1
  <1>3. m.size \in Nat
          /\ m.mti \in {"Stream_Initiate_Reply", "Stream_Data_Proceed",
                        "Datagram_Received_OK"}
    BY <1>2 DEF Reader
  <1>4. UNCHANGED <<toChecker, proceeds>> /\ node' \in NodeState /\ node'.credit >= 0
    <2>1. CASE m.mti = "Stream_Initiate_Reply"
      <3>1. node' = [node EXCEPT !.open = ~node.gaveUp, !.size = m.size, !.credit = m.size]
              /\ UNCHANGED <<toChecker, proceeds>>
        BY <2>1 DEF NodeReceives
      <3>2. m.size \in Int /\ (~node.gaveUp) \in BOOLEAN
        BY <1>3
      <3>3. node' \in NodeState
        BY <1>1, <1>3, <3>1, <3>2, Zenon DEF NodeState
      <3> QED BY <1>1, <1>3, <3>1, <3>3 DEF NodeState
    <2>2. CASE m.mti = "Stream_Data_Proceed"
      <3>1. node' = [node EXCEPT !.credit = @ + node.size]
              /\ UNCHANGED <<toChecker, proceeds>>
        BY <2>2 DEF NodeReceives
      <3> QED BY SMTT(60), <1>1, <3>1 DEF NodeState
    <2>3. CASE m.mti = "Datagram_Received_OK"
      BY <1>1, <2>3 DEF NodeReceives
    <2> QED BY <1>3, <2>1, <2>2, <2>3
  <1>5. Types'
    BY <1>1, <1>2, <1>4 DEF IInv, Types
  <1>6. ReadCounts'
    BY <1>1, <1>4 DEF IInv, ReadCounts
  <1> QED BY <1>1, <1>5, <1>6 DEF IInv

\* It takes the request to open a stream.
LEMMA NodeReceivesOpening ==
  ASSUME IInv, mode = "write", NodeReceives, Head(toNode) = Opening
  PROVE IInv'
  <1>1. /\ toNode # << >> /\ toNode' = Tail(toNode) /\ toNode \in Seq(Writer)
        /\ toChecker \in Seq(AnyMessage)
        /\ UNCHANGED <<mode, total, pc, buf_size, collected, bytes_sent, window>>
        /\ node \in NodeState /\ bytes_sent \in Nat /\ Types /\ WriteCounts
    BY NodeTakes, WriterFacts
  <1>2. Opening.mti = "Stream_Initiate_Request" /\ Opening.size = MaxBuffer
          /\ Len(Opening.data) = 0
    BY DEF Opening, Sized
  <1>3. PICK b \in Buffers \cup {0} :
          /\ node' = [node EXCEPT !.open = Smaller(b, MaxBuffer) > 0,
                                  !.size = Smaller(b, MaxBuffer),
                                  !.credit = Smaller(b, MaxBuffer),
                                  !.gaveUp = Smaller(b, MaxBuffer) = 0]
          /\ NodeSends(Sized("Stream_Initiate_Reply", Smaller(b, MaxBuffer)))
    BY <1>2 DEF NodeReceives
  <1>4. proceeds' = proceeds
    BY <1>2 DEF NodeReceives
  <1> DEFINE size == Smaller(b, MaxBuffer)
             reply == Sized("Stream_Initiate_Reply", size)
  <1>5. size \in Nat /\ size <= MaxBuffer /\ size \in Int
    BY StreamAssumption DEF Smaller
  <1> HIDE DEF size
  <1>6. reply \in AnyMessage /\ reply.mti = "Stream_Initiate_Reply" /\ reply.size = size
    BY <1>5 DEF Sized, AnyMessage, Mtis
  <1> HIDE DEF reply
  <1>7. toChecker' = Append(toChecker, reply) /\ toChecker' \in Seq(AnyMessage)
    BY <1>1, <1>3, <1>6 DEF NodeSends, reply, size
  <1>8. node' \in NodeState /\ node'.size = size /\ node'.credit = size
          /\ node'.done = node.done
    <2>1. (size > 0) \in BOOLEAN /\ (size = 0) \in BOOLEAN
      OBVIOUS
    <2>2. node' = [node EXCEPT !.open = size > 0, !.size = size, !.credit = size,
                               !.gaveUp = size = 0]
      BY <1>3 DEF size
    <2>3. node' \in NodeState
      BY <1>1, <1>5, <2>1, <2>2, Zenon DEF NodeState
    <2> QED BY <1>1, <2>2, <2>3 DEF NodeState
  <1>9. Types'
    BY <1>1, <1>4, <1>7, <1>8 DEF Types
  <1>10. Holds("Stream_Initiate_Request", toNode)
    BY <1>1, <1>2, HoldsTaken
  <1>11. pc \in {"opening", "raised"} /\ bytes_sent = 0
    BY <1>1, <1>10 DEF WriteCounts
  <1>12. node.done = 0 /\ Carries(toNode', 0, 0)
    <2>1. node.done \in Nat /\ Carries(toNode, node.done, 0)
      BY <1>1, <1>11 DEF WriteCounts, NodeState
    <2>2. node.done = 0
      BY <1>1, <2>1, CarriesInOrder
    <2>3. Len(Head(toNode).data) = 0
      BY <1>2
    <2>4. Carries(Tail(toNode), node.done + Len(Head(toNode).data), 0)
      BY <1>1, <2>1, <2>3, CarriesTaken
    <2> QED BY <1>1, <2>2, <2>3, <2>4
  <1>13. Flying' = 0
    BY <1>1, <1>8, <1>11, <1>12 DEF Flying
  <1>14. Holds("Stream_Initiate_Request", toNode') =>
           pc' \in {"opening", "raised"} /\ bytes_sent' = 0
    BY <1>1, <1>11
  <1>15. ASSUME pc = "opening" PROVE NotOpen'
    <2>1. /\ window = 0 /\ ~Holds("Stream_Data_Proceed", toChecker)
          /\ toNode = <<Opening>> /\ ~Holds("Stream_Initiate_Reply", toChecker)
      BY <1>1, <1>15 DEF WriteCounts, NotOpen
    <2>2. toNode' = << >>
      BY <1>1, <2>1
    <2>3. ~Holds("Stream_Data_Proceed", toChecker')
      BY <1>1, <1>6, <1>7, <2>1, HoldsAppended
    <2>4. \A k \in 1 .. Len(toChecker') :
             toChecker'[k].mti = "Stream_Initiate_Reply" => toChecker'[k].size = size
      BY <1>1, <1>6, <1>7, <2>1 DEF Holds
    <2> QED BY <1>1, <1>5, <1>8, <1>11, <1>12, <1>15, <2>1, <2>2, <2>3, <2>4 DEF NotOpen
  <1>16. WriteCounts'
    BY <1>1, <1>5, <1>8, <1>11, <1>12, <1>13, <1>14, <1>15 DEF WriteCounts
  <1> QED BY <1>1, <1>9, <1>16 DEF IInv

\* It takes a message that is no request to open a stream.
LEMMA NoOpeningLeft ==
  ASSUME Types, mode = "write", WriteCounts, toNode # << >>, Head(toNode) # Opening
  PROVE /\ pc \notin {"open", "opening"}
        /\ node.done + Len(Head(toNode).data) <= bytes_sent
        /\ Carries(Tail(toNode), node.done + Len(Head(toNode).data), bytes_sent)
        /\ Holds("Stream_Initiate_Request", Tail(toNode)) => pc = "raised" /\ bytes_sent = 0
  <1>1. toNode \in Seq(Writer) /\ Head(toNode) \in Writer /\ node.done \in Nat
          /\ bytes_sent \in Nat
    BY StreamAssumption DEF Types, NodeState
  <1>2. pc \notin {"open", "opening"}
    BY DEF WriteCounts, NotOpen
  <1>3. Len(Head(toNode).data) \in Nat
    BY <1>1 DEF Writer, Opening, Sized
  <1>4. Carries(toNode, node.done, bytes_sent)
    BY DEF WriteCounts
  <1>5. node.done + Len(Head(toNode).data) <= bytes_sent
          /\ Carries(Tail(toNode), node.done + Len(Head(toNode).data), bytes_sent)
    BY <1>1, <1>3, <1>4, CarriesTaken
  <1>6. Holds("Stream_Initiate_Request", Tail(toNode)) => pc = "raised" /\ bytes_sent = 0
    BY <1>1, <1>2, HoldsTaken DEF WriteCounts
  <1> QED BY <1>2, <1>5, <1>6

\* It takes the end of the data, or an acknowledgement.
LEMMA NodeReceivesPlain ==
  ASSUME IInv, mode = "write", NodeReceives,
         Head(toNode) \in [mti : {"Stream_Data_Complete", "Datagram_Received_OK"},
                           data : {<< >>}, size : {0}]
  PROVE IInv'
  <1>1. /\ toNode # << >> /\ toNode' = Tail(toNode) /\ toNode \in Seq(Writer)
        /\ UNCHANGED <<mode, total, pc, buf_size, collected, bytes_sent, window>>
        /\ node \in NodeState /\ bytes_sent \in Nat /\ Types /\ WriteCounts
    BY NodeTakes, WriterFacts
  <1>2. UNCHANGED <<toChecker, proceeds>> /\ node' \in NodeState
          /\ node'.size = node.size /\ node'.credit = node.credit /\ node'.done = node.done
    <2>1. CASE Head(toNode).mti = "Stream_Data_Complete"
      BY <1>1, <2>1 DEF NodeReceives, NodeState
    <2>2. CASE Head(toNode).mti = "Datagram_Received_OK"
      BY <1>1, <2>2 DEF NodeReceives
    <2> QED BY <2>1, <2>2
  <1>3. Types'
    BY <1>1, <1>2 DEF Types
  <1>4. Head(toNode) # Opening /\ Len(Head(toNode).data) = 0
    BY DEF Opening, Sized
  <1>5. /\ pc \notin {"open", "opening"}
        /\ Carries(toNode', node.done, bytes_sent)
        /\ Holds("Stream_Initiate_Request", toNode') => pc = "raised" /\ bytes_sent = 0
    BY <1>1, <1>4, NoOpeningLeft DEF NodeState
  <1>6. Flying' = Flying
    BY <1>1, <1>2 DEF Flying
  <1>7. pc = "send" => Sending'
    BY <1>1, <1>2, <1>6 DEF WriteCounts, Sending
  <1>8. pc = "proceed" => Waiting'
    BY <1>1, <1>2, <1>6 DEF WriteCounts, Waiting
  <1>9. WriteCounts'
    BY <1>1, <1>2, <1>5, <1>6, <1>7, <1>8 DEF WriteCounts
  <1> QED BY <1>1, <1>3, <1>9 DEF IInv

\* It takes data: what is left of its window is never less than what is on its way.
LEMMA NodeReceivesData ==
  ASSUME IInv, mode = "write", NodeReceives,
         Head(toNode) \in [mti : {"Stream_Data_Send"}, data : Seq(Nat), size : {0}]
  PROVE IInv'
  <1> DEFINE d == Len(Head(toNode).data)
             left == node.credit - d
             proceed == Other("Stream_Data_Proceed")
  <1>1. /\ toNode # << >> /\ toNode' = Tail(toNode) /\ toNode \in Seq(Writer)
        /\ toChecker \in Seq(AnyMessage)
        /\ UNCHANGED <<mode, total, pc, buf_size, collected, bytes_sent, window>>
        /\ node \in NodeState /\ bytes_sent \in Nat /\ total \in Nat /\ buf_size \in Nat
        /\ window \in Nat /\ proceeds \in Nat /\ Types /\ WriteCounts
    BY NodeTakes, WriterFacts
  <1>2. /\ node' = [node EXCEPT !.done = @ + d,
                                !.credit = IF left = 0 THEN node.size ELSE left]
        /\ IF left = 0 /\ node.open
           THEN NodeSends(proceed) /\ proceeds' = proceeds + 1
           ELSE UNCHANGED <<toChecker, proceeds>>
    BY DEF NodeReceives
  <1>3. d \in Nat /\ Head(toNode) # Opening
    BY DEF Opening, Sized
  <1>4. proceed \in AnyMessage /\ proceed.mti = "Stream_Data_Proceed"
    BY DEF Other, AnyMessage, Mtis
  <1> HIDE DEF d, proceed
  <1>5. /\ pc \notin {"open", "opening"}
        /\ node.done + d <= bytes_sent
        /\ Carries(toNode', node.done + d, bytes_sent)
        /\ Holds("Stream_Initiate_Request", toNode') => pc = "raised" /\ bytes_sent = 0
    BY <1>1, <1>3, NoOpeningLeft DEF d
  <1>6. /\ node.done \in Nat /\ node.credit \in Int /\ node.size \in Nat
        /\ node.credit >= Flying /\ Flying = bytes_sent - node.done
    BY <1>1 DEF NodeState, WriteCounts, Flying
  <1>7. /\ node'.done = node.done + d
        /\ node'.credit = IF left = 0 THEN node.size ELSE left
        /\ node'.size = node.size
        /\ node' \in NodeState
    <2>1. node.done + d \in Nat /\ (IF left = 0 THEN node.size ELSE left) \in Int
      BY <1>3, <1>6
    <2> QED BY <1>1, <1>2, <2>1 DEF NodeState
  <1>8. Flying' = Flying - d /\ Flying' >= 0 /\ Flying' \in Int
    BY SMTT(60), <1>1, <1>3, <1>5, <1>6, <1>7 DEF Flying
  <1>9. left >= Flying' /\ left \in Int
    BY <1>3, <1>6, <1>8
  <1>10. node'.credit >= Flying'
    BY <1>6, <1>7, <1>8, <1>9
  <1> HIDE DEF left
  <1>11. /\ toChecker' \in Seq(AnyMessage) /\ proceeds' \in Nat
         /\ toChecker' = toChecker \/ (left = 0 /\ toChecker' = Append(toChecker, proceed))
    <2>1. CASE left = 0 /\ node.open
      <3>1. toChecker' = Append(toChecker, proceed) /\ proceeds' = proceeds + 1
        BY <1>2, <2>1 DEF NodeSends
      <3> QED BY <1>1, <1>4, <2>1, <3>1
    <2>2. CASE ~(left = 0 /\ node.open)
      BY <1>1, <1>2, <2>2
    <2> QED BY <2>1, <2>2
  <1>12. Types'
    BY <1>1, <1>7, <1>11 DEF Types
  <1>13. ASSUME pc = "send" PROVE Sending'
    <2>1. buf_size = node.size /\ window < buf_size
      BY <1>1, <1>13 DEF WriteCounts, Sending
    <2>2. ASSUME bytes_sent < total
          PROVE node'.credit = Flying' + buf_size - window
                  /\ ~Holds("Stream_Data_Proceed", toChecker')
      <3>1. node.credit = Flying + buf_size - window
              /\ ~Holds("Stream_Data_Proceed", toChecker)
        BY <1>1, <1>13, <2>2 DEF WriteCounts, Sending
      <3>2. left = Flying' + buf_size - window
        BY <1>1, <1>3, <1>6, <1>8, <3>1 DEF left
      <3>3. left # 0
        BY <1>1, <1>8, <2>1, <3>2
      <3> QED BY <1>7, <1>11, <3>1, <3>2, <3>3
    <2> QED BY <1>1, <1>7, <2>1, <2>2 DEF Sending
  <1>14. ASSUME pc = "proceed" PROVE Waiting'
    <2>1. buf_size = node.size /\ buf_size > 0 /\ window = 0
      BY <1>1, <1>14 DEF WriteCounts, Waiting
    <2>2. CASE /\ Flying > 0 /\ node.credit = Flying
               /\ ~Holds("Stream_Data_Proceed", toChecker)
      <3>1. left = Flying'
        BY <1>6, <1>8, <2>2 DEF left
      <3>2. CASE left = 0
        <4>1. Once("Stream_Data_Proceed", toChecker')
          BY ZenonT(60), <1>1, <1>4, <1>11, <2>2, OnceAppended, NoneIsOnce
        <4> QED BY <1>1, <1>7, <2>1, <3>1, <3>2, <4>1 DEF Waiting
      <3>3. CASE left # 0
        <4>1. Flying' > 0 /\ node'.credit = Flying' /\ toChecker' = toChecker
          BY <1>7, <1>8, <1>11, <3>1, <3>3
        <4> QED BY <1>1, <1>7, <2>1, <2>2, <4>1 DEF Waiting
      <3> QED BY <3>2, <3>3
    <2>3. CASE /\ Flying = 0 /\ node.credit = node.size
               /\ Once("Stream_Data_Proceed", toChecker)
      <3>1. d = 0 /\ Flying' = 0 /\ left = node.size /\ left # 0
        BY <1>3, <1>6, <1>8, <2>1, <2>3 DEF left
      <3> QED BY <1>1, <1>7, <1>11, <2>1, <2>3, <3>1 DEF Waiting
    <2> QED BY <1>1, <1>14, <2>2, <2>3 DEF WriteCounts, Waiting
  <1>15. WriteCounts'
    BY <1>1, <1>5, <1>7, <1>10, <1>13, <1>14 DEF WriteCounts
  <1> QED BY <1>1, <1>12, <1>15 DEF IInv

LEMMA NodeReceivesInvariant == IInv /\ NodeReceives => IInv'
  <1> SUFFICES ASSUME IInv, NodeReceives PROVE IInv'
    OBVIOUS
  <1>1. CASE mode = "read"
    BY <1>1, NodeReceivesFromReader
  <1>2. CASE mode = "write"
    <2>1. Head(toNode) \in Writer
      BY <1>2, NodeTakes, WriterFacts
    <2> QED BY <1>2, <2>1, NodeReceivesOpening, NodeReceivesPlain, NodeReceivesData
         DEF Writer
  <1> QED BY <1>1, <1>2, ModesApart DEF IInv

-----------------------------------------------------------------------------
(* Theorems. *)

LEMMA StepInvariant == IInv /\ [Next]_vars => IInv'
  <1> SUFFICES ASSUME IInv, [Next]_vars PROVE IInv'
    OBVIOUS
  <1>1. CASE Checker
    BY <1>1, AcceptInvariant, WaitForReplyInvariant, ReceiveInvariant, OpenInvariant,
       SendInvariant, ProceedInvariant, TimeoutInvariant DEF Checker
  <1>2. CASE Node
    BY <1>2, NodeAsksInvariant, NodeRepliesInvariant, NodeSendsDataInvariant,
       NodeReceivesInvariant DEF Node
  <1>3. CASE NodeTerminates
    BY <1>3, NodeTerminatesInvariant
  <1>4. CASE ForeignData
    BY <1>4, ForeignDataInvariant
  <1>5. CASE UNCHANGED vars
    BY <1>5 DEF vars, IInv, Types, ReadCounts, WriteCounts, NotOpen, Sending, Waiting, Flying
  <1> QED BY <1>1, <1>2, <1>3, <1>4, <1>5 DEF Next, Finished

LEMMA InvariantHolds == Spec => []IInv
  <1>1. Init => IInv
    BY InitInvariant
  <1>2. IInv /\ [Next]_vars => IInv'
    BY StepInvariant
  <1> QED BY <1>1, <1>2, PTL DEF Spec

\* The types of StreamTransfer's variables: the window negotiated never exceeds the
\* checker's limit, and what it has sent of it never exceeds the window.
THEOREM StreamTypes == Spec => []TypeOK
  <1>1. IInv => TypeOK
    <2> SUFFICES ASSUME IInv PROVE TypeOK
      OBVIOUS
    <2>1. ASSUME NEW q \in Seq(AnyMessage) PROVE Messages(q)
      <3> SUFFICES ASSUME NEW k \in 1 .. Len(q) PROVE q[k].data \in Seq(Nat)
        BY DEF Messages
      <3>1. q[k] \in AnyMessage
        OBVIOUS
      <3> QED BY <3>1 DEF AnyMessage
    <2>2. Reader \subseteq AnyMessage /\ Writer \subseteq AnyMessage
      <3>1. << >> \in Seq(Nat) /\ MaxBuffer \in Nat
        BY StreamAssumption
      <3>2. Opening \in AnyMessage
        BY <3>1 DEF Opening, Sized, AnyMessage, Mtis
      <3>3. ASSUME NEW m \in Reader PROVE m \in AnyMessage
        BY <3>1 DEF Reader, AnyMessage, Mtis
      <3>4. ASSUME NEW m \in Writer, m # Opening PROVE m \in AnyMessage
        <4>1. CASE m \in [mti : {"Stream_Data_Complete", "Datagram_Received_OK"},
                           data : {<< >>}, size : {0}]
          <5>1. m.mti \in {"Stream_Data_Complete", "Datagram_Received_OK"}
                  /\ m.data = << >> /\ m.size = 0
            BY <4>1
          <5>2. m.mti \in Mtis /\ m.data \in Seq(Nat) /\ m.size \in Nat
            BY <3>1, <5>1 DEF Mtis
          <5>3. m = [mti |-> m.mti, data |-> m.data, size |-> m.size]
            BY <4>1
          <5> QED BY <5>2, <5>3 DEF AnyMessage
        <4>2. CASE m \in [mti : {"Stream_Data_Send"}, data : Seq(Nat), size : {0}]
          BY <4>2 DEF AnyMessage, Mtis
        <4> QED BY <3>4, <4>1, <4>2 DEF Writer
      <3> QED BY <3>2, <3>3, <3>4
    <2>3. toNode \in Seq(AnyMessage) /\ toChecker \in Seq(AnyMessage)
      BY <2>2 DEF IInv, Types
    <2> QED BY <2>1, <2>3 DEF IInv, Types, TypeOK
  <1> QED BY <1>1, InvariantHolds, PTL

\* Whatever the sizes of window and messages, the checker's count of its window and
\* the node's agree: the node is never sent more than it can take, and is never told
\* to go on before it has sent what it was allowed to (send_stream_data and
\* receive_stream_data of stream_utils.py).
THEOREM WindowsKept == Spec => []WindowKept
  <1>1. IInv => WindowKept
    <2> SUFFICES ASSUME IInv PROVE WindowKept
      OBVIOUS
    <2>1. CASE mode = "read"
      <3>1. window \in Nat /\ buf_size \in Nat /\ proceeds \in Nat /\ Len(collected) \in Nat
        BY StreamAssumption DEF IInv, Types
      <3>2. proceeds * buf_size \in Nat
        BY <3>1
      <3> QED BY <2>1, <3>1, <3>2 DEF IInv, ReadCounts, WindowKept
    <2>2. CASE mode = "write"
      <3>1. node.done \in Nat /\ bytes_sent \in Nat /\ toNode \in Seq(Writer)
              /\ node.credit \in Int
        BY <2>2, StreamAssumption DEF IInv, Types, NodeState
      <3>2. node.done <= bytes_sent
        BY <2>2, <3>1, CarriesInOrder DEF IInv, WriteCounts
      <3> QED BY <2>2, <3>1, <3>2 DEF IInv, WriteCounts, Flying, WindowKept
    <2> QED BY <2>1, <2>2, ModesApart DEF IInv
  <1> QED BY <1>1, InvariantHolds, PTL

-----------------------------------------------------------------------------
(* The bytes: what is collected is what was sent.  The inductive           *)
(* invariant. *)

\* The data d is bytes a + 1 to b of the stream, or has none of them.
Part(d, a, b) ==
    \/ b = a + Len(d) /\ \A i \in 1 .. Len(d) : d[i] = a + i
    \/ b = a /\ \A i \in 1 .. Len(d) : d[i] = 0

\* The messages of q have the bytes after "from" up to "upTo", in order, and if no message
\* is of another stream ("mixed" is 0) the end of the stream follows the last byte.
Follows(q, from, upTo, mixed) ==
    \E f \in [1 .. Len(q) + 1 -> Nat] :
        /\ f[1] = from
        /\ f[Len(q) + 1] = upTo
        /\ \A k \in 1 .. Len(q) :
              /\ f[k] <= upTo
              /\ Part(q[k].data, f[k], f[k + 1])
              /\ mixed = 0 /\ q[k].mti = "Stream_Data_Complete" => f[k] = upTo

\* Only messages with data have data ...
Bare(q) == \A k \in 1 .. Len(q) : q[k].mti # "Stream_Data_Send" => q[k].data = << >>

\* ... none of them zero, which stands for another stream.
Pure(q) == \A k \in 1 .. Len(q) : \A i \in 1 .. Len(q[k].data) : q[k].data[i] # 0

Taken == skipped \o collected

\* Nothing is sent before the stream is accepted.
Unaccepted ==
    /\ toNode = << >> /\ skipped = << >> /\ collected = << >>
    /\ ~node.open /\ node.done = 0 /\ ~node.complete

\* The checker reads.
ReadBytes ==
    /\ skipped \in Seq(Nat)
    /\ foreign \in Nat
    /\ InOrder(Taken)
    /\ pc = "accept" => Unaccepted
    /\ pc = "reply" => collected = << >>
    /\ Bare(toChecker)
    /\ Follows(toChecker, Count(Taken), node.done, foreign)
    /\ node.done <= total
    /\ node.complete => node.done = total
    /\ foreign = 0 /\ Holds("Stream_Data_Complete", toChecker) => node.complete
    /\ foreign = 0 /\ pc = "returned" => Count(Taken) = total

\* The checker writes.
WriteBytes ==
    /\ skipped = << >> /\ collected = << >>
    /\ \A k \in 1 .. Len(toChecker) : toChecker[k].data = << >>
    /\ Pure(toNode)
    /\ Follows(toNode, node.done, bytes_sent, 0)
    /\ Holds("Stream_Data_Complete", toNode) => bytes_sent = total
    /\ node.complete => node.done = total
    /\ Holds("Datagram", toChecker) \/ pc = "returned" => node.complete

BytesInv ==
    /\ mode = "read" => ReadBytes
    /\ mode = "write" => WriteBytes
-----------------------------------------------------------------------------
(* Counting bytes. *)

LEMMA OwnFinite ==
  ASSUME NEW s, NEW n \in Nat
  PROVE  /\ IsFiniteSet(Own(s, n))
         /\ Cardinality(Own(s, n)) \in Nat
  <1>1. Own(s, n) \in SUBSET (1 .. n)
    BY DEF Own
  <1>2. IsFiniteSet(Own(s, n))
    BY <1>1, FS_Interval, FS_Subset
  <1> QED BY <1>2, FS_CardinalityType

LEMMA CountNothing == Count(<< >>) = 0 /\ InOrder(<< >>)
  <1>1. Own(<< >>, Len(<< >>)) = {}
    BY DEF Own
  <1> QED BY <1>1, FS_EmptySet DEF Count, InOrder

\* The bytes of s are counted alike in s and in a longer sequence, and those after it are
\* counted on.
LEMMA OwnJoined ==
  ASSUME NEW s \in Seq(Nat), NEW t \in Seq(Nat), NEW k \in 0 .. Len(t)
  PROVE  /\ \A i \in 0 .. Len(s) : Own(s \o t, i) = Own(s, i)
         /\ (\A i \in 1 .. k : t[i] # 0) =>
               Cardinality(Own(s \o t, Len(s) + k)) = Count(s) + k
         /\ (\A i \in 1 .. k : t[i] = 0) => Own(s \o t, Len(s) + k) = Own(s, Len(s))
  <1> DEFINE n == Len(s)
             u == s \o t
  <1>1. /\ n \in Nat /\ Len(t) \in Nat /\ k \in Nat
        /\ \A i \in 1 .. n : u[i] = s[i]
        /\ \A i \in n + 1 .. n + k : u[i] = t[i - n] /\ i - n \in 1 .. k
    <2>1. n \in Nat /\ Len(t) \in Nat /\ Len(u) = n + Len(t)
      OBVIOUS
    <2>2. \A i \in 1 .. Len(u) : u[i] = IF i <= n THEN s[i] ELSE t[i - n]
      OBVIOUS
    <2> HIDE DEF u, n
    <2> QED BY <2>1, <2>2
  <1> HIDE DEF n, u
  <1>2. \A i \in 0 .. n : Own(u, i) = Own(s, i)
    BY <1>1 DEF Own
  <1>3. ASSUME \A i \in 1 .. k : t[i] # 0
        PROVE  Cardinality(Own(u, n + k)) = Count(s) + k
    <2> DEFINE A == Own(s, n)
               B == n + 1 .. n + k
    <2>1. Own(u, n + k) = A \cup B
      <3>1. ASSUME NEW i \in 1 .. n + k PROVE i \in A \cup B <=> u[i] # 0
        <4>1. CASE i \in 1 .. n
          BY <1>1, <4>1 DEF Own
        <4>2. CASE i \in n + 1 .. n + k
          BY <1>1, <1>3, <4>2
        <4> QED BY <1>1, <4>1, <4>2
      <3>2. A \cup B \subseteq 1 .. n + k
        BY <1>1 DEF Own
      <3> HIDE DEF A, B
      <3> QED BY <3>1, <3>2 DEF Own
    <2>2. A \cap B = {}
      BY <1>1 DEF Own
    <2>3. IsFiniteSet(A) /\ Cardinality(A) \in Nat
      BY <1>1, OwnFinite
    <2>4. IsFiniteSet(B) /\ Cardinality(B) = k
      <3>1. n + 1 \in Int /\ n + k \in Int
        BY <1>1
      <3>2. Cardinality(B) = IF n + 1 > n + k THEN 0 ELSE (n + k) - (n + 1) + 1
        BY <3>1, FS_Interval
      <3>3. IsFiniteSet(B)
        BY <3>1, FS_Interval
      <3> HIDE DEF B
      <3> QED BY <1>1, <3>2, <3>3
    <2> HIDE DEF A, B
    <2>5. Cardinality(A \cup B) = Cardinality(A) + Cardinality(B) - Cardinality(A \cap B)
      BY <2>3, <2>4, FS_Union
    <2>6. Cardinality(A \cap B) = 0
      BY <2>2, FS_EmptySet
    <2>7. Cardinality(A) = Count(s)
      BY DEF A, Count, n
    <2>8. Cardinality(Own(u, n + k)) = Cardinality(A) + k
      <3>1. k \in Nat
        BY <1>1
      <3>2. Cardinality(A \cup B) = Cardinality(A) + k
        BY <2>3, <2>4, <2>5, <2>6, <3>1
      <3> QED BY <2>1, <3>2
    <2> QED BY <2>7, <2>8
  <1>4. ASSUME \A i \in 1 .. k : t[i] = 0
        PROVE  Own(u, n + k) = Own(s, n)
    <2>1. ASSUME NEW i \in 1 .. n + k
          PROVE  u[i] # 0 <=> i \in 1 .. n /\ s[i] # 0
      <3>1. CASE i \in 1 .. n
        BY <1>1, <3>1
      <3>2. CASE i \in n + 1 .. n + k
        BY <1>1, <1>4, <3>2
      <3> QED BY <1>1, <3>1, <3>2
    <2>2. 1 .. n \subseteq 1 .. n + k
      BY <1>1
    <2> QED BY <2>1, <2>2 DEF Own
  <1> QED BY <1>2, <1>3, <1>4 DEF n, u

\* What follows in order is in order.
LEMMA InOrderJoined ==
  ASSUME NEW s \in Seq(Nat), NEW t \in Seq(Nat), NEW c \in Nat,
         InOrder(s), Part(t, Count(s), c)
  PROVE  InOrder(s \o t) /\ Count(s \o t) = c
  <1> DEFINE n == Len(s)
             u == s \o t
             m == Len(t)
  <1>1. /\ n \in Nat /\ m \in Nat /\ Len(u) = n + m /\ Count(s) \in Nat
        /\ \A i \in 1 .. n : u[i] = s[i]
        /\ \A i \in 1 .. n + m : i \in 1 .. n \/ (i - n \in 1 .. m /\ u[i] = t[i - n])
    <2>1. n \in Nat /\ m \in Nat /\ Len(u) = n + m
      OBVIOUS
    <2>2. \A i \in 1 .. Len(u) : u[i] = IF i <= n THEN s[i] ELSE t[i - n]
      OBVIOUS
    <2>3. Count(s) \in Nat
      BY OwnFinite DEF Count
    <2> HIDE DEF u, n, m
    <2> QED BY <2>1, <2>2, <2>3
  <1>2. \A i \in 1 .. n : i \in Own(u, n + m) => i \in Own(s, n) /\ Own(u, i) = Own(s, i)
    <2>1. \A i \in 0 .. n : Own(u, i) = Own(s, i)
      <3>1. 0 \in 0 .. Len(t)
        BY <1>1
      <3> QED BY <3>1, OwnJoined
    <2> HIDE DEF u, n, m
    <2> QED BY <1>1, <2>1 DEF Own
  <1>3. CASE c = Count(s) + m /\ \A i \in 1 .. m : t[i] = Count(s) + i
    <2>1. \A k \in 0 .. m : Cardinality(Own(u, n + k)) = Count(s) + k
      <3>1. ASSUME NEW k \in 0 .. m PROVE Cardinality(Own(u, n + k)) = Count(s) + k
        <4>1. ASSUME NEW i \in 1 .. k PROVE t[i] # 0
          <5>1. i \in 1 .. m /\ Count(s) + i # 0
            BY <1>1
          <5> QED BY <1>3, <5>1
        <4> QED BY <4>1, OwnJoined
      <3> QED BY <3>1
    <2> HIDE DEF u, n, m
    <2>2. Cardinality(Own(u, n + m)) = c
      BY <1>1, <1>3, <2>1
    <2>3. ASSUME NEW i \in Own(u, n + m) PROVE u[i] = Cardinality(Own(u, i))
      <3>1. i \in 1 .. n + m
        BY DEF Own
      <3>2. CASE i \in 1 .. n
        BY <1>1, <1>2, <3>2 DEF InOrder, n
      <3>3. CASE ~(i \in 1 .. n)
        <4> DEFINE j == i - n
        <4>1. j \in 1 .. m /\ u[i] = t[j] /\ n + j = i
          BY <1>1, <3>1, <3>3
        <4> HIDE DEF j
        <4>2. j \in 0 .. m
          BY <4>1
        <4>3. Cardinality(Own(u, n + j)) = Count(s) + j
          BY <2>1, <4>2
        <4> QED BY <1>3, <4>1, <4>3
      <3> QED BY <3>2, <3>3
    <2> QED BY <1>1, <2>2, <2>3 DEF InOrder, Count, u
  <1>4. CASE c = Count(s) /\ \A i \in 1 .. m : t[i] = 0
    <2>1. Own(u, n + m) = Own(s, n)
      <3>1. m \in 0 .. Len(t)
        BY <1>1
      <3> QED BY <1>4, <3>1, OwnJoined
    <2> HIDE DEF u, n, m
    <2>2. ASSUME NEW i \in Own(u, n + m) PROVE u[i] = Cardinality(Own(u, i))
      <3>1. i \in Own(s, n) /\ i \in 1 .. n
        BY <1>1, <2>1 DEF Own
      <3> QED BY <1>1, <1>2, <3>1 DEF InOrder, n
    <2> QED BY <1>1, <1>4, <2>1, <2>2 DEF InOrder, Count, u, n
  <1> QED BY <1>3, <1>4 DEF Part

-----------------------------------------------------------------------------
(* Queues of messages. *)

LEMMA PartIs ==
  ASSUME NEW d \in Seq(Nat), NEW a \in Nat, NEW b, Part(d, a, b)
  PROVE  /\ b \in Nat /\ a <= b
         /\ d = << >> => b = a
         /\ (\A i \in 1 .. Len(d) : d[i] # 0) => b = a + Len(d)
  <1>1. Len(d) \in Nat /\ (d = << >> <=> Len(d) = 0)
    OBVIOUS
  <1>2. CASE b = a + Len(d)
    BY <1>1, <1>2
  <1>3. CASE b = a /\ \A i \in 1 .. Len(d) : d[i] = 0
    <2>1. ASSUME \A i \in 1 .. Len(d) : d[i] # 0 PROVE Len(d) = 0
      <3>1. CASE Len(d) # 0
        <4>1. 1 \in 1 .. Len(d)
          BY <1>1, <3>1
        <4> QED BY <1>3, <2>1, <4>1
      <3> QED BY <3>1
    <2> QED BY <1>1, <1>3, <2>1
  <1> QED BY <1>2, <1>3 DEF Part

LEMMA FollowsNothing ==
  ASSUME NEW n \in Nat, NEW mixed
  PROVE  Follows(<< >>, n, n, mixed)
  <1> DEFINE f == [k \in 1 .. 1 |-> n]
  <1>1. Len(<< >>) = 0
    OBVIOUS
  <1>2. f \in [1 .. 1 -> Nat] /\ f[1] = n
    OBVIOUS
  <1> HIDE DEF f
  <1>3. /\ f \in [1 .. Len(<< >>) + 1 -> Nat]
        /\ f[1] = n
        /\ f[Len(<< >>) + 1] = n
        /\ \A k \in 1 .. Len(<< >>) : FALSE
    BY <1>1, <1>2
  <1> QED BY <1>3 DEF Follows

LEMMA FollowsLoosely ==
  ASSUME NEW q, NEW a, NEW b, NEW mixed, Follows(q, a, b, mixed), NEW more, more # 0
  PROVE  Follows(q, a, b, more)
  BY DEF Follows

\* One more message at the end.
LEMMA FollowsAppended ==
  ASSUME NEW S, NEW q \in Seq(S), NEW m \in S, NEW a \in Nat, NEW b \in Nat, NEW c \in Nat,
         NEW mixed, Follows(q, a, b, mixed), Part(m.data, b, c), b <= c,
         mixed = 0 /\ c # b => /\ ~Holds("Stream_Data_Complete", q)
                               /\ m.mti # "Stream_Data_Complete"
  PROVE  Follows(Append(q, m), a, c, mixed)
  <1>1. PICK f \in [1 .. Len(q) + 1 -> Nat] :
          /\ f[1] = a
          /\ f[Len(q) + 1] = b
          /\ \A k \in 1 .. Len(q) :
                /\ f[k] <= b
                /\ Part(q[k].data, f[k], f[k + 1])
                /\ mixed = 0 /\ q[k].mti = "Stream_Data_Complete" => f[k] = b
    BY DEF Follows
  <1> DEFINE n == Len(q)
             r == Append(q, m)
             g == [k \in 1 .. n + 2 |-> IF k = n + 2 THEN c ELSE f[k]]
  <1>2. n \in Nat /\ Len(r) = n + 1 /\ r[n + 1] = m /\ \A k \in 1 .. n : r[k] = q[k]
    OBVIOUS
  <1> HIDE DEF r
  <1>3. g \in [1 .. Len(r) + 1 -> Nat]
    BY <1>2
  <1>4. g[1] = a /\ g[Len(r) + 1] = c
    BY <1>1, <1>2
  <1>5. ASSUME NEW k \in 1 .. Len(r)
        PROVE  /\ g[k] <= c
               /\ Part(r[k].data, g[k], g[k + 1])
               /\ mixed = 0 /\ r[k].mti = "Stream_Data_Complete" => g[k] = c
    <2>1. CASE k = n + 1
      <3>1. g[k] = b /\ g[k + 1] = c /\ r[k] = m
        BY <1>1, <1>2, <2>1
      <3> QED BY <3>1
    <2>2. CASE k \in 1 .. n
      <3>1. k # n + 2 /\ k + 1 # n + 2 /\ k \in 1 .. n + 2 /\ k + 1 \in 1 .. n + 2
        BY <1>2, <2>2
      <3>2. g[k] = f[k] /\ g[k + 1] = f[k + 1] /\ r[k] = q[k]
        BY <1>2, <2>2, <3>1
      <3>3. f[k] \in Nat /\ f[k] <= b
        BY <1>1, <1>2, <2>2
      <3>4. Part(q[k].data, f[k], f[k + 1])
        BY <1>1, <2>2
      <3>5. mixed = 0 /\ q[k].mti = "Stream_Data_Complete" => f[k] = b /\ c = b
        BY <1>1, <2>2 DEF Holds
      <3> HIDE DEF g
      <3> QED BY <3>2, <3>3, <3>4, <3>5
    <2> QED BY <1>2, <2>1, <2>2
  <1> HIDE DEF g
  <1>6. Follows(r, a, c, mixed)
    BY <1>3, <1>4, <1>5 DEF Follows
  <1> QED BY <1>6 DEF r

\* The first message taken.
LEMMA FollowsTaken ==
  ASSUME NEW S, NEW q \in Seq(S), q # << >>, NEW a \in Nat, NEW b \in Nat, NEW mixed,
         Follows(q, a, b, mixed)
  PROVE  /\ a <= b
         /\ mixed = 0 /\ Head(q).mti = "Stream_Data_Complete" => a = b
         /\ \E c \in Nat : /\ Part(Head(q).data, a, c) /\ c <= b
                           /\ Follows(Tail(q), c, b, mixed)
  <1>1. PICK f \in [1 .. Len(q) + 1 -> Nat] :
          /\ f[1] = a
          /\ f[Len(q) + 1] = b
          /\ \A k \in 1 .. Len(q) :
                /\ f[k] <= b
                /\ Part(q[k].data, f[k], f[k + 1])
                /\ mixed = 0 /\ q[k].mti = "Stream_Data_Complete" => f[k] = b
    BY DEF Follows
  <1> DEFINE n == Len(q)
             r == Tail(q)
             g == [k \in 1 .. n |-> f[k + 1]]
  <1>2. n \in Nat /\ n >= 1 /\ Head(q) = q[1]
    OBVIOUS
  <1>3. Len(r) = n - 1 /\ \A k \in 1 .. n - 1 : r[k] = q[k + 1]
    BY <1>2
  <1> HIDE DEF r
  <1>4. g \in [1 .. Len(r) + 1 -> Nat]
    BY <1>2, <1>3
  <1>5. g[1] = f[2] /\ g[Len(r) + 1] = b /\ f[2] \in Nat
    BY <1>1, <1>2, <1>3
  <1>6. /\ a <= b /\ Part(Head(q).data, a, f[2])
        /\ mixed = 0 /\ Head(q).mti = "Stream_Data_Complete" => a = b
    <2>1. 1 \in 1 .. n
      BY <1>2
    <2> QED BY <1>1, <1>2, <2>1
  <1>7. f[2] <= b
    <2>1. CASE n = 1
      BY <1>1, <2>1
    <2>2. CASE n # 1
      <3> HIDE DEF n
      <3>1. 2 \in 1 .. n
        BY <1>2, <2>2
      <3> QED BY <1>1, <3>1
    <2> QED BY <2>1, <2>2
  <1>8. ASSUME NEW k \in 1 .. Len(r)
        PROVE  /\ g[k] <= b
               /\ Part(r[k].data, g[k], g[k + 1])
               /\ mixed = 0 /\ r[k].mti = "Stream_Data_Complete" => g[k] = b
    <2> DEFINE j == k + 1
    <2>1. j \in 1 .. n /\ k \in 1 .. n /\ r[k] = q[j] /\ g[k] = f[j] /\ g[k + 1] = f[j + 1]
      BY <1>2, <1>3
    <2> HIDE DEF j, g
    <2> QED BY <1>1, <2>1
  <1> HIDE DEF g
  <1>9. Follows(r, f[2], b, mixed)
    BY <1>4, <1>5, <1>8 DEF Follows
  <1> QED BY <1>5, <1>6, <1>7, <1>9 DEF r
-----------------------------------------------------------------------------
(* The steps when the checker reads. *)

LEMMA ReadFacts ==
  ASSUME IInv, BytesInv, mode = "read"
  PROVE  /\ Types /\ ReadBytes
         /\ toChecker \in Seq(AnyMessage) /\ toNode \in Seq(Reader)
         /\ collected \in Seq(Nat) /\ skipped \in Seq(Nat) /\ Taken \in Seq(Nat)
         /\ node \in NodeState /\ total \in Nat /\ foreign \in Nat
         /\ Count(Taken) \in Nat /\ node.done \in Nat
  <1>1. /\ Types /\ ReadBytes
        /\ toChecker \in Seq(AnyMessage) /\ toNode \in Seq(Reader)
        /\ collected \in Seq(Nat) /\ skipped \in Seq(Nat)
        /\ node \in NodeState /\ total \in Nat /\ foreign \in Nat
    BY StreamAssumption DEF IInv, Types, BytesInv, ReadBytes
  <1>2. Taken \in Seq(Nat) /\ node.done \in Nat
    BY <1>1 DEF Taken, NodeState
  <1> QED BY <1>1, <1>2, OwnFinite DEF Count

LEMMA BareAppended ==
  ASSUME NEW S, NEW q \in Seq(S), NEW m \in S, Bare(q),
         m.mti # "Stream_Data_Send" => m.data = << >>
  PROVE  Bare(Append(q, m))
  <1>1. /\ Len(q) \in Nat /\ Len(Append(q, m)) = Len(q) + 1
        /\ Append(q, m)[Len(q) + 1] = m
        /\ \A k \in 1 .. Len(q) : Append(q, m)[k] = q[k]
    OBVIOUS
  <1> QED BY <1>1 DEF Bare

LEMMA BareTaken ==
  ASSUME NEW S, NEW q \in Seq(S), q # << >>, Bare(q)
  PROVE  /\ Bare(Tail(q))
         /\ Head(q).mti # "Stream_Data_Send" => Head(q).data = << >>
  <1>1. /\ Len(q) \in Nat /\ Len(q) >= 1 /\ Head(q) = q[1]
        /\ Len(Tail(q)) = Len(q) - 1
        /\ \A k \in 1 .. Len(q) - 1 : Tail(q)[k] = q[k + 1]
    OBVIOUS
  <1> QED BY <1>1 DEF Bare

\* The node sends a message.
LEMMA SentBytes ==
  ASSUME IInv, BytesInv, mode = "read", NEW m \in AnyMessage, NodeSends(m),
         UNCHANGED <<mode, total, pc, collected, skipped, toNode>>,
         m.mti # "Stream_Data_Send" => m.data = << >>,
         node'.done \in Nat, node'.done <= total,
         node.done <= node'.done, Part(m.data, node.done, node'.done),
         node'.done # node.done => ~node.complete /\ m.mti # "Stream_Data_Complete",
         node'.complete => node'.done = total,
         node.complete => node'.complete,
         foreign' \in Nat, foreign' = 0 => foreign = 0,
         foreign' = 0 /\ m.mti = "Stream_Data_Complete" => node'.complete,
         pc = "accept" => ~node'.open /\ node'.done = 0 /\ ~node'.complete
  PROVE  BytesInv'
  <1> DEFINE q == toChecker
             a == Count(Taken)
  <1>1. /\ ReadBytes /\ q \in Seq(AnyMessage) /\ a \in Nat /\ node.done \in Nat
        /\ toChecker' = Append(q, m)
    BY ReadFacts DEF NodeSends
  <1>2. Taken' = Taken
    BY DEF Taken
  <1>3. Follows(q, a, node.done, foreign')
    <2>1. CASE foreign' = 0
      BY <1>1, <2>1 DEF ReadBytes
    <2>2. CASE foreign' # 0
      BY <1>1, <2>2, FollowsLoosely DEF ReadBytes
    <2> QED BY <2>1, <2>2
  <1>4. foreign' = 0 /\ node'.done # node.done =>
           ~Holds("Stream_Data_Complete", q) /\ m.mti # "Stream_Data_Complete"
    BY <1>1 DEF ReadBytes
  <1> HIDE DEF q, a
  <1>5. Follows(Append(q, m), a, node'.done, foreign')
    BY <1>1, <1>3, <1>4, FollowsAppended
  <1>6. Bare(Append(q, m))
    BY <1>1, BareAppended DEF ReadBytes, q
  <1>7. Holds("Stream_Data_Complete", Append(q, m)) <=>
           Holds("Stream_Data_Complete", q) \/ m.mti = "Stream_Data_Complete"
    BY <1>1, HoldsAppended
  <1>8. pc' = "accept" => Unaccepted'
    BY <1>1 DEF ReadBytes, Unaccepted
  <1>9. Count(Taken)' = a /\ InOrder(Taken)'
    BY <1>1, <1>2 DEF ReadBytes, a
  <1>10. Follows(toChecker', Count(Taken)', node'.done, foreign') /\ Bare(toChecker')
    BY <1>1, <1>5, <1>6, <1>9
  <1>11. foreign' = 0 /\ Holds("Stream_Data_Complete", toChecker') => node'.complete
    BY <1>1, <1>7 DEF ReadBytes, q
  <1>12. foreign' = 0 /\ pc' = "returned" => Count(Taken)' = total'
    BY <1>1, <1>9 DEF ReadBytes, a
  <1>13. /\ skipped' \in Seq(Nat) /\ (pc' = "reply" => collected' = << >>)
    BY <1>1 DEF ReadBytes
  <1> QED BY <1>8, <1>9, <1>10, <1>11, <1>12, <1>13 DEF BytesInv, ReadBytes

LEMMA EmptyPart ==
  ASSUME NEW a \in Nat
  PROVE  Part(<< >>, a, a)
  BY DEF Part
\* The checker takes a message, and keeps its data or throws it away.
LEMMA TakesBytes ==
  ASSUME IInv, BytesInv, mode = "read", toChecker # << >>, toChecker' = Tail(toChecker),
         UNCHANGED <<mode, total, node, foreign>>,
         Taken' = Taken \o received.data, skipped' \in Seq(Nat),
         pc' # "accept", pc' = "reply" => collected' = << >>,
         pc' = "returned" => received.mti = "Stream_Data_Complete"
  PROVE  BytesInv'
  <1> DEFINE q == toChecker
             a == Count(Taken)
             b == node.done
             d == received.data
  <1>1. /\ ReadBytes /\ q \in Seq(AnyMessage) /\ a \in Nat /\ b \in Nat /\ q # << >>
        /\ Taken \in Seq(Nat) /\ foreign \in Nat /\ received = Head(q)
    BY ReadFacts DEF received
  <1>2. d \in Seq(Nat) /\ received \in AnyMessage
    BY ReadFacts, Received DEF AnyMessage
  <1>3. Follows(q, a, b, foreign) /\ InOrder(Taken) /\ Bare(q)
    BY <1>1 DEF ReadBytes
  <1> HIDE DEF q, a, b, d
  <1>4. foreign = 0 /\ Head(q).mti = "Stream_Data_Complete" => a = b
    BY <1>1, <1>3, FollowsTaken
  <1>5. PICK c \in Nat : /\ Part(Head(q).data, a, c) /\ c <= b
                         /\ Follows(Tail(q), c, b, foreign)
    BY <1>1, <1>3, FollowsTaken
  <1>6. Part(d, a, c)
    BY <1>1, <1>5 DEF d
  <1>7. InOrder(Taken \o d) /\ Count(Taken \o d) = c
    BY <1>1, <1>2, <1>3, <1>6, InOrderJoined DEF a
  <1>8. InOrder(Taken)' /\ Count(Taken)' = c
    BY <1>7 DEF d
  <1>9. Follows(toChecker', Count(Taken)', node'.done, foreign')
    BY <1>5, <1>8 DEF q, b
  <1>10. Bare(toChecker')
    BY <1>1, <1>3, BareTaken DEF q
  <1>11. Holds("Stream_Data_Complete", toChecker') => Holds("Stream_Data_Complete", q)
    BY <1>1, HoldsTaken DEF q
  <1>12. foreign' = 0 /\ pc' = "returned" => Count(Taken)' = total'
    <2> SUFFICES ASSUME foreign = 0, pc' = "returned" PROVE c = total
      BY <1>8
    <2>1. Head(q).mti = "Stream_Data_Complete" /\ Holds("Stream_Data_Complete", q)
      BY <1>1, HoldsTaken
    <2>2. node.complete /\ b = total
      BY <1>1, <2>1 DEF ReadBytes, q, b
    <2>3. a <= c
      BY <1>1, <1>2, <1>6, PartIs
    <2> QED BY <1>1, <1>4, <1>5, <2>1, <2>2, <2>3
  <1> QED BY <1>1, <1>8, <1>9, <1>10, <1>11, <1>12 DEF BytesInv, ReadBytes, q

\* What is taken before the stream is accepted has none of its bytes.
LEMMA AcceptBytes == IInv /\ BytesInv /\ accept_incoming_stream => BytesInv'
  <1> SUFFICES ASSUME IInv, BytesInv, accept_incoming_stream PROVE BytesInv'
    OBVIOUS
  <1>1. /\ mode = "read" /\ pc = "accept" /\ toChecker # << >> /\ toChecker' = Tail(toChecker)
        /\ UNCHANGED <<mode, total, node, foreign, collected, skipped>>
    BY ModesApart DEF IInv, Types, accept_incoming_stream, Takes
  <1>2. pc' \in {"accept", "reply", "raised"} /\ (pc' = "accept" => toNode' = toNode)
    BY <1>1 DEF accept_incoming_stream
  <1>3. /\ ReadBytes /\ Unaccepted /\ toChecker \in Seq(AnyMessage)
    BY <1>1, ReadFacts DEF ReadBytes
  <1>4. /\ collected = << >> /\ skipped = << >> /\ node.done = 0 /\ foreign \in Nat
        /\ Taken = << >> /\ Taken' = << >>
    BY <1>1, <1>3 DEF Unaccepted, Taken, ReadBytes
  <1>5. Count(Taken) = 0 /\ Count(Taken)' = 0 /\ InOrder(Taken)'
    BY <1>4, CountNothing
  <1>6. Follows(toChecker, 0, 0, foreign)
    BY <1>3, <1>4, <1>5 DEF ReadBytes
  <1>7. \E c \in Nat : c <= 0 /\ Follows(Tail(toChecker), c, 0, foreign)
    BY <1>1, <1>3, <1>6, FollowsTaken
  <1>8. Follows(Tail(toChecker), 0, 0, foreign)
    <2>1. \A c \in Nat : c <= 0 => c = 0
      OBVIOUS
    <2> QED BY <1>7, <2>1
  <1>9. Follows(toChecker', Count(Taken)', node'.done, foreign')
    BY <1>1, <1>4, <1>5, <1>8
  <1>10. Bare(toChecker')
    BY <1>1, <1>3, BareTaken DEF ReadBytes
  <1>11. Holds("Stream_Data_Complete", toChecker') => Holds("Stream_Data_Complete", toChecker)
    BY <1>1, <1>3, HoldsTaken
  <1>12. pc' = "accept" => Unaccepted'
    BY <1>1, <1>2, <1>3 DEF Unaccepted
  <1>13. /\ skipped' \in Seq(Nat) /\ foreign' \in Nat /\ collected' = << >>
         /\ node'.done <= total' /\ (node'.complete => node'.done = total')
    BY <1>1, <1>3, <1>4 DEF ReadBytes
  <1>14. foreign' = 0 /\ Holds("Stream_Data_Complete", toChecker') => node'.complete
    BY <1>1, <1>3, <1>11 DEF ReadBytes
  <1> QED BY <1>1, <1>2, <1>5, <1>9, <1>10, <1>12, <1>13, <1>14 DEF BytesInv, ReadBytes

LEMMA JoinedTwice ==
  ASSUME NEW s \in Seq(Nat), NEW t \in Seq(Nat), NEW u \in Seq(Nat)
  PROVE  (s \o t) \o u = s \o (t \o u)
  BY SMTT(60), ConcatAssociative

LEMMA ReceiveBytes == IInv /\ BytesInv /\ receive_stream_data => BytesInv'
  <1> SUFFICES ASSUME IInv, BytesInv, receive_stream_data PROVE BytesInv'
    OBVIOUS
  <1>1. /\ mode = "read" /\ toChecker # << >> /\ toChecker' = Tail(toChecker)
        /\ UNCHANGED <<mode, total, node, foreign, skipped>>
        /\ collected' = collected \o received.data
    BY ModesApart DEF IInv, Types, receive_stream_data, Takes, Extended
  <1>2. /\ pc' \in {"receive", "returned", "raised"}
        /\ pc' = "returned" => received.mti = "Stream_Data_Complete"
    BY DEF receive_stream_data, Takes
  <1>3. skipped \in Seq(Nat) /\ collected \in Seq(Nat) /\ received.data \in Seq(Nat)
    BY <1>1, ReadFacts, Received DEF AnyMessage
  <1>4. Taken' = Taken \o received.data
    <2> DEFINE d == received.data
    <2>1. skipped \in Seq(Nat) /\ collected \in Seq(Nat) /\ d \in Seq(Nat)
      BY <1>3
    <2> HIDE DEF d
    <2>2. (skipped \o collected) \o d = skipped \o (collected \o d)
      BY <2>1, JoinedTwice
    <2> QED BY <1>1, <2>2 DEF Taken, d
  <1> QED BY <1>1, <1>2, <1>3, <1>4, TakesBytes

LEMMA ReadReplyBytes == IInv /\ BytesInv /\ mode = "read" /\ WaitForReply => BytesInv'
  <1> SUFFICES ASSUME IInv, BytesInv, mode = "read", WaitForReply PROVE BytesInv'
    OBVIOUS
  <1>1. /\ toChecker # << >> /\ toChecker' = Tail(toChecker) /\ pc = "reply"
        /\ UNCHANGED <<mode, total, node, foreign, collected>>
    BY DEF WaitForReply, Takes
  <1>2. pc' \in {"receive", "reply"}
    BY <1>1 DEF WaitForReply
  <1>3. /\ ReadBytes /\ skipped \in Seq(Nat) /\ collected = << >>
        /\ toChecker \in Seq(AnyMessage)
    BY <1>1, ReadFacts DEF ReadBytes
  <1>4. received.data \in Seq(Nat)
    BY <1>1, ReadFacts, Received DEF AnyMessage
  <1>5. received.mti # "Stream_Data_Send" => received.data = << >>
    BY <1>1, <1>3, BareTaken DEF received, ReadBytes
  <1>6. skipped' = skipped \o received.data
    <2>1. CASE received.mti = "Datagram"
      BY <1>3, <1>5, <2>1 DEF WaitForReply
    <2>2. CASE received.mti # "Datagram"
      BY <2>2 DEF WaitForReply
    <2> QED BY <2>1, <2>2
  <1>7. Taken' = Taken \o received.data
    BY <1>1, <1>3, <1>4, <1>6 DEF Taken
  <1>8. skipped' \in Seq(Nat) /\ collected' = << >>
    BY <1>1, <1>3, <1>4, <1>6
  <1> QED BY <1>1, <1>2, <1>7, <1>8, TakesBytes

LEMMA NodeAsksBytes == IInv /\ BytesInv /\ NodeAsks => BytesInv'
  <1> SUFFICES ASSUME IInv, BytesInv, NodeAsks PROVE BytesInv'
    OBVIOUS
  <1>1. PICK b \in Buffers : NodeSends(Sized("Stream_Initiate_Request", b))
    BY DEF NodeAsks
  <1> DEFINE m == Sized("Stream_Initiate_Request", b)
  <1>2. m \in AnyMessage /\ m.mti = "Stream_Initiate_Request" /\ m.data = << >>
    BY StreamAssumption DEF Sized, AnyMessage, Mtis
  <1>3. /\ mode = "read" /\ node' = [node EXCEPT !.asked = TRUE]
        /\ UNCHANGED <<mode, total, pc, collected, skipped, toNode, foreign>>
    BY DEF NodeAsks
  <1>4. ReadBytes /\ node \in NodeState /\ node.done \in Nat /\ foreign \in Nat /\ total \in Nat
    BY <1>3, ReadFacts
  <1>5. node'.done = node.done /\ node'.complete = node.complete /\ node'.open = node.open
    BY <1>3, <1>4 DEF NodeState
  <1>6. Part(m.data, node.done, node'.done)
    BY <1>2, <1>4, <1>5, EmptyPart
  <1> HIDE DEF m
  <1>7. pc = "accept" => ~node'.open /\ node'.done = 0 /\ ~node'.complete
    BY <1>4, <1>5 DEF ReadBytes, Unaccepted
  <1>8. NodeSends(m)
    BY <1>1 DEF m
  <1> QED BY <1>2, <1>3, <1>4, <1>5, <1>6, <1>7, <1>8, SentBytes DEF ReadBytes
\* The node sends a message without data, or a byte of another stream.
LEMMA OtherSent ==
  ASSUME IInv, BytesInv, mode = "read", NEW m \in AnyMessage, NodeSends(m),
         UNCHANGED <<mode, total, pc, collected, skipped, toNode>>,
         m.mti # "Stream_Data_Send" => m.data = << >>,
         \A i \in 1 .. Len(m.data) : m.data[i] = 0,
         m.mti # "Stream_Data_Complete" \/ foreign' # 0,
         foreign' \in Nat, foreign' = 0 => foreign = 0,
         node'.done = node.done, node'.complete = node.complete,
         pc = "accept" => ~node'.open
  PROVE  BytesInv'
  <1>1. ReadBytes /\ node.done \in Nat /\ total \in Nat
    BY ReadFacts
  <1>2. Part(m.data, node.done, node'.done)
    BY DEF Part
  <1>3. pc = "accept" => ~node'.open /\ node'.done = 0 /\ ~node'.complete
    BY <1>1 DEF ReadBytes, Unaccepted
  <1>4. node.done <= total /\ (node.complete => node.done = total)
    BY <1>1 DEF ReadBytes
  <1> QED BY <1>1, <1>2, <1>3, <1>4, SentBytes

LEMMA OtherIs ==
  ASSUME NEW mti \in {"Datagram", "Terminate_Due_To_Error", "Stream_Data_Complete",
                      "Stream_Data_Proceed"}
  PROVE  /\ Other(mti) \in AnyMessage /\ Other(mti).mti = mti /\ Other(mti).data = << >>
         /\ \A i \in 1 .. Len(Other(mti).data) : Other(mti).data[i] = 0
  BY DEF Other, AnyMessage, Mtis

LEMMA ReadRepliesBytes == IInv /\ BytesInv /\ mode = "read" /\ NodeReplies => BytesInv'
  <1> SUFFICES ASSUME IInv, BytesInv, mode = "read", NodeReplies PROVE BytesInv'
    OBVIOUS
  <1> DEFINE m == Other("Datagram")
  <1>1. /\ NodeSends(m) /\ node' = [node EXCEPT !.replied = TRUE] /\ node.open
        /\ UNCHANGED <<mode, total, pc, collected, skipped, toNode, foreign>>
    BY DEF NodeReplies
  <1>2. /\ m \in AnyMessage /\ m.mti = "Datagram" /\ m.data = << >>
        /\ \A i \in 1 .. Len(m.data) : m.data[i] = 0
    BY OtherIs
  <1>3. ReadBytes /\ node \in NodeState /\ foreign \in Nat
    BY ReadFacts
  <1>4. node'.done = node.done /\ node'.complete = node.complete
    BY <1>1, <1>3 DEF NodeState
  <1>5. pc # "accept"
    BY <1>1, <1>3 DEF ReadBytes, Unaccepted
  <1> HIDE DEF m
  <1> QED BY <1>1, <1>2, <1>3, <1>4, <1>5, OtherSent

LEMMA ReadTerminatesBytes ==
  IInv /\ BytesInv /\ mode = "read" /\ NodeTerminates => BytesInv'
  <1> SUFFICES ASSUME IInv, BytesInv, mode = "read", NodeTerminates PROVE BytesInv'
    OBVIOUS
  <1> DEFINE m == Other("Terminate_Due_To_Error")
  <1>1. /\ NodeSends(m)
        /\ node' = [node EXCEPT !.gaveUp = TRUE, !.open = FALSE, !.asked = TRUE]
        /\ UNCHANGED <<mode, total, pc, collected, skipped, toNode, foreign>>
    BY DEF NodeTerminates
  <1>2. /\ m \in AnyMessage /\ m.mti = "Terminate_Due_To_Error" /\ m.data = << >>
        /\ \A i \in 1 .. Len(m.data) : m.data[i] = 0
    BY OtherIs
  <1>3. ReadBytes /\ node \in NodeState /\ foreign \in Nat
    BY ReadFacts
  <1>4. node'.done = node.done /\ node'.complete = node.complete /\ ~node'.open
    BY <1>1, <1>3 DEF NodeState
  <1> HIDE DEF m
  <1> QED BY <1>1, <1>2, <1>3, <1>4, OtherSent

LEMMA ForeignDataBytes == IInv /\ BytesInv /\ ForeignData => BytesInv'
  <1> SUFFICES ASSUME IInv, BytesInv, ForeignData PROVE BytesInv'
    OBVIOUS
  <1>1. PICK m \in {Data(<<0>>), Other("Stream_Data_Complete")} : NodeSends(m)
    BY DEF ForeignData
  <1>2. /\ m \in AnyMessage /\ (m.mti # "Stream_Data_Send" => m.data = << >>)
        /\ \A i \in 1 .. Len(m.data) : m.data[i] = 0
    <2>1. CASE m = Data(<<0>>)
      <3>1. <<0>> \in Seq(Nat) /\ Len(<<0>>) = 1 /\ <<0>>[1] = 0
        OBVIOUS
      <3> QED BY <2>1, <3>1 DEF Data, AnyMessage, Mtis
    <2>2. CASE m = Other("Stream_Data_Complete")
      BY <2>2, OtherIs
    <2> QED BY <2>1, <2>2
  <1>3. /\ mode = "read" /\ foreign' = foreign + 1
        /\ UNCHANGED <<mode, total, pc, collected, skipped, toNode, node>>
    BY DEF ForeignData
  <1>4. ReadBytes /\ node \in NodeState /\ foreign \in Nat
    BY <1>3, ReadFacts
  <1>5. foreign' \in Nat /\ foreign' # 0
    BY <1>3, <1>4
  <1>6. pc = "accept" => ~node'.open
    BY <1>3, <1>4 DEF ReadBytes, Unaccepted
  <1> QED BY <1>1, <1>2, <1>3, <1>5, <1>6, OtherSent

LEMMA RangeIs ==
  ASSUME NEW a \in Nat, NEW n \in Nat
  PROVE  /\ Range1(a + 1, a + n) \in Seq(Nat) /\ Len(Range1(a + 1, a + n)) = n
         /\ \A i \in 1 .. n : Range1(a + 1, a + n)[i] = a + i
  <1>1. a + n - (a + 1) + 1 = n
    OBVIOUS
  <1> DEFINE s == [k \in 1 .. n |-> a + 1 + k - 1]
  <1>2. Range1(a + 1, a + n) = s
    BY <1>1 DEF Range1
  <1>3. s \in Seq(Nat) /\ Len(s) = n /\ \A i \in 1 .. n : s[i] = a + i
    OBVIOUS
  <1> QED BY <1>2, <1>3

LEMMA NodeSendsDataBytes == IInv /\ BytesInv /\ NodeSendsData => BytesInv'
  <1> SUFFICES ASSUME IInv, BytesInv, NodeSendsData PROVE BytesInv'
    OBVIOUS
  <1>1. /\ mode = "read" /\ node.open /\ ~node.complete
        /\ UNCHANGED <<mode, total, pc, collected, skipped, toNode, foreign>>
    BY DEF NodeSendsData
  <1>2. /\ ReadBytes /\ node \in NodeState /\ foreign \in Nat /\ node.done \in Nat
        /\ total \in Nat /\ node.credit \in Int
    BY <1>1, ReadFacts DEF NodeState
  <1>3. pc # "accept" /\ node.done <= total
    BY <1>1, <1>2 DEF ReadBytes, Unaccepted
  <1>4. ASSUME NEW n \in 1 .. Smaller(node.credit, total - node.done),
               NodeSends(Data(Range1(node.done + 1, node.done + n))),
               node' = [node EXCEPT !.done = @ + n, !.credit = @ - n,
                                    !.ahead = @ \/ ~node.replied]
        PROVE  BytesInv'
    <2> DEFINE d == Range1(node.done + 1, node.done + n)
               m == Data(d)
    <2>1. n \in Nat /\ n <= total - node.done
      BY <1>2 DEF Smaller
    <2>2. d \in Seq(Nat) /\ Len(d) = n /\ \A i \in 1 .. n : d[i] = node.done + i
      BY <1>2, <2>1, RangeIs
    <2>3. node'.done = node.done + n /\ node'.complete = node.complete
      BY <1>2, <1>4 DEF NodeState
    <2>4. NodeSends(m)
      BY <1>4
    <2> HIDE DEF d
    <2>5. m \in AnyMessage /\ m.mti = "Stream_Data_Send" /\ m.data = d
      BY <2>2 DEF Data, AnyMessage, Mtis
    <2>6. Part(m.data, node.done, node'.done)
      BY <2>2, <2>3, <2>5 DEF Part
    <2>7. node'.done \in Nat /\ node'.done <= total /\ node.done <= node'.done
      BY <1>2, <2>1, <2>3
    <2> HIDE DEF m
    <2> QED BY <1>1, <1>2, <1>3, <2>3, <2>4, <2>5, <2>6, <2>7, SentBytes
  <1>5. ASSUME node.done = total, NodeSends(Other("Stream_Data_Complete")),
               node' = [node EXCEPT !.complete = TRUE, !.ahead = @ \/ ~node.replied]
        PROVE  BytesInv'
    <2> DEFINE m == Other("Stream_Data_Complete")
    <2>1. m \in AnyMessage /\ m.mti = "Stream_Data_Complete" /\ m.data = << >>
      BY OtherIs
    <2>2. node'.done = node.done /\ node'.complete
      BY <1>2, <1>5 DEF NodeState
    <2>3. Part(m.data, node.done, node'.done)
      BY <1>2, <2>1, <2>2, EmptyPart
    <2>4. NodeSends(m)
      BY <1>5
    <2> HIDE DEF m
    <2> QED BY <1>1, <1>2, <1>3, <1>5, <2>1, <2>2, <2>3, <2>4, SentBytes
  <1> QED BY <1>4, <1>5 DEF NodeSendsData

\* What the node takes from a checker that reads changes nothing of it.
LEMMA ReadNodeReceivesBytes ==
  IInv /\ BytesInv /\ mode = "read" /\ NodeReceives => BytesInv'
  <1> SUFFICES ASSUME IInv, BytesInv, mode = "read", NodeReceives PROVE BytesInv'
    OBVIOUS
  <1> DEFINE m == Head(toNode)
  <1>1. /\ toNode # << >> /\ toNode \in Seq(Reader) /\ node \in NodeState /\ ReadBytes
        /\ UNCHANGED <<mode, total, pc, collected, skipped, foreign>>
    BY ReadFacts DEF NodeReceives
  <1>2. m.mti \in {"Stream_Initiate_Reply", "Stream_Data_Proceed", "Datagram_Received_OK"}
    <2>1. m \in Reader
      BY <1>1
    <2> QED BY <2>1 DEF Reader
  <1>3. toChecker' = toChecker /\ node'.done = node.done /\ node'.complete = node.complete
    <2>1. CASE m.mti = "Stream_Initiate_Reply"
      <3>1. /\ node' = [node EXCEPT !.open = ~node.gaveUp, !.size = m.size, !.credit = m.size]
            /\ toChecker' = toChecker
        BY <2>1 DEF NodeReceives
      <3> QED BY <1>1, <3>1 DEF NodeState
    <2>2. CASE m.mti = "Stream_Data_Proceed"
      <3>1. node' = [node EXCEPT !.credit = @ + node.size] /\ toChecker' = toChecker
        BY <2>2 DEF NodeReceives
      <3> QED BY <1>1, <3>1 DEF NodeState
    <2>3. CASE m.mti = "Datagram_Received_OK"
      BY <2>3 DEF NodeReceives
    <2> QED BY <1>2, <2>1, <2>2, <2>3
  <1>4. pc # "accept"
    BY <1>1 DEF ReadBytes, Unaccepted
  <1>5. Taken' = Taken
    BY <1>1 DEF Taken
  <1>6. ReadBytes'
    BY <1>1, <1>3, <1>4, <1>5 DEF ReadBytes
  <1> QED BY <1>1, <1>6 DEF BytesInv
-----------------------------------------------------------------------------
(* The steps when the checker writes. *)

LEMMA WriteFacts ==
  ASSUME IInv, BytesInv, mode = "write"
  PROVE  /\ Types /\ WriteBytes
         /\ toChecker \in Seq(AnyMessage) /\ toNode \in Seq(Writer)
         /\ node \in NodeState /\ total \in Nat /\ node.done \in Nat
         /\ bytes_sent \in Nat /\ bytes_sent <= total
  <1>1. Types /\ WriteBytes
    BY DEF IInv, BytesInv
  <1>2. bytes_sent <= total
    BY <1>1, WriterFacts DEF Types
  <1> QED BY <1>1, <1>2, WriterFacts DEF NodeState

LEMMA WriterIs ==
  ASSUME NEW m \in Writer
  PROVE  /\ m.data \in Seq(Nat)
         /\ m.mti # "Stream_Data_Send" => m.data = << >>
         /\ m.mti \in {"Stream_Initiate_Request", "Stream_Data_Complete",
                       "Datagram_Received_OK", "Stream_Data_Send"}
  <1>1. << >> \in Seq(Nat)
    OBVIOUS
  <1>2. CASE m = Opening
    BY <1>1, <1>2 DEF Opening, Sized
  <1>3. CASE m \in [mti : {"Stream_Data_Complete", "Datagram_Received_OK"}, data : {<< >>},
                    size : {0}]
    BY <1>1, <1>3
  <1>4. CASE m \in [mti : {"Stream_Data_Send"}, data : Seq(Nat), size : {0}]
    BY <1>4
  <1> QED BY <1>2, <1>3, <1>4 DEF Writer

\* No message of q has data.
Empty(q) == \A k \in 1 .. Len(q) : q[k].data = << >>

LEMMA EmptyAppended ==
  ASSUME NEW S, NEW q \in Seq(S), NEW m \in S, Empty(q), m.data = << >>
  PROVE  Empty(Append(q, m))
  <1>1. /\ Len(q) \in Nat /\ Len(Append(q, m)) = Len(q) + 1
        /\ Append(q, m)[Len(q) + 1] = m
        /\ \A k \in 1 .. Len(q) : Append(q, m)[k] = q[k]
    OBVIOUS
  <1> QED BY <1>1 DEF Empty

LEMMA EmptyTaken ==
  ASSUME NEW S, NEW q \in Seq(S), q # << >>, Empty(q)
  PROVE  Empty(Tail(q)) /\ Head(q).data = << >>
  <1>1. /\ Len(q) \in Nat /\ Len(q) >= 1 /\ Head(q) = q[1]
        /\ Len(Tail(q)) = Len(q) - 1
        /\ \A k \in 1 .. Len(q) - 1 : Tail(q)[k] = q[k + 1]
    OBVIOUS
  <1> QED BY <1>1 DEF Empty

LEMMA PureAppended ==
  ASSUME NEW S, NEW q \in Seq(S), NEW m \in S, Pure(q),
         \A i \in 1 .. Len(m.data) : m.data[i] # 0
  PROVE  Pure(Append(q, m))
  <1>1. /\ Len(q) \in Nat /\ Len(Append(q, m)) = Len(q) + 1
        /\ Append(q, m)[Len(q) + 1] = m
        /\ \A k \in 1 .. Len(q) : Append(q, m)[k] = q[k]
    OBVIOUS
  <1> QED BY <1>1 DEF Pure

LEMMA PureTaken ==
  ASSUME NEW S, NEW q \in Seq(S), q # << >>, Pure(q)
  PROVE  Pure(Tail(q)) /\ \A i \in 1 .. Len(Head(q).data) : Head(q).data[i] # 0
  <1>1. /\ Len(q) \in Nat /\ Len(q) >= 1 /\ Head(q) = q[1]
        /\ Len(Tail(q)) = Len(q) - 1
        /\ \A k \in 1 .. Len(q) - 1 : Tail(q)[k] = q[k + 1]
    OBVIOUS
  <1> QED BY <1>1 DEF Pure

\* What WriteBytes says of the two channels.
ToNodeBytes ==
    /\ Pure(toNode)
    /\ Follows(toNode, node.done, bytes_sent, 0)
    /\ Holds("Stream_Data_Complete", toNode) => bytes_sent = total
    /\ node.complete => node.done = total

ToCheckerBytes ==
    /\ Empty(toChecker)
    /\ Holds("Datagram", toChecker) \/ pc = "returned" => node.complete

LEMMA WriteParts ==
  WriteBytes <=> skipped = << >> /\ collected = << >> /\ ToNodeBytes /\ ToCheckerBytes
  BY DEF WriteBytes, ToNodeBytes, ToCheckerBytes, Empty

\* The checker sends a message.
LEMMA CheckerSent ==
  ASSUME IInv, BytesInv, mode = "write", NEW m \in Writer, toNode' = Append(toNode, m),
         UNCHANGED <<total, node>>,
         bytes_sent' \in Nat, bytes_sent <= bytes_sent',
         Part(m.data, bytes_sent, bytes_sent'),
         \A i \in 1 .. Len(m.data) : m.data[i] # 0,
         bytes_sent' # bytes_sent => bytes_sent < total /\ m.mti # "Stream_Data_Complete",
         m.mti = "Stream_Data_Complete" => bytes_sent' = total
  PROVE  ToNodeBytes'
  <1>1. /\ toNode \in Seq(Writer) /\ node.done \in Nat /\ bytes_sent \in Nat /\ ToNodeBytes
        /\ total \in Nat
    BY WriteFacts, WriteParts
  <1>2. bytes_sent' # bytes_sent =>
           ~Holds("Stream_Data_Complete", toNode) /\ m.mti # "Stream_Data_Complete"
    BY <1>1 DEF ToNodeBytes
  <1>3. Follows(Append(toNode, m), node.done, bytes_sent', 0)
    BY <1>1, <1>2, FollowsAppended DEF ToNodeBytes
  <1>4. Pure(Append(toNode, m))
    BY <1>1, PureAppended DEF ToNodeBytes
  <1>5. Holds("Stream_Data_Complete", Append(toNode, m)) =>
           Holds("Stream_Data_Complete", toNode) \/ m.mti = "Stream_Data_Complete"
    BY <1>1, HoldsAppended
  <1>6. Holds("Stream_Data_Complete", Append(toNode, m)) => bytes_sent' = total
    BY <1>1, <1>2, <1>5 DEF ToNodeBytes
  <1> QED BY <1>1, <1>3, <1>4, <1>6 DEF ToNodeBytes

\* It takes one.
LEMMA CheckerTook ==
  ASSUME IInv, BytesInv, mode = "write", toChecker # << >>, toChecker' = Tail(toChecker),
         UNCHANGED node,
         pc' = "returned" => received.mti = "Datagram"
  PROVE  ToCheckerBytes' /\ received.data = << >>
  <1>1. toChecker \in Seq(AnyMessage) /\ ToCheckerBytes /\ received = Head(toChecker)
    BY WriteFacts, WriteParts DEF received
  <1>2. Empty(Tail(toChecker)) /\ Head(toChecker).data = << >>
    BY <1>1, EmptyTaken DEF ToCheckerBytes
  <1>3. /\ Holds("Datagram", Tail(toChecker)) => Holds("Datagram", toChecker)
        /\ Head(toChecker).mti = "Datagram" => Holds("Datagram", toChecker)
    BY <1>1, HoldsTaken
  <1> QED BY <1>1, <1>2, <1>3 DEF ToCheckerBytes

LEMMA WriteReplyBytes == IInv /\ BytesInv /\ mode = "write" /\ WaitForReply => BytesInv'
  <1> SUFFICES ASSUME IInv, BytesInv, mode = "write", WaitForReply PROVE BytesInv'
    OBVIOUS
  <1>1. /\ toChecker # << >> /\ toChecker' = Tail(toChecker) /\ pc = "reply"
        /\ UNCHANGED <<mode, total, node, collected, bytes_sent>>
    BY DEF WaitForReply, Takes
  <1>2. pc' = "returned" => received.mti = "Datagram"
    BY <1>1 DEF WaitForReply
  <1>3. ToCheckerBytes' /\ received.data = << >>
    BY <1>1, <1>2, CheckerTook
  <1>4. /\ WriteBytes /\ skipped = << >> /\ collected = << >> /\ ToNodeBytes
        /\ bytes_sent \in Nat
    BY WriteFacts, WriteParts
  <1>5. skipped' = << >>
    <2>1. << >> \o << >> = << >>
      OBVIOUS
    <2> QED BY <1>3, <1>4, <2>1 DEF WaitForReply
  <1>6. ToNodeBytes'
    <2>1. CASE received.mti = "Datagram"
      <3> DEFINE m == Other("Datagram_Received_OK")
      <3>1. toNode' = Append(toNode, m)
        BY <2>1 DEF WaitForReply
      <3>2. m \in Writer /\ m.data = << >> /\ m.mti # "Stream_Data_Complete"
        BY DEF Other, Writer
      <3>3. Part(m.data, bytes_sent, bytes_sent')
        BY <1>1, <1>4, <3>2, EmptyPart
      <3>4. \A i \in 1 .. Len(m.data) : m.data[i] # 0
        BY <3>2
      <3> HIDE DEF m
      <3> QED BY <1>1, <1>4, <3>1, <3>2, <3>3, <3>4, CheckerSent
    <2>2. CASE received.mti # "Datagram"
      BY <1>1, <1>4, <2>2 DEF WaitForReply, ToNodeBytes
    <2> QED BY <2>1, <2>2
  <1>7. WriteBytes'
    BY <1>1, <1>3, <1>4, <1>5, <1>6, WriteParts DEF WriteBytes, ToNodeBytes, ToCheckerBytes, Empty
  <1> QED BY <1>1, <1>7 DEF BytesInv

LEMMA OpenBytes == IInv /\ BytesInv /\ open_outbound_stream => BytesInv'
  <1> SUFFICES ASSUME IInv, BytesInv, open_outbound_stream PROVE BytesInv'
    OBVIOUS
  <1>1. /\ mode = "write" /\ mode' = mode
        /\ UNCHANGED <<total, node, collected, bytes_sent, skipped>>
    BY ModesApart DEF IInv, Types, open_outbound_stream, Takes
  <1>2. /\ WriteBytes /\ skipped = << >> /\ collected = << >> /\ ToNodeBytes
        /\ ToCheckerBytes /\ bytes_sent \in Nat
    BY <1>1, WriteFacts, WriteParts
  <1>3. CASE pc = "open" /\ toNode' = Append(toNode, Opening) /\ pc' = "opening"
             /\ toChecker' = toChecker
    <2>1. Opening \in Writer /\ Opening.data = << >> /\ Opening.mti # "Stream_Data_Complete"
      BY DEF Writer, Opening, Sized
    <2>2. Part(Opening.data, bytes_sent, bytes_sent')
      BY <1>1, <1>2, <2>1, EmptyPart
    <2>3. \A i \in 1 .. Len(Opening.data) : Opening.data[i] # 0
      BY <2>1
    <2>4. ToNodeBytes'
      BY <1>1, <1>2, <1>3, <2>1, <2>2, <2>3, CheckerSent
    <2>5. ToCheckerBytes'
      BY <1>1, <1>2, <1>3 DEF ToCheckerBytes
    <2>6. WriteBytes'
      BY <1>1, <1>2, <2>4, <2>5 DEF WriteBytes, ToNodeBytes, ToCheckerBytes, Empty
    <2> QED BY <1>1, <2>6 DEF BytesInv
  <1>4. CASE Takes("opening") /\ pc' # "returned" /\ toNode' = toNode
    <2>1. ToCheckerBytes'
      BY <1>1, <1>4, CheckerTook DEF Takes
    <2>2. ToNodeBytes'
      BY <1>1, <1>2, <1>4 DEF ToNodeBytes
    <2>3. WriteBytes'
      BY <1>1, <1>2, <2>1, <2>2 DEF WriteBytes, ToNodeBytes, ToCheckerBytes, Empty
    <2> QED BY <1>1, <2>3 DEF BytesInv
  <1>5. \/ /\ pc = "open" /\ toNode' = Append(toNode, Opening) /\ pc' = "opening"
           /\ toChecker' = toChecker
        \/ Takes("opening") /\ pc' # "returned" /\ toNode' = toNode
    BY DEF open_outbound_stream, Opening, Takes
  <1> QED BY <1>3, <1>4, <1>5

LEMMA ProceedBytes == IInv /\ BytesInv /\ _wait_for_proceed => BytesInv'
  <1> SUFFICES ASSUME IInv, BytesInv, _wait_for_proceed PROVE BytesInv'
    OBVIOUS
  <1>1. /\ mode = "write" /\ mode' = mode /\ toChecker # << >> /\ toChecker' = Tail(toChecker)
        /\ UNCHANGED <<total, node, collected, bytes_sent, skipped, toNode>>
        /\ pc' # "returned"
    BY ModesApart DEF IInv, Types, _wait_for_proceed, Takes
  <1>2. skipped = << >> /\ collected = << >> /\ ToNodeBytes
    BY <1>1, WriteFacts, WriteParts
  <1>3. ToCheckerBytes'
    BY <1>1, CheckerTook
  <1>4. ToNodeBytes'
    BY <1>1, <1>2 DEF ToNodeBytes
  <1>5. WriteBytes'
    BY <1>1, <1>2, <1>3, <1>4 DEF WriteBytes, ToNodeBytes, ToCheckerBytes, Empty
  <1> QED BY <1>1, <1>5 DEF BytesInv

LEMMA SendBytes == IInv /\ BytesInv /\ send_stream_data => BytesInv'
  <1> SUFFICES ASSUME IInv, BytesInv, send_stream_data PROVE BytesInv'
    OBVIOUS
  <1>1. /\ mode = "write" /\ mode' = mode /\ pc = "send" /\ pc' # "returned"
        /\ UNCHANGED <<total, node, collected, skipped, toChecker>>
    BY ModesApart DEF IInv, Types, send_stream_data
  <1>2. /\ Types /\ WriteBytes /\ skipped = << >> /\ collected = << >> /\ ToNodeBytes
        /\ ToCheckerBytes /\ bytes_sent \in Nat /\ total \in Nat /\ bytes_sent <= total
    BY <1>1, WriteFacts, WriteParts
  <1>3. ToNodeBytes'
    <2>1. CASE bytes_sent = total
      <3> DEFINE m == Other("Stream_Data_Complete")
      <3>1. toNode' = Append(toNode, m) /\ bytes_sent' = bytes_sent
        BY <2>1 DEF send_stream_data
      <3>2. m \in Writer /\ m.data = << >>
        BY DEF Other, Writer
      <3>3. Part(m.data, bytes_sent, bytes_sent')
        BY <1>2, <3>1, <3>2, EmptyPart
      <3>4. \A i \in 1 .. Len(m.data) : m.data[i] # 0
        BY <3>2
      <3> HIDE DEF m
      <3> QED BY <1>1, <1>2, <2>1, <3>1, <3>2, <3>3, <3>4, CheckerSent
    <2>2. CASE bytes_sent # total
      <3> DEFINE c == ChunkSize
                 d == Range1(bytes_sent + 1, bytes_sent + c)
                 m == Data(d)
      <3>1. toNode' = Append(toNode, m) /\ bytes_sent' = bytes_sent + c
        BY <2>2 DEF send_stream_data
      <3>2. bytes_sent < total /\ window < buf_size
        BY <1>1, <1>2, <2>2 DEF IInv, WriteCounts, Sending
      <3>3. c \in Nat /\ c <= total - bytes_sent
        BY <1>2, <3>2, ChunkFits
      <3> HIDE DEF c
      <3>4. d \in Seq(Nat) /\ Len(d) = c /\ \A i \in 1 .. c : d[i] = bytes_sent + i
        BY <1>2, <3>3, RangeIs
      <3> HIDE DEF d
      <3>5. m \in Writer /\ m.data = d /\ m.mti = "Stream_Data_Send"
        BY <3>4 DEF Data, Writer
      <3> HIDE DEF m
      <3>6. Part(m.data, bytes_sent, bytes_sent')
        BY <3>1, <3>4, <3>5 DEF Part
      <3>7. \A i \in 1 .. Len(m.data) : m.data[i] # 0
        <4>1. \A i \in 1 .. c : bytes_sent + i # 0
          BY <1>2, <3>3
        <4> QED BY <3>4, <3>5, <4>1
      <3>8. bytes_sent' \in Nat /\ bytes_sent <= bytes_sent'
        BY <1>2, <3>1, <3>3
      <3> QED BY <1>1, <3>1, <3>2, <3>5, <3>6, <3>7, <3>8, CheckerSent
    <2> QED BY <2>1, <2>2
  <1>4. ToCheckerBytes'
    BY <1>1, <1>2 DEF ToCheckerBytes
  <1>5. WriteBytes'
    BY <1>1, <1>2, <1>3, <1>4 DEF WriteBytes, ToNodeBytes, ToCheckerBytes, Empty
  <1> QED BY <1>1, <1>5 DEF BytesInv
\* The node sends a message that has no data.
LEMMA NodeSent ==
  ASSUME IInv, BytesInv, mode = "write", NEW m \in AnyMessage, m.data = << >>, NodeSends(m),
         UNCHANGED <<mode, total, pc, collected, skipped, bytes_sent>>,
         m.mti = "Datagram" => node'.complete,
         node.complete => node'.complete,
         ToNodeBytes'
  PROVE  BytesInv'
  <1>1. /\ skipped = << >> /\ collected = << >> /\ ToCheckerBytes
        /\ toChecker \in Seq(AnyMessage) /\ toChecker' = Append(toChecker, m)
    BY WriteFacts, WriteParts DEF NodeSends
  <1>2. Empty(Append(toChecker, m))
    BY <1>1, EmptyAppended DEF ToCheckerBytes
  <1>3. Holds("Datagram", Append(toChecker, m)) =>
           Holds("Datagram", toChecker) \/ m.mti = "Datagram"
    BY <1>1, HoldsAppended
  <1>4. ToCheckerBytes'
    BY <1>1, <1>2, <1>3 DEF ToCheckerBytes
  <1>5. WriteBytes'
    BY <1>1, <1>4 DEF WriteBytes, ToNodeBytes, ToCheckerBytes, Empty
  <1> QED BY <1>5 DEF BytesInv

LEMMA WriteRepliesBytes == IInv /\ BytesInv /\ mode = "write" /\ NodeReplies => BytesInv'
  <1> SUFFICES ASSUME IInv, BytesInv, mode = "write", NodeReplies PROVE BytesInv'
    OBVIOUS
  <1> DEFINE m == Other("Datagram")
  <1>1. /\ NodeSends(m) /\ node' = [node EXCEPT !.replied = TRUE] /\ node.complete
        /\ UNCHANGED <<mode, total, pc, collected, skipped, toNode, bytes_sent>>
    BY DEF NodeReplies
  <1>2. m \in AnyMessage /\ m.data = << >>
    BY OtherIs
  <1>3. node'.complete = node.complete /\ node'.done = node.done
    BY <1>1, WriteFacts DEF NodeState
  <1>4. ToNodeBytes'
    BY <1>1, <1>3, WriteFacts, WriteParts DEF ToNodeBytes
  <1> HIDE DEF m
  <1> QED BY <1>1, <1>2, <1>3, <1>4, NodeSent

LEMMA WriteTerminatesBytes ==
  IInv /\ BytesInv /\ mode = "write" /\ NodeTerminates => BytesInv'
  <1> SUFFICES ASSUME IInv, BytesInv, mode = "write", NodeTerminates PROVE BytesInv'
    OBVIOUS
  <1> DEFINE m == Other("Terminate_Due_To_Error")
  <1>1. /\ NodeSends(m)
        /\ node' = [node EXCEPT !.gaveUp = TRUE, !.open = FALSE, !.asked = TRUE]
        /\ UNCHANGED <<mode, total, pc, collected, skipped, toNode, bytes_sent>>
    BY DEF NodeTerminates
  <1>2. m \in AnyMessage /\ m.data = << >> /\ m.mti = "Terminate_Due_To_Error"
    BY OtherIs
  <1>3. node'.complete = node.complete /\ node'.done = node.done
    BY <1>1, WriteFacts DEF NodeState
  <1>4. ToNodeBytes'
    BY <1>1, <1>3, WriteFacts, WriteParts DEF ToNodeBytes
  <1> HIDE DEF m
  <1> QED BY <1>1, <1>2, <1>3, <1>4, NodeSent

\* What the node takes is what comes next, and the end of the stream comes last.
LEMMA WriteNodeReceivesBytes ==
  IInv /\ BytesInv /\ mode = "write" /\ NodeReceives => BytesInv'
  <1> SUFFICES ASSUME IInv, BytesInv, mode = "write", NodeReceives PROVE BytesInv'
    OBVIOUS
  <1> DEFINE q == toNode
             m == Head(toNode)
             a == node.done
             b == bytes_sent
             n == Len(m.data)
  <1>1. /\ q # << >> /\ toNode' = Tail(q) /\ q \in Seq(Writer) /\ node \in NodeState
        /\ UNCHANGED <<mode, total, pc, collected, skipped, bytes_sent>>
        /\ WriteBytes /\ a \in Nat /\ b \in Nat /\ b <= total /\ total \in Nat
    BY WriteFacts DEF NodeReceives
  <1>2. /\ skipped = << >> /\ collected = << >> /\ ToNodeBytes /\ ToCheckerBytes
    BY WriteFacts, WriteParts
  <1>3. m \in Writer
    BY <1>1
  <1>4. /\ m.data \in Seq(Nat) /\ n \in Nat
        /\ m.mti # "Stream_Data_Send" => n = 0
        /\ m.mti \in {"Stream_Initiate_Request", "Stream_Data_Complete",
                      "Datagram_Received_OK", "Stream_Data_Send"}
    <2>1. /\ m.data \in Seq(Nat)
          /\ m.mti # "Stream_Data_Send" => m.data = << >>
          /\ m.mti \in {"Stream_Initiate_Request", "Stream_Data_Complete",
                        "Datagram_Received_OK", "Stream_Data_Send"}
      BY <1>3, WriterIs
    <2> QED BY <2>1
  <1>5. Pure(q) /\ Follows(q, a, b, 0)
    BY <1>2 DEF ToNodeBytes
  <1>6. Pure(Tail(q)) /\ \A i \in 1 .. n : m.data[i] # 0
    BY <1>1, <1>5, PureTaken
  <1> HIDE DEF q, a, b
  <1>7. m.mti = "Stream_Data_Complete" => a = b
    <2>1. Head(q).mti = "Stream_Data_Complete" => a = b
      BY <1>1, <1>5, FollowsTaken
    <2> QED BY <2>1 DEF q
  <1>8. a + n <= b /\ Follows(Tail(q), a + n, b, 0)
    <2>1. PICK c \in Nat : Part(Head(q).data, a, c) /\ c <= b /\ Follows(Tail(q), c, b, 0)
      BY <1>1, <1>5, FollowsTaken
    <2>2. Part(m.data, a, c)
      BY <2>1 DEF q
    <2> HIDE DEF m
    <2>3. a \in Nat /\ c \in Nat /\ m.data \in Seq(Nat) /\ \A i \in 1 .. Len(m.data) : m.data[i] # 0
      BY <1>1, <1>4, <1>6, <2>1
    <2>4. c = a + n
      BY SMTT(60), <2>2, <2>3, PartIs
    <2> QED BY <2>1, <2>4
  <1>9. /\ Holds("Stream_Data_Complete", Tail(q)) => Holds("Stream_Data_Complete", q)
        /\ m.mti = "Stream_Data_Complete" => Holds("Stream_Data_Complete", q)
    <2>1. Head(q).mti = "Stream_Data_Complete" => Holds("Stream_Data_Complete", q)
      BY <1>1, HoldsTaken
    <2>2. Holds("Stream_Data_Complete", Tail(q)) => Holds("Stream_Data_Complete", q)
      BY <1>1, HoldsTaken
    <2> QED BY <2>1, <2>2 DEF q
  <1>10. /\ node'.done = a + n
         /\ node'.complete <=> (node.complete \/ m.mti = "Stream_Data_Complete")
         /\ \/ toChecker' = toChecker
            \/ \E m2 \in AnyMessage :
                  m2.data = << >> /\ m2.mti # "Datagram" /\ NodeSends(m2)
    <2>1. CASE m.mti = "Stream_Initiate_Request"
      <3>1. PICK bb \in Buffers \cup {0} :
              /\ node' = [node EXCEPT !.open = Smaller(bb, m.size) > 0,
                                      !.size = Smaller(bb, m.size),
                                      !.credit = Smaller(bb, m.size),
                                      !.gaveUp = Smaller(bb, m.size) = 0]
              /\ NodeSends(Sized("Stream_Initiate_Reply", Smaller(bb, m.size)))
        BY <2>1 DEF NodeReceives
      <3>2. m.size \in Nat
        BY <1>3, StreamAssumption DEF Writer, Opening, Sized
      <3>3. Smaller(bb, m.size) \in Nat
        BY <3>2, StreamAssumption DEF Smaller
      <3> DEFINE m2 == Sized("Stream_Initiate_Reply", Smaller(bb, m.size))
      <3>4. m2 \in AnyMessage /\ m2.data = << >> /\ m2.mti # "Datagram" /\ NodeSends(m2)
        BY <3>1, <3>3 DEF Sized, AnyMessage, Mtis
      <3>5. node'.done = node.done /\ node'.complete = node.complete
        BY <1>1, <3>1 DEF NodeState
      <3>6. n = 0 /\ m.mti # "Stream_Data_Complete"
        BY <1>4, <2>1
      <3> HIDE DEF m2, m, n
      <3>7. node'.done = a + n
        BY <1>1, <3>5, <3>6 DEF a
      <3> QED BY <3>4, <3>5, <3>6, <3>7
    <2>2. CASE m.mti = "Stream_Data_Send"
      <3> DEFINE left == node.credit - n
      <3>1. /\ node' = [node EXCEPT !.done = @ + n,
                                    !.credit = IF left = 0 THEN node.size ELSE left]
            /\ IF left = 0 /\ node.open
               THEN NodeSends(Other("Stream_Data_Proceed")) /\ proceeds' = proceeds + 1
               ELSE UNCHANGED <<toChecker, proceeds>>
        BY <2>2 DEF NodeReceives
      <3>2. node'.done = node.done + n /\ node'.complete = node.complete
        BY <1>1, <3>1 DEF NodeState
      <3>3. Other("Stream_Data_Proceed") \in AnyMessage
              /\ Other("Stream_Data_Proceed").data = << >>
              /\ Other("Stream_Data_Proceed").mti # "Datagram"
        BY OtherIs
      <3>4. m.mti # "Stream_Data_Complete"
        BY <2>2
      <3>5. node'.done = a + n
        BY <3>2 DEF a
      <3>6. \/ toChecker' = toChecker
            \/ NodeSends(Other("Stream_Data_Proceed"))
        BY <3>1
      <3> HIDE DEF m, n
      <3> QED BY <3>2, <3>3, <3>4, <3>5, <3>6
    <2>3. CASE m.mti = "Stream_Data_Complete"
      <3>1. node' = [node EXCEPT !.complete = TRUE] /\ toChecker' = toChecker
        BY <2>3 DEF NodeReceives
      <3>2. node'.done = node.done /\ node'.complete = TRUE
        BY <1>1, <3>1 DEF NodeState
      <3>3. n = 0
        BY <1>4, <2>3
      <3> HIDE DEF m, n
      <3>4. node'.done = a + n
        BY <1>1, <3>2, <3>3 DEF a
      <3> QED BY <2>3, <3>1, <3>2, <3>4
    <2>4. CASE m.mti = "Datagram_Received_OK"
      <3>1. node' = node /\ toChecker' = toChecker
        BY <2>4 DEF NodeReceives
      <3>2. n = 0 /\ m.mti # "Stream_Data_Complete"
        BY <1>4, <2>4
      <3> HIDE DEF m, n
      <3>3. node'.done = a + n
        BY <1>1, <3>1, <3>2 DEF a
      <3> QED BY <3>1, <3>2, <3>3
    <2> QED BY <1>4, <2>1, <2>2, <2>3, <2>4
  <1> HIDE DEF m, n
  <1>11. node'.complete => node'.done = total'
    <2> SUFFICES ASSUME node'.complete PROVE a + n = total
      BY <1>1, <1>10
    <2>1. CASE node.complete
      <3>1. a = total
        BY <1>2, <2>1 DEF ToNodeBytes, a
      <3> QED BY <1>1, <1>4, <1>8, <3>1
    <2>2. CASE m.mti = "Stream_Data_Complete"
      <3>1. b = total
        BY <1>2, <1>9, <2>2 DEF ToNodeBytes, q, b
      <3> QED BY <1>1, <1>4, <1>7, <2>2, <3>1
    <2> QED BY <1>10, <2>1, <2>2
  <1>12. ToNodeBytes'
    <2>1. Pure(toNode') /\ Follows(toNode', node'.done, bytes_sent', 0)
      BY <1>1, <1>6, <1>8, <1>10 DEF b
    <2>2. Holds("Stream_Data_Complete", toNode') => bytes_sent' = total'
      BY <1>1, <1>2, <1>9 DEF ToNodeBytes, q
    <2> QED BY <1>11, <2>1, <2>2 DEF ToNodeBytes
  <1>13. CASE toChecker' = toChecker
    <2>1. ToCheckerBytes'
      BY <1>1, <1>2, <1>10, <1>13 DEF ToCheckerBytes
    <2>2. WriteBytes'
      BY <1>1, <1>2, <1>12, <2>1 DEF WriteBytes, ToNodeBytes, ToCheckerBytes, Empty
    <2> QED BY <1>1, <2>2 DEF BytesInv
  <1>14. ASSUME NEW m2 \in AnyMessage, m2.data = << >>, m2.mti # "Datagram", NodeSends(m2)
         PROVE  BytesInv'
    BY <1>1, <1>10, <1>12, <1>14, NodeSent
  <1> QED BY <1>10, <1>13, <1>14

-----------------------------------------------------------------------------
(* Theorems. *)

LEMMA TimeoutBytes == IInv /\ BytesInv /\ Timeout => BytesInv'
  <1> SUFFICES ASSUME IInv, BytesInv, Timeout PROVE BytesInv'
    OBVIOUS
  <1>1. /\ pc' = "raised"
        /\ UNCHANGED <<mode, total, collected, bytes_sent, node, toNode, toChecker,
                       skipped, foreign>>
    BY DEF Timeout
  <1>2. Taken' = Taken
    BY <1>1 DEF Taken
  <1>3. ReadBytes => ReadBytes'
    BY <1>1, <1>2 DEF ReadBytes
  <1>4. WriteBytes => WriteBytes'
    BY <1>1 DEF WriteBytes
  <1> QED BY <1>1, <1>3, <1>4 DEF BytesInv

LEMMA StepBytes == IInv /\ BytesInv /\ [Next]_vars => BytesInv'
  <1> SUFFICES ASSUME IInv, BytesInv, [Next]_vars PROVE BytesInv'
    OBVIOUS
  <1>1. mode \in {"read", "write"}
    BY ModesApart DEF IInv
  <1>2. CASE Checker
    BY <1>1, <1>2, AcceptBytes, ReadReplyBytes, WriteReplyBytes, ReceiveBytes, OpenBytes,
       SendBytes, ProceedBytes, TimeoutBytes DEF Checker
  <1>3. CASE Node
    BY <1>1, <1>3, NodeAsksBytes, ReadRepliesBytes, WriteRepliesBytes, NodeSendsDataBytes,
       ReadNodeReceivesBytes, WriteNodeReceivesBytes DEF Node
  <1>4. CASE NodeTerminates
    BY <1>1, <1>4, ReadTerminatesBytes, WriteTerminatesBytes
  <1>5. CASE ForeignData
    BY <1>5, ForeignDataBytes
  <1>6. CASE UNCHANGED vars
    <2>1. Taken' = Taken
      BY <1>6 DEF Taken, vars
    <2>2. ReadBytes => ReadBytes'
      BY <1>6, <2>1 DEF ReadBytes, Unaccepted, vars
    <2>3. WriteBytes => WriteBytes'
      BY <1>6 DEF WriteBytes, vars
    <2> QED BY <1>6, <2>2, <2>3 DEF BytesInv, vars
  <1> QED BY <1>2, <1>3, <1>4, <1>5, <1>6 DEF Next, Finished

LEMMA InitBytes == Init => BytesInv
  <1> SUFFICES ASSUME Init PROVE BytesInv
    OBVIOUS
  <1>1. Taken = << >> /\ << >> \in Seq(Nat)
    BY DEF Init, Taken
  <1>2. Count(Taken) = 0 /\ InOrder(Taken)
    BY <1>1, CountNothing
  <1>3. Follows(<< >>, 0, 0, 0)
    BY FollowsNothing
  <1>4. Len(<< >>) = 0
    OBVIOUS
  <1>5. total \in Nat /\ pc \in {"accept", "open"}
    BY StreamAssumption DEF Init
  <1>6. ReadBytes
    BY <1>1, <1>2, <1>3, <1>4, <1>5 DEF Init, ReadBytes, Unaccepted, Bare, Holds
  <1>7. WriteBytes
    BY <1>3, <1>4, <1>5 DEF Init, WriteBytes, Pure, Holds
  <1> QED BY <1>6, <1>7 DEF BytesInv

\* For windows, messages and transfers of every size: what receive_stream_data collects is
\* what the node sent, in order and without a gap, after what was thrown away while the
\* checker waited for the reply datagram, and whoever returns has all of it; and when a
\* write returns the node has every byte.
THEOREM NothingLost == Spec => []NothingLostOrReordered
  <1>1. Init => IInv /\ BytesInv
    BY InitInvariant, InitBytes
  <1>2. IInv /\ BytesInv /\ [Next]_vars => (IInv /\ BytesInv)'
    BY StepInvariant, StepBytes
  <1>3. IInv /\ BytesInv => NothingLostOrReordered
    <2> SUFFICES ASSUME IInv, BytesInv PROVE NothingLostOrReordered
      OBVIOUS
    <2>1. CASE mode = "read"
      BY <2>1 DEF BytesInv, ReadBytes, Taken, NothingLostOrReordered
    <2>2. CASE mode = "write"
      <3>1. << >> \o << >> = << >>
        OBVIOUS
      <3> QED BY <2>2, <3>1, CountNothing DEF BytesInv, WriteBytes, NothingLostOrReordered
    <2> QED BY <2>1, <2>2, ModesApart DEF IInv
  <1> QED BY <1>1, <1>2, <1>3, PTL DEF Spec

=============================================================================
