--------------------------- MODULE StreamTransfer ---------------------------
(***************************************************************************)
(* The windows of a stream: stream_utils.py on one side and a node that    *)
(* follows the stream standard on the other.  In a "read" the node is the  *)
(* source, in a "write" the checker.  Bytes are numbered from 1; 0 stands  *)
(* for a byte of another stream from the same node.                        *)
(*                                                                         *)
(* A timeout of the checker is one that the node cannot avoid: nothing is  *)
(* on its way and the node has nothing to send.                            *)
(***************************************************************************)
EXTENDS Integers, Sequences, FiniteSets

CONSTANTS
    Modes,      \* "read", "write"
    Buffers,    \* window sizes that the node proposes, or accepts
    MaxBuffer,  \* the checker's own limit, 256 in the code
    Chunk,      \* bytes in one message of the checker, at most; 64 in the code
    Totals,     \* lengths of what is transferred
    MaxForeign  \* bound: messages of another stream

ASSUME StreamAssumption ==
    /\ Modes \subseteq {"read", "write"}
    /\ Buffers \subseteq Nat \ {0} /\ Buffers # {}
    /\ MaxBuffer \in Nat \ {0} /\ Chunk \in Nat \ {0}
    /\ Totals \subseteq Nat
    /\ MaxForeign \in Nat

VARIABLES
    mode, total,
    pc,         \* the loop that the checker is in
    buf_size,   \* the window, once it is negotiated
    collected,  \* bytes collected
    bytes_sent,
    window,     \* bytes_since_proceed, or window_sent
    node,       \* the node: what it has sent or received, its window, its part done
    toNode, toChecker,
    skipped,    \* bytes thrown away while another message was waited for
    proceeds,   \* Proceeds sent
    foreign     \* messages of another stream, for MaxForeign

vars == <<mode, total, pc, buf_size, collected, bytes_sent, window, node, toNode,
          toChecker, skipped, proceeds, foreign>>

Smaller(a, b) == IF a < b THEN a ELSE b
Range1(from, upTo) == [k \in 1 .. (upTo - from + 1) |-> from + k - 1]
Data(payload) == [mti |-> "Stream_Data_Send", data |-> payload, size |-> 0]
Other(mti) == [mti |-> mti, data |-> << >>, size |-> 0]
Sized(mti, n) == [mti |-> mti, data |-> << >>, size |-> n]

Ended == pc \in {"returned", "raised"}

-----------------------------------------------------------------------------
(* The checker reads. *)

\* Mutant: the window is full one byte later.
Full_later(n) == n > buf_size

\* bytes_since_proceed >= buf_size
Full(n) == n >= buf_size

\* Mutant: the count goes on after a Proceed.
Counted_on(n) == n

\* The excess over the window is forgotten.
Counted(n) == IF Full(n) THEN 0 ELSE n

\* The loop "at" takes the next message.
Takes(at) == pc = at /\ toChecker # << >> /\ toChecker' = Tail(toChecker)
received == Head(toChecker)

\* accept_incoming_stream
accept_incoming_stream ==
    /\ Takes("accept")
    /\ IF received.mti = "Stream_Initiate_Request"
       THEN /\ buf_size' = Smaller(received.size, MaxBuffer)
            /\ toNode' = Append(toNode, Sized("Stream_Initiate_Reply", buf_size'))
            /\ pc' = "reply"
       ELSE /\ pc' = IF received.mti = "Terminate_Due_To_Error" THEN "raised" ELSE pc
            /\ UNCHANGED <<buf_size, toNode>>
    /\ UNCHANGED <<mode, total, collected, bytes_sent, window, node, skipped, proceeds,
                   foreign>>

\* _wait_for_read_stream_reply and _wait_for_write_stream_reply: everything but the
\* reply is thrown away.
WaitForReply ==
    /\ Takes("reply")
    /\ IF received.mti = "Datagram"
       THEN /\ pc' = IF mode = "read" THEN "receive" ELSE "returned"
            /\ toNode' = Append(toNode, Other("Datagram_Received_OK"))
            /\ UNCHANGED skipped
       ELSE /\ skipped' = skipped \o received.data
            /\ UNCHANGED <<pc, toNode>>
    /\ UNCHANGED <<mode, total, buf_size, collected, bytes_sent, window, node, proceeds,
                   foreign>>

\* Mutant: the message that fills the window is not collected.
Extended_notTheLast ==
    IF Full(window + Len(received.data)) THEN collected ELSE collected \o received.data

Extended == collected \o received.data

\* receive_stream_data: neither stream ID is looked at.
receive_stream_data ==
    /\ Takes("receive")
    /\ collected' = Extended
    /\ CASE received.mti = "Stream_Data_Send" ->
              /\ window' = Counted(window + Len(received.data))
              /\ IF Full(window + Len(received.data))
                 THEN /\ toNode' = Append(toNode, Other("Stream_Data_Proceed"))
                      /\ proceeds' = proceeds + 1
                 ELSE UNCHANGED <<toNode, proceeds>>
              /\ UNCHANGED pc
         [] received.mti = "Stream_Data_Complete" ->
              pc' = "returned" /\ UNCHANGED <<window, toNode, proceeds>>
         [] received.mti = "Terminate_Due_To_Error" ->
              pc' = "raised" /\ UNCHANGED <<window, toNode, proceeds>>
         [] OTHER -> UNCHANGED <<pc, window, toNode, proceeds>>
    /\ UNCHANGED <<mode, total, buf_size, bytes_sent, node, skipped, foreign>>

-----------------------------------------------------------------------------
(* The checker writes. *)

\* open_outbound_stream: a size of zero is a refusal.
open_outbound_stream ==
    \/ /\ pc = "open"
       /\ toNode' = Append(toNode, Sized("Stream_Initiate_Request", MaxBuffer))
       /\ pc' = "opening"
       /\ UNCHANGED <<mode, total, buf_size, collected, bytes_sent, window, node,
                      toChecker, skipped, proceeds, foreign>>
    \/ /\ Takes("opening")
       /\ IF received.mti = "Stream_Initiate_Reply"
          THEN /\ pc' = IF received.size = 0 THEN "raised" ELSE "send"
               /\ buf_size' = received.size
          ELSE UNCHANGED <<pc, buf_size>>
       /\ UNCHANGED <<mode, total, collected, bytes_sent, window, node, toNode, skipped,
                      proceeds, foreign>>

\* Mutant: the window is not looked at.
ChunkSize_whole == Smaller(total - bytes_sent, Chunk)

ChunkSize == Smaller(Smaller(buf_size - window, total - bytes_sent), Chunk)

\* send_stream_data and close_stream: one message, or the last one.
send_stream_data ==
    /\ pc = "send"
    /\ IF bytes_sent = total
       THEN /\ toNode' = Append(toNode, Other("Stream_Data_Complete"))
            /\ pc' = "reply"
            /\ UNCHANGED <<bytes_sent, window>>
       ELSE /\ toNode' = Append(toNode,
                                Data(Range1(bytes_sent + 1, bytes_sent + ChunkSize)))
            /\ bytes_sent' = bytes_sent + ChunkSize
            /\ window' = IF Full(window + ChunkSize) THEN 0 ELSE window + ChunkSize
            /\ pc' = IF Full(window + ChunkSize) /\ bytes_sent' < total
                     THEN "proceed" ELSE pc
    /\ UNCHANGED <<mode, total, buf_size, collected, node, toChecker, skipped, proceeds,
                   foreign>>

\* _wait_for_proceed: the stream IDs are not looked at.
_wait_for_proceed ==
    /\ Takes("proceed")
    /\ pc' = CASE received.mti = "Stream_Data_Proceed" -> "send"
               [] received.mti = "Terminate_Due_To_Error" -> "raised"
               [] OTHER -> pc
    /\ UNCHANGED <<mode, total, buf_size, collected, bytes_sent, window, node, toNode,
                   skipped, proceeds, foreign>>

-----------------------------------------------------------------------------
(* The node.  "credit" is what it may still send, or what it can still     *)
(* take; below zero its window is overrun.  "ahead": it has sent data      *)
(* before its reply datagram.                                              *)

NodeSends(m) == toChecker' = Append(toChecker, m)

NodeAsks ==
    /\ mode = "read" /\ ~node.asked
    /\ \E b \in Buffers : NodeSends(Sized("Stream_Initiate_Request", b))
    /\ node' = [node EXCEPT !.asked = TRUE]
    /\ UNCHANGED <<mode, total, pc, buf_size, collected, bytes_sent, window, toNode,
                   skipped, proceeds, foreign>>

\* The reply datagram and the data are in no order that the node must keep.
NodeReplies ==
    /\ node.open /\ ~node.replied
    /\ mode = "write" => node.complete
    /\ NodeSends(Other("Datagram"))
    /\ node' = [node EXCEPT !.replied = TRUE]
    /\ UNCHANGED <<mode, total, pc, buf_size, collected, bytes_sent, window, toNode,
                   skipped, proceeds, foreign>>

NodeSendsData ==
    /\ mode = "read" /\ node.open /\ ~node.complete
    /\ \/ \E n \in 1 .. Smaller(node.credit, total - node.done) :
             /\ NodeSends(Data(Range1(node.done + 1, node.done + n)))
             /\ node' = [node EXCEPT !.done = @ + n, !.credit = @ - n,
                                      !.ahead = @ \/ ~node.replied]
       \/ /\ node.done = total
          /\ NodeSends(Other("Stream_Data_Complete"))
          /\ node' = [node EXCEPT !.complete = TRUE, !.ahead = @ \/ ~node.replied]
    /\ UNCHANGED <<mode, total, pc, buf_size, collected, bytes_sent, window, toNode,
                   skipped, proceeds, foreign>>

\* It gives up, once.
NodeTerminates ==
    /\ node.open \/ pc = "accept"
    /\ ~node.gaveUp /\ ~node.complete
    /\ NodeSends(Other("Terminate_Due_To_Error"))
    /\ node' = [node EXCEPT !.gaveUp = TRUE, !.open = FALSE, !.asked = TRUE]
    /\ UNCHANGED <<mode, total, pc, buf_size, collected, bytes_sent, window, toNode,
                   skipped, proceeds, foreign>>

\* As a destination it sends a Proceed for each window that it has taken.
NodeReceives ==
    /\ toNode # << >>
    /\ toNode' = Tail(toNode)
    /\ LET m == Head(toNode)
           left == node.credit - Len(m.data)
       IN CASE m.mti = "Stream_Initiate_Reply" ->
                 /\ node' = [node EXCEPT !.open = ~node.gaveUp, !.size = m.size,
                                         !.credit = m.size]
                 /\ UNCHANGED <<toChecker, proceeds>>
            [] m.mti = "Stream_Initiate_Request" ->
                 /\ \E b \in Buffers \cup {0} :
                       LET size == Smaller(b, m.size)
                       IN /\ node' = [node EXCEPT !.open = size > 0, !.size = size,
                                                  !.credit = size, !.gaveUp = size = 0]
                          /\ NodeSends(Sized("Stream_Initiate_Reply", size))
                 /\ UNCHANGED proceeds
            [] m.mti = "Stream_Data_Proceed" ->
                 /\ node' = [node EXCEPT !.credit = @ + node.size]
                 /\ UNCHANGED <<toChecker, proceeds>>
            [] m.mti = "Stream_Data_Send" ->
                 /\ node' = [node EXCEPT !.done = @ + Len(m.data),
                                         !.credit = IF left = 0 THEN node.size ELSE left]
                 /\ IF left = 0 /\ node.open
                    THEN NodeSends(Other("Stream_Data_Proceed")) /\ proceeds' = proceeds + 1
                    ELSE UNCHANGED <<toChecker, proceeds>>
            [] m.mti = "Stream_Data_Complete" ->
                 /\ node' = [node EXCEPT !.complete = TRUE]
                 /\ UNCHANGED <<toChecker, proceeds>>
            [] m.mti = "Datagram_Received_OK" -> UNCHANGED <<node, toChecker, proceeds>>
    /\ UNCHANGED <<mode, total, pc, buf_size, collected, bytes_sent, window, skipped,
                   foreign>>

\* Another stream from the node to the checker, left over from an earlier read.
ForeignData ==
    /\ foreign < MaxForeign
    /\ pc \in {"accept", "reply", "receive"} /\ mode = "read"
    /\ \E m \in {Data(<<0>>), Other("Stream_Data_Complete")} : NodeSends(m)
    /\ foreign' = foreign + 1
    /\ UNCHANGED <<mode, total, pc, buf_size, collected, bytes_sent, window, node,
                   toNode, skipped, proceeds>>

-----------------------------------------------------------------------------

Init ==
    /\ mode \in Modes
    /\ total \in Totals
    /\ pc = IF mode = "read" THEN "accept" ELSE "open"
    /\ buf_size = 0
    /\ collected = << >>
    /\ bytes_sent = 0
    /\ window = 0
    /\ node = [asked |-> FALSE, replied |-> FALSE, open |-> FALSE, size |-> 0,
               credit |-> 0, done |-> 0, complete |-> FALSE, gaveUp |-> FALSE,
               ahead |-> FALSE]
    /\ toNode = << >>
    /\ toChecker = << >>
    /\ skipped = << >>
    /\ proceeds = 0
    /\ foreign = 0

Node == NodeAsks \/ NodeReplies \/ NodeSendsData \/ NodeReceives

\* Node is enabled: the node has something to ask, to answer, to send or to take.
NodeActs ==
    \/ toNode # << >>
    \/ mode = "read" /\ ~node.asked
    \/ node.open /\ ~node.replied /\ (mode = "write" => node.complete)
    \/ /\ mode = "read" /\ node.open /\ ~node.complete
       /\ node.done = total \/ node.credit > 0

\* Mutant: no time limit for data.
Timeout_notReceiving ==
    /\ ~Ended /\ pc \notin {"open", "send", "receive"}
    /\ toChecker = << >>
    /\ ~NodeActs
    /\ pc' = "raised"
    /\ UNCHANGED <<mode, total, buf_size, collected, bytes_sent, window, node, toNode,
                   toChecker, skipped, proceeds, foreign>>

\* getMessage raises Empty.
Timeout ==
    /\ ~Ended /\ pc \notin {"open", "send"}
    /\ toChecker = << >>
    /\ ~NodeActs
    /\ pc' = "raised"
    /\ UNCHANGED <<mode, total, buf_size, collected, bytes_sent, window, node, toNode,
                   toChecker, skipped, proceeds, foreign>>

Checker ==
    \/ accept_incoming_stream \/ WaitForReply \/ receive_stream_data
    \/ open_outbound_stream \/ send_stream_data \/ _wait_for_proceed
    \/ Timeout

Finished == Ended /\ UNCHANGED vars

Next == Checker \/ Node \/ NodeTerminates \/ ForeignData \/ Finished

Spec == Init /\ [][Next]_vars
FairSpec == Spec /\ WF_vars(Checker) /\ WF_vars(Node)

-----------------------------------------------------------------------------
(* Properties. *)

Messages(channel) == \A k \in 1 .. Len(channel) : channel[k].data \in Seq(Nat)

TypeOK ==
    /\ mode \in Modes /\ total \in Totals
    /\ buf_size \in 0 .. MaxBuffer
    /\ bytes_sent \in 0 .. total
    /\ window \in 0 .. buf_size
    /\ Messages(toNode) /\ Messages(toChecker)

\* The places of the stream's own bytes among the first n of s.
Own(s, n) == {i \in 1 .. n : s[i] # 0}
Count(s) == Cardinality(Own(s, Len(s)))

\* They are bytes 1, 2, ... of the stream.
InOrder(s) == \A i \in Own(s, Len(s)) : s[i] = Cardinality(Own(s, i))

\* What the checker collects is what was sent, in order and without a gap, after what
\* it threw away while it waited for the reply datagram, and between bytes of
\* another stream; a transfer that returns without either has all of it.
NothingLostOrReordered ==
    /\ InOrder(skipped \o collected)
    /\ pc = "returned" /\ mode = "read" /\ foreign = 0
          => Count(skipped \o collected) = total
    /\ pc = "returned" /\ mode = "write" => node.done = total

\* The checker never sends more than the window has left, and never asks for more
\* than it has taken.
WindowKept ==
    /\ node.credit >= 0
    /\ mode = "read" => proceeds * buf_size <= Len(collected)

\* Checker and node never both wait: a timeout comes only after the node has given
\* up, or where it did not send its reply datagram before the stream.
NoNeedlessTimeout ==
    pc = "raised" => node.gaveUp \/ node.ahead

\* Every transfer returns or raises.
EveryTransferEnds == <>Ended

=============================================================================
