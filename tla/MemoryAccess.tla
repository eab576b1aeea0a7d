---------------------------- MODULE MemoryAccess ----------------------------
(***************************************************************************)
(* src/openlcb/memoryservice.py on top of the datagram service: users ask  *)
(* for memory reads, writes and the length of a space; remote nodes answer *)
(* each request datagram, and send datagrams of their own.  After an       *)
(* outage the service repeats its outstanding datagram, whether or not the *)
(* remote has it: what holds only as long as no remote has got one twice   *)
(* says so (repeated).                                                     *)
(***************************************************************************)
EXTENDS Integers, FiniteSets, DatagramService, SequencesExt

CONSTANTS
    Nodes,        \* the remote nodes
    Operations,   \* what users ask for: "read", "write", "length"
    Answers,      \* what remotes do with a request: "reply", "error" (a reply
                  \* that says so), "done" (a write acknowledged for good with
                  \* the datagram) and "rejected" (the datagram)
    Others,       \* datagrams of a remote that answer no request:
                  \* "Unknown" (protocol), "Short" and "Unexpected" (command)
    MayKeep,      \* whether remotes may keep what they have in an outage
    MaxRequests,  \* bound: requests of the users
    MaxOthers,    \* bound: datagrams out of Others
    MaxOutages    \* bound: link losses

UserRequest == [op : Operations, node : Nodes, number : Nat]
Memo == [dest : Nodes, request : UserRequest]

ASSUME ConstantsAssumption ==
    /\ Operations \subseteq {"read", "write", "length"}
    /\ Answers \subseteq {"reply", "error", "done", "rejected"}
    /\ Others \subseteq {"Unknown", "Short", "Unexpected"}
    /\ MayKeep \in BOOLEAN
    /\ MaxRequests \in Nat
    /\ MaxOthers \in Nat
    /\ MaxOutages \in Nat
    /\ None \notin UserRequest
    /\ None \notin Memo

VARIABLES
    service,    \* the DatagramService
    readMemos,
    writeMemos,
    spaceLengthCallback,  \* the request whose callback it is, or None
    linkUp,
    alive,      \* no handler has raised an exception
    wire,       \* messages to the remotes, not yet handled
    arriving,   \* messages from each remote, not yet received
    owed,       \* datagrams from each remote that it has no reply to
    requests,   \* every request made
    called,     \* every callback: [request, answer, of], "of" being the
                \* request that the remote answered
    repeated,   \* a datagram was sent again to a remote that had it already
    others,     \* for MaxOthers
    outages     \* for MaxOutages

vars == <<service, readMemos, writeMemos, spaceLengthCallback, linkUp, alive, wire,
          arriving, owed, requests, called, repeated, others, outages>>

-----------------------------------------------------------------------------
(* The handlers' effects.  "m" is the state of MemoryService and of the    *)
(* service below it.                                                       *)

State == [dg |-> service, reads |-> readMemos, writes |-> writeMemos,
          length |-> spaceLengthCallback, called |-> called]

SendRequest(m, q) ==
    [m EXCEPT !.dg = sendDatagram(@, [dest |-> q.node, request |-> q])]

requestMemoryReadNext(m, q) == SendRequest(m, q)

\* Mutant: a read is sent without waiting for the one before.
requestMemoryRead_atOnce(m, q) ==
    requestMemoryReadNext([m EXCEPT !.reads = Append(@, q)], q)

requestMemoryRead(m, q) ==
    LET m1 == [m EXCEPT !.reads = Append(@, q)]
    IN IF Len(m1.reads) = 1 THEN requestMemoryReadNext(m1, q) ELSE m1

requestMemoryWrite(m, q) == SendRequest([m EXCEPT !.writes = Append(@, q)], q)

\* Overlapping calls are logged and dropped.
requestSpaceLength(m, q) ==
    IF m.length # None THEN m ELSE SendRequest([m EXCEPT !.length = q], q)

Request(m, q) ==
    CASE q.op = "read" -> requestMemoryRead(m, q)
      [] q.op = "write" -> requestMemoryWrite(m, q)
      [] q.op = "length" -> requestSpaceLength(m, q)

\* The callback of request q may make another one, "then".
Callback(m, q, dg, then) ==
    LET m1 == [m EXCEPT !.called = Append(@, [request |-> q, answer |-> dg.answer,
                                              of |-> dg.request])]
    IN IF then = None THEN m1 ELSE Request(m1, then)

\* Mutant: the memo last queued for the node is taken.
FirstFor_last(memos, r) == SelectLastInSeq(memos, LAMBDA q : q.node = r)

\* The index of the first memo for node r, or 0.
FirstFor(memos, r) == SelectInSeq(memos, LAMBDA q : q.node = r)

\* Mutant: the next read of the queue is not sent.
ReadReply_stuck(m, r, dg, then) ==
    LET k == FirstFor(m.reads, r)
    IN IF k = 0 THEN m
       ELSE Callback([m EXCEPT !.reads = RemoveAt(@, k)], m.reads[k], dg, then)

\* The next read is requested before the reply's callback is called.
ReadReply(m, r, dg, then) ==
    LET k == FirstFor(m.reads, r)
        m1 == [m EXCEPT !.reads = RemoveAt(@, k)]
        m2 == IF m1.reads = << >> THEN m1
              ELSE requestMemoryReadNext(m1, Head(m1.reads))
    IN IF k = 0 THEN m ELSE Callback(m2, m.reads[k], dg, then)

WriteReply(m, r, dg, then) ==
    LET k == FirstFor(m.writes, r)
    IN IF k = 0 THEN m
       ELSE Callback([m EXCEPT !.writes = RemoveAt(@, k)], m.writes[k], dg, then)

LengthReply(m, dg, then) ==
    IF m.length = None THEN m
    ELSE [Callback(m, m.length, dg, then) EXCEPT !.length = None]

Acknowledge(m, r) == [m EXCEPT !.dg = positiveReplyToDatagram(@, r)]
Refuse(m, r) == [m EXCEPT !.dg = negativeReplyToDatagram(@, r)]

\* Mutant: the listener leaves the reply to a datagram that is too short to
\* the caller, but says that it has replied.
datagramReceivedListener_silent(m, r, dg, then) ==
    CASE dg.content \in {"Unknown"} -> Refuse(m, r)
      [] dg.content = "Short" -> m
      [] dg.content = "Unexpected" -> Acknowledge(m, r)
      [] dg.content = "read" -> ReadReply(Acknowledge(m, r), r, dg, then)
      [] dg.content = "write" -> WriteReply(Acknowledge(m, r), r, dg, then)
      [] dg.content = "length" -> LengthReply(Acknowledge(m, r), dg, then)

\* A datagram of another protocol is refused by DatagramService.fireListeners,
\* for want of a listener that replies.
datagramReceivedListener(m, r, dg, then) ==
    CASE dg.content \in {"Unknown", "Short"} -> Refuse(m, r)
      [] dg.content = "Unexpected" -> Acknowledge(m, r)
      [] dg.content = "read" -> ReadReply(Acknowledge(m, r), r, dg, then)
      [] dg.content = "write" -> WriteReply(Acknowledge(m, r), r, dg, then)
      [] dg.content = "length" -> LengthReply(Acknowledge(m, r), dg, then)

-----------------------------------------------------------------------------
Finish(m) ==
    /\ service' = [m.dg EXCEPT !.sent = << >>]
    /\ readMemos' = m.reads
    /\ writeMemos' = m.writes
    /\ spaceLengthCallback' = m.length
    /\ called' = m.called

Deliver(m) == wire' = IF linkUp THEN wire \o m.dg.sent ELSE wire

Init ==
    /\ service = NewService
    /\ readMemos = << >>
    /\ writeMemos = << >>
    /\ spaceLengthCallback = None
    /\ linkUp = TRUE
    /\ alive = TRUE
    /\ wire = << >>
    /\ arriving = [r \in Nodes |-> << >>]
    /\ owed = [r \in Nodes |-> 0]
    /\ requests = << >>
    /\ called = << >>
    /\ repeated = FALSE
    /\ others = 0
    /\ outages = 0

NewRequests ==
    IF Len(requests) < MaxRequests
    THEN [op : Operations, node : Nodes, number : {Len(requests) + 1}]
    ELSE {}

Ask == \E q \in NewRequests :
    LET m == Request(State, q) IN
    /\ requests' = Append(requests, q)
    /\ Finish(m)
    /\ Deliver(m)
    /\ UNCHANGED <<linkUp, alive, arriving, owed, repeated, others, outages>>

Took == [kind |-> "Datagram_Received_OK"]
Refused == [kind |-> "Datagram_Rejected"]
ReplyDatagram(content, answer, q) ==
    [kind |-> "Datagram", content |-> content, answer |-> answer, request |-> q]

Datagrams(messages) == {k \in 1 .. Len(messages) : messages[k].kind = "Datagram"}

Sends(r, messages) ==
    /\ arriving' = [arriving EXCEPT ![r] = @ \o messages]
    /\ owed' = [owed EXCEPT ![r] = @ + Cardinality(Datagrams(messages))]

\* The oldest message to the remote.
taken(r) == wire[FirstFor(wire, r)]

\* What a remote does in an outage shows in what LinkRestarted finds left.
RemoteTakes(r) ==
    /\ linkUp
    /\ FirstFor(wire, r) # 0
    /\ wire' = RemoveAt(wire, FirstFor(wire, r))
    /\ UNCHANGED <<service, readMemos, writeMemos, spaceLengthCallback, linkUp, alive,
                   requests, called, repeated, others, outages>>

RemoteAnswers(r) == \E answer \in Answers :
    LET q == taken(r).memo.request IN
    /\ RemoteTakes(r)
    /\ taken(r).kind = "Datagram"
    /\ \/ /\ answer \in {"reply", "error"}
          /\ Sends(r, <<Took, ReplyDatagram(q.op, answer, q)>>)
       \/ answer = "done" /\ q.op = "write" /\ Sends(r, <<Took>>)
       \/ answer = "rejected" /\ Sends(r, <<Refused>>)

\* A reply to a datagram of the remote.
RemoteHearsReply(r) ==
    /\ RemoteTakes(r)
    /\ taken(r).kind # "Datagram"
    /\ UNCHANGED <<arriving, owed>>

RemoteSendsOther(r) == \E content \in Others :
    /\ linkUp
    /\ others < MaxOthers
    /\ others' = others + 1
    /\ Sends(r, <<ReplyDatagram(content, "none", None)>>)
    /\ UNCHANGED <<service, readMemos, writeMemos, spaceLengthCallback, linkUp, alive,
                   wire, requests, called, repeated, outages>>

message(r) == Head(arriving[r])

Receive(r) ==
    /\ linkUp /\ alive
    /\ arriving[r] # << >>
    /\ arriving' = [arriving EXCEPT ![r] = Tail(@)]
    /\ UNCHANGED <<linkUp, repeated, others, outages>>

\* Datagram Received OK and Datagram Rejected: MemoryService gives its memos
\* callbacks that do nothing.
handleReply(r) ==
    LET dg == sendNextDatagramFromQueue(Replied(service, r))
        m == [State EXCEPT !.dg = dg]
    IN
    /\ Receive(r)
    /\ message(r).kind # "Datagram"
    /\ matchToWriteMemo(service, r) # None
    /\ Finish(m)
    /\ Deliver(m)
    /\ UNCHANGED <<alive, owed, requests>>

\* No memo: None has no okReply or rejectedReply, and the exception goes to the
\* receive thread.
handleUnmatchedReply(r) ==
    /\ Receive(r)
    /\ message(r).kind # "Datagram"
    /\ matchToWriteMemo(service, r) = None
    /\ Finish([State EXCEPT !.dg = Replied(service, r)])
    /\ alive' = FALSE
    /\ UNCHANGED <<wire, owed, requests>>

Replies(m, r) ==
    {k \in 1 .. Len(m.dg.sent) : m.dg.sent[k].node = r /\ m.dg.sent[k].kind # "Datagram"}

\* A callback, if there is one, may make a request.
handleDatagram(r) == \E then \in NewRequests \cup {None} :
    LET m == datagramReceivedListener(State, r, message(r), then) IN
    /\ Receive(r)
    /\ message(r).kind = "Datagram"
    /\ then # None => m.called # called
    /\ requests' = IF then = None THEN requests ELSE Append(requests, then)
    /\ Finish(m)
    /\ Deliver(m)
    /\ owed' = [owed EXCEPT ![r] = @ - Cardinality(Replies(m, r))]
    /\ UNCHANGED alive

\* The link announces an outage and goes down.
LinkQuiesce ==
    /\ linkUp /\ alive
    /\ outages < MaxOutages
    /\ outages' = outages + 1
    /\ linkUp' = FALSE
    /\ service' = handleLinkQuiesce(service)
    /\ UNCHANGED <<readMemos, writeMemos, spaceLengthCallback, alive, wire, arriving,
                   owed, requests, called, repeated, others>>

\* What an outage leaves of messages on their way: nothing, or the last of them,
\* the first having been handled, or sent in vain, before the link is back.
Leftovers(messages) == IF MayKeep THEN Suffixes(messages) ELSE {<< >>}

\* The remote of the memo has its datagram, or has not sent all of its answer.
StillAtRemote(memo, onWire, fromRemote) ==
    \/ \E k \in Datagrams(onWire) : onWire[k].memo = memo
    \/ \E k \in 1 .. Len(fromRemote) :
          \/ fromRemote[k].kind # "Datagram"
          \/ fromRemote[k].request = memo.request

\* The outstanding datagram is sent again, whether or not its remote has it.
LinkRestarted ==
    LET dg == handleLinkRestarted(service)
        memo == service.current
    IN
    /\ ~linkUp
    /\ linkUp' = TRUE
    /\ Finish([State EXCEPT !.dg = dg])
    /\ \E onWire \in Leftovers(wire) :
       \E unsent \in [Nodes -> UNION {Leftovers(arriving[r]) : r \in Nodes}] :
          /\ \A r \in Nodes : unsent[r] \in Leftovers(arriving[r])
          /\ wire' = onWire \o dg.sent
          /\ arriving' = unsent
          /\ owed' = [r \in Nodes |-> Cardinality(Datagrams(unsent[r]))]
          /\ repeated' = \/ repeated
                         \/ /\ memo # None
                            /\ StillAtRemote(memo, onWire, unsent[memo.dest])
    /\ UNCHANGED <<alive, requests, others, outages>>

Next ==
    \/ Ask
    \/ \E r \in Nodes :
          \/ RemoteAnswers(r)
          \/ RemoteHearsReply(r)
          \/ RemoteSendsOther(r)
          \/ handleReply(r)
          \/ handleUnmatchedReply(r)
          \/ handleDatagram(r)
    \/ LinkQuiesce
    \/ LinkRestarted

Spec == Init /\ [][Next]_vars

\* Remotes answer, the receive thread takes what arrives, a link comes back.
Fairness ==
    /\ \A r \in Nodes :
          /\ WF_vars(RemoteAnswers(r) \/ RemoteHearsReply(r))
          /\ WF_vars(handleReply(r) \/ handleDatagram(r))
    /\ WF_vars(LinkRestarted)

FairSpec == Spec /\ Fairness

-----------------------------------------------------------------------------
(* What is checked. *)

\* A callback reports the answer to the request it was made for, though a reply
\* datagram names only its sender and several requests to it are open.
AnswersMatch == \A k \in 1 .. Len(called) : called[k].request = called[k].of

\* For reads it does so whatever was rejected or lost in an outage before, if no remote
\* has got a datagram twice: datagramservice.py:246 sends it again without asking, and
\* the second answer is reported to the next read.
ReadAnswersMatch == ~repeated =>
    \A k \in 1 .. Len(called) :
        called[k].request.op = "read" => called[k].request = called[k].of

\* Every reply to a datagram comes from the node of the oldest one, so the
\* service finds its memo, if no remote has got a datagram twice and replies twice.
RepliesMatch == ~repeated =>
    \A r \in Nodes :
        arriving[r] # << >> /\ message(r).kind # "Datagram"
            => matchToWriteMemo(service, r) # None

\* "Read requests are serialized": a read datagram in the queue, on its way to its
\* remote or being answered is the one of the oldest read, if no remote has got a
\* datagram twice.
InProgress ==
    {service.pending[k].request : k \in 1 .. Len(service.pending)}
      \cup {wire[k].memo.request : k \in Datagrams(wire)}
      \cup UNION {{arriving[r][k].request : k \in Datagrams(arriving[r])} : r \in Nodes}

ReadsSerialized == ~repeated =>
    \A q \in InProgress \ {None} :
        q.op = "read" => readMemos # << >> /\ q = Head(readMemos)

\* "Exactly one should call positiveReplyToDatagram or negativeReplyToDatagram":
\* of the datagrams a remote has sent, those without a reply are the ones that
\* have not been received yet, though a remote may have answered a request twice.
RepliedOnce ==
    \A r \in Nodes : owed[r] = Cardinality(Datagrams(arriving[r]))

Answered(n) == \E k \in 1 .. Len(called) : called[k].request.number = n

\* "Wait for either dataReply or rejectedReply call back", and for a write "for either
\* okReply or rejectedReply call back": one of them comes.
EveryRequestAnswered ==
    \A n \in 1 .. MaxRequests :
        (Len(requests) >= n /\ requests[n].op \in {"read", "write"}) ~> Answered(n)

\* No node is named anywhere above; the two may change places.
NodesAlike == Permutations(Nodes)

=============================================================================
