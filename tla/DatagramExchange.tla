-------------------------- MODULE DatagramExchange --------------------------
(***************************************************************************)
(* Users of one DatagramService send datagrams to remote nodes over a link *)
(* that may go down and come back.  A remote takes one datagram after the  *)
(* other and replies to it, OK or rejected; a reply on its way is lost     *)
(* with the link, and what waits at a remote may be lost with it or not.   *)
(***************************************************************************)
EXTENDS Integers, DatagramService

CONSTANTS
    Nodes,       \* the remote nodes
    Chaining,    \* whether a reply callback may submit a datagram
    Keeps,       \* {TRUE, FALSE}: does a remote keep its datagrams in an outage
    MaxSubmits,  \* bound: datagrams of the users
    MaxOutages   \* bound: link losses

Memo == [dest : Nodes, number : Nat]

ASSUME ConstantsAssumption ==
    /\ Chaining \in BOOLEAN
    /\ Keeps \subseteq BOOLEAN
    /\ MaxSubmits \in Nat
    /\ MaxOutages \in Nat
    /\ None \notin Memo

VARIABLES
    service,    \* the DatagramService; "sent" is empty between handlers
    linkUp,
    alive,      \* no handler has raised an exception
    wire,       \* datagrams sent and not yet handled by their remote
    replies,    \* replies sent by the remotes and not yet received
    submitted,  \* every memo given to sendDatagram
    handled,    \* every memo handled by a remote
    answered,   \* every callback: its memo and the outcome it reports
    outages     \* for MaxOutages

vars == <<service, linkUp, alive, wire, replies, submitted, handled, answered,
          outages>>

Outcomes == {"OK", "Rejected"}

\* What a handler has sent is on the wire if the link is up.
Deliver(s) == wire' = IF linkUp THEN wire \o s.sent ELSE wire

Finish(s) == service' = [s EXCEPT !.sent = << >>]

NewMemo(r) == [dest |-> r, number |-> Len(submitted) + 1]

-----------------------------------------------------------------------------
Init ==
    /\ service = NewService
    /\ linkUp = TRUE
    /\ alive = TRUE
    /\ wire = << >>
    /\ replies = << >>
    /\ submitted = << >>
    /\ handled = << >>
    /\ answered = << >>
    /\ outages = 0

Submit == \E r \in Nodes :
    LET s == sendDatagram(service, NewMemo(r)) IN
    /\ alive
    /\ Len(submitted) < MaxSubmits
    /\ submitted' = Append(submitted, NewMemo(r))
    /\ Finish(s)
    /\ Deliver(s)
    /\ UNCHANGED <<linkUp, alive, replies, handled, answered, outages>>

\* A remote handles the first datagram for it on the wire.
RemoteHandles(k) == \E outcome \in Outcomes :
    /\ \A j \in 1 .. k - 1 : wire[j].node # wire[k].node
    /\ wire' = SubSeq(wire, 1, k - 1) \o SubSeq(wire, k + 1, Len(wire))
    /\ handled' = Append(handled, wire[k].memo)
    /\ replies' = IF linkUp
                  THEN Append(replies, [source |-> wire[k].node, outcome |-> outcome])
                  ELSE replies
    /\ UNCHANGED <<service, linkUp, alive, submitted, answered, outages>>

TakeReply ==
    /\ linkUp /\ alive
    /\ replies # << >>
    /\ replies' = Tail(replies)
    /\ UNCHANGED <<linkUp, handled, outages>>

\* handleDatagramReceivedOK and handleDatagramRejected: the memo's callback
\* returns or submits another datagram, then the next in the queue is sent.
handleReply ==
    LET reply == Head(replies)
        memo == matchToWriteMemo(service, reply.source)
        s == Replied(service, reply.source)
    IN
    /\ TakeReply
    /\ memo # None
    /\ answered' = Append(answered, [memo |-> memo, outcome |-> reply.outcome])
    /\ \/ LET s1 == sendNextDatagramFromQueue(s) IN
          /\ Finish(s1)
          /\ Deliver(s1)
          /\ UNCHANGED submitted
       \/ \E r \in Nodes :
          LET s1 == sendNextDatagramFromQueue(sendDatagram(s, NewMemo(r))) IN
          /\ Chaining
          /\ Len(submitted) < MaxSubmits
          /\ submitted' = Append(submitted, NewMemo(r))
          /\ Finish(s1)
          /\ Deliver(s1)
    /\ UNCHANGED alive

\* No memo: None has no okReply, and the exception goes to the receive thread.
handleUnmatchedReply ==
    /\ TakeReply
    /\ matchToWriteMemo(service, Head(replies).source) = None
    /\ Finish(Replied(service, Head(replies).source))
    /\ alive' = FALSE
    /\ UNCHANGED <<wire, submitted, answered>>

\* The link announces an outage and goes down.
LinkQuiesce ==
    /\ linkUp /\ alive
    /\ outages < MaxOutages
    /\ Finish(handleLinkQuiesce(service))
    /\ linkUp' = FALSE
    /\ replies' = << >>
    /\ \E keep \in Keeps : wire' = IF keep THEN wire ELSE << >>
    /\ outages' = outages + 1
    /\ UNCHANGED <<alive, submitted, handled, answered>>

LinkRestarted ==
    LET s == handleLinkRestarted(service) IN
    /\ ~linkUp /\ alive
    /\ linkUp' = TRUE
    /\ Finish(s)
    /\ wire' = wire \o s.sent
    /\ UNCHANGED <<alive, replies, submitted, handled, answered, outages>>

Next ==
    \/ Submit
    \/ \E k \in 1 .. Len(wire) : RemoteHandles(k)
    \/ handleReply
    \/ handleUnmatchedReply
    \/ LinkQuiesce
    \/ LinkRestarted

Spec == Init /\ [][Next]_vars

\* A remote handles its datagrams, the receive thread takes what arrives, and
\* a link that goes down comes back.
Fairness ==
    /\ \A r \in Nodes :
          WF_vars(\E k \in 1 .. Len(wire) : wire[k].node = r /\ RemoteHandles(k))
    /\ WF_vars(handleReply)
    /\ WF_vars(LinkRestarted)

FairSpec == Spec /\ Fairness

-----------------------------------------------------------------------------
(* What is checked. *)

Message == [kind : {"Datagram"}, node : Nodes, memo : Memo]
Reply == [source : Nodes, outcome : Outcomes]
Answer == [memo : Memo, outcome : Outcomes]

TypeOK ==
    /\ service \in [pending : Seq(Memo), current : Memo \cup {None},
                    quiesced : BOOLEAN, sent : {<< >>}]
    /\ linkUp \in BOOLEAN
    /\ alive \in BOOLEAN
    /\ wire \in Seq(Message)
    /\ replies \in Seq(Reply)
    /\ submitted \in Seq(Memo)
    /\ handled \in Seq(Memo)
    /\ answered \in Seq(Answer)
    /\ outages \in 0 .. MaxOutages

\* The check of tracking logic in both reply handlers: the outstanding memo is
\* always the one a reply is matched to, whatever callbacks and restarts do.
OutstandingIsHead ==
    alive => service.current = IF service.pending = << >> THEN None
                                                          ELSE Head(service.pending)

\* Every datagram waits or has been answered once, in the order of submission,
\* even if replies arrive that match none.
AnsweredMemos == [k \in 1 .. Len(answered) |-> answered[k].memo]

NoDatagramForgotten == submitted = AnsweredMemos \o service.pending

\* sendDatagram's comment: "can only have one outstanding at a time".  At most
\* one datagram is on its way or being answered.
AtMostOneOutstanding == Len(wire) + Len(replies) <= 1

\* A user is told the outcome of each datagram once, in the order of
\* submission and after it was handled; an outage may make a remote handle the
\* same one again, but never an older one.
Promise == INSTANCE DatagramPromise

ImplementsPromise == Promise!Spec

\* Whatever the outages, the outcome of every datagram is reported.
EveryDatagramAnswered ==
    \A k \in 1 .. MaxSubmits :
        (Len(submitted) >= k) ~> (Len(answered) >= k)

\* The module's docstring: "Once the link has been quiesced, datagrams are
\* held until it's restarted".  None becomes outstanding in between.
HeldWhileQuiesced ==
    [][service.quiesced /\ service'.quiesced
         => service'.current = service.current]_vars

\* matchToWriteMemo's comment on a reply without a memo: "this will prevent
\* further processing" of that reply, not of all later messages.
HandlersReturn == alive

=============================================================================
