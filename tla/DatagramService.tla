-------------------------- MODULE DatagramService --------------------------
(***************************************************************************)
(* The handlers of src/openlcb/datagramservice.py, each as a function from *)
(* the service's state to its next one.  A handler runs to completion, so  *)
(* the modules that use the service compose these functions in the order   *)
(* of the calls; "sent" collects what the handler gives the link layer.    *)
(***************************************************************************)
EXTENDS Naturals, Sequences

CONSTANT None  \* Python's None

NewService ==
    [pending |-> << >>,    \* pendingWriteMemos
     current |-> None,     \* currentOutstandingMemo
     quiesced |-> FALSE,
     sent |-> << >>]

sendMessage(s, message) == [s EXCEPT !.sent = Append(@, message)]

\* Mutant: the destination is noted, not the memo.
sendDatagramMessage_destOnly(s, memo) ==
    [sendMessage(s, [kind |-> "Datagram", node |-> memo.dest, memo |-> memo])
       EXCEPT !.current = memo.dest]

sendDatagramMessage(s, memo) ==
    [sendMessage(s, [kind |-> "Datagram", node |-> memo.dest, memo |-> memo])
       EXCEPT !.current = memo]

\* Mutant: every datagram is sent at once.
sendDatagram_atOnce(s, memo) ==
    sendDatagramMessage([s EXCEPT !.pending = Append(@, memo)], memo)

sendDatagram(s, memo) ==
    LET queued == [s EXCEPT !.pending = Append(@, memo)]
    IN IF Len(queued.pending) = 1 THEN sendDatagramMessage(queued, memo)
                                  ELSE queued

\* The loop of matchToWriteMemo ends at the first memo in either case.
matchToWriteMemo(s, source) ==
    IF s.pending # << >> /\ Head(s.pending).dest = source
    THEN Head(s.pending)
    ELSE None

\* Mutant: the outstanding memo is not forgotten.
Replied_keepsCurrent(s, source) ==
    [s EXCEPT !.pending = IF matchToWriteMemo(s, source) = None THEN @ ELSE Tail(@)]

\* Mutant: the first memo is removed whether it matches or not.
Replied_popsAny(s, source) ==
    [s EXCEPT !.pending = IF @ = << >> THEN @ ELSE Tail(@), !.current = None]

\* What handleDatagramReceivedOK and handleDatagramRejected do before the
\* memo's callback ...
Replied(s, source) ==
    [s EXCEPT !.pending = IF matchToWriteMemo(s, source) = None THEN @ ELSE Tail(@),
              !.current = None]

\* Mutant: the next datagram is not sent.
sendNextDatagramFromQueue_never(s) == s

\* ... and what they do after it.
sendNextDatagramFromQueue(s) ==
    IF s.pending = << >> THEN s ELSE sendDatagramMessage(s, Head(s.pending))

handleLinkQuiesce(s) == [s EXCEPT !.quiesced = TRUE]

\* Mutant: the next of the queue is sent, not the outstanding one.
handleLinkRestarted_next(s) ==
    LET s1 == [s EXCEPT !.quiesced = FALSE]
    IN IF Len(s1.pending) > 1 THEN sendDatagramMessage(s1, s1.pending[2])
                              ELSE sendNextDatagramFromQueue(s1)

handleLinkRestarted(s) ==
    LET s1 == [s EXCEPT !.quiesced = FALSE]
    IN IF s1.current # None THEN sendDatagramMessage(s1, s1.current)
                            ELSE sendNextDatagramFromQueue(s1)

positiveReplyToDatagram(s, source) ==
    sendMessage(s, [kind |-> "Datagram_Received_OK", node |-> source])

negativeReplyToDatagram(s, source) ==
    sendMessage(s, [kind |-> "Datagram_Rejected", node |-> source])

=============================================================================
