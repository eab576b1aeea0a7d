---------------------------- MODULE MemoryChecks ----------------------------
(***************************************************************************)
(* Checks of datagrams (check_da*.py) and of memory configuration          *)
(* (check_mc*.py).                                                         *)
(***************************************************************************)
EXTENDS StreamSteps

\* A datagram may be rejected for good only: the code for "resend" is a failure.
check_da30_dr(o) ==
    Opening \o PipGate(o, "DATAGRAM")
      \o Repeat(3, <<Command("unknown"),
                     AwaitStrict(DatagramReplies, {"ok", "pending", "permanent"})>>)
      \o <<Return("passed")>>

\* 30 s in which the device is pinged every 10 s, the first time at once, and must not
\* restart.  When a ping is due, or the time is up, the next message of the device ends the
\* polling as a timeout does, unless it reports a restart; what is behind it in the
\* queue is purged.  A restart between the purge and the answer to the ping is skipped.
SoakFor(restarts) ==
    LET Quiet == [AwaitGlobal(restarts, {}) EXCEPT !.empty = "next"]
        Due == [Quiet EXCEPT !.other = "out"]
        Ping == <<Purge, Send("Verify_NodeID_Number_Addressed", DBC, "verify"),
                  AwaitGlobal(VerifiedMtis, {Anything})>>
    IN <<Due>> \o Repeat(3, Ping \o <<Quiet, Due>>)

\* Mutant: of the two messages that report a restart, that of simple nodes is missed.
SoakWithPings_fullNodes == SoakFor({"Initialization_Complete"})

SoakWithPings == SoakFor(InitMtis)

check_da40_unknown_protocol(o) ==
    Opening \o PipGate(o, "DATAGRAM")
      \o <<Command("unknown"),
           [AwaitStrict(DatagramReplies, {"permanent"}) EXCEPT
               !.right = {"Datagram_Rejected"}]>>
      \o SoakWithPings
      \o <<Return("passed")>>

\* Mutants: the exceptions of the exchange are not caught; no result at the end.
check_mc10_co_bare(o) ==
    Opening \o PipGate(o, "MEMORY_CONFIGURATION")
      \o <<Command("options")>> \o getReplyDatagram
      \o <<Judge({"options"}, Anything, "failed"), Return("passed")>>
check_mc10_co_unfinished(o) ==
    Opening \o PipGate(o, "MEMORY_CONFIGURATION")
      \o <<Command("options")>> \o Attempt(getReplyDatagram)
      \o <<Judge({"options"}, Anything, "failed")>>

check_mc10_co(o) ==
    Opening \o PipGate(o, "MEMORY_CONFIGURATION")
      \o <<Command("options")>> \o Attempt(getReplyDatagram)
      \o <<Judge({"options"}, Anything, "failed"), Return("passed")>>

\* A flag for a lowest address is taken for a reserved bit.
check_mc20_ckasi(o) ==
    LET Space(request, info) ==
            <<Command(request)>> \o Attempt(getReplyDatagram)
              \o <<Judge({info}, Anything, "failed")>>
    IN Opening \o PipGate(o, "MEMORY_CONFIGURATION")
         \o Space("space FD", "info FD")
         \o (IF o.answersPip /\ "CDI" \notin o.protocols THEN << >>
             ELSE Space("space FF", "info FF"))
         \o <<Return("passed")>>

\* Here the acknowledgement must announce the reply.
getPendingReply(var) ==
    <<[WaitDatagramOk EXCEPT !.good = {"pending"}, !.short = "raise"],
      [WaitReplyDatagram EXCEPT !.add = var],
      Acknowledge>>

sendAndCheckResponse(request) ==
    <<Command(request)>> \o Attempt(getPendingReply(None))
      \o <<Judge({"read"}, Anything, "failed")>>

\* The same bytes by datagram and by stream.
ReadByStream(o) ==
    query_stream_support(o)
      \o Attempt(<<Command("read")>> \o getPendingReply("reference")
                 \o read_via_stream("read stream", "bytes")
                 \o <<Compare("bytes", "reference")>>)

\* Three lengths, with and without the space in the command byte.
check_mc30_read(o) ==
    Opening \o PipGate(o, "MEMORY_CONFIGURATION")
      \o Repeat(6, sendAndCheckResponse("read"))
      \o ReadByStream(o)
      \o <<Return("passed")>>

\* The lock is held by "zero" when nobody holds it.  A check that fails leaves it
\* as it is.
checkLockReply(holder) ==
    Attempt(getReplyDatagram) \o <<Judge({"lock"}, holder, "failed")>>

check_mc40_lock(o) ==
    LET Step(node, holder) ==
            <<SendValue("Datagram", DBC, "lock", node)>> \o checkLockReply(holder)
    IN Opening \o PipGate(o, "MEMORY_CONFIGURATION")
         \o Step("zero", "zero")
         \o Step("A", "A") \o Step("B", "A") \o Step("zero", "zero")
         \o Step("B", "B") \o Step("A", "B") \o Step("A", "B")
         \o Step("zero", "zero") \o Step("zero", "zero")
         \o <<Return("passed")>>

\* Whose messages these are is not looked at.
check_mc50_restart(o) ==
    Opening
      \o OnlyIf(o.autoReboot \/ o.interactive)
      \o PipGate(o, "MEMORY_CONFIGURATION")
      \o <<Command("reset"),
           [AwaitGlobal(InitMtis \cup {"Datagram_Rejected"}, {Anything}) EXCEPT
               !.right = InitMtis, !.source = Anything],
           Return("passed")>>

\* A device may reject the datagram, or accept it and reply with an error.
getReadReplyOrRejection ==
    <<[Await(DatagramReplies, {Anything}) EXCEPT !.empty = "raise"]>>
      \o WhenGot({"Datagram_Received_OK"}, <<WaitReplyDatagram, Acknowledge>>)

\* By stream: a request to open one is a failure, whoever sends it.
ReadBeyondByStream ==
    <<Purge, Command("read stream beyond"), Await(DatagramReplies, {Anything})>>
      \o WhenGot({"Datagram_Received_OK"},
             <<[Await({"Datagram"}, {Anything}) EXCEPT
                   !.dest = Anything, !.fatal = {"Stream_Initiate_Request"}],
               Acknowledge,
               Judge({"read stream failed", "short"}, Anything, "failed")>>)

check_mc60_out_of_range(o) ==
    Opening \o PipGate(o, "MEMORY_CONFIGURATION")
      \o <<Command("space FD")>> \o Attempt(getReplyDatagram)
      \o <<Judge({"info FD", "low FD"}, Anything, "failed"),
           Command("read beyond")>>
      \o Attempt(getReadReplyOrRejection)
      \o WhenGot({"Datagram"}, <<Judge({"read failed"}, Anything, "failed")>>)
      \o SoakWithPings
      \o query_stream_support(o)
      \o ReadBeyondByStream
      \o <<Return("passed")>>

\* Mutant: what goes wrong while the old value is restored takes the place of the result.
Restore_unguarded(val) == sendWriteDatagram("write byte", val)

Restore(val) == TryExcept(sendWriteDatagram("write byte", val), << >>)

check_mc70_write_under_mask(o) ==
    LET WriteLow == sendWriteDatagram("write masked", "low")
        WriteHigh == sendWriteDatagram("write masked", "high")
    IN Opening \o PipGate(o, "MEMORY_CONFIGURATION")
         \o OnlyIf(o.forceWrites)
         \o <<Command("options")>> \o Attempt(getReplyDatagram)
         \o <<Judge({"options", "bad"}, Anything, "failed")>>
         \o OnlyIf(o.kind # "no masks")
         \o Attempt(readByte("original"))
         \o TryFinally(
                Attempt(WriteLow \o readByte("value")
                          \o <<Judge({Anything}, "lowered", "failed")>>
                          \o WriteHigh \o readByte("value")
                          \o <<Judge({Anything}, "AF", "failed")>>),
                Restore("original"))
         \o <<Return("passed")>>

\* Writes the opposite of what is there, reads it back and restores it.  Where
\* something else is read back, nothing is restored.
WriteAndRestore ==
    TryExcept(
        sendWriteDatagram("write byte", "inverse")
          \o readByte("value") \o <<Judge({Anything}, "inverse", "failed")>>
          \o sendWriteDatagram("write byte", "original")
          \o readByte("value") \o <<Judge({Anything}, "original", "failed")>>,
        Restore("original") \o <<Return("failed")>>)

WriteByStream(o) ==
    query_stream_support(o)
      \o TryExcept(
            readByte("stream original")
              \o write_via_stream("write stream", "stream inverse")
              \o readByte("value")
              \o WhenNot("stream inverse",
                    sendWriteDatagram("write byte", "stream original")
                      \o <<Return("failed")>>)
              \o sendWriteDatagram("write byte", "stream original")
              \o readByte("value")
              \o <<Judge({Anything}, "stream original", "failed")>>,
            Restore("original") \o <<Return("failed")>>)

check_mc80_write(o) ==
    Opening \o PipGate(o, "MEMORY_CONFIGURATION")
      \o OnlyIf(o.forceWrites)
      \o <<Command("space FD")>> \o Attempt(getReplyDatagram)
      \o <<Judge({"info FD", "low FD"}, Anything, "failed")>>
      \o OnlyIf(o.kind # "read only")
      \o Attempt(readByte("original"))
      \o WriteAndRestore
      \o WriteByStream(o)
      \o <<Return("passed")>>

=============================================================================
