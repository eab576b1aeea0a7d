----------------------------- MODULE StreamSteps -----------------------------
(***************************************************************************)
(* olcbchecker/stream_utils.py, and the helpers for datagrams that the     *)
(* scripts have copies of.  How the windows of a stream are counted is     *)
(* specified in StreamTransfer; here a message with a body of "full" fills *)
(* the window, one with "part" does not.                                   *)
(***************************************************************************)
EXTENDS CheckSteps

Command(body) == Send("Datagram", DBC, body)
Acknowledge == Send("Datagram_Received_OK", DBC, "ok")

\* Mutants: only an acknowledgement without flags is one; another node's is an
\* error; a datagram of any node is the reply.
WaitDatagramOk_plain ==
    [Await(DatagramReplies, {"ok"}) EXCEPT
        !.right = {"Datagram_Received_OK"}, !.bad = "raise", !.empty = "raise"]
WaitDatagramOk_strict ==
    [Await(DatagramReplies, {Anything}) EXCEPT
        !.right = {"Datagram_Received_OK"}, !.source = "raise", !.bad = "raise",
        !.empty = "raise"]
WaitReplyDatagram_anySource ==
    [Await({"Datagram"}, {Anything}) EXCEPT !.source = Anything, !.empty = "raise"]

\* Waits for the acknowledgement.  Its contents are not looked at.
WaitDatagramOk ==
    [Await(DatagramReplies, {Anything}) EXCEPT
        !.right = {"Datagram_Received_OK"}, !.bad = "raise", !.empty = "raise"]

WaitReplyDatagram == [Await({"Datagram"}, {Anything}) EXCEPT !.empty = "raise"]

\* The same in mc10, mc20, mc40, mc60, mc70, mc80, cd*, fd* and stream_utils.
getReplyDatagram == <<WaitDatagramOk, WaitReplyDatagram, Acknowledge>>

\* A reply that has to be long enough is taken whatever else it says.
Receive(request, body) ==
    <<Command(request)>> \o getReplyDatagram
      \o <<Judge({body, "bad"}, Anything, "raise")>>

\* A write is answered by the acknowledgement alone, or by it and a datagram.
sendWriteDatagram(body, val) ==
    <<SendValue("Datagram", DBC, body, val), WaitDatagramOk>>
      \o WhenGot({"pending"},
             <<[WaitReplyDatagram EXCEPT !.dest = Anything], Acknowledge>>)

readByte(var) ==
    <<Command("read byte"), WaitDatagramOk, [WaitReplyDatagram EXCEPT !.save = var],
      Acknowledge,
      Judge({"read byte", "bad"}, Anything, "raise")>>

-----------------------------------------------------------------------------

\* The rest of the check is skipped where streams are not supported, or where the
\* query fails.  The callers then call gatherPIP, which purges.
query_stream_support(o) ==
    <<Purge>>
      \o TryExcept(Receive("options", "options"), <<Return("passed")>>)
      \o OnlyIf(o.streams)
      \o (IF o.checkpip THEN OnlyIf("STREAM" \in o.protocols) \o <<Purge>> ELSE << >>)

accept_incoming_stream ==
    <<[Await({"Stream_Initiate_Request", "Terminate_Due_To_Error"}, {"open", "bad"})
          EXCEPT !.right = {"Stream_Initiate_Request"}, !.bad = "raise",
                 !.short = "raise", !.empty = "raise"],
      Send("Stream_Initiate_Reply", DBC, "accept")>>

\* Neither the destination nor the stream IDs are looked at.
receive_stream_data(var) ==
    Loop([Await({"Stream_Data_Send", "Stream_Data_Complete", "Terminate_Due_To_Error"},
                {"full", "part", "bad"}) EXCEPT
              !.dest = Anything, !.short = "skip", !.empty = "raise", !.add = var,
              !.by = [Stream_Data_Complete |-> "out",
                      Terminate_Due_To_Error |-> "raise"]],
         WhenGot({"full"}, <<Send("Stream_Data_Proceed", DBC, "proceed")>>))

\* Datagrams that are not the reply are left without acknowledgement.
WaitStreamReply(body) ==
    <<[Await({"Datagram"}, {body, "bad"}) EXCEPT !.short = "skip", !.empty = "raise"],
      Acknowledge,
      Judge({body}, Anything, "raise")>>

read_via_stream(request, var) ==
    <<Purge, Command(request), WaitDatagramOk>>
      \o accept_incoming_stream
      \o WaitStreamReply("read stream")
      \o receive_stream_data(var)

\* A refusal, a reply that is too short and no reply are all the same: they raise
\* in the caller.  The stream ID of the reply is not looked at, nor is the
\* destination of a rejection.
open_outbound_stream(sid) ==
    <<SendValue("Stream_Initiate_Request", DBC, "open", sid),
      [Await({"Stream_Initiate_Reply", "Optional_Interaction_Rejected"}, {"accept", "FF"})
          EXCEPT !.by = [Optional_Interaction_Rejected |-> "raise"],
                 !.bad = "raise", !.short = "raise", !.empty = "raise"]>>

close_stream(sid) ==
    <<SendValue("Stream_Data_Complete", DBC, "complete", sid), Sleep({})>>

\* One byte, which is less than a window.
write_via_stream(request, val) ==
    <<Purge, Command(request), WaitDatagramOk>>
      \o open_outbound_stream("memory")
      \o <<SendValue("Stream_Data_Send", DBC, "part", val)>>
      \o close_stream("memory")
      \o WaitStreamReply("write stream")

=============================================================================
