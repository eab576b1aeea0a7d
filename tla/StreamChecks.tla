---------------------------- MODULE StreamChecks ----------------------------
(***************************************************************************)
(* Checks of streams (check_st*.py).  A stream is named by the ID that its *)
(* source gave it, which is the value of its messages.  "FF" is a reply    *)
(* that accepts but names no stream ID of the device.  Most scripts have   *)
(* copies of the functions below; what they send in a window is abstracted *)
(* to the whole of it or to halves.                                        *)
(***************************************************************************)
EXTENDS MemoryChecks

\* The copies in the scripts are the same as open_outbound_stream.
_open_stream(sid) == open_outbound_stream(sid)
_send_buffer(sid) == SendValue("Stream_Data_Send", DBC, "window", sid)
_send_half(sid) == SendValue("Stream_Data_Send", DBC, "half", sid)

\* The destination is not looked at.
_wait_for_proceed(sid) ==
    [Await({"Stream_Data_Proceed", "Terminate_Due_To_Error"}, {"proceed"}) EXCEPT
        !.dest = Anything, !.by = [Terminate_Due_To_Error |-> "raise"], !.want = sid,
        !.short = "raise", !.bad = "raise", !.differ = "raise", !.empty = "raise"]

Gate(o) == Opening \o PipGate(o, "STREAM")
\* The check passes if the stream is not opened.
Opened(sid) == TryExcept(_open_stream(sid), <<Return("passed")>>)
Reopened(sid) == <<Purge>> \o Attempt(_open_stream(sid)) \o close_stream(sid)
\* A probe after the transfer; without a stream the check passes as well.
Probe(sid) == <<Purge>> \o Opened(sid) \o close_stream(sid)

\* The requests differ in the size that they propose and in a content UID.
Initiate(sid) == SendValue("Stream_Initiate_Request", DBC, "open", sid)
InitiateReply ==
    [Await({"Stream_Initiate_Reply", "Optional_Interaction_Rejected"},
           {"accept", "FF", "error"})
        EXCEPT !.by = [Optional_Interaction_Rejected |-> "passed"]]
CloseIfAccepted(sid) == WhenGot({"accept", "FF"}, close_stream(sid))
Negotiation(sid) == <<Initiate(sid), InitiateReply>> \o CloseIfAccepted(sid)

-----------------------------------------------------------------------------

check_st10_initiate(o) ==
    Gate(o)
      \o <<Initiate("A"),
           [InitiateReply EXCEPT !.good = {"accept", "error"}, !.dest = "failed",
                                 !.want = "A"]>>
      \o CloseIfAccepted("A")
      \o SoakWithPings
      \o <<Return("passed")>>

\* gatherPIP asks even where the PIP is not to be checked.
check_st20_reject_unsupported(o) ==
    Opening
      \o IF ~o.answersPip THEN <<Return("setup")>>
         ELSE OnlyIf("STREAM" \notin o.protocols)
                \o <<Purge, Initiate("A"), [InitiateReply EXCEPT !.good = {"error"}],
                     Return("passed")>>

check_st30_buffer_negotiation(o) ==
    LET _send_initiate_and_check(sid) ==
            <<Initiate(sid),
              [InitiateReply EXCEPT !.by = [Optional_Interaction_Rejected |-> "next"]]>>
              \o WhenGot({"Stream_Initiate_Reply"}, CloseIfAccepted(sid))
    IN Gate(o) \o _send_initiate_and_check("A")
         \o <<Purge>> \o _send_initiate_and_check("B")
         \o <<Return("passed")>>

check_st35_min_buffer(o) == Gate(o) \o Negotiation("least") \o <<Return("passed")>>
check_st37_max_buffer(o) == Gate(o) \o Negotiation("most") \o <<Return("passed")>>
check_st40_unknown_content_uid(o) ==
    Gate(o) \o Negotiation("unknown UID") \o <<Return("passed")>>

check_st50_initiate_reply_format(o) ==
    Gate(o)
      \o <<Initiate("A"),
           [InitiateReply EXCEPT !.good = {"accept", "error"}, !.want = "A"]>>
      \o CloseIfAccepted("A")
      \o <<Return("passed")>>

\* An error from the device ends the check at once.
check_st60_data_send(o) ==
    Gate(o) \o Opened("A")
      \o TryExcept(<<_send_buffer("A"),
                     [_wait_for_proceed("A") EXCEPT
                         !.by = [Terminate_Due_To_Error |-> "failed"]]>>,
                   close_stream("A") \o <<Return("failed")>>)
      \o close_stream("A")
      \o <<Return("passed")>>

\* Cycles of one window and its Proceed.
Transfer(sid, n) ==
    TryExcept(Repeat(n, <<_send_buffer(sid), _wait_for_proceed(sid)>>),
              close_stream(sid) \o <<Return("failed")>>)
      \o close_stream(sid)

check_st65_data_proceed_flow(o) ==
    Gate(o) \o Opened("A") \o Transfer("A", 2) \o <<Return("passed")>>

\* What comes after a stream was closed, until nothing comes.
NoneOf(mtis) ==
    [Await(mtis, {}) EXCEPT !.dest = Anything, !.empty = "next"]

\* The second stream is opened without a purge.
check_st70_complete(o) ==
    Gate(o) \o Opened("A")
      \o <<SendValue("Stream_Data_Send", DBC, "little", "A")>>
      \o close_stream("A")
      \o <<NoneOf(InitMtis \cup {"Terminate_Due_To_Error"})>>
      \o Attempt(_open_stream("B")) \o close_stream("B")
      \o <<Return("passed")>>

\* A stream is ended by an error; the device must neither restart nor be lost.
check_st80_terminate_error(o) ==
    LET Terminated(sid) ==
            <<SendValue("Terminate_Due_To_Error", DBC, "error", sid), Sleep({}),
              NoneOf(InitMtis), Purge,
              Send("Verify_NodeID_Number_Addressed", DBC, "verify"),
              AwaitGlobal(VerifiedMtis, {Anything})>>
        Again(sid) == Attempt(_open_stream(sid)) \o close_stream(sid)
    IN Gate(o) \o Opened("A") \o Terminated("A") \o Again("B")
         \o Opened("C") \o Terminated("C") \o Again("D")
         \o <<Return("passed")>>

\* Whatever the reply is, only the restart matters.
check_st85_stability(o) ==
    Gate(o)
      \o <<Initiate("A"),
           [InitiateReply EXCEPT !.by = [Optional_Interaction_Rejected |-> "next"],
                                 !.short = "next", !.bad = "next", !.empty = "next"]>>
      \o CloseIfAccepted("A")
      \o SoakWithPings
      \o <<Return("passed")>>

check_st90_oir_fallback(o) ==
    Opening \o PipGate([o EXCEPT !.checkpip = TRUE], "STREAM")
      \o <<Initiate("A"), [InitiateReply EXCEPT !.bad = "next"]>>
      \o CloseIfAccepted("A")
      \o <<Return("passed")>>

-----------------------------------------------------------------------------
(* Two streams. *)

CloseBoth == close_stream("A") \o close_stream("B")

\* The check passes, and the first stream is closed, if there is no second one.
OpenedBoth ==
    Opened("A")
      \o TryExcept(_open_stream("B"), close_stream("A") \o <<Return("passed")>>)

Rounds(n) ==
    TryExcept(Repeat(n, <<_send_buffer("A"), _wait_for_proceed("A"),
                          _send_buffer("B"), _wait_for_proceed("B")>>),
              CloseBoth \o <<Return("failed")>>)
      \o CloseBoth

check_st100_concurrent_same_node(o) ==
    Gate(o) \o OpenedBoth \o Rounds(2) \o <<Return("passed")>>

\* The second stream, "S", is one from a second alias of the checker, in frames.
\* Their source is not looked at.
check_st110_concurrent_multi_node(o) ==
    LET Alias(mti) == SendValue(mti, All, "spoofed", "299")
        Frame(mti, body) == SendValue(mti, DBC, body, "S")
        _claim_spoofed_alias ==
            <<Alias("CID"), Alias("CID"), Alias("CID"), Alias("CID"), Sleep({}),
              Alias("RID"), Alias("AMD"), Sleep({})>>
        _release_spoofed_alias == <<Alias("AMR"), Sleep({})>>
        ToSpoofed(mtis, bodies) ==
            [Await(mtis, bodies) EXCEPT
                !.source = Anything, !.to = Spoofed,
                !.short = "raise", !.bad = "raise", !.differ = "raise", !.empty = "raise"]
        _spoofed_open_stream ==
            <<Frame("Stream_Initiate_Request", "open"),
              [ToSpoofed({"Stream_Initiate_Reply", "Optional_Interaction_Rejected"},
                         {"accept", "FF"}) EXCEPT !.right = {"Stream_Initiate_Reply"}]>>
        _spoofed_wait_for_proceed ==
            [ToSpoofed({"Stream_Data_Proceed", "Terminate_Due_To_Error"}, {"proceed"})
                EXCEPT !.right = {"Stream_Data_Proceed"}, !.want = "S"]
        _spoofed_close_stream == <<Frame("Stream_Data_Complete", "complete"), Sleep({})>>
        Closing == close_stream("A") \o _spoofed_close_stream \o _release_spoofed_alias
    IN Gate(o)
         \o (IF o.target THEN << >> ELSE <<Return("setup")>>)
         \o Opened("A") \o _claim_spoofed_alias \o <<Purge>>
         \o TryExcept(_spoofed_open_stream,
                      close_stream("A") \o _release_spoofed_alias \o <<Return("passed")>>)
         \o TryExcept(<<_send_buffer("A"), _wait_for_proceed("A"),
                        Frame("Stream_Data_Send", "window"), _spoofed_wait_for_proceed>>,
                      Closing \o <<Return("failed")>>)
         \o Closing
         \o <<Return("passed")>>

check_st120_sustained_transfer(o) ==
    Gate(o) \o Opened("A") \o Transfer("A", 22) \o Probe("B") \o <<Return("passed")>>

\* The bytes of a window are sent one by one.
check_st130_min_chunk_send(o) ==
    Gate(o) \o Opened("A")
      \o TryExcept(Repeat(2, <<_send_half("A"), _send_half("A"), _wait_for_proceed("A")>>),
                   close_stream("A") \o <<Return("failed")>>)
      \o close_stream("A")
      \o <<Return("passed")>>

check_st140_concurrent_sustained(o) ==
    Gate(o) \o OpenedBoth \o Rounds(10) \o Probe("C") \o <<Return("passed")>>

\* Windows of different sizes, and of the size that the device replied.
check_st150_asymmetric_buffers(o) ==
    Gate(o) \o OpenedBoth \o Rounds(2) \o <<Return("passed")>>

check_st155_negotiation_enforcement(o) ==
    Gate(o) \o Opened("A") \o Transfer("A", 2) \o <<Return("passed")>>

\* A message without payload between the halves does not count.
check_st170_zero_payload_flush(o) ==
    Gate(o) \o Opened("A")
      \o TryExcept(Repeat(2, <<_send_half("A"),
                               SendValue("Stream_Data_Send", DBC, "flush", "A"),
                               _send_half("A"), _wait_for_proceed("A")>>),
                   close_stream("A") \o <<Return("failed")>>)
      \o close_stream("A")
      \o <<Return("passed")>>

\* Both windows are filled before either Proceed; these may come in any order, each
\* once.
check_st180_interleaved_data_send(o) ==
    LET EitherProceed ==
            [_wait_for_proceed("A") EXCEPT !.want = Anything, !.among = {"A", "B"},
                                           !.save = "proceeded"]
        TheOther == [EitherProceed EXCEPT !.unlike = "proceeded", !.save = None]
    IN Gate(o) \o OpenedBoth
         \o TryExcept(Repeat(2, <<_send_half("A"), _send_half("B"),
                                  _send_half("A"), _send_half("B"),
                                  EitherProceed, TheOther>>),
                      CloseBoth \o <<Return("failed")>>)
         \o CloseBoth
         \o <<Return("passed")>>

\* The reply must name a stream ID.
check_st190_suggested_did(o) ==
    LET Named == Judge({"accept"}, Anything, "failed")
    IN Gate(o) \o Opened("A") \o <<Named>> \o close_stream("A")
         \o <<Purge>> \o Attempt(_open_stream("B")) \o <<Named>> \o close_stream("B")
         \o <<Return("passed")>>

\* With a count in the last message, and without.  A stream whose Proceed is missing
\* is left open.
check_st200_complete_with_byte_count(o) ==
    LET Sent(sid) ==
            Attempt(<<_send_buffer(sid), _wait_for_proceed(sid)>>)
              \o close_stream(sid)
              \o <<NoneOf(InitMtis \cup {"Terminate_Due_To_Error"})>>
              \o Reopened(sid)
    IN Gate(o) \o Opened("A") \o Sent("A")
         \o <<Purge>> \o Attempt(_open_stream("B")) \o Sent("B")
         \o <<Return("passed")>>

\* Streams are opened until one is refused; then one is closed, and the refused one
\* tried again.
check_st210_reject_then_retry(o) ==
    LET sid == <<"A", "B", "C", "D">>
        CloseAll(from, upTo) ==
            FlattenSeq([k \in 1 .. upTo - from + 1 |-> close_stream(sid[from + k - 1])])
        Retry(n) ==
            close_stream(sid[1]) \o <<Sleep({}), Purge>>
              \o TryExcept(_open_stream(sid[n]), CloseAll(2, n - 1) \o <<Return("failed")>>)
              \o CloseAll(2, n)
              \o <<Return("passed")>>
    IN Gate(o) \o Opened("A")
         \o TryExcept(_open_stream("B"), Retry(2))
         \o TryExcept(_open_stream("C"), Retry(3))
         \o TryExcept(_open_stream("D"), Retry(4))
         \o CloseAll(1, 4)
         \o <<Return("passed")>>

=============================================================================
