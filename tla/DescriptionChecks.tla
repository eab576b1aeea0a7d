-------------------------- MODULE DescriptionChecks --------------------------
(***************************************************************************)
(* Checks of the descriptions that a device holds (check_cd*.py, of the    *)
(* CDI, and check_fd*.py, of the FDI) and of the names in it.  A           *)
(* description is two datagrams long.                                      *)
(***************************************************************************)
EXTENDS StreamSteps

IsValidSpace(o, protocol, request, info) ==
    Opening \o PipGate(o, protocol) \o <<Command(request)>>
      \o Attempt(getReplyDatagram)
      \o <<Judge({info}, Anything, "failed"), Return("passed")>>

check_cd10_valid(o) == IsValidSpace(o, "CDI", "space FF", "info FF")
check_fd10_valid(o) == IsValidSpace(o, "FDI", "space FA", "info FA")
check_fd30_readonly(o) == IsValidSpace(o, "TRAIN_CONTROL", "space FA", "info FA")

\* One datagram of the description.  A wrong one makes the whole invalid.
ReadText(request) ==
    <<Command(request)>>
      \o Attempt(<<WaitDatagramOk, [WaitReplyDatagram EXCEPT !.add = "text"],
                   Acknowledge, Judge({"text", "bad"}, Anything, "raise")>>)
      \o <<[Judge({"text"}, Anything, "flag") EXCEPT !.short = "next"]>>

\* Reads a description, asks for its length, validates it and reads it again by
\* stream.  The request for the length is outside of any "try", and a reply that
\* is not the one expected leaves the length unassigned.
ReadDescription(o, protocol, request, info, invalid) ==
    Opening \o PipGate(o, protocol)
      \o ReadText("read first") \o ReadText("read last")
      \o <<Command(request)>> \o getReplyDatagram
      \o <<Judge({info}, Anything, "crashed"),
           Decide("flagged", invalid)>>
      \o query_stream_support(o)
      \o Attempt(read_via_stream("read stream text", "bytes")
                   \o <<Compare("bytes", "text")>>)
      \o <<Return("passed")>>

check_cd20_read(o) == ReadDescription(o, "CDI", "space FF", "info FF", "failed")
check_fd20_read(o) == ReadDescription(o, "FDI", "space FA", "info FA", "warned")

-----------------------------------------------------------------------------
(* The maker's and the user's name, which SNIP and memory must agree on. *)

\* What the PIP reply lists; everything where there is none.
Lists(o, protocol) == o.answersPip => protocol \in o.protocols

read_memory(request, list) ==
    <<Command(request), WaitDatagramOk, [WaitReplyDatagram EXCEPT !.add = list],
      Acknowledge>>

getSnip(wrong) ==
    <<Send("Simple_Node_Ident_Info_Request", DBC, "inquiry"),
      [Collect({"Simple_Node_Ident_Info_Reply"}, 1) EXCEPT
          !.source = wrong, !.dest = wrong, !.add = "snip"]>>

InfoOf(request, info) ==
    <<Command(request)>> \o Attempt(getReplyDatagram)
      \o <<Judge({info}, Anything, "failed")>>

Version == Receive("read version", "version")

check_cd30_acdi(o) ==
    LET acdi == Lists(o, "ADCDI")
        memory == Lists(o, "MEMORY_CONFIGURATION")
    IN Opening
         \o (IF acdi /\ ~memory THEN <<Return("failed")>> ELSE << >>)
         \o OnlyIf(acdi)
         \o InfoOf("space FB", "info FB") \o InfoOf("space FC", "info FC")
         \o Attempt(Version \o <<Judge({"version"}, Anything, "failed")>>
                      \o Version \o <<Judge({"version"}, Anything, "failed")>>
                      \o read_memory("read maker", "names")
                      \o read_memory("read name", "names"))
         \o (IF Lists(o, "SNIP")
             THEN getSnip("failed") \o <<Compare("names", "snip")>> ELSE << >>)
         \o ReadText("read first") \o ReadText("read last")
         \o <<Return("passed")>>

\* A write that must be refused, by the datagram or by the reply to it.
MustFail(request) ==
    <<Command(request), Await(DatagramReplies, {Anything})>>
      \o WhenGot({"Datagram_Received_OK"},
             <<[Await({"Datagram"}, {Anything}) EXCEPT !.dest = Anything], Acknowledge,
               Judge({"write failed"}, Anything, "failed")>>)

\* Writes a name, reads it back and restores the one that was there, unless the
\* write itself fails.
RewriteName ==
    LET RestoreName == TryExcept(sendWriteDatagram("write name", "original"), << >>)
    IN <<Command("read name"), WaitDatagramOk,
         [WaitReplyDatagram EXCEPT !.save = "original"], Acknowledge>>
         \o Attempt(sendWriteDatagram("write name", "OLCB_TST"))
         \o TryExcept(<<Command("read name")>> \o getReplyDatagram,
                      RestoreName \o <<Return("failed")>>)
         \o WhenNot("OLCB_TST", RestoreName \o <<Return("failed")>>)
         \o RestoreName

\* The names are read outside of any "try".
check_cd40_acdi_writeback(o) ==
    Opening
      \o (IF o.answersPip THEN << >> ELSE <<Return("setup")>>)
      \o OnlyIf({"ADCDI", "MEMORY_CONFIGURATION"} \subseteq o.protocols)
      \o <<Command("options")>> \o Attempt(getReplyDatagram)
      \o <<Judge({"options"}, Anything, "failed")>>
      \o InfoOf("space FC", "info FC") \o InfoOf("space FB", "info FB")
      \o (IF "SNIP" \in o.protocols THEN getSnip("skip") ELSE << >>)
      \o Version \o <<Judge({"version"}, Anything, "failed")>>
      \o read_memory("read maker", "names")
      \o Version \o <<Judge({"version"}, Anything, "failed")>>
      \o read_memory("read name", "names")
      \o (IF "SNIP" \in o.protocols THEN <<Compare("names", "snip")>> ELSE << >>)
      \o RewriteName
      \o MustFail("write maker") \o MustFail("write version")
      \o <<Return("passed")>>

=============================================================================
