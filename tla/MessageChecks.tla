---------------------------- MODULE MessageChecks ----------------------------
(***************************************************************************)
(* Checks of the message network (check_me*.py), of events (check_ev*.py)  *)
(* and of the node information (check_sn10_snip.py).  "o" are the options  *)
(* of the run and what the device lists in its PIP reply.                  *)
(***************************************************************************)
EXTENDS CheckSteps

\* olcbchecker.getTargetID without a configured node ID: the node that answers
\* first is the one that is checked.  Without an answer the checks have no device.
getTargetID(o) ==
    <<Purge,
      Send("Verify_NodeID_Number_Global", All, "verify"),
      [AwaitGlobal(VerifiedMtis, {Anything}) EXCEPT !.source = Anything],
      [Await({}, {}) EXCEPT !.empty = "next"],
      Purge,
      Return("passed")>>

\* olcbchecker.gatherPIP; the contents are used by the callers.
gatherPIP(o) ==
    <<Send("Protocol_Support_Inquiry", DBC, "inquiry"),
      [Await({"Protocol_Support_Reply"}, {Anything}) EXCEPT
          !.source = Anything, !.dest = Anything, !.empty = "setup"],
      Purge,
      Return("passed")>>

check_me10_init(o) ==
    Opening \o Reset(o)
      \o <<[AwaitGlobal(InitMtis, {"node ID"}) EXCEPT !.source = "failed"],
           Return("passed")>>

VerifiedMti(o) ==
    IF "SIMPLE" \in o.protocols THEN "Verified_NodeID_Simple" ELSE "Verified_NodeID"

\* The first reply is looked for among the full nodes' only.
check_me20_verify(o) ==
    Opening \o IF ~o.answersPip THEN <<Return("warned")>> ELSE
    <<Purge,
      Send("Verify_NodeID_Number_Global", All, "verify"),
      [AwaitGlobal({"Verified_NodeID"}, {"node ID"}) EXCEPT !.right = {VerifiedMti(o)}],
      Purge,
      Send("Verify_NodeID_Number_Addressed", DBC, "verify"),
      [AwaitGlobal(VerifiedMtis, {"node ID"}) EXCEPT
          !.right = {VerifiedMti(o)}, !.source = "failed"],
      Purge,
      Send("Verify_NodeID_Number_Addressed", Own, "verify"),
      Silence,
      Return("passed")>>

\* A reply of less than two bytes raises IndexError.
check_me30_pip(o) ==
    Opening \o
    <<Send("Protocol_Support_Inquiry", DBC, "inquiry"),
      [AwaitStrict({"Protocol_Support_Reply"}, {"protocols"}) EXCEPT
          !.short = "crashed"]>>
      \o (IF o.interactive THEN <<Ask("failed")>> ELSE << >>)
      \o <<Send("Protocol_Support_Inquiry", Own, "inquiry"),
           Silence,
           Return("passed")>>

check_me40_oir(o) ==
    Opening \o
    <<Send("Link_Layer_Down", All, "unknown"),
      Silence,
      Send("New_Node_Seen", Own, "unknown"),
      Silence,
      Send("New_Node_Seen", DBC, "unknown"),
      AwaitStrict({"Optional_Interaction_Rejected"}, {"New_Node_Seen"}),
      Return("passed")>>

\* The report is optional, so a device without it passes unless the operator
\* saw no other sign.
check_me50_dup(o) ==
    LET report == [AwaitGlobal({"Producer_Consumer_Event_Report"}, {"duplicate"})
                       EXCEPT !.source = Anything]
    IN Opening
         \o <<Send("Verified_NodeID", All, "DBC")>>
         \o (IF o.interactive
             THEN TryExcept(<<[report EXCEPT !.empty = "raise"]>>, <<Ask("failed")>>)
             ELSE <<[report EXCEPT !.empty = "next"]>>)
         \o <<Return("passed")>>

check_me60_pip_simple(o) ==
    Opening \o IF ~o.answersPip THEN <<Return("setup")>> ELSE
    <<Purge, Purge,
      Send("Verify_NodeID_Number_Addressed", DBC, "verify"),
      [AwaitGlobal(VerifiedMtis, {Anything}) EXCEPT !.right = {VerifiedMti(o)}],
      Return("passed")>>

\* All replies are joined, and the whole judged at the end.
check_sn10_snip(o) ==
    Opening \o PipGate(o, "SNIP") \o
    <<Send("Simple_Node_Ident_Info_Request", DBC, "inquiry"),
      [Collect({"Simple_Node_Ident_Info_Reply"}, 1) EXCEPT
          !.source = "failed", !.dest = "failed", !.add = "snip"],
      Decide("not SNIP", "failed"),
      Return("passed")>>

-----------------------------------------------------------------------------
(* Events.  The device produces event p and the range R, which contains    *)
(* event q, and consumes event c.                                          *)

EventMtis == producerIdMTIs \cup consumerIdMTIs

\* A report of an event that has not been identified before is a failure.
CollectEvents ==
    [Collect(EventMtis \cup {PCER}, 1) EXCEPT !.reports = "failed"]

\* The addressed request must give what was seen before.
SameWhenAddressed ==
    <<Send("Identify_Events_Addressed", DBC, "identify"),
      [Collect(EventMtis, 2) EXCEPT !.source = "failed"],
      Decide("not the same", "failed"),
      Return("passed")>>

check_ev10_ida(o) ==
    Opening \o PipGate(o, "EVENT_EXCHANGE") \o
    <<Send("Identify_Events_Addressed", DBC, "identify"),
      CollectEvents,
      Decide("nothing", "warned"),
      Return("passed")>>

check_ev20_idg(o) ==
    Opening \o PipGate(o, "EVENT_EXCHANGE") \o
    <<Send("Identify_Events_Global", All, "identify"),
      CollectEvents,
      Decide("nothing", "failed")>>
      \o SameWhenAddressed

\* For each event noted: the request, and the loop that waits for its answer,
\* whoever sends it.
IdentifyEach(request, mtis) ==
    LET One(e) == When(e, <<Send(request, All, e),
                            [AwaitGlobal(mtis, {e}) EXCEPT
                                !.source = Anything, !.bad = "skip", !.short = "skip",
                                !.empty = "flag"]>>)
    IN One("p") \o One("c") \o One("bad") \o One("short")

check_ev30_ip(o) ==
    LET mtis == producerIdMTIs \ {"Producer_Range_Identified"} IN
    Opening \o PipGate(o, "EVENT_EXCHANGE")
      \o <<Send("Identify_Events_Addressed", DBC, "identify"),
           [Collect(mtis, 1) EXCEPT !.source = "failed"]>>
      \o IdentifyEach("Identify_Producer", mtis)
      \o <<Decide("flagged", "failed"), Return("passed")>>

check_ev40_ic(o) ==
    LET mtis == consumerIdMTIs \ {"Consumer_Range_Identified"} IN
    Opening \o PipGate(o, "EVENT_EXCHANGE")
      \o <<Send("Identify_Events_Addressed", DBC, "identify"),
           [Collect(mtis, 1) EXCEPT !.source = "failed"]>>
      \o IdentifyEach("Identify_Consumer", mtis)
      \o <<Decide("flagged", "failed"), Return("passed")>>

\* The halved timeout is computed and never used.
check_ev50_ini(o) ==
    Opening \o Reset(o) \o
    <<AwaitGlobal(InitMtis, {Anything}),
      CollectEvents,
      Decide("nothing", "failed")>>
      \o SameWhenAddressed

\* Mutant: the timeout is never halved.
Soak_steady(o) ==
    <<[AwaitGlobal(InitMtis, {}) EXCEPT !.bad = "failed", !.empty = "next"]>>
      \o (IF o.interactive THEN <<Ask("failed")>> ELSE << >>)
      \o <<Return("passed")>>

\* The wait for a node that must not restart.  Each message of another node
\* halves the timeout.
Soak(o) ==
    <<[AwaitGlobal(InitMtis, {}) EXCEPT
          !.source = "halve", !.other = "halve", !.bad = "failed", !.empty = "next"]>>
      \o (IF o.interactive THEN <<Ask("failed")>> ELSE << >>)
      \o <<Return("passed")>>

check_ev60_ewp(o) ==
    Opening \o <<Send("Event_With_Payload", All, "frames")>> \o Soak(o)

check_ev70_lrn(o) ==
    Opening \o <<Send("Learn_Event", All, "learn")>> \o Soak(o)

=============================================================================
