----------------------------- MODULE FrameChecks -----------------------------
(***************************************************************************)
(* Checks of the frame layer (check_fr*.py).  They read frames, not        *)
(* messages: the queue of a run is frameQueue, in which the messages of    *)
(* other nodes are frames too.                                             *)
(***************************************************************************)
EXTENDS CheckSteps

\* olcbchecker.purgeFrames: until none comes for 0.3 s.
purgeFrames == [Await({}, {}) EXCEPT !.empty = "next"]

\* getFrame, and a frame of one kind.
getFrame(kind, data) ==
    [AwaitGlobal({kind}, data) EXCEPT !.source = Anything, !.other = "failed"]

\* The device restarts and reserves an alias; each frame is the next on the bus.
\* Without a configured node ID the last comparison raises AttributeError.
check_fr10_init(o) ==
    LET cid(kind) ==
            [getFrame(kind, {"empty"}) EXCEPT !.want = "alias"]
    IN <<purgeFrames>> \o OnlyIf(o.interactive)
         \o <<[op |-> "restart"],
              [getFrame("CID 7", {"empty"}) EXCEPT !.save = "alias"],
              cid("CID 6"), cid("CID 5"), cid("CID 4"), cid("RID"),
              [getFrame("AMD", {"DBC"}) EXCEPT !.want = "alias"]>>
         \o (IF o.target THEN << >> ELSE <<Return("crashed")>>)
         \o <<Return("passed")>>

\* The AMD frame of the device, or of any node where none is configured.
TargetAMD(o) ==
    [getFrame("AMD", IF o.target THEN {"DBC"} ELSE {"DBC", "other", "bad"}) EXCEPT
        !.bad = "skip", !.save = "alias"]

\* The second frame may be of any node.
check_fr20_ame(o) ==
    <<purgeFrames, Send("AME", All, "empty"), TargetAMD(o),
      purgeFrames, Send("AME", All, "DBC"),
      getFrame("AMD", {"DBC", "other", "bad"}),
      Return("passed")>>

\* The device is driven out of its alias; it announces another one or none.  A frame
\* that does not begin a reservation is looked at by the second loop.
check_fr30_collide(o) ==
    LET renewed ==
            [AwaitGlobal({"AMD"}, {"DBC"}) EXCEPT
                !.source = Anything, !.bad = "skip", !.unlike = "alias",
                !.save = "announced", !.empty = "next"]
        another ==
            IfGot({"CID 7"}, <<[renewed EXCEPT !.want = "new alias"]>>, <<renewed>>)
    IN <<purgeFrames, Send("AME", All, "empty"), TargetAMD(o),
         purgeFrames, SendValue("CID", All, "empty", "alias"),
         getFrame("RID", {Anything}),
         SendValue("AMD", All, "Own", "alias"),
         getFrame("AMR", {Anything}),
         Send("Verify_NodeID_Number_Global", All, "verify"),
         [getFrame("CID 7", {Anything}) EXCEPT
             !.other = "leave", !.unlike = "alias", !.save = "new alias",
             !.empty = "out", !.exit = Len(another) + 1]>>
       \o another
       \o <<purgeFrames, Send("AME", All, "empty"),
            [Collect({"AMD"}, 1) EXCEPT
                !.source = Anything, !.good = {"DBC"}, !.bad = "skip", !.short = "skip",
                !.add = "AMDs"],
            Decide("another number", "failed"),
            Return("passed")>>

\* AME with a cleared high bit, which is to be ignored.
check_fr40_highbit(o) ==
    <<purgeFrames, Send("AME", All, "empty"), TargetAMD(o), Return("passed")>>

\* 300 messages before the request and 300 after it.
Flooded(mti, to, request, source) ==
    LET flood == Repeat(3, <<Send(mti, to, "flood")>>)
    IN flood
         \o <<Send(request, IF request = "Verify_NodeID_Number_Global" THEN All ELSE DBC,
                   "verify")>>
         \o flood
         \o <<[AwaitGlobal(VerifiedMtis, {"node ID", "bad"}) EXCEPT !.source = source]>>

check_fr50_capacity(o) ==
    Opening
      \o Flooded("Producer_Consumer_Event_Report", DBC, "Verify_NodeID_Number_Addressed",
                 "failed")
      \o <<Purge>>
      \o Flooded("Verify_NodeID_Number_Addressed", Own, "Verify_NodeID_Number_Global",
                 "skip")
      \o <<Purge>>
      \o Flooded("Identify_Consumer", DBC, "Verify_NodeID_Number_Global", "skip")
      \o <<Return("passed")>>

\* Frames with an 11-bit header must have no answer.
check_fr60_standard(o) ==
    <<purgeFrames, Purge>>
      \o Repeat(3, <<Send("standard frame", All, "empty"), Silence>>)
      \o <<Return("passed")>>

=============================================================================
