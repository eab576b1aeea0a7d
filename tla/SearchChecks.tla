----------------------------- MODULE SearchChecks -----------------------------
(***************************************************************************)
(* Checks of train search (check_ts*.py) and of the DCC detector           *)
(* (check_dd*.py).  Both are protocols made of events.                     *)
(***************************************************************************)
EXTENDS CheckSteps

Search(event) == Send("Identify_Producer", DBC, event)

\* Whoever says that it has found the train; "wrong" is what another event leads to.
Found(event, wrong) ==
    [AwaitGlobal({"Producer_Identified_Active"}, {event}) EXCEPT
        !.source = Anything, !.bad = wrong, !.short = wrong]

\* A train is not made by a search that does not ask for it.
check_ts10_create(o) ==
    Opening \o
    <<Purge, Search("find no train"), Silence,
      Search("make train 12"), Found("make train 12", "failed"),
      Search("find train 12"), Found("find train 12", "failed"),
      Return("passed")>>

check_ts20_partial(o) ==
    Opening \o
    <<Purge, Search("make train 1x23"), Found("make train 1x23", "skip"),
      Purge, Search("find train x1"), Found("find train x1", "skip"),
      Purge, Search("find train 12"), Found("find train 12", "failed"),
      Return("passed")>>

MakeTrain ==
    Opening \o
    <<Purge, Search("make train 12"), Found("make train 12", "failed"), Purge>>

check_ts30_reserved2(o) ==
    MakeTrain \o
    <<Search("reserved digits"),
      [Found("reserved digits", "skip") EXCEPT !.done = "failed", !.empty = "next"],
      Return("passed")>>

\* Nothing at all may come.
check_ts40_reserved4(o) ==
    MakeTrain \o
    <<Search("reserved bits"), Silence, Purge,
      Search("reserved bits"), Silence, Purge,
      Search("reserved bits"), Silence,
      Return("passed")>>

-----------------------------------------------------------------------------

DetectorMtis == producerIdMTIs \ {"Producer_Range_Identified"}

\* The events whose upper bytes are the node ID.
DetectorEvents(o, mtis) ==
    Opening \o PipGate(o, "EVENT_EXCHANGE") \o
    <<Send("Identify_Events_Addressed", DBC, "identify"),
      [Collect(mtis, 1) EXCEPT
          !.good = {"detector"}, !.bad = "skip", !.short = "skip", !.add = "codes"]>>

check_dd10_identify(o) ==
    DetectorEvents(o, producerIdMTIs) \o <<Decide("nothing", "failed"), Return("passed")>>

\* dcc_detector_utils.is_valid_event_id, of every event collected.
check_dd20_event_format(o) ==
    DetectorEvents(o, DetectorMtis) \o
    <<Decide("nothing", "failed"), Decide("invalid", "failed"), Return("passed")>>

\* Any range that comes, and the event from any node, is an answer.
check_dd30_identify_producer(o) ==
    DetectorEvents(o, DetectorMtis) \o
    <<Decide("nothing", "failed"),
      Send("Identify_Producer", All, "detector"),
      [AwaitGlobal(producerIdMTIs, {"detector"}) EXCEPT
          !.source = Anything, !.by = [Producer_Range_Identified |-> "next"],
          !.bad = "skip", !.short = "skip"],
      Return("passed")>>

check_dd40_track_empty(o) == DetectorEvents(o, DetectorMtis) \o <<Return("passed")>>

=============================================================================
