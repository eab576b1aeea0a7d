----------------------------- MODULE ClockChecks -----------------------------
(***************************************************************************)
(* Checks of broadcast time (check_bt*.py).  An event of the clock has a   *)
(* body that says which field it reports ("run" is start or stop), and a   *)
(* value.                                                                  *)
(***************************************************************************)
EXTENDS CheckSteps

PIA == "Producer_Identified_Active"
Report == "Producer_Consumer_Event_Report"
Consumed == {"Consumer_Identified_Unknown", "Consumer_Identified_Active",
             "Consumer_Identified_Inactive"}

\* Events that are not of the clock.
NotClock == {"stray", "p", "c", "R", "short"}

\* The messages of a synchronization sequence, in their order.
SyncSteps ==
    <<<<PIA, "run">>, <<PIA, "rate">>, <<PIA, "year">>, <<PIA, "date">>,
      <<PIA, "time">>, <<Report, "time">>>>

_send_event(field, val) == SendValue(Report, All, "set " \o field, val)

Expect(k) ==
    [AwaitGlobal({SyncSteps[k][1]}, {SyncSteps[k][2]}) EXCEPT !.ignore = NotClock]

check_bt10_query(o) ==
    Opening \o <<Send(Report, All, "query clock")>>
      \o [k \in 1 .. 6 |-> Expect(k)]
      \o <<Return("passed")>>

SetClock(time) ==
    <<_send_event("time", time), _send_event("date", "set"), _send_event("year", "set"),
      _send_event("rate", "set")>>

\* Each message must be the next of the sequence and have the value that was set.
check_bt20_set(o) ==
    LET Wanted(k) == CASE k = 1 -> "stop" [] k = 6 -> "next" [] OTHER -> "set"
    IN Opening \o SetClock("set") \o <<_send_event("run", "stop")>>
         \o [k \in 1 .. 6 |-> [Expect(k) EXCEPT !.want = Wanted(k), !.long = {"sync"}]]
         \o <<Return("passed")>>

\* Mutant: of the message that ends the sequence the source is not looked at.
check_bt30_immediate_anySource(o) ==
    Opening \o
    <<_send_event("time", "set"),
      [AwaitGlobal({Report, PIA}, {"time"}) EXCEPT
          !.bad = "skip", !.short = "skip", !.want = "set", !.differ = "skip",
          !.late = "failed"],
      [AwaitGlobal({PIA}, {"run"}) EXCEPT
          !.source = Anything, !.bad = "skip", !.short = "skip", !.long = {"sync"}],
      Return("passed")>>

check_bt30_immediate(o) ==
    Opening \o
    <<_send_event("time", "set"),
      [AwaitGlobal({Report, PIA}, {"time"}) EXCEPT
          !.bad = "skip", !.short = "skip", !.want = "set", !.differ = "skip",
          !.late = "failed"],
      [AwaitGlobal({PIA}, {"run"}) EXCEPT
          !.bad = "skip", !.short = "skip", !.long = {"sync"}],
      Return("passed")>>

\* Two settings, one sequence.
check_bt40_multiset(o) ==
    Opening \o
    <<_send_event("time", "set"), Sleep({}), _send_event("rate", "set"),
      [Collect({PIA}, 1) EXCEPT
          !.good = {"run"}, !.bad = "skip", !.short = "skip", !.add = "syncs",
          !.long = {"sync"}],
      Decide("not once", "failed"),
      Return("passed")>>

\* The script measures the time between the reports.
check_bt50_freq(o) ==
    Opening \o
    <<_send_event("time", "set"), _send_event("rate", "set"), _send_event("run", "start"),
      Sleep({"sync"}), Purge,
      [Collect({Report}, 1) EXCEPT
          !.good = {"time"}, !.bad = "skip", !.short = "skip", !.add = "times",
          !.long = {"minute", "next minute"}],
      Decide("nothing", "failed"),
      Decide("too soon", "failed"),
      Return("passed")>>

\* Mutant: the report of the time that was set is a report, too.
check_bt60_requested_set(o) ==
    Opening \o <<Send("Consumer_Identified_Active", All, "time")>>
      \o SetClock("set") \o <<_send_event("run", "start")>>
      \o <<[AwaitGlobal({Report}, {"time"}) EXCEPT
               !.bad = "skip", !.short = "skip", !.long = {"sync", "minute"}],
           Return("passed")>>

\* Every message begins the 30 s anew.
check_bt60_requested(o) ==
    Opening \o <<Send("Consumer_Identified_Active", All, "time")>>
      \o SetClock("set") \o <<_send_event("run", "start")>>
      \o <<[AwaitGlobal({Report}, {"time"}) EXCEPT
               !.bad = "skip", !.short = "skip", !.want = "next", !.differ = "skip",
               !.long = {"sync", "minute"}],
           Return("passed")>>

Either(body) == {<<PIA, body>>, <<Report, body>>}

check_bt70_rollover(o) ==
    Opening \o SetClock("evening") \o <<_send_event("run", "start")>>
      \o <<Sleep({"sync"}), Purge,
           [Collect({PIA, Report}, 1) EXCEPT
               !.good = {"rollover", "year", "date"}, !.bad = "skip", !.short = "skip",
               !.add = "days", !.long = {"midnight", "after midnight"}],
           Need(Either("rollover")), Need(Either("year")), Need(Either("date")),
           Decide("not the next day", "failed"),
           Return("passed")>>

Ranges == {"Producer_Range_Identified", "Consumer_Range_Identified"}

\* A sequence is looked for among whatever the device sends when it starts.
check_bt80_startup(o) ==
    LET Look(k) ==
            [Expect(k) EXCEPT
                !.mtis = @ \cup Ranges, !.bad = "skip", !.short = "skip", !.empty = "flag",
                !.by = [t \in Ranges |-> "keep"]]
    IN Opening \o Reset(o)
         \o <<AwaitGlobal(InitMtis, {Anything})>>
         \o [k \in 1 .. 6 |-> Look(k)]
         \o <<Need({<<"Producer_Range_Identified", "clock">>}),
              Need({<<"Consumer_Range_Identified", "clock">>}),
              Decide("flagged", "failed"),
              Return("passed")>>

-----------------------------------------------------------------------------
(* Consumers of the clock. *)

check_bt100_consumer_startup(o) ==
    Opening \o (IF o.interactive THEN <<[op |-> "restart"]>> ELSE <<Return("passed")>>)
      \o <<AwaitGlobal(InitMtis, {Anything}),
           [AwaitGlobal(consumerIdMTIs, {"clock"}) EXCEPT
               !.bad = "skip", !.short = "skip"],
           Return("passed")>>

\* The sequence is sent to the device.
SendSync ==
    [k \in 1 .. 6 |-> SendValue(SyncSteps[k][1], All, SyncSteps[k][2], "set")]

_query_consumer_state(field, valid) ==
    <<Send("Identify_Consumer", All, field),
      [AwaitGlobal(Consumed, {field}) EXCEPT
          !.ignore = NotClock \cup {"bad"}, !.right = valid]>>

Valid == {"Consumer_Identified_Active", "Consumer_Identified_Unknown"}

check_bt110_consumer_sync(o) ==
    Opening \o SendSync \o <<Sleep({}), Purge>>
      \o FlattenSeq([k \in 1 .. 5 |-> _query_consumer_state(SyncSteps[k][2], Valid)])
      \o _query_consumer_state("run", Consumed)
      \o <<Return("passed")>>

\* The event is reported, and the device asked whether it consumes it.
ChangeAndQuery(field) ==
    <<Purge, Send(Report, All, field), Sleep({}), Purge>>
      \o _query_consumer_state(field, Valid)

check_bt120_consumer_startstop(o) ==
    Opening \o SendSync \o <<Sleep({}), Purge>>
      \o _query_consumer_state("run", Valid)
      \o ChangeAndQuery("run") \o ChangeAndQuery("run")
      \o <<Return("passed")>>

check_bt130_consumer_rate(o) ==
    Opening \o SendSync \o <<Sleep({}), Purge>>
      \o _query_consumer_state("rate", Valid)
      \o ChangeAndQuery("rate")
      \o <<Return("passed")>>

=============================================================================
