----------------------------- MODULE TrainChecks -----------------------------
(***************************************************************************)
(* Checks of train control (check_tr*.py).  Each script has a copy of      *)
(* getTrainControlReply, and most leave the train as it was in a "finally" *)
(* part.                                                                   *)
(***************************************************************************)
EXTENDS StreamSteps

Train(command) == Send("Traction_Control_Command", DBC, command)
TrainTo(command, val) == SendValue("Traction_Control_Command", DBC, command, val)

\* Any reply to a train command.
getTrainControlReply ==
    [Await({"Traction_Control_Reply"}, {Anything}) EXCEPT !.empty = "raise"]

\* A reply of that kind, which a "try" of its own turns into a failure.
Answered(body) ==
    [getTrainControlReply EXCEPT !.good = {body}, !.empty = "failed"]

OnTrain(o, steps) ==
    Opening \o PipGate(o, "TRAIN_CONTROL") \o steps \o <<Return("passed")>>

check_tr010_events(o) ==
    OnTrain(o,
        <<Send("Identify_Events_Addressed", DBC, "identify"),
          [Collect(producerIdMTIs \cup {"Producer_Consumer_Event_Report"}, 1) EXCEPT
              !.reports = "failed"],
          Need({<<t, "isTrain">> : t \in producerIdMTIs})>>)

\* What the train says of its speed or of its function is asked for, and a wrong
\* value only logged.
Query(what) == <<Train("query " \o what), [Answered(what) EXCEPT !.bad = "next"]>>

StopAfter(steps) == TryFinally(steps, <<TrainTo("set speed", "zero")>>)
SetSpeed(val) == <<TrainTo("set speed", val)>> \o Query("speed")

check_tr020_speed(o) ==
    OnTrain(o, StopAfter(SetSpeed("reverse") \o SetSpeed("reverse zero")
                           \o SetSpeed("forward") \o SetSpeed("zero")))

check_tr030_func(o) ==
    LET set(val) == <<TrainTo("set function", val)>>
    IN OnTrain(o, TryFinally(set("on") \o Query("function")
                               \o set("off") \o Query("function"),
                             set("off")))

check_tr040_estop(o) ==
    OnTrain(o, StopAfter(SetSpeed("reverse")
                           \o <<Train("emergency stop")>> \o Query("speed")
                           \o SetSpeed("forward")))

\* An event stops all trains, and another one lets them go; the second is not sent
\* where the check fails between them.
StoppedByEvent(stop, go) ==
    LET event(e) == <<Send("Producer_Consumer_Event_Report", All, e)>>
    IN StopAfter(SetSpeed("reverse") \o event(stop) \o Query("speed")
                   \o SetSpeed("forward") \o event(go))

check_tr050_gestop(o) == OnTrain(o, StoppedByEvent("emergency stop", "clear stop"))

\* Mutant: the trains are never let go.
check_tr060_geoff_kept(o) == OnTrain(o, StoppedByEvent("emergency off", "none"))

check_tr060_geoff(o) == OnTrain(o, StoppedByEvent("emergency off", "clear off"))

\* The second space is optional.
check_tr070_memspaces(o) ==
    OnTrain(o,
        <<Command("space FA")>> \o Attempt(getReplyDatagram)
          \o <<Judge({"info FA"}, Anything, "failed"), Command("space F9")>>
          \o Attempt(getReplyDatagram)
          \o <<Judge({"info F9", "no F9"}, Anything, "failed")>>)

\* Listeners, which are asked for by their index: "1 A" is the first of one.
check_tr080_listener(o) ==
    LET attach(x) == <<TrainTo("attach", x), [Answered("attached") EXCEPT !.want = x]>>
        detach(x) == TrainTo("detach", x)
        detached(x) == <<detach(x), [Answered("detached") EXCEPT !.want = x]>>
        query(k, val) ==
            <<TrainTo("query listener", k), [Answered("listener") EXCEPT !.want = val]>>
    IN OnTrain(o, TryFinally(
            query("first", "none") \o attach("A") \o query("first", "1 A")
              \o attach("B") \o query("first", "2 A") \o query("second", "2 B")
              \o detached("A") \o query("first", "1 B")
              \o <<detach("A"), Answered("not detached")>>
              \o detached("B") \o query("first", "none"),
            <<detach("A"), detach("B")>>))

\* No reply is needed to a release.
AnyReply == TryExcept(<<getTrainControlReply>>, << >>)

check_tr090_controller(o) ==
    LET query(val) ==
            <<Train("query controller"), [Answered("controller") EXCEPT !.want = val]>>
    IN OnTrain(o, TryFinally(
            query("nobody") \o <<Train("assign"), Answered("assigned")>> \o query("Own")
              \o <<Train("release")>> \o AnyReply \o <<Purge>>
              \o query("nobody"),
            <<Train("release")>>))

check_tr100_reserve(o) ==
    LET reserve == <<Train("reserve"), Answered("reserved")>>
    IN OnTrain(o, TryFinally(
            reserve \o reserve \o <<Train("unreserve")>> \o AnyReply \o <<Purge>>
              \o reserve,
            <<Train("unreserve")>>))

-----------------------------------------------------------------------------
(* The heartbeat, by which a train makes sure of its controller. *)

waitForHeartbeatRequest ==
    [Await({"Traction_Control_Reply"}, {"heartbeat"}) EXCEPT
        !.bad = "skip", !.short = "skip", !.long = {"heartbeat"}]
NoHeartbeat == [waitForHeartbeatRequest EXCEPT !.done = "failed", !.empty = "next"]

\* The speed is asked for after what has come is thrown away.
SpeedIs(moving) ==
    LET reply == [Answered("speed") EXCEPT !.good = {"speed", "bad"}]
    IN <<Purge, Train("query speed"),
         IF moving THEN [reply EXCEPT !.unlike = "zero"]
                   ELSE [reply EXCEPT !.want = "zero"]>>

\* A request without a deadline is a failure; a train that sends none passes.
check_tr110_heartbeat(o) ==
    LET go == <<TrainTo("set speed", "forward")>>
    IN OnTrain(o, TryFinally(
            <<Train("assign"), Answered("assigned")>> \o go
              \o <<[waitForHeartbeatRequest EXCEPT !.short = "failed", !.empty = "passed"],
                   Train("noop")>>
              \o SpeedIs(TRUE)
              \o <<waitForHeartbeatRequest, Sleep({"stop"})>>
              \o SpeedIs(FALSE)
              \o <<Purge, NoHeartbeat>>
              \o go
              \o <<waitForHeartbeatRequest, Train("emergency stop"), Purge, NoHeartbeat>>
              \o go
              \o <<Train("release"), Sleep({"heartbeat", "stop"}),
                   Train("assign"), [getTrainControlReply EXCEPT !.empty = "failed"]>>
              \o SpeedIs(TRUE),
            <<TrainTo("set speed", "zero"), Train("release")>>))

=============================================================================
