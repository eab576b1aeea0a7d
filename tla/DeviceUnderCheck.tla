-------------------------- MODULE DeviceUnderCheck --------------------------
(***************************************************************************)
(* The other end of a check: a device that follows the OpenLCB standards,  *)
(* as far as the checks in src/ ask something of it.  Not code of the      *)
(* repository; it is modelled from what the scripts send and expect.       *)
(***************************************************************************)
EXTENDS CheckSteps, TLC

ClockFields == {"time", "date", "year", "rate", "run"}

NewDevice ==
    [lock |-> "zero",       \* the node that holds the configuration lock
     cell |-> "orig",       \* the byte of memory that the checks write
     name |-> "name",       \* the user's name for the device
     reading |-> None,      \* what is read by stream
     open |-> {},           \* streams to the device
     half |-> {},           \* those of them with half a window received
     spoofed |-> FALSE,     \* the checker's second alias is in use
     speed |-> "zero",      \* of a train
     function |-> "off",
     controller |-> "nobody",
     reserved |-> FALSE,
     listeners |-> << >>,
     stopped |-> FALSE,     \* all trains are stopped by an event
     alias |-> "a1",        \* on the CAN bus
     clock |-> [f \in ClockFields |-> "old"],
     timer |-> "none"]      \* what the device does after some time

ToAll(mti, body) == [mti |-> mti, dst |-> All, body |-> body, val |-> None]
ToOwn(mti, body) == [mti |-> mti, dst |-> Own, body |-> body, val |-> None]
Carrying(mti, body, val) == [mti |-> mti, dst |-> Own, body |-> body, val |-> val]

IsSimple(o) == "SIMPLE" \in o.protocols
VerifiedReply(o) ==
    ToAll(IF IsSimple(o) THEN "Verified_NodeID_Simple" ELSE "Verified_NodeID",
          "node ID")
Initialized(o) ==
    ToAll(IF IsSimple(o) THEN "Initialization_Complete_Simple"
          ELSE "Initialization_Complete", "node ID")

Identified ==
    <<ToAll("Producer_Identified_Unknown", "p"),
      ToAll("Producer_Range_Identified", "R"),
      ToAll("Consumer_Identified_Active", "c")>>

\* What a train or a detector lists besides.
Listings ==
    [train |-> ToAll("Producer_Identified_Active", "isTrain"),
     detector |-> [ToAll("Producer_Identified_Inactive", "detector") EXCEPT
                       !.val = "valid"]]

\* The searches that a command station answers.
Searches == {"make train 12", "find train 12", "make train 1x23", "find train x1"}

\* The range of the clock's events, which it announces when it starts.
ClockRanges ==
    <<ToAll("Producer_Range_Identified", "clock"),
      ToAll("Consumer_Range_Identified", "clock")>>

-----------------------------------------------------------------------------
(* The clock.  It reports a setting at once, and all fields when nothing   *)
(* has been set for a while.                                               *)

Reporting(mti, field, val) == [mti |-> mti, dst |-> All, body |-> field, val |-> val]
Active(field, val) == Reporting("Producer_Identified_Active", field, val)
Tick(val) == Reporting("Producer_Consumer_Event_Report", "time", val)

SetField ==
    [b \in {"set time", "set date", "set year", "set rate", "set run"} |->
        CASE b = "set time" -> "time" [] b = "set date" -> "date"
          [] b = "set year" -> "year" [] b = "set rate" -> "rate"
          [] b = "set run" -> "run"]

Synchronization(clock) ==
    <<Active("run", clock["run"]), Active("rate", clock["rate"]),
      Active("year", clock["year"]), Active("date", clock["date"]),
      Active("time", clock["time"]), Tick("next")>>

\* Events that stop all trains, and let them go.
StopEvents == {"emergency stop", "emergency off", "clear stop", "clear off"}

ClockAnswer(o, device, m) ==
    CASE m.body = "query clock" -> Synchronization(device.clock)
      [] m.body \in DOMAIN SetField /\ o.kind = "identifies settings" ->
            <<Active(SetField[m.body], m.val)>>
      [] m.body \in DOMAIN SetField ->
            <<Reporting("Producer_Consumer_Event_Report", SetField[m.body], m.val)>>
      [] OTHER -> << >>

EventEffect(device, m) ==
    IF m.mti = "Producer_Consumer_Event_Report" /\ m.body \in DOMAIN SetField
    THEN [device EXCEPT !.clock[SetField[m.body]] = m.val, !.timer = "sync"]
    ELSE IF m.mti = "Producer_Consumer_Event_Report" /\ m.body \in StopEvents
    THEN [device EXCEPT !.stopped = m.body \in {"emergency stop", "emergency off"}]
    ELSE device

\* What the device sends when its timer has run out, and the next timer.
TimerSends(device) ==
    CASE device.timer = "sync" -> Synchronization(device.clock)
      [] device.timer \in {"minute", "next minute"} -> <<Tick("next")>>
      [] device.timer = "midnight" ->
            <<Reporting("Producer_Consumer_Event_Report", "rollover", None)>>
      [] device.timer = "after midnight" ->
            <<Active("year", None), Active("date", "next")>>
      [] device.timer = "heartbeat" ->
            <<[mti |-> "Traction_Control_Reply", dst |-> Own, body |-> "heartbeat",
               val |-> None]>>
      [] OTHER -> << >>

NextTimer(device) ==
    CASE device.timer = "heartbeat" -> "stop"
      [] device.timer = "sync" /\ device.clock["run"] = "start" ->
            IF device.clock["time"] = "evening" THEN "midnight" ELSE "minute"
      [] device.timer = "minute" -> "next minute"
      [] device.timer = "midnight" -> "after midnight"
      [] OTHER -> "none"

\* How a device says that it consumes the events of the clock.
Consumes(o) ==
    CASE o.kind = "registers events" -> "Consumer_Identified_Active"
      [] o.kind = "inactive events" -> "Consumer_Identified_Inactive"
      [] OTHER -> "Consumer_Identified_Unknown"

-----------------------------------------------------------------------------

\* A request that is not a datagram.
Answer(o, device, m) ==
    CASE m.mti = "Verify_NodeID_Number_Global" -> <<VerifiedReply(o)>>
      [] m.mti = "Verify_NodeID_Number_Addressed" -> <<VerifiedReply(o)>>
      [] m.mti = "Protocol_Support_Inquiry" ->
            <<ToOwn("Protocol_Support_Reply", "protocols")>>
      [] m.mti = "New_Node_Seen" ->
            <<ToOwn("Optional_Interaction_Rejected", "New_Node_Seen")>>
      [] m.mti = "Simple_Node_Ident_Info_Request" ->
            <<Carrying("Simple_Node_Ident_Info_Reply", "SNIP", "maker"),
              Carrying("Simple_Node_Ident_Info_Reply", "SNIP", device.name)>>
      [] m.mti = "Verified_NodeID" ->
            <<ToAll("Producer_Consumer_Event_Report", "duplicate")>>
      [] m.mti = "Identify_Events_Addressed" /\ o.lists \in DOMAIN Listings ->
            <<Listings[o.lists]>> \o Identified
      [] m.mti \in {"Identify_Events_Addressed", "Identify_Events_Global"} ->
            Identified
      [] m.mti = "Identify_Producer" /\ m.body \in Searches ->
            <<ToAll("Producer_Identified_Active", m.body)>>
      [] m.mti = "Identify_Producer" /\ m.body = "detector" -> <<Listings["detector"]>>
      [] m.mti = "Producer_Consumer_Event_Report" -> ClockAnswer(o, device, m)
      [] m.mti = "Identify_Consumer" /\ m.body \in ClockFields ->
            <<ToAll(Consumes(o), m.body)>>
      [] m.mti = "Identify_Producer" /\ m.body = "p" ->
            <<ToAll("Producer_Identified_Unknown", "p")>>
      [] m.mti = "Identify_Consumer" /\ m.body = "c" ->
            <<ToAll("Consumer_Identified_Active", "c")>>
      [] OTHER -> << >>

-----------------------------------------------------------------------------
(* Datagrams. *)

\* Kinds of device.
Kinds == <<"no masks", "read only", "low address", "whole space", "rejects reads",
           "replies to writes">>
TrainKinds == <<"asks for heartbeats", "confirms releases", "no F9">>

Rejection == <<ToOwn("Datagram_Rejected", "permanent")>>
Reply(body, val) ==
    <<ToOwn("Datagram_Received_OK", "pending"), Carrying("Datagram", body, val)>>

\* Beyond the highest address.  A request for the address after the last of 32 bits
\* is one for an address at the beginning.
ReplyBeyond(o, body, failed) ==
    CASE o.kind = "whole space" -> Reply(body, "memory")
      [] o.kind = "rejects reads" -> Rejection
      [] OTHER -> Reply(failed, None)

Wrote(o) ==
    IF o.kind = "replies to writes" THEN Reply("write ok", None)
    ELSE <<ToOwn("Datagram_Received_OK", "ok")>>

Masked(cell, bits) ==
    CASE bits = "low" -> IF cell = "orig" THEN "low" ELSE "low junk"
      [] bits = "high" -> IF cell = "low" THEN "AF" ELSE "A0"

\* The holder of the lock keeps it until it is released.
Holder(lock, node) == IF lock = "zero" \/ node = "zero" THEN node ELSE lock

\* What is said of an address space: that of the description, of the functions and of
\* the two that hold the names are as every device has them.
DatagramAnswer(o, device, m) ==
    CASE m.body = "options" -> Reply("options", None)
      [] m.body = "space FD" ->
            Reply(IF o.kind = "low address" THEN "low FD" ELSE "info FD", None)
      [] m.body = "space F9" ->
            Reply(IF o.kind = "no F9" THEN "no F9" ELSE "info F9", None)
      [] m.body = "space FF" -> Reply("info FF", None)
      [] m.body = "space FA" -> Reply("info FA", None)
      [] m.body = "space FB" -> Reply("info FB", None)
      [] m.body = "space FC" -> Reply("info FC", None)
      [] m.body = "read maker" -> Reply("string", "maker")
      [] m.body = "read name" -> Reply("string", device.name)
      [] m.body = "read version" -> Reply("version", None)
      [] m.body = "read first" -> Reply("text", "first")
      [] m.body = "read last" -> Reply("text", "last")
      [] m.body = "read" -> Reply("read", "memory")
      [] m.body = "read byte" -> Reply("read byte", device.cell)
      [] m.body = "read beyond" -> ReplyBeyond(o, "read", "read failed")
      [] m.body = "read stream beyond" ->
            ReplyBeyond(o, "read stream", "read stream failed")
      [] m.body \in {"write byte", "write masked", "write name"} -> Wrote(o)
      [] m.body \in {"write maker", "write version"} ->
            IF o.kind = "rejects reads" THEN Rejection ELSE Reply("write failed", None)
      [] m.body = "lock" -> Reply("lock", Holder(device.lock, m.val))
      [] m.body \in {"read stream", "read stream text"} ->
            <<ToOwn("Datagram_Received_OK", "pending"),
              ToOwn("Stream_Initiate_Request", "open")>>
      [] m.body = "write stream" -> <<ToOwn("Datagram_Received_OK", "pending")>>
      [] OTHER -> Rejection

DatagramEffect(device, m) ==
    CASE m.body = "write byte" -> [device EXCEPT !.cell = m.val]
      [] m.body = "write masked" -> [device EXCEPT !.cell = Masked(@, m.val)]
      [] m.body = "write name" -> [device EXCEPT !.name = m.val]
      [] m.body = "lock" -> [device EXCEPT !.lock = Holder(@, m.val)]
      [] m.body \in {"read stream", "read stream text"} ->
            [device EXCEPT !.reading = m.body]
      [] OTHER -> device

-----------------------------------------------------------------------------
(* Streams.  What the device sends is longer than a window in one case; it *)
(* sends it in two parts.  As the receiver it counts windows in halves.    *)
(* A request is answered to the node that sent it.                         *)

StreamKinds == <<"no streams", "one stream", "stream errors">>

Sender(sid) == IF sid = "S" THEN Spoofed ELSE Own
StreamReply(mti, body, sid) ==
    <<[mti |-> mti, dst |-> Sender(sid), body |-> body, val |-> sid]>>

Accepting(o, device) ==
    /\ "STREAM" \in o.protocols
    /\ o.kind \notin {"no streams", "stream errors"}
    /\ o.kind = "one stream" => device.open = {}

\* A window is full.
Filled(device, m) ==
    /\ m.val \in device.open
    /\ m.body = "window" \/ (m.body = "half" /\ m.val \in device.half)

StreamAnswer(o, device, m) ==
    CASE m.mti = "Stream_Initiate_Reply" ->
            IF device.reading = "read stream"
            THEN <<Carrying("Datagram", "read stream", None),
                   Carrying("Stream_Data_Send", "part", "memory"),
                   ToOwn("Stream_Data_Complete", "complete")>>
            ELSE <<Carrying("Datagram", "read stream", None),
                   Carrying("Stream_Data_Send", "full", "first")>>
      [] m.mti = "Stream_Data_Proceed" ->
            <<Carrying("Stream_Data_Send", "part", "last"),
              ToOwn("Stream_Data_Complete", "complete")>>
      [] m.mti = "Stream_Initiate_Request" ->
            IF Accepting(o, device)
            THEN StreamReply("Stream_Initiate_Reply", "accept", m.val)
            ELSE IF o.kind = "no streams" \/ "STREAM" \notin o.protocols
            THEN StreamReply("Optional_Interaction_Rejected", "rejected", m.val)
            ELSE StreamReply("Stream_Initiate_Reply", "error", m.val)
      [] m.mti = "Stream_Data_Send" /\ Filled(device, m) ->
            StreamReply("Stream_Data_Proceed", "proceed", m.val)
      [] m.mti = "Stream_Data_Complete" /\ m.val = "memory" ->
            <<Carrying("Datagram", "write stream", None)>>
      [] OTHER -> << >>

StreamEffect(o, device, m) ==
    CASE m.mti = "Stream_Initiate_Request" /\ Accepting(o, device) ->
            [device EXCEPT !.open = @ \cup {m.val}]
      [] m.mti = "Stream_Data_Send" /\ m.body = "part" -> [device EXCEPT !.cell = m.val]
      [] m.mti = "Stream_Data_Send" /\ m.body = "half" ->
            [device EXCEPT !.half = IF m.val \in @ THEN @ \ {m.val} ELSE @ \cup {m.val}]
      [] m.mti \in {"Stream_Data_Complete", "Terminate_Due_To_Error"} ->
            [device EXCEPT !.open = @ \ {m.val}, !.half = @ \ {m.val}]
      [] OTHER -> device

-----------------------------------------------------------------------------
(* Trains. *)

Moving(speed) == speed \in {"forward", "reverse"}
Stopping(speed) == IF speed = "reverse" THEN "reverse zero" ELSE speed \o " stopped"

\* The k-th listener, and how many there are.
Listed(listeners, k) ==
    IF Len(listeners) < k THEN "none"
    ELSE (IF Len(listeners) = 1 THEN "1 " ELSE "2 ") \o listeners[k]

TrainReply(body, val) ==
    <<[mti |-> "Traction_Control_Reply", dst |-> Own, body |-> body, val |-> val]>>

\* The reply to a release is optional.
IfConfirmed(o, body) ==
    IF o.kind = "confirms releases" THEN TrainReply(body, None) ELSE << >>

TrainAnswer(o, device, m) ==
    CASE m.body = "query speed" -> TrainReply("speed", device.speed)
      [] m.body = "query function" -> TrainReply("function", device.function)
      [] m.body = "query controller" -> TrainReply("controller", device.controller)
      [] m.body = "query listener" ->
            TrainReply("listener",
                       Listed(device.listeners, IF m.val = "first" THEN 1 ELSE 2))
      [] m.body = "assign" -> TrainReply("assigned", None)
      [] m.body = "reserve" -> TrainReply("reserved", None)
      [] m.body = "release" -> IfConfirmed(o, "released")
      [] m.body = "unreserve" -> IfConfirmed(o, "released")
      [] m.body = "attach" -> TrainReply("attached", m.val)
      [] m.body = "detach" ->
            TrainReply(IF Contains(device.listeners, m.val) THEN "detached"
                       ELSE "not detached", m.val)
      [] OTHER -> << >>

Obeyed(device, m) ==
    CASE m.body = "set speed" -> [device EXCEPT !.speed = m.val]
      [] m.body = "emergency stop" -> [device EXCEPT !.speed = Stopping(@)]
      [] m.body = "set function" -> [device EXCEPT !.function = m.val]
      [] m.body = "assign" -> [device EXCEPT !.controller = "Own"]
      [] m.body = "release" -> [device EXCEPT !.controller = "nobody"]
      [] m.body = "reserve" -> [device EXCEPT !.reserved = TRUE]
      [] m.body = "unreserve" -> [device EXCEPT !.reserved = FALSE]
      [] m.body = "attach" -> [device EXCEPT !.listeners = Append(@, m.val)]
      [] m.body = "detach" ->
            [device EXCEPT !.listeners = SelectSeq(@, LAMBDA x : x # m.val)]
      [] OTHER -> device

\* Every command of the controller sets the deadline anew.
TrainEffect(o, device, m) ==
    LET d == Obeyed(device, m)
    IN [d EXCEPT !.timer = IF o.kind = "asks for heartbeats" /\ d.controller = "Own"
                              /\ Moving(d.speed)
                           THEN "heartbeat" ELSE "none"]

-----------------------------------------------------------------------------
(* Frames of the link layer. *)

AliasFrame(mti, data, alias) ==
    [mti |-> mti, dst |-> All, body |-> data, val |-> alias]

Reservation(alias) ==
    [k \in 1 .. 4 |-> AliasFrame(<<"CID 7", "CID 6", "CID 5", "CID 4">>[k], "empty", alias)]
      \o <<AliasFrame("RID", "empty", alias), AliasFrame("AMD", "DBC", alias)>>

FrameAnswer(o, device, m) ==
    CASE m.mti = "AME" /\ m.body \in {"empty", "DBC"} /\ device.alias # None ->
            <<AliasFrame("AMD", "DBC", device.alias)>>
      [] m.mti = "CID" /\ m.val = device.alias ->
            <<AliasFrame("RID", "empty", device.alias)>>
      [] m.mti = "AMD" /\ m.val = device.alias ->
            <<AliasFrame("AMR", "DBC", device.alias)>>
              \o IF o.kind = "gives up its alias" THEN << >> ELSE Reservation("a2")
      [] OTHER -> << >>

FrameEffect(o, device, m) ==
    IF m.val = "299" THEN [device EXCEPT !.spoofed = m.mti = "AMD"]
    ELSE IF m.mti = "AMD" /\ m.val = device.alias
    THEN [device EXCEPT !.alias = IF o.kind = "gives up its alias" THEN None ELSE "a2"]
    ELSE device

-----------------------------------------------------------------------------

\* What the device does with a message sent to it, or to all.
React(o, device, m) ==
    CASE m.mti = "Datagram" /\ m.body = "reset" ->
            [device |-> NewDevice,
             sends |-> (IF o.frames THEN Reservation(NewDevice.alias) ELSE << >>)
                         \o <<Initialized(o)>> \o Identified
                         \o (IF o.clock THEN ClockRanges \o Synchronization(NewDevice.clock)
                             ELSE << >>)]
      [] m.mti = "Traction_Control_Command" ->
            [device |-> TrainEffect(o, device, m), sends |-> TrainAnswer(o, device, m)]
      [] m.mti \in {"AME", "CID", "RID", "AMD", "AMR"} ->
            [device |-> FrameEffect(o, device, m), sends |-> FrameAnswer(o, device, m)]
      [] m.mti = "Datagram" ->
            [device |-> DatagramEffect(device, m), sends |-> DatagramAnswer(o, device, m)]
      [] m.mti \in StreamMtis \cup {"Terminate_Due_To_Error"} ->
            [device |-> StreamEffect(o, device, m), sends |-> StreamAnswer(o, device, m)]
      [] OTHER -> [device |-> EventEffect(device, m), sends |-> Answer(o, device, m)]

=============================================================================
