----------------------------- MODULE CheckSteps -----------------------------
(***************************************************************************)
(* The vocabulary in which the check_*.py scripts are specified.  A check  *)
(* is a sequence of steps; CheckRun runs them.  Every script consists of   *)
(* the same few forms: send a message, a loop around getMessage that       *)
(* filters what arrives, a purge, a decision, try and except.              *)
(*                                                                         *)
(* A message has an MTI, a source, a destination, a body (what kind of     *)
(* content it carries) and a value (memory contents, where they matter).   *)
(* "at" is the number of the request that the device had last received     *)
(* when it sent the message, "late" that it came after the time limit; no  *)
(* script can see them.                                                    *)
(***************************************************************************)
EXTENDS Naturals, Sequences, SequencesExt

None == "none"
Anything == "any"
DBC == "DBC"      \* the device being checked
Own == "Own"      \* the checker
Other == "Other"  \* any other node
Spoofed == "Spoofed"  \* the checker under a second alias
All == "All"      \* destination of a global message

Message(mti, src, dst, body, val, at) ==
    [mti |-> mti, src |-> src, dst |-> dst, body |-> body, val |-> val,
     at |-> at, late |-> FALSE]

\* Global messages have no destination.
GlobalMtis ==
    {"Initialization_Complete", "Initialization_Complete_Simple",
     "Verified_NodeID", "Verified_NodeID_Simple", "Producer_Consumer_Event_Report",
     "Producer_Identified_Unknown", "Producer_Identified_Active",
     "Producer_Identified_Inactive", "Producer_Range_Identified",
     "Consumer_Identified_Unknown", "Consumer_Identified_Active",
     "Consumer_Identified_Inactive", "Consumer_Range_Identified"}

\* Frames of the link layer, for the checks that see frames: the body is the node ID
\* in their data, the value the alias.
CidMtis == {"CID 7", "CID 6", "CID 5", "CID 4"}
FrameMtis == CidMtis \cup {"RID", "AMD", "AMR"}

PCER == "Producer_Consumer_Event_Report"
InitMtis == {"Initialization_Complete", "Initialization_Complete_Simple"}
VerifiedMtis == {"Verified_NodeID", "Verified_NodeID_Simple"}
DatagramReplies == {"Datagram_Received_OK", "Datagram_Rejected"}
StreamMtis ==
    {"Stream_Initiate_Request", "Stream_Initiate_Reply", "Stream_Data_Send",
     "Stream_Data_Proceed", "Stream_Data_Complete"}
producerIdMTIs == {"Producer_Identified_Unknown", "Producer_Identified_Active",
                   "Producer_Identified_Inactive", "Producer_Range_Identified"}
consumerIdMTIs == {"Consumer_Identified_Unknown", "Consumer_Identified_Active",
                   "Consumer_Identified_Inactive", "Consumer_Range_Identified"}

\* The results of a check: 0, 1, 2 and 3, and an exception that leaves it.
Verdicts == {"passed", "warned", "setup", "failed", "crashed"}

-----------------------------------------------------------------------------
(* Steps.  An outcome is a verdict, which ends the check, or one of        *)
(*   "next"   leave this step,                                             *)
(*   "leave"  leave this step, the next one takes the same message,        *)
(*   "skip"   stay and take the next message,                              *)
(*   "keep"   note the message, stay and take the next one,                *)
(*   "flag"   remember a failure, leave this step,                         *)
(*   "halve"  halve the timeout if the message is another node's, stay,    *)
(*   "out"    leave the loop that this step is the head of,                *)
(*   "raise"  raise an Exception.                                          *)

SendValue(mti, to, body, val) ==
    [op |-> "send", mti |-> mti, to |-> to, body |-> body, val |-> val]
Send(mti, to, body) == SendValue(mti, to, body, None)

Purge == [op |-> "purge"]

\* time.sleep, long enough for these timers of the device.
Sleep(timers) == [op |-> "sleep", long |-> timers]

Return(v) == [op |-> "return", verdict |-> v]

\* A loop around getMessage.  The filters are applied in this order: the MTI
\* ("fatal" whoever sends it, "other" for any not listed; another node's does not
\* lead "out"), the source, an MTI that has
\* an outcome of its own ("by"), the destination (that is not "to"; Anything: not
\* looked at), bodies of no interest, an MTI that is listed but wrong, a body that is
\* too short, any other wrong body (good = {Anything}: not looked at), the value
\* ("unlike": a value that it must not have; "among": those it may have, if any are
\* given).  "empty" is the outcome of a timeout, "late" that of a message that comes
\* after a time limit of the script's own, "reports" that of an event report for an
\* event not noted before, "save" the variable that the value is stored in, "add" the
\* list that it is appended to, "exit" how far "out" goes.
Await(mtis, good) ==
    [op |-> "wait", mtis |-> mtis, good |-> good, fatal |-> {}, other |-> "skip",
     source |-> "skip", dest |-> "skip", ignore |-> {}, right |-> mtis,
     short |-> "failed", bad |-> "failed", want |-> Anything, unlike |-> None, among |-> {},
     differ |-> "failed",
     done |-> "next", by |-> << >>, reports |-> None, late |-> None,
     save |-> None, add |-> None, notes |-> 1, exit |-> 1, long |-> {},
     to |-> Own, empty |-> "failed"]

\* The same loop around a message without a destination; one in which a wrong
\* source or destination is a failure.
AwaitGlobal(mtis, good) == [Await(mtis, good) EXCEPT !.dest = Anything]
AwaitStrict(mtis, good) ==
    [Await(mtis, good) EXCEPT !.source = "failed", !.dest = "failed"]

\* One getMessage, which must time out.
Silence == [Await({}, {}) EXCEPT !.other = "failed", !.empty = "next"]

\* The content of the message last accepted, looked at in a later statement.
Judge(good, want, outcome) ==
    [Await({}, good) EXCEPT !.op = "judge", !.want = want, !.short = outcome,
                            !.bad = outcome, !.differ = outcome]

\* Two lists must be the same.
Compare(first, second) == [op |-> "compare", first |-> first, second |-> second]

\* Messages with these MTIs are noted in set k of the notes until a timeout.
Collect(mtis, k) ==
    [AwaitGlobal(mtis, {Anything}) EXCEPT !.done = "keep", !.notes = k, !.empty = "next"]

\* Decisions on what was noted.
Decide(test, result) ==
    [op |-> "decide", test |-> test, verdict |-> result, on |-> None]

\* One of these messages (pairs of MTI and body) must have been noted.
Need(messages) == [Decide("missing", "failed") EXCEPT !.on = messages]

\* The steps that follow are skipped unless x was noted.
When(x, steps) ==
    <<[op |-> "when", note |-> x, size |-> Len(steps)]>> \o steps

\* The steps that follow are skipped unless the message last accepted has one of
\* these MTIs or bodies.
WhenGot(set, steps) ==
    <<[op |-> "when got", set |-> set, size |-> Len(steps)]>> \o steps

\* if and else, on the message last accepted.
IfGot(set, then, otherwise) ==
    WhenGot(set, then \o <<[op |-> "jump", size |-> Len(otherwise)]>>) \o otherwise

\* The steps that follow are run only when the value last accepted is not x.
WhenNot(x, steps) ==
    <<[op |-> "when not", want |-> x, size |-> Len(steps)]>> \o steps

\* while True: the first step leaves the loop with "out".
Loop(head, rest) ==
    <<[head EXCEPT !.exit = Len(rest) + 2]>> \o rest
      \o <<[op |-> "back", size |-> Len(rest) + 1]>>

Repeat(n, steps) == FlattenSeq([k \in 1 .. n |-> steps])

\* try and except; try and finally.  Exceptions are raised by "raise".
TryExcept(body, handler) ==
    <<[op |-> "try", kind |-> "except", size |-> Len(body) + 1]>> \o body
      \o <<[op |-> "leave", size |-> Len(handler)]>> \o handler
Attempt(body) == TryExcept(body, <<Return("failed")>>)
TryFinally(body, final) ==
    <<[op |-> "try", kind |-> "finally", size |-> Len(body) + 1]>> \o body
      \o <<[op |-> "leave", size |-> 0]>> \o final \o <<[op |-> "resume"]>>

\* gatherPIP and the lines after it in a check that applies only to devices with
\* the given protocol.  What the device answers to the inquiry is part of "o",
\* the options of the run; the exchange itself is the script gatherPIP.
PipGate(o, protocol) ==
    IF ~o.checkpip THEN << >>
    ELSE IF ~o.answersPip THEN <<Return("setup")>>
    ELSE IF protocol \notin o.protocols THEN <<Return("passed")>>
    ELSE <<Purge>>

\* The check does not apply to a device for which this does not hold.
OnlyIf(condition) == IF condition THEN << >> ELSE <<Return("passed")>>

\* The operator is asked; "no" ends the check with the given verdict.
Ask(no) == [op |-> "ask", no |-> no]

\* purgeMessages and getTargetID with a configured node ID.
Opening == <<Purge, Purge>>

\* The operator restarts the device, or a datagram does.
Reset(o) ==
    IF o.autoReboot THEN <<Send("Datagram", DBC, "reset")>>
    ELSE IF o.interactive THEN <<[op |-> "restart"]>>
    ELSE <<Return("passed")>>

=============================================================================
