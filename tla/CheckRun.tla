------------------------------ MODULE CheckRun ------------------------------
(***************************************************************************)
(* A check script at work: the main thread runs its steps, the receive     *)
(* thread puts what arrives into messageQueue, the device answers, and     *)
(* other nodes send messages of their own.  One reply of the device may be *)
(* lost, wrong, too short or late, and the device may restart.             *)
(***************************************************************************)
EXTENDS FiniteSets, SequencesExt, CheckScripts, CheckShape

CONSTANTS
    Scripts,     \* the scripts to run
    Faults,      \* what may go wrong in the device
    MaxStrays,   \* bound: messages that have nothing to do with the check
    MaxQueue     \* bound: messages in the queue when a stray one arrives

ASSUME BoundsAssumption == MaxStrays \in Nat /\ MaxQueue \in Nat

VARIABLES
    script,     \* the check that runs
    profile,    \* the number of its configuration, options
    pc,         \* the number of the step that is next
    step,       \* that step
    handlers,   \* try blocks the script is in, the innermost first
    leaving,    \* verdict or exception held back while "finally" runs
    verdict,    \* the result, once there is one
    queue,      \* messageQueue
    got,        \* the message last accepted
    stored,     \* values stored by the script
    notes,      \* messages noted by the script
    flagged,    \* a failure noted
    timeouts,   \* how often the timeout can still be halved before it is short
    device,     \* the state of the device
    transit,    \* messages from the device that have not arrived
    asked,      \* number of requests sent
    fault,      \* what has gone wrong
    strays,     \* messages of other nodes, for MaxStrays
    marks,      \* ghost: what the script has accepted or failed on that it should not
    opened      \* ghost: the streams that the script knows to be open

control == <<pc, step, handlers, leaving, verdict>>
data == <<got, stored, notes, flagged, timeouts>>
world == <<device, transit, asked, fault, strays>>
ghosts == <<marks, opened>>
vars == <<script, profile, control, queue, data, world, ghosts>>

\* The checks that watch for a restart of the device, and those that watch its pace.
Paced == {"bt40", "bt50"}
Soaks == {"ev60", "ev70", "da40", "mc60", "st10", "st70", "st80", "st85", "st200"}

Options == [s \in Scripts |-> ProfilesOf(s)]
Programs ==
    [s \in Scripts |-> [k \in DOMAIN Options[s] |-> ProgramOf(s, Options[s][k])]]

options == Options[script][profile]
program == Programs[script][profile]
StepAt(n) == IF n \in DOMAIN program THEN program[n] ELSE [op |-> "beyond the end"]
Running == verdict = None
At(op) == Running /\ step.op = op

-----------------------------------------------------------------------------
(* How a script goes on after a step. *)

Here == [pc |-> pc, handlers |-> handlers, leaving |-> leaving, verdict |-> verdict]
Ended(v) == [Here EXCEPT !.verdict = v]

\* A return runs the "finally" parts it is inside of.
LeaveWith(v, hs) ==
    LET k == SelectInSeq(hs, LAMBDA h : h.kind = "finally")
    IN IF k = 0 THEN Ended(v)
       ELSE [Here EXCEPT !.pc = hs[k].at, !.leaving = v,
                         !.handlers = SubSeq(hs, k + 1, Len(hs))]

RaiseFrom(hs) ==
    IF hs = << >> THEN Ended("crashed")
    ELSE [Here EXCEPT !.pc = hs[1].at, !.handlers = Tail(hs),
                      !.leaving = IF hs[1].kind = "finally" THEN "raise" ELSE @]

After(outcome) ==
    CASE outcome \in Verdicts -> LeaveWith(outcome, handlers)
      [] outcome = "raise" -> RaiseFrom(handlers)
      [] outcome \in {"next", "flag", "leave"} -> [Here EXCEPT !.pc = @ + 1]
      [] outcome = "out" -> [Here EXCEPT !.pc = @ + step.exit]
      [] OTHER -> Here

Continue(c) ==
    /\ pc' = c.pc
    /\ step' = StepAt(c.pc)
    /\ handlers' = c.handlers
    /\ leaving' = c.leaving
    /\ verdict' = c.verdict

Jump(n) == Continue([Here EXCEPT !.pc = @ + n])

-----------------------------------------------------------------------------
(* What a script makes of a message. *)

Value(x) == IF x \in DOMAIN stored THEN stored[x] ELSE x

List(x) == IF x \in DOMAIN stored THEN stored[x] ELSE << >>

\* The values that a script computes when it stores one.
Derived(name, v) ==
    CASE name = "original" ->
            [original |-> v,
             inverse |-> IF v = "orig" THEN "not orig" ELSE "not junk",
             lowered |-> IF v = "orig" THEN "low" ELSE "low junk"]
      [] name = "stream original" ->
            ("stream original" :> v)
              @@ ("stream inverse" :> IF v = "orig" THEN "not orig" ELSE "not junk")
      [] OTHER -> name :> v

\* olcbchecker.utils.checkAgainstIdList, for producers.
InRange(range, event) == range = "R" /\ event = "q"
checkAgainstIdList(noted, event) ==
    \E n \in noted : /\ n[1] \in producerIdMTIs
                     /\ \/ n[1] # "Producer_Range_Identified" /\ n[2] = event
                        \/ n[1] = "Producer_Range_Identified" /\ InRange(n[2], event)

ContentOutcome(s, m) ==
    IF m.mti \in s.mtis \ s.right THEN s.bad
    ELSE IF Anything \notin s.good /\ m.body \notin s.good
         THEN IF m.body = "short" THEN s.short ELSE s.bad
    ELSE IF s.unlike # None /\ m.val = Value(s.unlike) THEN s.differ
    ELSE IF s.among # {} /\ m.val \notin s.among THEN s.differ
    ELSE IF s.want # Anything /\ m.val # Value(s.want) THEN s.differ
    ELSE s.done

Outcome(s, m) ==
    IF m.mti \in s.fatal THEN "failed"
    ELSE IF m.mti \notin s.mtis /\ s.other = "out" /\ m.src # DBC THEN "skip"
    ELSE IF m.mti \notin s.mtis THEN s.other
    ELSE IF s.source # Anything /\ m.src # DBC THEN s.source
    ELSE IF m.mti \in DOMAIN s.by THEN s.by[m.mti]
    ELSE IF s.dest # Anything /\ m.dst # s.to THEN s.dest
    ELSE IF m.body \in s.ignore THEN "skip"
    ELSE IF s.reports # None /\ m.mti = PCER
         THEN IF checkAgainstIdList(notes[1], m.body) THEN "skip" ELSE s.reports
    ELSE IF m.late /\ s.late # None THEN s.late
    ELSE ContentOutcome(s, m)

\* Events in a range that was identified are left out of the comparison.
Trimmed(k) ==
    {n \in notes[k] :
        \/ n[1] \in {"Producer_Range_Identified", "Consumer_Range_Identified"}
        \/ ~\E r \in notes[1] : /\ r[1] = "Producer_Range_Identified"
                                /\ n[1] \in producerIdMTIs
                                /\ InRange(r[2], n[2])}

NotNone(list) == SelectSeq(list, LAMBDA v : v # None)

Holds(s) ==
    CASE s.test = "nothing" -> notes[1] = {}
      [] s.test = "missing" -> notes[1] \cap s.on = {}
      [] s.test = "not the same" -> Trimmed(1) # Trimmed(2)
      [] s.test = "not SNIP" ->
            {n[2] : n \in notes[1]} # {"SNIP"} \/ Len(List("snip")) # 2
      [] s.test = "not once" -> Len(List("syncs")) # 1
      [] s.test = "too soon" -> Contains(List("times"), "too soon")
      [] s.test = "not the next day" -> Last(NotNone(List("days"))) # "next"
      [] s.test = "another number" ->
            Len(List("AMDs")) # IF "announced" \in DOMAIN stored THEN 1 ELSE 0
      [] s.test = "invalid" -> ~(ToSet(List("codes")) \subseteq {"valid"})
      [] s.test = "flagged" -> flagged

\* Which messages the script acts on.
Foreign(m) == m.src # DBC \/ m.dst \notin {Own, All, Spoofed}
Accepts(outcome) == outcome \in Acceptances
Mark(m, outcome) ==
    IF Foreign(m) /\ Accepts(outcome) THEN {"took another's"}
    ELSE IF Foreign(m) /\ outcome \in Verdicts \cup {"raise"}
         THEN {"blamed another's"}
    ELSE IF m.at < asked /\ Accepts(outcome) THEN {"took a late one"}
    ELSE {}

-----------------------------------------------------------------------------
Init ==
    /\ script \in Scripts
    /\ profile \in DOMAIN Options[script]
    /\ pc = 1
    /\ step = StepAt(1)
    /\ handlers = << >>
    /\ leaving = None
    /\ verdict = None
    /\ queue = << >>
    /\ got = Message(None, None, None, None, None, 0)
    /\ stored = << >>
    /\ notes = [k \in 1 .. 2 |-> {}]
    /\ flagged = FALSE
    /\ timeouts = 2
    /\ device = NewDevice
    /\ transit = << >>
    /\ asked = 0
    /\ fault \in {None} \cup ({"silent"} \cap Faults)
    /\ strays = 0
    /\ marks = {}
    /\ opened = {}

Replies(messages, n) ==
    [k \in 1 .. Len(messages) |->
        Message(messages[k].mti, DBC, messages[k].dst, messages[k].body,
                messages[k].val, n)]

Request(m) ==
    LET r == React(options, device, m)
        n == IF m.mti \in DatagramReplies \/ m.body = "flood" THEN asked ELSE asked + 1
        heard == m.to \in {DBC, All}
    IN /\ asked' = n
       /\ device' = IF heard THEN r.device ELSE device
       /\ transit' = IF heard /\ fault # "silent" THEN transit \o Replies(r.sends, n)
                   ELSE transit

\* sendMessage
SendMessage ==
    /\ At("send")
    /\ Request([mti |-> step.mti, to |-> step.to, body |-> step.body,
                val |-> Value(step.val)])
    /\ Jump(1)
    /\ UNCHANGED <<script, profile, queue, data, fault, strays, ghosts>>

\* The operator restarts the device.
OperatorRestarts ==
    /\ At("restart")
    /\ Request([mti |-> "Datagram", to |-> DBC, body |-> "reset", val |-> None])
    /\ Jump(1)
    /\ UNCHANGED <<script, profile, queue, data, fault, strays, ghosts>>

OnTheWay == transit # << >> /\ ~Head(transit).late

\* purgeMessages: what is on its way arrives while it sleeps; what is late
\* does not.
PurgeMessages ==
    /\ At("purge")
    /\ ~OnTheWay
    /\ queue' = << >>
    /\ Jump(1)
    /\ UNCHANGED <<script, profile, data, world, ghosts>>

\* time.sleep
SleepStep ==
    /\ At("sleep")
    /\ ~OnTheWay
    /\ device.timer \notin step.long
    /\ Jump(1)
    /\ UNCHANGED <<script, profile, queue, data, world, ghosts>>

\* getMessage returns a message, and the loop around it judges it.
GetMessage ==
    LET m == Head(queue)
        outcome == Outcome(step, m)
    IN
    /\ At("wait")
    /\ queue # << >>
    /\ queue' = IF outcome = "leave" THEN queue ELSE Tail(queue)
    /\ Continue(After(outcome))
    /\ got' = IF outcome = "next" THEN m ELSE got
    /\ stored' = CASE outcome = "next" /\ step.save # None ->
                        Derived(step.save, m.val) @@ stored
                   [] outcome \in {"next", "keep"} /\ step.add # None ->
                        (step.add :> Append(List(step.add), m.val)) @@ stored
                   [] OTHER -> stored
    /\ notes' = IF outcome = "keep"
                THEN [notes EXCEPT ![step.notes] = @ \cup {<<m.mti, m.body>>}]
                ELSE notes
    /\ timeouts' = IF outcome = "halve" /\ m.src # DBC /\ timeouts > 0
                   THEN timeouts - 1 ELSE timeouts
    /\ marks' = marks \cup Mark(m, outcome)
    /\ opened' = IF m.mti = "Stream_Initiate_Reply" /\ outcome = "next" /\ ~Foreign(m)
                 THEN opened \cup {m.val} ELSE opened
    /\ UNCHANGED <<script, profile, flagged, world>>

\* getMessage raises Empty: nothing came in time.  Where another node sends all
\* the time that takes a timeout shorter than its pauses.
Timeout ==
    /\ At("wait")
    /\ queue = << >>
    /\ ~OnTheWay
    /\ device.timer \notin step.long
    /\ options.chatter => timeouts = 0
    /\ Continue(After(step.empty))
    /\ flagged' = (flagged \/ step.empty = "flag")
    /\ UNCHANGED <<script, profile, queue, got, stored, notes, timeouts, world, ghosts>>

JudgeContent ==
    /\ At("judge")
    /\ Continue(After(ContentOutcome(step, got)))
    /\ flagged' = (flagged \/ ContentOutcome(step, got) = "flag")
    /\ UNCHANGED <<script, profile, queue, got, stored, notes, timeouts, world, ghosts>>

\* Decisions and branches.
Compute ==
    /\ \/ At("return") /\ Continue(After(step.verdict))
       \/ At("decide") /\ Continue(After(IF Holds(step) THEN step.verdict
                                         ELSE "next"))
       \/ At("compare") /\ Continue(After(IF List(step.first) = List(step.second)
                                          THEN "next" ELSE "failed"))
       \/ At("when") /\ Jump(IF \E n \in notes[1] : n[2] = step.note
                             THEN 1 ELSE 1 + step.size)
       \/ At("when got") /\ Jump(IF {got.mti, got.body} \cap step.set # {}
                                 THEN 1 ELSE 1 + step.size)
       \/ At("jump") /\ Jump(1 + step.size)
       \/ At("when not") /\ Jump(IF got.val # Value(step.want)
                                 THEN 1 ELSE 1 + step.size)
       \/ At("back") /\ Continue([Here EXCEPT !.pc = @ - step.size])
       \/ /\ At("try")
          /\ Continue([Here EXCEPT
                 !.pc = pc + 1,
                 !.handlers = <<[kind |-> step.kind, at |-> pc + step.size + 1]>>
                                \o handlers])
       \/ /\ At("leave")
          /\ Continue([Here EXCEPT !.pc = pc + (1 + step.size),
                              !.handlers = Tail(handlers)])
    /\ UNCHANGED <<script, profile, queue, data, world, ghosts>>

\* The end of a "finally" part.
Resume ==
    /\ At("resume")
    /\ IF leaving = None THEN Jump(1)
       ELSE LET c == IF leaving = "raise" THEN RaiseFrom(handlers)
                     ELSE LeaveWith(leaving, handlers)
            IN Continue([c EXCEPT !.leaving = IF c.verdict = None THEN @ ELSE None])
    /\ UNCHANGED <<script, profile, queue, data, world, ghosts>>

\* The operator finds fault only with a device that has one.
OperatorAnswers ==
    /\ At("ask")
    /\ \/ Jump(1)
       \/ fault # None /\ Continue(After(step.no))
    /\ UNCHANGED <<script, profile, queue, data, world, ghosts>>

MainThread ==
    \/ SendMessage \/ OperatorRestarts \/ PurgeMessages \/ SleepStep
    \/ GetMessage \/ Timeout
    \/ JudgeContent \/ Compute \/ Resume \/ OperatorAnswers

-----------------------------------------------------------------------------
(* The rest of the world. *)

\* The receive thread: processMessage puts the message into the queue.
ProcessMessage ==
    /\ Running
    /\ transit # << >>
    /\ queue' = Append(queue, Head(transit))
    /\ transit' = Tail(transit)
    /\ UNCHANGED <<script, profile, control, data, device, asked, fault, strays, ghosts>>

Sends(messages) ==
    /\ transit' = IF fault = "silent" THEN transit
                  ELSE transit \o Replies(messages, asked)
    /\ device' = [device EXCEPT !.timer = NextTimer(device),
                               !.speed = IF device.timer = "stop" THEN "zero" ELSE @]
    /\ UNCHANGED <<script, profile, control, data, queue, asked, strays, ghosts>>

\* A timer of the device runs out while the script waits or sleeps.
DeviceTimer ==
    /\ At("wait") \/ At("sleep")
    /\ device.timer \in step.long
    /\ Sends(TimerSends(device))
    /\ UNCHANGED fault

\* It sends before its time.
DeviceHurries ==
    /\ "hasty" \in Faults
    /\ script \in Paced
    /\ fault = None /\ strays = 0
    /\ fault' = "hasty"
    /\ \/ /\ At("sleep") /\ device.timer = "sync" /\ step.long = {}
          /\ Sends(TimerSends(device))
       \/ /\ At("wait") /\ device.timer = "next minute"
          /\ Sends(<<Tick("too soon")>>)

Junk(v) == IF v = None THEN None ELSE "junk"

Refusal == [Datagram_Received_OK |-> "Datagram_Rejected",
            Stream_Data_Proceed |-> "Terminate_Due_To_Error"]

\* What can become of a reply, short of being what the standards ask for.  A short one
\* has the bytes that tell what it is, and not all that follow.  An acknowledgement
\* may have any flags or none: that is no defect.
Spoilt(m) ==
    LET wrong == {<<"bad", "bad">>, <<"short", "short">>}
        content == CASE m.mti = "Datagram_Received_OK" ->
                            {<<"flags", "bad">>, <<"flags", "short">>}
                     [] m.mti = "Stream_Initiate_Reply" -> wrong \cup {<<"bad", "FF">>}
                     [] OTHER -> wrong
        other == {<<"refused", [m EXCEPT !.mti = Refusal[@], !.body = "rejected"]>> :
                     t \in {m.mti} \cap DOMAIN Refusal}
    IN {<<c[1], [m EXCEPT !.body = c[2], !.val = IF c[2] = "short" THEN @ ELSE Junk(@)]>> :
           c \in content}
         \cup other
         \cup {<<"late", [m EXCEPT !.late = TRUE]>>}
         \cup (IF m.val # None THEN {<<"junk", [m EXCEPT !.val = Junk(@)]>>} ELSE {})

\* A reply that the script waits for.
ReplyGoesWrong ==
    /\ Running
    /\ fault = None
    /\ strays = 0
    /\ OnTheWay
    /\ At("wait") /\ Head(transit).mti \in step.mtis
    /\ \/ /\ "lost" \in Faults
          /\ fault' = "lost"
          /\ transit' = Tail(transit)
       \/ \E f \in Spoilt(Head(transit)) :
             /\ f[1] \in Faults
             /\ fault' = f[1]
             /\ transit' = <<f[2]>> \o Tail(transit)
    /\ UNCHANGED <<script, profile, control, data, queue, device, asked, strays, ghosts>>

\* What a soak is there to see.  The device restarts at any step that takes time: while
\* the script does something else than look for restarts, behind messages of the device
\* that the script has not seen yet, or with nothing before it.
Watched == At("wait") /\ step.mtis \cap InitMtis # {}
Unseen == \E m \in ToSet(queue \o transit) : m.src = DBC
DeviceRestarts ==
    /\ At("wait") \/ At("purge") \/ At("sleep")
    /\ "restart" \in Faults
    /\ fault \in {None, "event"} /\ strays = 0
    /\ script \in Soaks
    /\ asked > 0
    /\ fault' = IF ~Watched THEN "restart unwatched"
                ELSE IF Unseen THEN "restart behind" ELSE "restart"
    /\ transit' = transit \o Replies(<<Initialized(options)>>, asked)
    /\ device' = NewDevice
    /\ UNCHANGED <<script, profile, control, data, queue, asked, strays, ghosts>>

\* Messages that look like the one waited for or the one that must not come, from
\* another node or from the device to another node; they may even say the same.
Lookalikes ==
    LET bodies == {"stray"} \cup (step.good \ {Anything})
        vals == {"stray"} \cup step.among \cup {Value(x) : x \in {step.want} \ {Anything}}
        mtis == step.mtis \cup step.fatal
        addressed == (mtis \ GlobalMtis) \ FrameMtis
    IN {Message(t, Other, All, b, None, 0) : t \in mtis \cap GlobalMtis, b \in bodies}
         \cup {Message(t, Other, All, IF t = "AMD" THEN "other" ELSE "empty", "a9", 0) :
                  t \in mtis \cap FrameMtis}
         \cup {Message(t, src, Other, b, v, 0) :
                  t \in addressed, src \in {DBC, Other}, b \in bodies, v \in vals}
         \cup {Message(t, Other, step.to, b, v, 0) :
                  t \in addressed, b \in bodies, v \in vals}

Stray ==
    /\ Running
    /\ strays < MaxStrays
    /\ fault = None
    /\ At("wait")
    /\ Len(queue) < MaxQueue
    /\ \E m \in Lookalikes \cup {Message(PCER, Other, All, "stray", None, 0)} :
          queue' = Append(queue, m)
    /\ strays' = strays + 1
    /\ UNCHANGED <<script, profile, control, data, device, transit, asked, fault, ghosts>>

\* The device reports one of its events.
DeviceReports ==
    /\ Running
    /\ "event" \in Faults
    /\ fault = None
    /\ At("wait")
    /\ fault' = "event"
    /\ transit' = Append(transit, Message(PCER, DBC, All, "p", None, asked))
    /\ UNCHANGED <<script, profile, control, data, queue, device, asked, strays, ghosts>>

\* Another node that sends a message of no interest whenever the queue is empty.
Chatter ==
    /\ Running
    /\ options.chatter
    /\ queue = << >>
    /\ timeouts > 0
    /\ queue' = <<Message("Verified_NodeID", Other, All, "stray", None, 0)>>
    /\ UNCHANGED <<script, profile, control, data, world, ghosts>>

Finished == ~Running /\ UNCHANGED vars

Next ==
    \/ MainThread
    \/ ProcessMessage
    \/ DeviceTimer
    \/ DeviceHurries
    \/ ReplyGoesWrong
    \/ DeviceRestarts
    \/ DeviceReports
    \/ Stray
    \/ Chatter
    \/ Finished

Spec == Init /\ [][Next]_vars

\* Some thread runs, a timer of the device or another node's.  Nothing else need ever
\* happen: no fault, no stray message.
Fairness == WF_vars(MainThread \/ ProcessMessage \/ DeviceTimer \/ Chatter)

FairSpec == Spec /\ Fairness

-----------------------------------------------------------------------------
(* What is checked.  A script for which a property does not hold is named  *)
(* in a definition of its own, with what it does.                          *)

\* A script that runs is at one of its steps, inside the "try" blocks that lead
\* there, and holds something back only while a "finally" part runs: no step falls
\* off the end of its script.
TypeOK ==
    /\ script \in Scripts
    /\ profile \in DOMAIN Options[script]
    /\ Running => pc \in 1 .. Len(program)
    /\ \A k \in DOMAIN handlers : handlers[k].at \in 1 .. Len(program)
    /\ leaving \in Verdicts \cup {None, "raise"}
    /\ leaving # None => Running /\ \E k \in pc .. Len(program) : program[k].op = "resume"
    /\ verdict \in Verdicts \cup {None}
    /\ timeouts \in 0 .. 2
    /\ strays \in 0 .. MaxStrays

\* me20 looks for the first reply among those of full nodes only, and warns where the
\* device has no PIP; mc20 takes the flag for a lowest address for a reserved bit;
\* mc60 reads at the end of the space, which may exist; bt20 wants a report of each
\* setting, but bt30 takes an identification; bt110, bt120 and bt130 refuse a consumer
\* whose event is inactive; fr10 needs a configured node ID.
Misjudged ==
    \/ script = "me20" /\ (~options.answersPip \/ "SIMPLE" \in options.protocols)
    \/ script = "mc20" /\ options.kind = "low address"
    \/ script = "mc60" /\ options.kind = "whole space"
    \/ script = "bt20" /\ options.kind = "identifies settings"
    \/ script \in {"bt110", "bt120", "bt130"} /\ options.kind = "inactive events"
    \/ script = "fr10" /\ ~options.target

\* A check does not fail a device that follows the standards, however the two
\* threads and the device take turns, when only they are on the network.
Conforming == fault = None /\ strays = 0
ConformingPasses ==
    Conforming /\ ~Misjudged => verdict \notin {"failed", "warned", "crashed"}

-----------------------------------------------------------------------------

\* A stream that is not opened ends these with "passed", whatever the reason.
OpensFirst ==
    {"st60", "st65", "st70", "st80", "st100", "st110", "st120", "st130", "st140",
     "st150", "st155", "st170", "st180", "st190", "st200", "st210"}
\* These expect no answer, or none about an event that was not listed.
Expectless == {"ev30", "ev40", "ev60", "ev70", "me50", "dd40", "fr60"}
\* The query for streams failed, so the part with streams is left out; what was
\* written could not be restored.
Queries == {"cd20", "fd20", "mc30", "mc60", "mc80"}
Restoring == {"cd40", "mc70", "mc80"}
\* Of a list of events one is missing; of a clock's messages those that do not fit
\* are left out.
Listing == {"ev10", "tr010", "dd10", "dd20", "dd30", "dd40"}
Skipping == {"bt30", "bt40", "bt50", "bt60", "bt80", "bt100"}
\* Which ID the stream has is not looked at.
Unnamed == {"st10", "st20", "st30", "st35", "st37", "st40", "st50", "st85", "st90"}
\* The reply to a release is optional, and so is another alias.
Optional == {"fr30", "st85", "tr090", "tr100", "tr110"}
Tolerant == OpensFirst \cup Queries \cup Restoring \cup Listing \cup Skipping \cup Optional
\* A reply is enough, whatever it says, at one place of these at least; for the second
\* group it must be long enough, for the third only its value does not count.
Unread == {"getTargetID", "gatherPIP", "me60", "ev50", "da40", "cd30", "mc50"}
Logged == {"fr20", "fr40", "fr50", "tr020", "tr030", "tr040", "tr050", "tr060"}
Unvalued == {"bt10", "sn10", "tr080"}
\* When a ping is due, a message of the device ends the polling, and what is behind it is
\* purged.  All these look for a restart only at times: not while they ping the
\* device or open streams.
Pinging == {"da40", "mc60", "st10", "st85"}
Glancing == Pinging \cup {"st70", "st80", "st200"}

\* The scripts that may pass although this has gone wrong.
Unnoticed ==
    ("silent" :> OpensFirst \cup Expectless)
      @@ ("lost" :> Tolerant \cup Expectless)
      @@ ("refused" :> Queries \cup Restoring)
      @@ ("short" :> Tolerant \cup Unnamed \cup Unread)
      @@ ("bad" :> Tolerant \cup Unnamed \cup Unread \cup Logged)
      @@ ("junk" :> Tolerant \cup Unnamed \cup Unread \cup Logged \cup Unvalued)
      @@ ("restart behind" :> Pinging)
      @@ ("restart unwatched" :> Glancing)
      @@ [f \in {"restart", "hasty"} |-> {}]

\* A check passes only a device that answered.  It notices one that is silent all the
\* time, one that restarts when it must not, one whose clock runs ahead, and one of
\* whose replies is lost, refused, too short or wrong.
DefectNoticed ==
    verdict = "passed" /\ asked > 0 /\ fault \in DOMAIN Unnoticed
      => script \in Unnoticed[fault]

-----------------------------------------------------------------------------

\* These take an answer from any node ...
FromAnyone ==
    {"getTargetID", "gatherPIP", "me50", "mc50", "ev30", "ev40", "dd30", "ts10", "ts20",
     "ts30", "ts40", "fr10", "fr20", "fr30", "fr40"}
\* ... and these one that the device sends to another node: the rejection of a
\* stream, the data of one, the reply to a write, and leave to go on with a stream that
\* has the same number.
ToAnyone ==
    {"cd20", "cd40", "fd20", "mc30", "mc60", "mc70", "mc80", "st10", "st20", "st30",
     "st35", "st37", "st40", "st50", "st60", "st65", "st85", "st90", "st100", "st110",
     "st120", "st130", "st140", "st150", "st155", "st170", "st180", "st200"}

\* No check goes on because of a message that is not the device's answer to it: that
\* another node sent, or the device to another node.
TakesOnlyAnswers ==
    script \notin FromAnyone \cup ToAnyone => "took another's" \notin marks

\* These fail on a message from another node where they want one from the device
\* next, where nothing is to come at all, or no request to open a stream (mc60), and
\* where a train that another node has found is not theirs (ts20).
StrictAboutSource ==
    {"me10", "me20", "me30", "me40", "me50", "sn10", "ev20", "ev30", "ev40", "ev50",
     "da30", "da40", "cd30", "mc50", "mc60", "fr10", "fr20", "fr30", "fr40", "fr50",
     "fr60", "ts10", "ts20", "ts30", "ts40"}
\* These fail on what the device sends to another node.
StrictAboutDestination == {"cd20", "fd20", "mc30", "mc80", "st10"} \cup OpensFirst

\* No check fails because of a message that other nodes exchange.
BlamesOnlyDevice ==
    script \notin StrictAboutSource \cup StrictAboutDestination
      => "blamed another's" \notin marks

\* The others take no notice at all: when such a message comes, a script stays where it
\* is, and what it has stored, noted and concluded stays the same.  Only the
\* timeout may change, where a network is never quiet.
Disturbed == FromAnyone \cup ToAnyone \cup StrictAboutSource \cup StrictAboutDestination
Undisturbed ==
    [][GetMessage /\ Foreign(Head(queue)) /\ script \notin Disturbed
         => UNCHANGED <<control, got, stored, notes, flagged>>]_vars

\* An answer to an earlier request, for which the script did not wait or no longer
\* waits, is not counted as the answer to a later one: that is what the purges are
\* for, and these scripts lack one.  A script that has taken another node's message for
\* an answer is ahead of the device from then on.
Unpurged ==
    {"bt40", "ev20", "ev50", "dd30", "fr30", "cd20", "cd40", "fd20", "mc30", "mc70",
     "mc80", "st180", "st210"}
LateNeverCounts ==
    script \notin Unpurged /\ "took another's" \notin marks
      => "took a late one" \notin marks

\* What the script did to the device is undone when it ends, whichever way it ends:
\* no lock, no byte, no name, no moving train, no listener, no stop of all trains, no
\* stream and no second alias is left.
Untouched(d) ==
    /\ d.lock = "zero" /\ d.cell = "orig" /\ d.name = "name"
    /\ ~Moving(d.speed) /\ d.function = "off" /\ d.controller = "nobody"
    /\ ~d.reserved /\ d.listeners = << >> /\ ~d.stopped
    /\ d.open \cap opened = {} /\ ~d.spoofed

\* st60 closes the stream when no Proceed comes or a wrong one, but not when the device
\* terminates it, or terminates another node's; st200 closes it in none of these
\* cases.  When a reply is not what it should be, mc40 does not release the lock and cd40
\* does not restore the name; when one does not come whole and in time, tr050 and tr060 do
\* not let the trains go.  mc70 and mc80 restore what they took for the old contents, and
\* st85 leaves a stream whose reply it cannot read.
LeavesTrace ==
    \/ script \in {"mc40", "cd40", "st200"}
         /\ fault \in {"lost", "late", "short", "refused", "bad", "junk"}
    \/ script = "st60" /\ fault = "refused"
    \/ script \in {"tr050", "tr060"} /\ fault \in {"lost", "late", "short"}
    \/ script \in {"mc70", "mc80"} /\ fault \in {"bad", "junk"}
    \/ script = "st85" /\ fault = "short"
    \/ script \in {"st60", "st200"} /\ "blamed another's" \in marks
LeavesNoTrace == ~Running /\ ~LeavesTrace => Untouched(device)

\* No exception leaves a check.  The description's length is read outside of any "try"
\* (cd20, fd20), and so are the names (cd40); me30 takes the second byte of a reply
\* that may have one; fr10 compares with a node ID that may not be configured.
Crashing ==
    \/ script \in {"cd20", "fd20", "cd40"}
    \/ script = "me30" /\ fault = "short"
    \/ script = "fr10" /\ ~options.target
NeverCrashes == ~Crashing => verdict # "crashed"

-----------------------------------------------------------------------------

Blames == (Verdicts \ Acceptances) \cup {"raise"}
Elsewhere == {"flag", "leave", "out"}

\* What the properties above rest on can be seen in each script, before it runs: it
\* stays in its try blocks and leaves them by their ends, it catches what it raises,
\* and it looks at the source and the destination of what it acts on.
Sound(s, k) ==
    LET p == Programs[s][k]
    IN /\ WellNested(p)
       /\ s = "me30" => NotShort(p)
       /\ \/ s \in {"cd20", "fd20", "cd40"}
          \/ s = "fr10" /\ ~Options[s][k].target
          \/ Guarded(p, s # "me30")
       /\ s \in FromAnyone \cup ToAnyone \/ IgnoresOthers(p, Acceptances)
       /\ s \in StrictAboutSource \cup StrictAboutDestination \/ IgnoresOthers(p, Blames)
       /\ s \in Disturbed \/ IgnoresOthers(p, Elsewhere)
Soundness == [s \in Scripts |-> [k \in DOMAIN Options[s] |-> Sound(s, k)]]
ScriptSound == Soundness[script][profile]

\* Every check ends, even where another node sends faster than its timeout.
EveryCheckEnds == <>(verdict # None)

=============================================================================
