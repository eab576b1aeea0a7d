--------------------------- MODULE CheckRun_proofs ---------------------------
(***************************************************************************)
(* Proofs about CheckRun, for any scripts, faults and bounds.  Every       *)
(* theorem is about scripts of the shape that ScriptSound describes: TLC   *)
(* finds that all have it, and what a script of that shape does when       *)
(* messages arrive, are lost or come late in any order is proved here.     *)
(***************************************************************************)
EXTENDS CheckRun, SequenceTheorems, WellFoundedInduction, TLAPS

-----------------------------------------------------------------------------
(* Sequences of messages, which may carry any value. *)

IsSequence(q) == q \in Seq({q[k] : k \in DOMAIN q})

LEMMA SequenceOf ==
    ASSUME NEW S, NEW q \in Seq(S)
    PROVE  IsSequence(q) /\ DOMAIN q = 1 .. Len(q) /\ Len(q) \in Nat
<1>1. q = [k \in 1 .. Len(q) |-> q[k]] /\ DOMAIN q = 1 .. Len(q) /\ Len(q) \in Nat
  OBVIOUS
<1>2. \A k \in 1 .. Len(q) : q[k] \in {q[j] : j \in DOMAIN q}
  BY <1>1
<1> HIDE DEF IsSequence
<1> QED
  BY <1>1, <1>2 DEF IsSequence

LEMMA TailOfSequence ==
    ASSUME NEW q, IsSequence(q), q # << >>
    PROVE  /\ IsSequence(Tail(q))
           /\ 1 \in DOMAIN q /\ Head(q) = q[1]
           /\ \A k \in DOMAIN Tail(q) : k + 1 \in DOMAIN q /\ Tail(q)[k] = q[k + 1]
<1>1. PICK S : q \in Seq(S)
  BY DEF IsSequence
<1>2. Tail(q) \in Seq(S) /\ Len(Tail(q)) = Len(q) - 1 /\ Len(q) \in Nat \ {0}
  BY <1>1
<1>3. IsSequence(Tail(q)) /\ DOMAIN Tail(q) = 1 .. Len(q) - 1
  BY <1>2, SequenceOf
<1>4. DOMAIN q = 1 .. Len(q)
  BY <1>1
<1> QED
  BY <1>1, <1>2, <1>3, <1>4

LEMMA JoinedSequences ==
    ASSUME NEW q, NEW r, IsSequence(q), IsSequence(r),
           NEW both, both = q \o r
    PROVE  /\ IsSequence(both)
           /\ \A k \in DOMAIN both : \/ k \in DOMAIN q /\ both[k] = q[k]
                                    \/ \E j \in DOMAIN r : both[k] = r[j]
<1>1. PICK S : q \in Seq(S)
  BY DEF IsSequence
<1>2. PICK T : r \in Seq(T)
  BY DEF IsSequence
<1>3. q \in Seq(S \cup T) /\ r \in Seq(S \cup T)
  BY <1>1, <1>2
<1>4. both \in Seq(S \cup T) /\ Len(both) = Len(q) + Len(r)
  BY <1>3
<1>5. IsSequence(both)
  BY <1>4, SequenceOf
<1>6. ASSUME NEW k \in DOMAIN both
      PROVE  \/ k \in DOMAIN q /\ both[k] = q[k]
             \/ \E j \in DOMAIN r : both[k] = r[j]
  <2>1. k \in 1 .. Len(q) + Len(r)
    BY <1>4
  <2>2. CASE k \in 1 .. Len(q)
    BY <2>2, <1>3
  <2>3. CASE k \notin 1 .. Len(q)
    <3>1. k - Len(q) \in DOMAIN r /\ both[k] = r[k - Len(q)]
      BY <2>1, <2>3, <1>3
    <3> QED
      BY <3>1
  <2> QED
    BY <2>2, <2>3
<1> QED
  BY <1>5, <1>6

LEMMA AppendedSequence ==
    ASSUME NEW q, NEW m, IsSequence(q)
    PROVE  /\ IsSequence(Append(q, m))
           /\ \A k \in DOMAIN Append(q, m) :
                 (k \in DOMAIN q /\ Append(q, m)[k] = q[k]) \/ Append(q, m)[k] = m
<1>1. PICK S : q \in Seq(S)
  BY DEF IsSequence
<1>2. q \in Seq(S \cup {m}) /\ m \in S \cup {m}
  BY <1>1
<1>3. Append(q, m) \in Seq(S \cup {m}) /\ Len(Append(q, m)) = Len(q) + 1
  BY <1>2
<1>4. IsSequence(Append(q, m)) /\ DOMAIN Append(q, m) = 1 .. Len(q) + 1
  BY <1>3, SequenceOf
<1> QED
  BY <1>2, <1>3, <1>4
-----------------------------------------------------------------------------
(* What the device sends: to the checker or to all, and nothing too short. *)

Addressees == {Own, All, Spoofed}
Whole(m) == m.dst \in Addressees /\ m.body # "short"
AllWhole(q) == IsSequence(q) /\ \A k \in DOMAIN q : Whole(q[k])

LEMMA NoneWhole == AllWhole(<< >>)
<1>1. << >> \in Seq({}) /\ Len(<< >>) = 0
  OBVIOUS
<1>2. IsSequence(<< >>) /\ DOMAIN << >> = 1 .. 0
  BY <1>1, SequenceOf
<1>3. ~\E k : k \in 1 .. 0
  OBVIOUS
<1> QED
  BY <1>2, <1>3 DEF AllWhole

LEMMA OneWhole ==
    ASSUME NEW a, Whole(a)
    PROVE  AllWhole(<<a>>)
<1>1. <<a>> \in Seq({a}) /\ Len(<<a>>) = 1 /\ <<a>>[1] = a
  OBVIOUS
<1>2. IsSequence(<<a>>) /\ DOMAIN <<a>> = 1 .. 1
  BY <1>1, SequenceOf
<1> QED
  BY <1>1, <1>2 DEF AllWhole

LEMMA TwoWhole ==
    ASSUME NEW a, NEW b, Whole(a), Whole(b)
    PROVE  AllWhole(<<a, b>>)
<1>1. <<a, b>> \in Seq({a, b}) /\ Len(<<a, b>>) = 2
  OBVIOUS
<1>2. IsSequence(<<a, b>>) /\ DOMAIN <<a, b>> = 1 .. 2
  BY <1>1, SequenceOf
<1>3. \A k \in 1 .. 2 : <<a, b>>[k] \in {a, b}
  OBVIOUS
<1> QED
  BY <1>2, <1>3 DEF AllWhole

LEMMA JoinedWhole ==
    ASSUME NEW q, NEW r, AllWhole(q), AllWhole(r),
           NEW both, both = q \o r
    PROVE  AllWhole(both)
<1>1. IsSequence(q) /\ IsSequence(r)
  BY DEF AllWhole
<1>2. IsSequence(both)
  BY <1>1, JoinedSequences
<1>3. \A k \in DOMAIN both : \/ k \in DOMAIN q /\ both[k] = q[k]
                            \/ \E j \in DOMAIN r : both[k] = r[j]
  BY <1>1, JoinedSequences
<1>4. (\A j \in DOMAIN q : Whole(q[j])) /\ (\A j \in DOMAIN r : Whole(r[j]))
  BY DEF AllWhole
<1> QED
  BY <1>2, <1>3, <1>4 DEF AllWhole

LEMMA ThreeWhole ==
    ASSUME NEW a, NEW b, NEW c, Whole(a), Whole(b), Whole(c)
    PROVE  AllWhole(<<a, b, c>>)
<1>1. <<a, b, c>> \in Seq({a, b, c}) /\ Len(<<a, b, c>>) = 3
  OBVIOUS
<1>2. IsSequence(<<a, b, c>>) /\ DOMAIN <<a, b, c>> = 1 .. 3
  BY <1>1, SequenceOf
<1>3. \A k \in 1 .. 3 : <<a, b, c>>[k] \in {a, b, c}
  OBVIOUS
<1> QED
  BY <1>2, <1>3 DEF AllWhole

LEMMA SixWhole ==
    ASSUME NEW a, NEW b, NEW c, NEW d, NEW e, NEW f,
           Whole(a), Whole(b), Whole(c), Whole(d), Whole(e), Whole(f)
    PROVE  AllWhole(<<a, b, c, d, e, f>>)
<1> DEFINE q == <<a, b, c, d, e, f>>
<1>1. q \in Seq({a, b, c, d, e, f}) /\ Len(q) = 6
  OBVIOUS
<1>2. \A k \in 1 .. 6 : q[k] \in {a, b, c, d, e, f}
  OBVIOUS
<1> HIDE DEF q
<1>3. IsSequence(q) /\ DOMAIN q = 1 .. 6
  BY <1>1, SequenceOf
<1>4. AllWhole(q)
  BY <1>2, <1>3 DEF AllWhole
<1> QED
  BY <1>4 DEF q

\* Messages of the forms that the device's answers consist of.
LEMMA WholeForms ==
    ASSUME NEW t, NEW body, NEW v, body # "short"
    PROVE  /\ Whole(ToAll(t, body)) /\ Whole(ToOwn(t, body))
           /\ Whole(Carrying(t, body, v)) /\ Whole(Reporting(t, body, v))
           /\ Whole(AliasFrame(t, body, v))
  BY DEF Whole, Addressees, ToAll, ToOwn, Carrying, Reporting, AliasFrame

LEMMA SynchronizationWhole ==
    ASSUME NEW clock
    PROVE  AllWhole(Synchronization(clock))
<1>1. \A v : /\ Whole(Active("run", v)) /\ Whole(Active("rate", v))
             /\ Whole(Active("year", v)) /\ Whole(Active("date", v))
             /\ Whole(Active("time", v)) /\ Whole(Tick(v))
  BY WholeForms DEF Active, Tick
<1> QED
  BY <1>1, SixWhole DEF Synchronization

LEMMA IdentifiedWhole == AllWhole(Identified)
  BY WholeForms, ThreeWhole DEF Identified

LEMMA ReservationWhole ==
    ASSUME NEW alias
    PROVE  AllWhole(Reservation(alias))
<1> DEFINE names == <<"CID 7", "CID 6", "CID 5", "CID 4">>
           q == [k \in 1 .. 4 |-> AliasFrame(names[k], "empty", alias)]
           r == <<AliasFrame("RID", "empty", alias), AliasFrame("AMD", "DBC", alias)>>
<1>1. AllWhole(r)
  BY WholeForms, TwoWhole
<1>2. \A k \in 1 .. 4 : Whole(AliasFrame(names[k], "empty", alias))
  BY WholeForms
<1>3. q \in Seq({q[k] : k \in 1 .. 4}) /\ DOMAIN q = 1 .. 4
  OBVIOUS
<1> HIDE DEF q, r
<1>4. AllWhole(q)
  BY <1>2, <1>3, SequenceOf DEF AllWhole, q
<1>5. AllWhole(q \o r)
  BY <1>1, <1>4, JoinedWhole
<1> QED
  BY <1>5 DEF Reservation, q, r

LEMMA TimerSendsWhole ==
    ASSUME NEW dev
    PROVE  AllWhole(TimerSends(dev))
<1>1. Whole(Tick("next")) /\ Whole(Active("year", None)) /\ Whole(Active("date", "next"))
  BY WholeForms DEF Tick, Active
<1>2. Whole(Reporting("Producer_Consumer_Event_Report", "rollover", None))
  BY WholeForms
<1>3. Whole([mti |-> "Traction_Control_Reply", dst |-> Own, body |-> "heartbeat",
             val |-> None])
  BY DEF Whole, Addressees
<1>4. AllWhole(<<Tick("next")>>)
  BY <1>1, OneWhole
<1>5. AllWhole(<<Reporting("Producer_Consumer_Event_Report", "rollover", None)>>)
  BY <1>2, OneWhole
<1>6. AllWhole(<<Active("year", None), Active("date", "next")>>)
  BY <1>1, TwoWhole
<1>7. AllWhole(<<[mti |-> "Traction_Control_Reply", dst |-> Own, body |-> "heartbeat",
                  val |-> None]>>)
  BY <1>3, OneWhole
<1> QED
  BY <1>4, <1>5, <1>6, <1>7, SynchronizationWhole, NoneWhole DEF TimerSends

LEMMA SetFieldLong ==
    \A b \in DOMAIN SetField : SetField[b] # "short"
  BY DEF SetField

LEMMA ClockAnswerWhole ==
    ASSUME NEW o, NEW dev, NEW m
    PROVE  AllWhole(ClockAnswer(o, dev, m))
<1>1. ASSUME m.body \in DOMAIN SetField
      PROVE  /\ AllWhole(<<Active(SetField[m.body], m.val)>>)
             /\ AllWhole(<<Reporting("Producer_Consumer_Event_Report",
                                     SetField[m.body], m.val)>>)
  <2>1. /\ Whole(Active(SetField[m.body], m.val))
        /\ Whole(Reporting("Producer_Consumer_Event_Report", SetField[m.body], m.val))
    BY <1>1, SetFieldLong, WholeForms DEF Active
  <2> QED
    BY <2>1, OneWhole
<1> QED
  BY <1>1, SynchronizationWhole, NoneWhole DEF ClockAnswer

LEMMA ListingsWhole ==
    \A l \in DOMAIN Listings : Whole(Listings[l])
  BY DEF Listings, ToAll, Whole, Addressees

LEMMA AnswerWhole ==
    ASSUME NEW o, NEW dev, NEW m
    PROVE  AllWhole(Answer(o, dev, m))
<1>1. AllWhole(<<VerifiedReply(o)>>)
  BY WholeForms, OneWhole DEF VerifiedReply
<1>2. /\ AllWhole(<<ToOwn("Protocol_Support_Reply", "protocols")>>)
      /\ AllWhole(<<ToOwn("Optional_Interaction_Rejected", "New_Node_Seen")>>)
      /\ AllWhole(<<ToAll("Producer_Consumer_Event_Report", "duplicate")>>)
      /\ AllWhole(<<ToAll("Producer_Identified_Unknown", "p")>>)
      /\ AllWhole(<<ToAll("Consumer_Identified_Active", "c")>>)
  BY WholeForms, OneWhole
<1>3. AllWhole(<<Carrying("Simple_Node_Ident_Info_Reply", "SNIP", "maker"),
                 Carrying("Simple_Node_Ident_Info_Reply", "SNIP", dev.name)>>)
  BY WholeForms, TwoWhole
<1>4. ASSUME o.lists \in DOMAIN Listings
      PROVE  AllWhole(<<Listings[o.lists]>> \o Identified)
  BY <1>4, ListingsWhole, OneWhole, IdentifiedWhole, JoinedWhole
<1>5. AllWhole(<<Listings["detector"]>>)
  <2>1. Whole(Listings["detector"])
    BY ListingsWhole DEF Listings
  <2> QED
    BY <2>1, OneWhole
<1>6. m.body \in Searches \cup ClockFields => m.body # "short"
  BY DEF Searches, ClockFields
<1>7. m.body \in Searches \cup ClockFields
        => /\ AllWhole(<<ToAll("Producer_Identified_Active", m.body)>>)
           /\ AllWhole(<<ToAll(Consumes(o), m.body)>>)
  BY <1>6, WholeForms, OneWhole
<1> QED
  BY <1>1, <1>2, <1>3, <1>4, <1>5, <1>7, IdentifiedWhole, ClockAnswerWhole, NoneWhole
  DEF Answer

LEMMA DatagramAnswerWhole ==
    ASSUME NEW o, NEW dev, NEW m
    PROVE  AllWhole(DatagramAnswer(o, dev, m))
<1>1. ASSUME NEW body, NEW v, body # "short"
      PROVE  AllWhole(Reply(body, v))
  BY <1>1, WholeForms, TwoWhole DEF Reply
<1>2. AllWhole(Rejection)
  BY WholeForms, OneWhole DEF Rejection
<1>3. \A v : /\ AllWhole(Reply("options", v)) /\ AllWhole(Reply("string", v))
             /\ AllWhole(Reply("low FD", v)) /\ AllWhole(Reply("info FD", v))
             /\ AllWhole(Reply("no F9", v)) /\ AllWhole(Reply("info F9", v))
             /\ AllWhole(Reply("info FF", v)) /\ AllWhole(Reply("info FA", v))
             /\ AllWhole(Reply("info FB", v)) /\ AllWhole(Reply("info FC", v))
  BY <1>1
<1>4. \A v : /\ AllWhole(Reply("version", v)) /\ AllWhole(Reply("text", v))
             /\ AllWhole(Reply("read", v)) /\ AllWhole(Reply("read byte", v))
             /\ AllWhole(Reply("write failed", v)) /\ AllWhole(Reply("lock", v))
             /\ AllWhole(Reply("write ok", v)) /\ AllWhole(Reply("read failed", v))
             /\ AllWhole(Reply("read stream", v))
             /\ AllWhole(Reply("read stream failed", v))
  BY <1>1
<1>5. /\ AllWhole(ReplyBeyond(o, "read", "read failed"))
      /\ AllWhole(ReplyBeyond(o, "read stream", "read stream failed"))
  BY <1>2, <1>4 DEF ReplyBeyond
<1>6. AllWhole(Wrote(o))
  BY <1>4, WholeForms, OneWhole DEF Wrote
<1>7. AllWhole(<<ToOwn("Datagram_Received_OK", "pending"),
                 ToOwn("Stream_Initiate_Request", "open")>>)
  BY WholeForms, TwoWhole
<1>8. AllWhole(<<ToOwn("Datagram_Received_OK", "pending")>>)
  BY WholeForms, OneWhole
<1>9. AllWhole(Reply(IF o.kind = "low address" THEN "low FD" ELSE "info FD", None))
  BY <1>3
<1>10. AllWhole(Reply(IF o.kind = "no F9" THEN "no F9" ELSE "info F9", None))
  BY <1>3
<1> QED
  BY <1>2, <1>3, <1>4, <1>5, <1>6, <1>7, <1>8, <1>9, <1>10 DEF DatagramAnswer

LEMMA StreamAnswerWhole ==
    ASSUME NEW o, NEW dev, NEW m
    PROVE  AllWhole(StreamAnswer(o, dev, m))
<1>1. ASSUME NEW t, NEW body, NEW sid, body # "short"
      PROVE  AllWhole(StreamReply(t, body, sid))
  <2>1. Whole([mti |-> t, dst |-> Sender(sid), body |-> body, val |-> sid])
    BY <1>1 DEF Whole, Addressees, Sender
  <2> QED
    BY <2>1, OneWhole DEF StreamReply
<1>2. \A t, sid : /\ AllWhole(StreamReply(t, "accept", sid))
                  /\ AllWhole(StreamReply(t, "rejected", sid))
                  /\ AllWhole(StreamReply(t, "error", sid))
                  /\ AllWhole(StreamReply(t, "proceed", sid))
  BY <1>1
<1>3. AllWhole(<<Carrying("Datagram", "read stream", None),
                 Carrying("Stream_Data_Send", "part", "memory"),
                 ToOwn("Stream_Data_Complete", "complete")>>)
  BY WholeForms, ThreeWhole
<1>4. /\ AllWhole(<<Carrying("Datagram", "read stream", None),
                    Carrying("Stream_Data_Send", "full", "first")>>)
      /\ AllWhole(<<Carrying("Stream_Data_Send", "part", "last"),
                    ToOwn("Stream_Data_Complete", "complete")>>)
  BY WholeForms, TwoWhole
<1>5. AllWhole(<<Carrying("Datagram", "write stream", None)>>)
  BY WholeForms, OneWhole
<1> QED
  BY <1>2, <1>3, <1>4, <1>5, NoneWhole DEF StreamAnswer

LEMMA TrainAnswerWhole ==
    ASSUME NEW o, NEW dev, NEW m
    PROVE  AllWhole(TrainAnswer(o, dev, m))
<1>1. ASSUME NEW body, NEW v, body # "short"
      PROVE  AllWhole(TrainReply(body, v))
  <2>1. Whole([mti |-> "Traction_Control_Reply", dst |-> Own, body |-> body, val |-> v])
    BY <1>1 DEF Whole, Addressees
  <2> QED
    BY <2>1, OneWhole DEF TrainReply
<1>2. \A v : /\ AllWhole(TrainReply("speed", v)) /\ AllWhole(TrainReply("function", v))
             /\ AllWhole(TrainReply("controller", v))
             /\ AllWhole(TrainReply("listener", v))
             /\ AllWhole(TrainReply("assigned", v))
             /\ AllWhole(TrainReply("reserved", v))
             /\ AllWhole(TrainReply("released", v))
             /\ AllWhole(TrainReply("attached", v))
             /\ AllWhole(TrainReply("detached", v))
             /\ AllWhole(TrainReply("not detached", v))
  BY <1>1
<1>3. AllWhole(IfConfirmed(o, "released"))
  BY <1>2, NoneWhole DEF IfConfirmed
<1>4. AllWhole(TrainReply(IF Contains(dev.listeners, m.val) THEN "detached"
                          ELSE "not detached", m.val))
  BY <1>2
<1> QED
  BY <1>2, <1>3, <1>4, NoneWhole DEF TrainAnswer

LEMMA FrameAnswerWhole ==
    ASSUME NEW o, NEW dev, NEW m
    PROVE  AllWhole(FrameAnswer(o, dev, m))
<1>1. /\ AllWhole(<<AliasFrame("AMD", "DBC", dev.alias)>>)
      /\ AllWhole(<<AliasFrame("RID", "empty", dev.alias)>>)
      /\ AllWhole(<<AliasFrame("AMR", "DBC", dev.alias)>>)
  BY WholeForms, OneWhole
<1>2. AllWhole(IF o.kind = "gives up its alias" THEN << >> ELSE Reservation("a2"))
  BY NoneWhole, ReservationWhole
<1>3. AllWhole(<<AliasFrame("AMR", "DBC", dev.alias)>>
                 \o IF o.kind = "gives up its alias" THEN << >> ELSE Reservation("a2"))
  BY <1>1, <1>2, JoinedWhole
<1> QED
  BY <1>1, <1>3, NoneWhole DEF FrameAnswer

LEMMA ResetWhole ==
    ASSUME NEW o
    PROVE  AllWhole((IF o.frames THEN Reservation(NewDevice.alias) ELSE << >>)
                      \o <<Initialized(o)>> \o Identified
                      \o (IF o.clock THEN ClockRanges \o Synchronization(NewDevice.clock)
                          ELSE << >>))
<1> DEFINE a == IF o.frames THEN Reservation(NewDevice.alias) ELSE << >>
           b == <<Initialized(o)>>
           c == ClockRanges \o Synchronization(NewDevice.clock)
           d == IF o.clock THEN c ELSE << >>
<1>1. AllWhole(a)
  BY NoneWhole, ReservationWhole
<1>2. AllWhole(b)
  BY WholeForms, OneWhole DEF Initialized
<1>3. AllWhole(ClockRanges)
  BY WholeForms, TwoWhole DEF ClockRanges
<1>4. AllWhole(c)
  BY <1>3, SynchronizationWhole, JoinedWhole
<1>5. AllWhole(d)
  BY <1>4, NoneWhole
<1> HIDE DEF a, b, c, d
<1>6. AllWhole(a \o b)
  BY <1>1, <1>2, JoinedWhole
<1>7. AllWhole((a \o b) \o Identified)
  BY <1>6, IdentifiedWhole, JoinedWhole
<1>8. AllWhole(((a \o b) \o Identified) \o d)
  BY <1>5, <1>7, JoinedWhole
<1> QED
  BY <1>8 DEF a, b, c, d

\* All that the device answers, whatever its state and the request are.
LEMMA ReactWhole ==
    ASSUME NEW o, NEW dev, NEW m
    PROVE  AllWhole(React(o, dev, m).sends)
<1> DEFINE again == (IF o.frames THEN Reservation(NewDevice.alias) ELSE << >>)
                      \o <<Initialized(o)>> \o Identified
                      \o (IF o.clock THEN ClockRanges \o Synchronization(NewDevice.clock)
                          ELSE << >>)
<1>1. AllWhole(again)
  BY ResetWhole
<1> HIDE DEF again
<1>2. React(o, dev, m).sends \in
         {again, TrainAnswer(o, dev, m), FrameAnswer(o, dev, m), DatagramAnswer(o, dev, m),
          StreamAnswer(o, dev, m), Answer(o, dev, m)}
  BY DEF React, again
<1> QED
  BY <1>1, <1>2, TrainAnswerWhole, FrameAnswerWhole, DatagramAnswerWhole,
     StreamAnswerWhole, AnswerWhole

\* Messages of the device, on their way to the checker.
Fields == {"mti", "src", "dst", "body", "val", "at", "late"}
FromDevice(m) ==
    /\ DOMAIN m = Fields
    /\ m.src = DBC
    /\ m.dst \in Addressees

LEMMA RepliesFromDevice ==
    ASSUME NEW messages, NEW n, AllWhole(messages)
    PROVE  /\ IsSequence(Replies(messages, n))
           /\ \A k \in DOMAIN Replies(messages, n) :
                 /\ FromDevice(Replies(messages, n)[k])
                 /\ Replies(messages, n)[k].body # "short"
<1> DEFINE replies == Replies(messages, n)
           S == {replies[k] : k \in 1 .. Len(messages)}
<1>1. Len(messages) \in Nat /\ DOMAIN messages = 1 .. Len(messages)
  BY SequenceOf DEF AllWhole, IsSequence
<1>2. replies = [k \in 1 .. Len(messages) |-> replies[k]]
  BY DEF Replies
<1>3. \A k \in 1 .. Len(messages) : FromDevice(replies[k]) /\ replies[k].body # "short"
  BY <1>1 DEF Replies, AllWhole, Whole, Message, FromDevice, Fields
<1> HIDE DEF replies
<1>4. replies \in Seq(S) /\ DOMAIN replies = 1 .. Len(messages)
  BY <1>1, <1>2
<1>5. IsSequence(replies)
  BY <1>4, SequenceOf
<1> QED
  BY <1>3, <1>4, <1>5 DEF replies

-----------------------------------------------------------------------------
(* What a step makes of a message. *)

LEMMA ContentPossible ==
    ASSUME NEW s, NEW m, NEW short \in BOOLEAN, m.body = "short" => short
    PROVE  ContentOutcome(s, m) \in ContentOutcomes(s, short)
  BY DEF ContentOutcome, ContentOutcomes

LEMMA OutcomePossible ==
    ASSUME NEW s, NEW m, NEW short \in BOOLEAN, m.body = "short" => short
    PROVE  Outcome(s, m) \in MessageOutcomes(s, short)
<1>1. ContentOutcome(s, m) \in ContentOutcomes(s, short)
  BY ContentPossible
<1> QED
  BY <1>1 DEF Outcome, MessageOutcomes

\* Messages that have no destination come from the device to all, or from other nodes.
Proper(m) == m.src = DBC /\ m.dst \notin Addressees => m.mti \notin Undirected

\* What a step looks at is enough: a message that is none of the device's to the checker
\* has none of the outcomes.
LEMMA Ignored ==
    ASSUME NEW s, NEW m, NEW outcomes,
           Ignores(s, outcomes), Foreign(m), Proper(m)
    PROVE  Outcome(s, m) \notin outcomes
<1> DEFINE behind == {x \in {s.late, s.reports} : x # None} \cup ContentOutcomes(s, TRUE)
<1>1. ContentOutcome(s, m) \in behind
  BY ContentPossible
<1>2. m.src = DBC => m.dst \notin Addressees /\ m.mti \notin Undirected
  BY DEF Foreign, Proper, Addressees
<1>3. /\ "skip" \notin outcomes /\ s.other \notin outcomes
      /\ "failed" \in outcomes => s.fatal = {}
      /\ s.source \notin outcomes /\ s.dest \notin outcomes
  BY DEF Ignores
<1>4. \A t \in DOMAIN s.by :
         (s.source # Anything /\ t \in Undirected) \/ s.by[t] \notin outcomes
  BY DEF Ignores
<1>5. \/ behind \cap outcomes = {}
      \/ /\ s.source # Anything
         /\ IF s.dest = Anything
            THEN s.mtis \ DOMAIN s.by \subseteq Undirected
            ELSE s.to \in Addressees
  BY DEF Ignores, Addressees
<1>6. /\ s.reports # None => s.reports \in behind
      /\ s.late # None => s.late \in behind
  OBVIOUS
<1> HIDE DEF behind
<1>7. CASE m.mti \in s.fatal \/ m.mti \notin s.mtis \/ (s.source # Anything /\ m.src # DBC)
  BY <1>3, <1>7 DEF Outcome
<1>8. CASE /\ m.mti \notin s.fatal /\ m.mti \in s.mtis
           /\ ~(s.source # Anything /\ m.src # DBC)
  <2>1. CASE m.mti \in DOMAIN s.by
    BY <1>2, <1>4, <1>8, <2>1 DEF Outcome
  <2>2. CASE m.mti \notin DOMAIN s.by /\ s.dest # Anything /\ m.dst # s.to
    BY <1>3, <1>8, <2>2 DEF Outcome
  <2>3. CASE m.mti \notin DOMAIN s.by /\ ~(s.dest # Anything /\ m.dst # s.to)
    <3>1. behind \cap outcomes = {}
      BY <1>2, <1>5, <1>8, <2>3
    <3>2. Outcome(s, m) \in behind \cup {"skip"}
      BY <1>1, <1>6, <1>8, <2>3 DEF Outcome
    <3> QED
      BY <1>3, <3>1, <3>2
  <2> QED
    BY <2>1, <2>2, <2>3
<1> QED
  BY <1>7, <1>8

-----------------------------------------------------------------------------
(* Where the script is. *)

\* The script is at one of its steps, in the try blocks that the text shows there, and
\* something is held back only in a "finally" part.
Chosen == script \in Scripts /\ profile \in DOMAIN Options[script]
Held(l, v, n) ==
    /\ l \in Verdicts \cup {None, "raise"}
    /\ v \in Verdicts \cup {None}
    /\ l # None => v = None /\ n \in Finals(program)
Placed ==
    /\ Chosen
    /\ pc \in DOMAIN program
    /\ step = program[pc]
    /\ handlers = Nest(program)[pc]
    /\ Held(leaving, verdict, pc)

\* A way to go on that keeps this.
Good(c) ==
    /\ c.pc \in DOMAIN program
    /\ c.handlers = Nest(program)[c.pc]
    /\ Held(c.leaving, c.verdict, c.pc)

LEMMA SoundScript ==
    ASSUME Chosen, ScriptSound
    PROVE  Sound(script, profile) /\ WellNested(program)
<1>1. Soundness[script][profile] = Sound(script, profile)
  BY DEF Chosen, Soundness
<1>2. Sound(script, profile)
  BY <1>1 DEF ScriptSound
<1>3. Sound(script, profile) => WellNested(Programs[script][profile])
  BY DEF Sound
<1> QED
  BY <1>2, <1>3 DEF program

LEMMA LeastNumber ==
    ASSUME NEW S \in SUBSET Nat, S # {}
    PROVE  Min(S) \in S
<1>1. IsWellFoundedOn(OpToRel(<, Nat), Nat)
  BY NatLessThanWellFounded
<1>2. PICK x \in S : \A y \in S : ~(<<y, x>> \in OpToRel(<, Nat))
  BY <1>1, WFMin
<1>3. \A y \in S : ~(y < x)
  BY <1>2 DEF OpToRel
<1>4. \A y \in S : x =< y
  BY <1>3
<1> QED
  BY <1>4 DEF Min

LEMMA NestedHere ==
    ASSUME Placed, WellNested(program)
    PROVE  /\ DOMAIN program = 1 .. Len(program) /\ Len(program) \in Nat \ {0}
           /\ handlers \in Seq(Handlers(program))
           /\ step.op = "leave" => handlers # << >>
           /\ \A m \in Moves(step, pc) :
                 m \in DOMAIN program /\ Nest(program)[m] = Behind(step, pc, handlers)
           /\ \A k \in 1 .. Len(handlers) :
                 /\ handlers[k].at \in DOMAIN program
                 /\ handlers[k].kind \in {"except", "finally"}
                 /\ Nest(program)[handlers[k].at]
                      = SubSeq(handlers, k + 1, Len(handlers))
                 /\ handlers[k].kind = "finally" => handlers[k].at \in Finals(program)
           /\ pc \in Finals(program) =>
                 /\ \E k \in pc .. Len(program) : program[k].op = "resume"
                 /\ IF step.op = "resume"
                    THEN \A k \in 1 .. Len(handlers) : handlers[k].kind = "finally"
                    ELSE /\ Moves(step, pc) \subseteq Finals(program)
                         /\ Outcomes(step, TRUE) \cap Verdicts = {}
                         /\ "raise" \in Outcomes(step, TRUE)
                              => handlers # << >> /\ handlers[1].at \in Finals(program)
<1> DEFINE nest == Nest(program)
<1>1. /\ DOMAIN program = 1 .. Len(program) /\ Len(program) \in Nat \ {0}
      /\ NestKept(program, nest) /\ FinalsKept(program, nest, Finals(program))
  BY DEF WellNested
<1>2. pc \in DOMAIN program /\ step = program[pc] /\ handlers = nest[pc]
  BY DEF Placed
<1> HIDE DEF nest
<1>3. /\ nest[pc] \in Seq(Handlers(program))
      /\ program[pc].op = "leave" => nest[pc] # << >>
      /\ \A m \in Moves(program[pc], pc) :
            m \in DOMAIN program /\ nest[m] = Behind(program[pc], pc, nest[pc])
      /\ \A k \in 1 .. Len(nest[pc]) :
            nest[nest[pc][k].at] = SubSeq(nest[pc], k + 1, Len(nest[pc]))
  BY <1>1, <1>2 DEF NestKept
<1>4. \A k \in 1 .. Len(nest[pc]) :
         nest[pc][k].kind = "finally" => nest[pc][k].at \in Finals(program)
  BY <1>1, <1>2 DEF FinalsKept
<1>5. pc \in Finals(program) =>
         /\ \E k \in pc .. Len(program) : program[k].op = "resume"
         /\ IF program[pc].op = "resume"
            THEN \A k \in 1 .. Len(nest[pc]) : nest[pc][k].kind = "finally"
            ELSE /\ Moves(program[pc], pc) \subseteq Finals(program)
                 /\ Outcomes(program[pc], TRUE) \cap Verdicts = {}
                 /\ "raise" \in Outcomes(program[pc], TRUE)
                      => nest[pc] # << >> /\ nest[pc][1].at \in Finals(program)
  BY <1>1 DEF FinalsKept
<1>6. \A k \in 1 .. Len(handlers) : handlers[k] \in Handlers(program)
  BY <1>2, <1>3
<1>7. \A k \in 1 .. Len(handlers) :
         /\ handlers[k].at \in DOMAIN program
         /\ handlers[k].kind \in {"except", "finally"}
  BY <1>6 DEF Handlers
<1> QED
  BY <1>1, <1>2, <1>3, <1>4, <1>5, <1>7 DEF nest

\* Going on with a step after this one.
LEMMA MoveGood ==
    ASSUME Placed, WellNested(program), NEW m \in Moves(step, pc),
           step.op = "resume" => leaving = None
    PROVE  Good([pc |-> m, handlers |-> Behind(step, pc, handlers),
                 leaving |-> leaving, verdict |-> verdict])
<1>1. m \in DOMAIN program /\ Nest(program)[m] = Behind(step, pc, handlers)
  BY NestedHere
<1>2. Held(leaving, verdict, pc)
  BY DEF Placed
<1>3. leaving # None => m \in Finals(program)
  <2>1. leaving # None => pc \in Finals(program)
    BY <1>2 DEF Held
  <2> QED
    BY <2>1, NestedHere
<1>4. Held(leaving, verdict, m)
  BY <1>2, <1>3 DEF Held
<1> QED
  BY <1>1, <1>4 DEF Good

\* The innermost "finally".
LEMMA FinallyOf ==
    ASSUME NEW hs \in Seq(Handlers(program)),
           NEW k, k = SelectInSeq(hs, LAMBDA h : h.kind = "finally"), k # 0
    PROVE  k \in 1 .. Len(hs) /\ hs[k].kind = "finally"
<1> DEFINE I == {i \in 1 .. Len(hs) : hs[i].kind = "finally"}
<1>1. k = IF I # {} THEN Min(I) ELSE 0
  BY DEF SelectInSeq
<1>2. I \in SUBSET Nat
  OBVIOUS
<1> HIDE DEF I
<1>3. k \in I
  BY <1>1, <1>2, LeastNumber
<1> QED
  BY <1>3 DEF I

\* A return, also one that was held back.
LEMMA LeaveGood ==
    ASSUME Placed, WellNested(program), Running, NEW v \in Verdicts,
           NEW c, c = LeaveWith(v, handlers)
    PROVE  /\ Good([c EXCEPT !.leaving = IF c.verdict = None THEN @ ELSE None])
           /\ leaving = None => Good(c)
           /\ c.verdict \in {None, v} /\ c.leaving \in {leaving, v}
<1> DEFINE k == SelectInSeq(handlers, LAMBDA h : h.kind = "finally")
<1>1. Held(leaving, None, pc) /\ verdict = None /\ v # None
  BY DEF Placed, Running, None, Verdicts
<1>2. CASE k = 0
  <2>1. c = [pc |-> pc, handlers |-> handlers, leaving |-> leaving, verdict |-> v]
    BY <1>2 DEF LeaveWith, Ended, Here
  <2>2. Held(None, v, pc)
    BY DEF Held
  <2>3. pc \in DOMAIN program /\ handlers = Nest(program)[pc]
    BY DEF Placed
  <2> HIDE DEF k
  <2> QED
    BY <1>1, <2>1, <2>2, <2>3 DEF Good
<1>3. CASE k # 0
  <2>1. handlers \in Seq(Handlers(program))
    BY NestedHere
  <2>2. k \in 1 .. Len(handlers) /\ handlers[k].kind = "finally"
    BY <1>3, <2>1, FinallyOf
  <2>3. c = [pc |-> handlers[k].at, handlers |-> SubSeq(handlers, k + 1, Len(handlers)),
             leaving |-> v, verdict |-> None]
    BY <1>1, <1>3 DEF LeaveWith, Here
  <2> HIDE DEF k
  <2>4. /\ handlers[k].at \in DOMAIN program
        /\ Nest(program)[handlers[k].at] = SubSeq(handlers, k + 1, Len(handlers))
        /\ handlers[k].at \in Finals(program)
    BY <2>2, NestedHere
  <2>5. Held(v, None, handlers[k].at)
    BY <2>4 DEF Held
  <2> QED
    BY <1>1, <2>3, <2>4, <2>5 DEF Good
<1> QED
  BY <1>2, <1>3

\* An exception, also one that was held back.
LEMMA RaiseGood ==
    ASSUME Placed, WellNested(program), Running,
           NEW c, c = RaiseFrom(handlers),
           leaving # None /\ handlers # << >> => handlers[1].at \in Finals(program)
    PROVE  /\ Good([c EXCEPT !.leaving = IF c.verdict = None THEN @ ELSE None])
           /\ leaving = None \/ handlers # << >> => Good(c)
<1>1. Held(leaving, None, pc) /\ verdict = None
  BY DEF Placed, Running
<1>2. CASE handlers = << >>
  <2>1. c = [pc |-> pc, handlers |-> handlers, leaving |-> leaving, verdict |-> "crashed"]
    BY <1>2 DEF RaiseFrom, Ended, Here
  <2>2. Held(None, "crashed", pc) /\ "crashed" # None
    BY DEF Held, Verdicts, None
  <2>3. pc \in DOMAIN program /\ handlers = Nest(program)[pc]
    BY DEF Placed
  <2> QED
    BY <1>2, <2>1, <2>2, <2>3 DEF Good
<1>3. CASE handlers # << >>
  <2>1. handlers \in Seq(Handlers(program)) /\ 1 \in 1 .. Len(handlers)
        /\ Tail(handlers) = SubSeq(handlers, 1 + 1, Len(handlers))
    <3>1. handlers \in Seq(Handlers(program))
      BY NestedHere
    <3> QED
      BY <1>3, <3>1
  <2> DEFINE l == IF handlers[1].kind = "finally" THEN "raise" ELSE leaving
  <2>2. c = [pc |-> handlers[1].at, handlers |-> Tail(handlers),
             leaving |-> l, verdict |-> None]
    BY <1>1, <1>3 DEF RaiseFrom, Here
  <2>3. /\ handlers[1].at \in DOMAIN program
        /\ Nest(program)[handlers[1].at] = Tail(handlers)
        /\ handlers[1].kind = "finally" => handlers[1].at \in Finals(program)
    BY <2>1, NestedHere
  <2>4. Held(l, None, handlers[1].at)
    BY <1>1, <1>3, <2>3 DEF Held
  <2> HIDE DEF l
  <2> QED
    BY <2>2, <2>3, <2>4 DEF Good
<1> QED
  BY <1>2, <1>3

LEMMA ContinuePlaced ==
    ASSUME NEW c, Good(c), Continue(c), Chosen, UNCHANGED <<script, profile>>
    PROVE  Placed'
<1>1. /\ pc' = c.pc /\ step' = StepAt(c.pc) /\ handlers' = c.handlers
      /\ leaving' = c.leaving /\ verdict' = c.verdict
  BY DEF Continue
<1>2. program' = program /\ Chosen'
  BY DEF program, Chosen
<1>3. StepAt(c.pc) = program[c.pc]
  BY DEF Good, StepAt
<1>4. c.pc \in DOMAIN program /\ c.handlers = Nest(program)[c.pc]
      /\ Held(c.leaving, c.verdict, c.pc)
  BY DEF Good
<1>5. Held(leaving, verdict, pc)'
  BY <1>1, <1>2, <1>4 DEF Held
<1> QED
  BY <1>1, <1>2, <1>3, <1>4, <1>5 DEF Placed

\* What a message, a timeout, a decision or the operator leads to.
LEMMA AfterGood ==
    ASSUME Placed, WellNested(program), Running, step.op \in Judging,
           NEW x \in Outcomes(step, TRUE)
    PROVE  Good(After(x))
<1>1. /\ step.op # "resume"
      /\ \A m : Behind(step, pc, handlers) = handlers
      /\ Moves(step, pc) =
            {pc} \cup (IF Outcomes(step, TRUE) \cap Onward # {} THEN {pc + 1} ELSE {})
              \cup (IF "out" \in Outcomes(step, TRUE) THEN {pc + step.exit} ELSE {})
  BY DEF Judging, Behind, Moves
<1>2. ASSUME NEW m \in Moves(step, pc)
      PROVE  Good([pc |-> m, handlers |-> handlers, leaving |-> leaving,
                   verdict |-> verdict])
  BY <1>1, MoveGood
<1>3. CASE x \in Verdicts
  <2>1. leaving = None
    <3>1. pc \notin Finals(program)
      BY <1>1, <1>3, NestedHere
    <3> QED
      BY <3>1 DEF Placed, Held
  <2>2. After(x) = LeaveWith(x, handlers)
    BY <1>3 DEF After, Verdicts
  <2> QED
    BY <1>3, <2>1, <2>2, LeaveGood
<1>4. CASE x = "raise"
  <2>1. After(x) = RaiseFrom(handlers)
    BY <1>4 DEF After, Verdicts
  <2>2. pc \in Finals(program) => handlers # << >> /\ handlers[1].at \in Finals(program)
    BY <1>1, <1>4, NestedHere
  <2>3. leaving # None => handlers # << >> /\ handlers[1].at \in Finals(program)
    BY <2>2 DEF Placed, Held
  <2> QED
    BY <2>1, <2>3, RaiseGood
<1>5. CASE x \in Onward
  <2>1. After(x) = [pc |-> pc + 1, handlers |-> handlers, leaving |-> leaving,
                    verdict |-> verdict]
    BY <1>5 DEF After, Here, Onward, Verdicts
  <2>2. pc + 1 \in Moves(step, pc)
    BY <1>1, <1>5
  <2> QED
    BY <1>2, <2>1, <2>2
<1>6. CASE x = "out"
  <2>1. After(x) = [pc |-> pc + step.exit, handlers |-> handlers, leaving |-> leaving,
                    verdict |-> verdict]
    BY <1>6 DEF After, Here, Verdicts
  <2>2. pc + step.exit \in Moves(step, pc)
    BY <1>1, <1>6
  <2> QED
    BY <1>2, <2>1, <2>2
<1>7. CASE x \notin Verdicts /\ x # "raise" /\ x \notin Onward /\ x # "out"
  <2>1. After(x) = [pc |-> pc, handlers |-> handlers, leaving |-> leaving,
                    verdict |-> verdict]
    BY <1>7 DEF After, Here, Onward
  <2>2. pc \in Moves(step, pc)
    BY <1>1
  <2> QED
    BY <1>2, <2>1, <2>2
<1> QED
  BY <1>3, <1>4, <1>5, <1>6, <1>7

\* The operations that end with the next step.
LEMMA JumpGood ==
    ASSUME Placed, WellNested(program), NEW n, pc + n \in Moves(step, pc),
           Behind(step, pc, handlers) = handlers,
           step.op = "resume" => leaving = None
    PROVE  Good([Here EXCEPT !.pc = @ + n])
<1>1. [Here EXCEPT !.pc = @ + n] = [pc |-> pc + n, handlers |-> handlers,
                                    leaving |-> leaving, verdict |-> verdict]
  BY DEF Here
<1> QED
  BY <1>1, MoveGood

LEMMA StepsPlaced ==
    ASSUME Placed, WellNested(program), UNCHANGED <<script, profile>>,
           \/ SendMessage \/ OperatorRestarts \/ PurgeMessages \/ SleepStep
    PROVE  Placed'
<1>1. step.op \in {"send", "restart", "purge", "sleep"} /\ Jump(1)
  BY DEF SendMessage, OperatorRestarts, PurgeMessages, SleepStep, At
<1>2. Moves(step, pc) = {pc + 1} /\ Behind(step, pc, handlers) = handlers
  BY <1>1 DEF Moves, Behind, Judging
<1>3. Good([Here EXCEPT !.pc = @ + 1])
  BY <1>1, <1>2, JumpGood
<1>4. Continue([Here EXCEPT !.pc = @ + 1])
  BY <1>1 DEF Jump
<1>5. Chosen
  BY DEF Placed
<1> QED
  BY <1>3, <1>4, <1>5, ContinuePlaced

\* A step that an outcome ends.
LEMMA OutcomePlaced ==
    ASSUME Placed, WellNested(program), Running, UNCHANGED <<script, profile>>,
           step.op \in Judging, NEW x \in Outcomes(step, TRUE), Continue(After(x))
    PROVE  Placed'
<1>1. Good(After(x))
  BY AfterGood
<1>2. Chosen
  BY DEF Placed
<1> QED
  BY <1>1, <1>2, ContinuePlaced

\* The outcomes of the step are those that can be seen in it.
LEMMA OutcomeSeen ==
    ASSUME NEW m, NEW short \in BOOLEAN, m.body = "short" => short
    PROVE  /\ step.op = "wait" =>
                 /\ Outcome(step, m) \in Outcomes(step, short)
                 /\ step.empty \in Outcomes(step, short)
           /\ step.op = "judge" => ContentOutcome(step, m) \in Outcomes(step, short)
           /\ step.op = "return" => step.verdict \in Outcomes(step, short)
           /\ step.op = "decide" => {step.verdict, "next"} \subseteq Outcomes(step, short)
           /\ step.op = "compare" => {"next", "failed"} \subseteq Outcomes(step, short)
           /\ step.op = "ask" => {"next", step.no} \subseteq Outcomes(step, short)
<1>1. /\ Outcome(step, m) \in MessageOutcomes(step, short)
      /\ ContentOutcome(step, m) \in ContentOutcomes(step, short)
  BY OutcomePossible, ContentPossible
<1>2. /\ step.op = "wait" =>
            Outcomes(step, short) = {step.empty} \cup MessageOutcomes(step, short)
      /\ step.op = "judge" => Outcomes(step, short) = ContentOutcomes(step, short)
      /\ step.op = "return" => Outcomes(step, short) = {step.verdict}
      /\ step.op = "decide" => Outcomes(step, short) = {"next", step.verdict}
      /\ step.op = "compare" => Outcomes(step, short) = {"next", "failed"}
      /\ step.op = "ask" => Outcomes(step, short) = {"next", step.no}
  BY DEF Outcomes
<1> QED
  BY <1>1, <1>2

LEMMA MessagesPlaced ==
    ASSUME Placed, WellNested(program), GetMessage \/ Timeout \/ JudgeContent
    PROVE  Placed'
<1>1. CASE GetMessage
  <2>1. At("wait") /\ Continue(After(Outcome(step, Head(queue))))
        /\ UNCHANGED <<script, profile>>
    BY <1>1 DEF GetMessage
  <2>2. Running /\ step.op = "wait" /\ step.op \in Judging
    BY <2>1 DEF At, Judging
  <2>3. Outcome(step, Head(queue)) \in Outcomes(step, TRUE)
    BY <2>2, OutcomeSeen
  <2> QED
    BY <2>1, <2>2, <2>3, OutcomePlaced
<1>2. CASE Timeout
  <2>1. At("wait") /\ Continue(After(step.empty)) /\ UNCHANGED <<script, profile>>
    BY <1>2 DEF Timeout
  <2>2. Running /\ step.op = "wait" /\ step.op \in Judging
    BY <2>1 DEF At, Judging
  <2>3. step.empty \in Outcomes(step, TRUE)
    BY <2>2, OutcomeSeen
  <2> QED
    BY <2>1, <2>2, <2>3, OutcomePlaced
<1>3. CASE JudgeContent
  <2>1. At("judge") /\ Continue(After(ContentOutcome(step, got)))
        /\ UNCHANGED <<script, profile>>
    BY <1>3 DEF JudgeContent
  <2>2. Running /\ step.op = "judge" /\ step.op \in Judging
    BY <2>1 DEF At, Judging
  <2>3. ContentOutcome(step, got) \in Outcomes(step, TRUE)
    BY <2>2, OutcomeSeen
  <2> QED
    BY <2>1, <2>2, <2>3, OutcomePlaced
<1> QED
  BY <1>1, <1>2, <1>3

\* Branches and the beginnings and ends of try blocks.
LEMMA BranchPlaced ==
    ASSUME Placed, WellNested(program), UNCHANGED <<script, profile>>,
           \/ At("when") /\ (Jump(1) \/ Jump(1 + step.size))
           \/ At("when got") /\ (Jump(1) \/ Jump(1 + step.size))
           \/ At("when not") /\ (Jump(1) \/ Jump(1 + step.size))
           \/ At("jump") /\ Jump(1 + step.size)
    PROVE  Placed'
<1>1. step.op \in {"when", "when got", "when not", "jump"}
  BY DEF At
<1>2. PICK n : n \in {1, 1 + step.size} /\ Jump(n) /\ (step.op = "jump" => n = 1 + step.size)
  BY <1>1 DEF At
<1>3. pc + n \in Moves(step, pc) /\ Behind(step, pc, handlers) = handlers
  BY <1>1, <1>2 DEF Moves, Behind, Judging
<1>4. Good([Here EXCEPT !.pc = @ + n])
  BY <1>1, <1>3, JumpGood
<1>5. Continue([Here EXCEPT !.pc = @ + n])
  BY <1>2 DEF Jump
<1>6. Chosen
  BY DEF Placed
<1> QED
  BY <1>4, <1>5, <1>6, ContinuePlaced

LEMMA BlockPlaced ==
    ASSUME Placed, WellNested(program), UNCHANGED <<script, profile>>,
           \/ At("back") /\ Continue([Here EXCEPT !.pc = @ - step.size])
           \/ /\ At("try")
              /\ Continue([Here EXCEPT
                     !.pc = pc + 1,
                     !.handlers = <<[kind |-> step.kind, at |-> pc + step.size + 1]>>
                                    \o handlers])
           \/ /\ At("leave")
              /\ Continue([Here EXCEPT !.pc = pc + (1 + step.size), !.handlers = Tail(handlers)])
    PROVE  Placed'
<1> DEFINE to(m) == [pc |-> m, handlers |-> Behind(step, pc, handlers),
                     leaving |-> leaving, verdict |-> verdict]
<1>0. ASSUME NEW m, NEW h, NEW c, c = [Here EXCEPT !.pc = m, !.handlers = h]
      PROVE  c = [pc |-> m, handlers |-> h, leaving |-> leaving, verdict |-> verdict]
  BY <1>0 DEF Here
<1>1. step.op \in {"back", "try", "leave"}
  BY DEF At
<1>2. \E m \in Moves(step, pc) : Continue(to(m))
  <2>1. CASE At("back") /\ Continue([Here EXCEPT !.pc = @ - step.size])
    <3>1. Moves(step, pc) = {pc - step.size} /\ Behind(step, pc, handlers) = handlers
      BY <2>1 DEF At, Moves, Behind, Judging
    <3>2. [Here EXCEPT !.pc = @ - step.size] = to(pc - step.size)
      BY <3>1 DEF Here
    <3> QED
      BY <2>1, <3>1, <3>2
  <2>2. CASE /\ At("try")
             /\ Continue([Here EXCEPT
                    !.pc = pc + 1,
                    !.handlers = <<[kind |-> step.kind, at |-> pc + step.size + 1]>>
                                   \o handlers])
    <3>1. /\ Moves(step, pc) = {pc + 1}
          /\ Behind(step, pc, handlers)
               = <<[kind |-> step.kind, at |-> pc + step.size + 1]>> \o handlers
      BY <2>2 DEF At, Moves, Behind, Judging
    <3>2. [Here EXCEPT
              !.pc = pc + 1,
              !.handlers = <<[kind |-> step.kind, at |-> pc + step.size + 1]>>
                             \o handlers]
            = to(pc + 1)
      BY <1>0, <3>1
    <3> QED
      BY <2>2, <3>1, <3>2
  <2>3. CASE /\ At("leave")
             /\ Continue([Here EXCEPT !.pc = pc + (1 + step.size), !.handlers = Tail(handlers)])
    <3>1. /\ Moves(step, pc) = {pc + (1 + step.size)}
          /\ Behind(step, pc, handlers) = Tail(handlers)
      BY <2>3 DEF At, Moves, Behind, Judging
    <3>2. [Here EXCEPT !.pc = pc + (1 + step.size), !.handlers = Tail(handlers)]
            = to(pc + (1 + step.size))
      BY <1>0, <3>1
    <3> QED
      BY <2>3, <3>1, <3>2
  <2> QED
    BY <2>1, <2>2, <2>3
<1>3. PICK m \in Moves(step, pc) : Continue(to(m))
  BY <1>2
<1>4. Good(to(m))
  BY <1>1, MoveGood
<1>5. Chosen
  BY DEF Placed
<1> HIDE DEF to
<1> QED
  BY <1>3, <1>4, <1>5, ContinuePlaced

LEMMA ComputePlaced ==
    ASSUME Placed, WellNested(program), Compute
    PROVE  Placed'
<1>1. UNCHANGED <<script, profile>>
  BY DEF Compute
<1> DEFINE judged(x) == x \in Outcomes(step, TRUE) /\ Continue(After(x))
<1>2. ASSUME At("return") \/ At("decide") \/ At("compare"), NEW x, judged(x)
      PROVE  Placed'
  <2>1. Running /\ step.op \in Judging
    BY <1>2 DEF At, Judging
  <2> QED
    BY <1>1, <1>2, <2>1, OutcomePlaced
<1>3. CASE At("return") /\ Continue(After(step.verdict))
  <2>1. judged(step.verdict)
    BY <1>3, OutcomeSeen DEF At
  <2> QED
    BY <1>2, <1>3, <2>1
<1>4. CASE At("decide") /\ Continue(After(IF Holds(step) THEN step.verdict ELSE "next"))
  <2>1. \E x \in {step.verdict, "next"} : Continue(After(x))
    BY <1>4
  <2>2. {step.verdict, "next"} \subseteq Outcomes(step, TRUE)
    BY <1>4, OutcomeSeen DEF At
  <2> QED
    BY <1>2, <1>4, <2>1, <2>2
<1>5. CASE At("compare") /\ Continue(After(IF List(step.first) = List(step.second)
                                           THEN "next" ELSE "failed"))
  <2>1. \E x \in {"failed", "next"} : Continue(After(x))
    BY <1>5
  <2>2. {"next", "failed"} \subseteq Outcomes(step, TRUE)
    BY <1>5, OutcomeSeen DEF At
  <2> QED
    BY <1>2, <1>5, <2>1, <2>2
<1> HIDE DEF judged
<1> QED
  BY <1>1, <1>3, <1>4, <1>5, BranchPlaced, BlockPlaced DEF Compute

LEMMA ResumePlaced ==
    ASSUME Placed, WellNested(program), Resume
    PROVE  Placed'
<1>1. Running /\ step.op = "resume" /\ UNCHANGED <<script, profile>>
  BY DEF Resume, At
<1>2. Chosen
  BY DEF Placed
<1>3. CASE leaving = None
  <2>1. Continue([Here EXCEPT !.pc = @ + 1])
    BY <1>3 DEF Resume, Jump
  <2>2. pc + 1 \in Moves(step, pc) /\ Behind(step, pc, handlers) = handlers
    BY <1>1 DEF Moves, Behind, Judging
  <2>3. Good([Here EXCEPT !.pc = @ + 1])
    BY <1>3, <2>2, JumpGood
  <2> QED
    BY <1>1, <1>2, <2>1, <2>3, ContinuePlaced
<1>4. CASE leaving # None
  <2> DEFINE c == IF leaving = "raise" THEN RaiseFrom(handlers)
                  ELSE LeaveWith(leaving, handlers)
             d == [c EXCEPT !.leaving = IF c.verdict = None THEN @ ELSE None]
  <2>1. Continue(d)
    BY <1>4 DEF Resume
  <2>2. pc \in Finals(program) /\ leaving \in Verdicts \cup {"raise"}
    BY <1>4 DEF Placed, Held
  <2>3. ASSUME leaving = "raise"
        PROVE  Good(d)
    <3>1. c = RaiseFrom(handlers)
      BY <2>3
    <3>2. handlers \in Seq(Handlers(program))
          /\ \A k \in 1 .. Len(handlers) :
                handlers[k].kind = "finally" /\ handlers[k].at \in Finals(program)
      BY <1>1, <2>2, NestedHere
    <3>3. handlers # << >> => handlers[1].at \in Finals(program)
      BY <3>2
    <3> HIDE DEF c
    <3> QED
      BY <1>1, <3>1, <3>3, RaiseGood
  <2>4. ASSUME leaving # "raise"
        PROVE  Good(d)
    <3>1. c = LeaveWith(leaving, handlers) /\ leaving \in Verdicts
      BY <2>2, <2>4
    <3> HIDE DEF c
    <3> QED
      BY <1>1, <3>1, LeaveGood
  <2>5. Good(d)
    BY <2>3, <2>4
  <2> HIDE DEF c, d
  <2> QED
    BY <1>1, <1>2, <2>1, <2>5, ContinuePlaced
<1> QED
  BY <1>3, <1>4

LEMMA OperatorPlaced ==
    ASSUME Placed, WellNested(program), OperatorAnswers
    PROVE  Placed'
<1>1. /\ Running /\ step.op = "ask" /\ step.op \in Judging
      /\ UNCHANGED <<script, profile>>
      /\ Jump(1) \/ Continue(After(step.no))
  BY DEF OperatorAnswers, At, Judging
<1>2. {"next", step.no} \subseteq Outcomes(step, TRUE)
  BY <1>1, OutcomeSeen
<1>3. CASE Jump(1)
  <2>1. "next" \in Outcomes(step, TRUE) \cap Onward
    BY <1>2 DEF Onward
  <2>2. pc + 1 \in Moves(step, pc) /\ Behind(step, pc, handlers) = handlers
    BY <1>1, <2>1 DEF Moves, Behind, Judging
  <2>3. Good([Here EXCEPT !.pc = @ + 1])
    BY <1>1, <2>2, JumpGood
  <2>4. Continue([Here EXCEPT !.pc = @ + 1])
    BY <1>3 DEF Jump
  <2>5. Chosen
    BY DEF Placed
  <2> QED
    BY <1>1, <2>3, <2>4, <2>5, ContinuePlaced
<1>4. CASE Continue(After(step.no))
  BY <1>1, <1>2, <1>4, OutcomePlaced
<1> QED
  BY <1>1, <1>3, <1>4

LEMMA PlacedInit ==
    ASSUME Init, ScriptSound
    PROVE  Placed
<1>1. Chosen /\ pc = 1 /\ step = StepAt(1) /\ handlers = << >> /\ leaving = None
      /\ verdict = None
  BY DEF Init, Chosen
<1>2. WellNested(program)
  BY <1>1, SoundScript
<1>3. 1 \in DOMAIN program /\ Nest(program)[1] = << >>
  BY <1>2 DEF WellNested
<1>4. step = program[1]
  BY <1>1, <1>3 DEF StepAt
<1>5. Held(leaving, verdict, pc)
  BY <1>1 DEF Held
<1> QED
  BY <1>1, <1>3, <1>4, <1>5 DEF Placed

\* What goes on around the script leaves it where it is.
Around ==
    \/ ProcessMessage \/ DeviceTimer \/ DeviceHurries \/ ReplyGoesWrong
    \/ DeviceRestarts \/ DeviceReports \/ Stray \/ Chatter \/ Finished

LEMMA AroundKeeps ==
    ASSUME Around \/ UNCHANGED vars
    PROVE  UNCHANGED <<script, profile, pc, step, handlers, leaving, verdict, got>>
<1>1. CASE UNCHANGED vars
  BY <1>1 DEF vars, control, data
<1>2. CASE ProcessMessage
  BY <1>2 DEF ProcessMessage, control, data
<1>3. CASE DeviceTimer
  BY <1>3 DEF DeviceTimer, Sends, control, data
<1>4. CASE DeviceHurries
  BY <1>4 DEF DeviceHurries, Sends, control, data
<1>5. CASE ReplyGoesWrong
  BY <1>5 DEF ReplyGoesWrong, control, data
<1>6. CASE DeviceRestarts
  BY <1>6 DEF DeviceRestarts, control, data
<1>7. CASE DeviceReports
  BY <1>7 DEF DeviceReports, control, data
<1>8. CASE Stray
  BY <1>8 DEF Stray, control, data
<1>9. CASE Chatter
  BY <1>9 DEF Chatter, control, data
<1>10. CASE Finished
  BY <1>10 DEF Finished, vars, control, data
<1> QED
  BY <1>1, <1>2, <1>3, <1>4, <1>5, <1>6, <1>7, <1>8, <1>9, <1>10 DEF Around

LEMMA NextParts == [Next]_vars <=> MainThread \/ Around \/ UNCHANGED vars
  BY DEF Next, Around

LEMMA PlacedNext ==
    ASSUME Placed, WellNested(program), [Next]_vars
    PROVE  Placed'
<1>1. CASE SendMessage \/ OperatorRestarts \/ PurgeMessages \/ SleepStep
  <2>1. UNCHANGED <<script, profile>>
    BY <1>1 DEF SendMessage, OperatorRestarts, PurgeMessages, SleepStep
  <2> QED
    BY <1>1, <2>1, StepsPlaced
<1>2. CASE GetMessage \/ Timeout \/ JudgeContent
  BY <1>2, MessagesPlaced
<1>3. CASE Compute
  BY <1>3, ComputePlaced
<1>4. CASE Resume
  BY <1>4, ResumePlaced
<1>5. CASE OperatorAnswers
  BY <1>5, OperatorPlaced
<1>6. CASE Around \/ UNCHANGED vars
  <2>1. UNCHANGED <<script, profile, pc, step, handlers, leaving, verdict>>
    BY <1>6, AroundKeeps
  <2>2. program' = program
    BY <2>1 DEF program
  <2> QED
    BY <2>1, <2>2 DEF Placed, Chosen, Held
<1> QED
  BY <1>1, <1>2, <1>3, <1>4, <1>5, <1>6, NextParts DEF MainThread

\* The script and what was decided for it before it ran stay the same.
LEMMA ScriptStays ==
    ASSUME [Next]_vars
    PROVE  /\ UNCHANGED <<script, profile>>
           /\ fault' = fault \/ fault \in {None, "event"}
<1>1. CASE MainThread
  <2>1. UNCHANGED <<script, profile>>
    BY <1>1 DEF MainThread, SendMessage, OperatorRestarts, PurgeMessages, SleepStep,
       GetMessage, Timeout, JudgeContent, Compute, Resume, OperatorAnswers
  <2>2. UNCHANGED fault
    BY <1>1 DEF MainThread, SendMessage, OperatorRestarts, PurgeMessages, SleepStep,
       GetMessage, Timeout, JudgeContent, Compute, Resume, OperatorAnswers, world
  <2> QED
    BY <2>1, <2>2
<1>2. CASE Around \/ UNCHANGED vars
  <2>1. UNCHANGED <<script, profile>>
    BY <1>2, AroundKeeps
  <2>2. UNCHANGED vars => UNCHANGED fault
    BY DEF vars, world
  <2>3. ProcessMessage \/ DeviceTimer \/ Stray \/ Chatter \/ Finished => UNCHANGED fault
    BY <2>2 DEF ProcessMessage, DeviceTimer, Stray, Chatter, Finished, world
  <2>4. DeviceHurries \/ ReplyGoesWrong \/ DeviceRestarts \/ DeviceReports
          => fault \in {None, "event"}
    BY DEF DeviceHurries, ReplyGoesWrong, DeviceRestarts, DeviceReports
  <2> QED
    BY <1>2, <2>1, <2>2, <2>3, <2>4 DEF Around
<1> QED
  BY <1>1, <1>2, NextParts

-----------------------------------------------------------------------------
(* The bounds and the messages. *)

Bounds == timeouts \in 0 .. 2 /\ strays \in 0 .. MaxStrays

LEMMA BoundsNext ==
    ASSUME Bounds, [Next]_vars
    PROVE  Bounds'
<1>1. CASE MainThread
  <2>1. UNCHANGED strays
    BY <1>1 DEF MainThread, SendMessage, OperatorRestarts, PurgeMessages, SleepStep,
       GetMessage, Timeout, JudgeContent, Compute, Resume, OperatorAnswers, world
  <2>2. timeouts' = timeouts \/ (timeouts > 0 /\ timeouts' = timeouts - 1)
    BY <1>1 DEF MainThread, SendMessage, OperatorRestarts, PurgeMessages, SleepStep,
       GetMessage, Timeout, JudgeContent, Compute, Resume, OperatorAnswers, data
  <2> QED
    BY <2>1, <2>2 DEF Bounds
<1>2. CASE Around \/ UNCHANGED vars
  <2>1. UNCHANGED vars => UNCHANGED <<timeouts, strays>>
    BY DEF vars, data, world
  <2>2. ProcessMessage \/ DeviceTimer \/ DeviceHurries \/ ReplyGoesWrong \/ DeviceRestarts
          \/ DeviceReports \/ Chatter \/ Finished => UNCHANGED <<timeouts, strays>>
    BY <2>1 DEF ProcessMessage, DeviceTimer, DeviceHurries, Sends, ReplyGoesWrong,
       DeviceRestarts, DeviceReports, Chatter, Finished, data, world
  <2>3. Stray => UNCHANGED timeouts /\ strays < MaxStrays /\ strays' = strays + 1
    BY DEF Stray, data
  <2> QED
    BY <1>2, <2>1, <2>2, <2>3, BoundsAssumption DEF Around, Bounds
<1> QED
  BY <1>1, <1>2, NextParts

\* Nothing that is too short reaches me30, as long as no reply is cut short.
Tame == script = "me30" /\ fault # "short"
Lengthy(q) == \A k \in DOMAIN q : q[k].body # "short"
Queued(q) == IsSequence(q) /\ \A k \in DOMAIN q : Proper(q[k])
Flying(q) == IsSequence(q) /\ \A k \in DOMAIN q : FromDevice(q[k])
Mail ==
    /\ Queued(queue) /\ Flying(transit)
    /\ Tame => Lengthy(queue) /\ Lengthy(transit) /\ got.body # "short"

LEMMA EmptyQueued == Queued(<< >>) /\ Flying(<< >>) /\ Lengthy(<< >>)
  BY NoneWhole DEF AllWhole, Queued, Flying, Lengthy

LEMMA TailQueued ==
    ASSUME NEW q, q # << >>
    PROVE  /\ Queued(q) => Queued(Tail(q)) /\ Proper(Head(q))
           /\ Flying(q) => Flying(Tail(q)) /\ FromDevice(Head(q))
           /\ IsSequence(q) /\ Lengthy(q) => Lengthy(Tail(q)) /\ Head(q).body # "short"
<1> DEFINE t == Tail(q)
           h == Head(q)
<1>1. ASSUME IsSequence(q)
      PROVE  /\ IsSequence(t) /\ 1 \in DOMAIN q /\ h = q[1]
             /\ \A k \in DOMAIN t : k + 1 \in DOMAIN q /\ t[k] = q[k + 1]
  BY <1>1, TailOfSequence
<1> HIDE DEF t, h
<1> QED
  BY <1>1 DEF Queued, Flying, Lengthy, t, h

LEMMA AppendQueued ==
    ASSUME NEW q, NEW m, NEW r, r = Append(q, m)
    PROVE  /\ Queued(q) /\ Proper(m) => Queued(r)
           /\ Flying(q) /\ FromDevice(m) => Flying(r)
           /\ IsSequence(q) /\ Lengthy(q) /\ m.body # "short" => Lengthy(r)
<1>1. ASSUME IsSequence(q)
      PROVE  /\ IsSequence(r)
             /\ \A k \in DOMAIN r : (k \in DOMAIN q /\ r[k] = q[k]) \/ r[k] = m
  BY <1>1, AppendedSequence
<1> QED
  BY <1>1 DEF Queued, Flying, Lengthy

LEMMA JoinQueued ==
    ASSUME NEW q, NEW t, NEW r, r = q \o t
    PROVE  /\ Flying(q) /\ Flying(t) => Flying(r)
           /\ IsSequence(q) /\ IsSequence(t) /\ Lengthy(q) /\ Lengthy(t) => Lengthy(r)
<1>1. ASSUME IsSequence(q), IsSequence(t)
      PROVE  /\ IsSequence(r)
             /\ \A k \in DOMAIN r : \/ k \in DOMAIN q /\ r[k] = q[k]
                                   \/ \E j \in DOMAIN t : r[k] = t[j]
  <2>1. IsSequence(r)
    BY <1>1, JoinedSequences
  <2>2. \A k \in DOMAIN r : \/ k \in DOMAIN q /\ r[k] = q[k]
                           \/ \E j \in DOMAIN t : r[k] = t[j]
    BY <1>1, JoinedSequences
  <2> QED
    BY <2>1, <2>2
<1>2. Flying(q) /\ Flying(t) => Flying(r)
  BY <1>1 DEF Flying
<1>3. IsSequence(q) /\ IsSequence(t) /\ Lengthy(q) /\ Lengthy(t) => Lengthy(r)
  BY <1>1 DEF Lengthy
<1> QED
  BY <1>2, <1>3

\* What the device sends is added to what is on its way.
LEMMA SentQueued ==
    ASSUME NEW t, NEW messages, NEW n, AllWhole(messages), Flying(t),
           NEW r, r = t \o Replies(messages, n)
    PROVE  Flying(r) /\ (Lengthy(t) => Lengthy(r))
<1> DEFINE replies == Replies(messages, n)
<1>1. /\ IsSequence(replies)
      /\ \A k \in DOMAIN replies : FromDevice(replies[k]) /\ replies[k].body # "short"
  BY RepliesFromDevice
<1> HIDE DEF replies
<1>2. Flying(replies) /\ Lengthy(replies)
  BY <1>1 DEF Flying, Lengthy
<1>3. IsSequence(t) /\ IsSequence(replies)
  BY <1>1 DEF Flying
<1>4. r = t \o replies
  BY DEF replies
<1> QED
  BY <1>2, <1>3, <1>4, JoinQueued

\* What a step that the device has no part in may do to the mail.
LEMMA MailKept ==
    ASSUME Mail, Tame' => Tame,
           queue' = queue, transit' = transit, got' = got
    PROVE  Mail'
  BY DEF Mail

LEMMA MailSent ==
    ASSUME Mail, Tame' => Tame, queue' = queue, got' = got,
           \/ transit' = transit
           \/ \E messages, n : AllWhole(messages)
                                 /\ transit' = transit \o Replies(messages, n)
    PROVE  Mail'
<1>1. Flying(transit') /\ (Lengthy(transit) => Lengthy(transit'))
  BY SentQueued DEF Mail
<1> QED
  BY <1>1 DEF Mail

\* A reply that goes wrong is still the device's to the checker; it is too short only
\* when the fault is that, or when it is an acknowledgement without flags.
LEMMA SpoiltMessage ==
    ASSUME NEW m, FromDevice(m), NEW f \in Spoilt(m)
    PROVE  /\ FromDevice(f[2])
           /\ m.mti # "Datagram_Received_OK" /\ m.body # "short" /\ f[1] # "short"
                => f[2].body # "short"
<1> DEFINE wrong == {<<"bad", "bad">>, <<"short", "short">>}
           content == CASE m.mti = "Datagram_Received_OK" ->
                               {<<"flags", "bad">>, <<"flags", "short">>}
                        [] m.mti = "Stream_Initiate_Reply" -> wrong \cup {<<"bad", "FF">>}
                        [] OTHER -> wrong
<1>1. DOMAIN m = Fields /\ m.src = DBC /\ m.dst \in Addressees
  BY DEF FromDevice
<1>2. \/ \E c \in content :
            f = <<c[1], [m EXCEPT !.body = c[2],
                                  !.val = IF c[2] = "short" THEN @ ELSE Junk(@)]>>
      \/ f = <<"refused", [m EXCEPT !.mti = Refusal[@], !.body = "rejected"]>>
      \/ f = <<"late", [m EXCEPT !.late = TRUE]>>
      \/ f = <<"junk", [m EXCEPT !.val = Junk(@)]>>
  BY DEF Spoilt
<1>3. ASSUME NEW c \in content,
             f = <<c[1], [m EXCEPT !.body = c[2],
                                   !.val = IF c[2] = "short" THEN @ ELSE Junk(@)]>>
      PROVE  /\ FromDevice(f[2])
             /\ m.mti # "Datagram_Received_OK" /\ f[1] # "short" => f[2].body # "short"
  <2>1. f[1] = c[1] /\ f[2] = [m EXCEPT !.body = c[2],
                                        !.val = IF c[2] = "short" THEN m.val ELSE Junk(m.val)]
    BY <1>3, <1>1 DEF Fields
  <2>2. /\ DOMAIN f[2] = Fields /\ f[2].src = m.src /\ f[2].dst = m.dst
        /\ f[2].body = c[2]
    BY <1>1, <2>1 DEF Fields
  <2>3. m.mti # "Datagram_Received_OK" /\ c[1] # "short" => c[2] # "short"
    OBVIOUS
  <2> QED
    BY <1>1, <2>1, <2>2, <2>3 DEF FromDevice
<1>4. ASSUME f = <<"refused", [m EXCEPT !.mti = Refusal[@], !.body = "rejected"]>>
      PROVE  FromDevice(f[2]) /\ f[2].body # "short"
  <2>1. f[2] = [m EXCEPT !.mti = Refusal[m.mti], !.body = "rejected"]
    BY <1>4
  <2>2. /\ DOMAIN f[2] = Fields /\ f[2].src = m.src /\ f[2].dst = m.dst
        /\ f[2].body = "rejected"
    BY <1>1, <2>1 DEF Fields
  <2> QED
    BY <1>1, <2>2 DEF FromDevice
<1>5. ASSUME \/ f = <<"late", [m EXCEPT !.late = TRUE]>>
             \/ f = <<"junk", [m EXCEPT !.val = Junk(@)]>>
      PROVE  FromDevice(f[2]) /\ f[2].body = m.body
  BY <1>1, <1>5 DEF FromDevice, Fields
<1> QED
  BY <1>2, <1>3, <1>4, <1>5

\* What other nodes send, or the device to them, has the destination that its kind has.
LEMMA StrayMessage ==
    ASSUME NEW m \in Lookalikes \cup {Message(PCER, Other, All, "stray", None, 0)}
    PROVE  Proper(m) /\ ("short" \notin step.good => m.body # "short")
<1> DEFINE bodies == {"stray"} \cup (step.good \ {Anything})
           vals == {"stray"} \cup step.among \cup {Value(x) : x \in {step.want} \ {Anything}}
           mtis == step.mtis \cup step.fatal
           addressed == (mtis \ GlobalMtis) \ FrameMtis
<1>1. \/ \E t \in mtis \cap GlobalMtis, b \in bodies : m = Message(t, Other, All, b, None, 0)
      \/ \E t \in mtis \cap FrameMtis :
            m = Message(t, Other, All, IF t = "AMD" THEN "other" ELSE "empty", "a9", 0)
      \/ \E t \in addressed, src \in {DBC, Other}, b \in bodies, v \in vals :
            m = Message(t, src, Other, b, v, 0)
      \/ \E t \in addressed, b \in bodies, v \in vals : m = Message(t, Other, step.to, b, v, 0)
      \/ m = Message(PCER, Other, All, "stray", None, 0)
  BY DEF Lookalikes
<1>2. \A t \in addressed : t \notin Undirected
  BY DEF Undirected
<1>3. \A b \in bodies : "short" \notin step.good => b # "short"
  OBVIOUS
<1> HIDE DEF bodies, vals, mtis, addressed
<1>4. m.src = Other \/ m.mti \in addressed
  BY <1>1 DEF Message
<1>5. Proper(m)
  BY <1>2, <1>4 DEF Proper, Other, DBC
<1>6. m.body \in bodies \cup {"other", "empty", "stray"}
  BY <1>1 DEF Message
<1> QED
  BY <1>3, <1>5, <1>6

\* me30 does not wait for what may be short.
LEMMA ShortRefused ==
    ASSUME Placed, ScriptSound, Tame, step.op = "wait"
    PROVE  "short" \notin step.good /\ "Datagram_Received_OK" \notin step.mtis
<1>1. Sound(script, profile)
  BY SoundScript DEF Placed
<1>2. NotShort(program)
  BY <1>1 DEF Tame, Sound, program
<1> QED
  BY <1>2 DEF Placed, NotShort

LEMMA OneWholeInitialized ==
    AllWhole(<<Initialized(options)>>)
  BY WholeForms, OneWhole DEF Initialized

LEMMA MailNext ==
    ASSUME Mail, Placed, ScriptSound, [Next]_vars
    PROVE  Mail'
<1>1. Tame' => Tame
  BY ScriptStays DEF Tame, None
<1>2. CASE SendMessage \/ OperatorRestarts
  <2>1. PICK m : Request(m) /\ UNCHANGED <<queue, got>>
    BY <1>2 DEF SendMessage, OperatorRestarts, data
  <2> DEFINE r == React(options, device, m).sends
             n == IF m.mti \in DatagramReplies \/ m.body = "flood" THEN asked ELSE asked + 1
  <2>2. AllWhole(r)
    BY ReactWhole
  <2>3. transit' = transit \/ transit' = transit \o Replies(r, n)
    BY <2>1 DEF Request
  <2> HIDE DEF r, n
  <2> QED
    BY <1>1, <2>1, <2>2, <2>3, MailSent
<1>3. CASE PurgeMessages
  <2>1. queue' = << >> /\ UNCHANGED <<transit, got>>
    BY <1>3 DEF PurgeMessages, data, world
  <2> QED
    BY <1>1, <2>1, EmptyQueued DEF Mail
<1>4. CASE GetMessage
  <2>1. /\ queue # << >> /\ UNCHANGED transit
        /\ queue' = queue \/ queue' = Tail(queue)
        /\ got' = Head(queue) \/ got' = got
    BY <1>4 DEF GetMessage, world
  <2>2. Queued(queue) /\ IsSequence(queue)
    BY DEF Mail, Queued
  <2>3. /\ Queued(Tail(queue))
        /\ Lengthy(queue) => Lengthy(Tail(queue)) /\ Head(queue).body # "short"
    BY <2>1, <2>2, TailQueued
  <2> QED
    BY <1>1, <2>1, <2>3 DEF Mail
<1>5. CASE SleepStep \/ Timeout \/ JudgeContent \/ Compute \/ Resume \/ OperatorAnswers
  <2>1. UNCHANGED <<queue, transit, got>>
    BY <1>5 DEF SleepStep, Timeout, JudgeContent, Compute, Resume, OperatorAnswers, data,
       world
  <2> QED
    BY <1>1, <2>1, MailKept
<1>6. CASE ProcessMessage
  <2>1. /\ transit # << >> /\ UNCHANGED got
        /\ queue' = Append(queue, Head(transit)) /\ transit' = Tail(transit)
    BY <1>6 DEF ProcessMessage, data
  <2>2. Flying(transit) /\ IsSequence(transit) /\ Queued(queue) /\ IsSequence(queue)
    BY DEF Mail, Flying, Queued
  <2> DEFINE m == Head(transit)
  <2>3. /\ Flying(Tail(transit)) /\ FromDevice(m)
        /\ Lengthy(transit) => Lengthy(Tail(transit)) /\ m.body # "short"
    BY <2>1, <2>2, TailQueued
  <2>4. Proper(m)
    BY <2>3 DEF Proper, FromDevice
  <2> HIDE DEF m
  <2>5. queue' = Append(queue, m)
    BY <2>1 DEF m
  <2>6. Queued(queue') /\ (Lengthy(queue) /\ m.body # "short" => Lengthy(queue'))
    BY <2>2, <2>4, <2>5, AppendQueued
  <2> QED
    BY <1>1, <2>1, <2>3, <2>6 DEF Mail
<1>7. CASE DeviceTimer \/ DeviceHurries
  <2>1. PICK messages \in {TimerSends(device), <<Tick("too soon")>>} : Sends(messages)
    BY <1>7 DEF DeviceTimer, DeviceHurries
  <2>2. AllWhole(messages)
    <3>1. AllWhole(<<Tick("too soon")>>)
      BY WholeForms, OneWhole DEF Tick
    <3> QED
      BY <2>1, <3>1, TimerSendsWhole
  <2>3. /\ transit' = transit \/ transit' = transit \o Replies(messages, asked)
        /\ UNCHANGED <<queue, got>>
    BY <2>1 DEF Sends, data
  <2> QED
    BY <1>1, <2>2, <2>3, MailSent
<1>8. CASE ReplyGoesWrong
  <2>1. /\ transit # << >> /\ At("wait") /\ Head(transit).mti \in step.mtis
        /\ UNCHANGED <<queue, got>> /\ fault = None
        /\ \/ transit' = Tail(transit)
           \/ \E f \in Spoilt(Head(transit)) :
                 fault' = f[1] /\ transit' = <<f[2]>> \o Tail(transit)
    BY <1>8 DEF ReplyGoesWrong, OnTheWay, data
  <2>2. Flying(transit) /\ IsSequence(transit)
    BY DEF Mail, Flying
  <2>3. /\ Flying(Tail(transit)) /\ FromDevice(Head(transit))
        /\ Lengthy(transit) => Lengthy(Tail(transit)) /\ Head(transit).body # "short"
    BY <2>1, <2>2, TailQueued
  <2>4. CASE transit' = Tail(transit)
    BY <1>1, <2>1, <2>3, <2>4 DEF Mail
  <2>5. ASSUME NEW f \in Spoilt(Head(transit)),
               fault' = f[1], transit' = <<f[2]>> \o Tail(transit)
        PROVE  Mail'
    <3> DEFINE one == <<f[2]>>
               rest == Tail(transit)
    <3>1. /\ FromDevice(f[2])
          /\ Head(transit).mti # "Datagram_Received_OK" /\ Head(transit).body # "short"
               /\ f[1] # "short" => f[2].body # "short"
      BY <2>3, SpoiltMessage
    <3>2. one = Append(<< >>, f[2])
      OBVIOUS
    <3>3. /\ Flying(one) /\ IsSequence(one)
          /\ f[2].body # "short" => Lengthy(one)
      <4> DEFINE g == f[2]
      <4>1. FromDevice(g) /\ one = Append(<< >>, g)
        BY <3>1, <3>2
      <4> HIDE DEF one, g
      <4>2. IsSequence(<< >>) /\ Flying(<< >>) /\ Lengthy(<< >>)
        BY EmptyQueued DEF Flying
      <4>3. Flying(one) /\ (g.body # "short" => Lengthy(one))
        BY <4>1, <4>2, AppendQueued
      <4> QED
        BY <4>3 DEF Flying, g
    <3>4. transit' = one \o rest
      BY <2>5
    <3>5. Flying(rest) /\ IsSequence(rest) /\ (Lengthy(transit) => Lengthy(rest))
      BY <2>3 DEF Flying
    <3> HIDE DEF one, rest
    <3>6. /\ Flying(transit')
          /\ Lengthy(one) /\ Lengthy(rest) => Lengthy(transit')
      BY <3>3, <3>4, <3>5, JoinQueued
    <3>7. Tame' => Tame /\ f[1] # "short" /\ Head(transit).mti # "Datagram_Received_OK"
      <4>1. Tame' => f[1] # "short"
        BY <2>5 DEF Tame
      <4>2. Tame => Head(transit).mti # "Datagram_Received_OK"
        BY <2>1, ShortRefused DEF At
      <4> QED
        BY <1>1, <4>1, <4>2
    <3>8. Tame' => Lengthy(transit')
      BY <2>3, <3>1, <3>3, <3>5, <3>6, <3>7 DEF Mail
    <3> QED
      BY <1>1, <2>1, <3>6, <3>8 DEF Mail
  <2> QED
    BY <2>1, <2>4, <2>5
<1>9. CASE DeviceRestarts
  <2>1. /\ transit' = transit \o Replies(<<Initialized(options)>>, asked)
        /\ UNCHANGED <<queue, got>>
    BY <1>9 DEF DeviceRestarts, data
  <2> QED
    BY <1>1, <2>1, OneWholeInitialized, MailSent
<1>10. CASE DeviceReports
  <2> DEFINE m == Message(PCER, DBC, All, "p", None, asked)
  <2>1. transit' = Append(transit, m) /\ UNCHANGED <<queue, got>>
    BY <1>10 DEF DeviceReports, data
  <2>2. FromDevice(m) /\ m.body # "short"
    BY DEF FromDevice, Message, Fields, Addressees
  <2> HIDE DEF m
  <2>3. Flying(transit) /\ IsSequence(transit)
    BY DEF Mail, Flying
  <2>4. Flying(transit') /\ (Lengthy(transit) => Lengthy(transit'))
    BY <2>1, <2>2, <2>3, AppendQueued
  <2> QED
    BY <1>1, <2>1, <2>4 DEF Mail
<1>11. CASE Stray
  <2>1. PICK m \in Lookalikes \cup {Message(PCER, Other, All, "stray", None, 0)} :
           queue' = Append(queue, m)
    BY <1>11 DEF Stray
  <2>2. At("wait") /\ UNCHANGED <<transit, got>>
    BY <1>11 DEF Stray, data
  <2>3. Proper(m) /\ (Tame => m.body # "short")
    BY <2>2, StrayMessage, ShortRefused DEF At
  <2>4. Queued(queue) /\ IsSequence(queue)
    BY DEF Mail, Queued
  <2>5. Queued(queue') /\ (Lengthy(queue) /\ m.body # "short" => Lengthy(queue'))
    BY <2>1, <2>3, <2>4, AppendQueued
  <2> QED
    BY <1>1, <2>2, <2>3, <2>5 DEF Mail
<1>12. CASE Chatter
  <2> DEFINE m == Message("Verified_NodeID", Other, All, "stray", None, 0)
  <2>1. queue' = <<m>> /\ UNCHANGED <<transit, got>>
    BY <1>12 DEF Chatter, data, world
  <2>2. Proper(m) /\ m.body # "short"
    BY DEF Message, Proper, Other, DBC
  <2> HIDE DEF m
  <2>3. queue' = Append(<< >>, m)
    BY <2>1
  <2>4. Queued(queue') /\ Lengthy(queue')
    BY <2>2, <2>3, EmptyQueued, AppendQueued DEF Queued
  <2> QED
    BY <1>1, <2>1, <2>4 DEF Mail
<1>13. CASE Finished \/ UNCHANGED vars
  <2>1. UNCHANGED <<queue, transit, got>>
    BY <1>13 DEF Finished, vars, data, world
  <2> QED
    BY <1>1, <2>1, MailKept
<1> QED
  BY <1>2, <1>3, <1>4, <1>5, <1>6, <1>7, <1>8, <1>9, <1>10, <1>11, <1>12, <1>13, NextParts
  DEF MainThread, Around

-----------------------------------------------------------------------------
(* Exceptions. *)

\* An exception that is caught in the script leaves it nowhere.
Caught == ~Crashing => leaving \notin {"raise", "crashed"} /\ verdict # "crashed"

LEMMA GuardedHere ==
    ASSUME Placed, ScriptSound, ~Crashing,
           NEW x \in Outcomes(step, script # "me30")
    PROVE  /\ x # "crashed"
           /\ x = "raise" => handlers # << >> /\ handlers[1].kind = "except"
<1>1. Sound(script, profile)
  BY SoundScript DEF Placed
<1>2. script \notin {"cd20", "fd20", "cd40"} /\ ~(script = "fr10" /\ ~options.target)
  BY DEF Crashing
<1>3. Guarded(program, script # "me30")
  BY <1>1, <1>2 DEF Sound, program, options
<1>4. pc \in DOMAIN program /\ step = program[pc] /\ handlers = Nest(program)[pc]
  BY DEF Placed
<1> QED
  BY <1>3, <1>4 DEF Guarded

LEMMA AfterCaught ==
    ASSUME Running, leaving \notin {"raise", "crashed"}, NEW x, x # "crashed",
           x = "raise" => handlers # << >> /\ handlers[1].kind = "except"
    PROVE  After(x).leaving \notin {"raise", "crashed"} /\ After(x).verdict # "crashed"
<1>1. verdict = None
  BY DEF Running
<1>2. CASE x \in Verdicts
  <2>1. After(x) = LeaveWith(x, handlers)
    BY <1>2 DEF After, Verdicts
  <2>2. /\ LeaveWith(x, handlers).verdict \in {None, x}
        /\ LeaveWith(x, handlers).leaving \in {leaving, x}
    BY <1>1 DEF LeaveWith, Ended, Here
  <2>3. x # "raise"
    BY <1>2 DEF Verdicts
  <2> QED
    BY <2>1, <2>2, <2>3 DEF None
<1>3. CASE x = "raise"
  <2>1. After(x) = RaiseFrom(handlers)
    BY <1>3 DEF After, Verdicts
  <2> DEFINE c == RaiseFrom(handlers)
  <2>2. c.leaving = leaving /\ c.verdict = verdict
    BY <1>3 DEF RaiseFrom, Here
  <2> QED
    BY <1>1, <2>1, <2>2 DEF None
<1>4. CASE x \notin Verdicts /\ x # "raise"
  <2>1. After(x).leaving = leaving /\ After(x).verdict = verdict
    BY <1>4 DEF After, Here
  <2> QED
    BY <1>1, <2>1 DEF None
<1> QED
  BY <1>2, <1>3, <1>4

\* The message that a step takes, or that was taken last, is not too short for me30.
LEMMA TakenLong ==
    ASSUME Mail, ~Crashing
    PROVE  /\ got.body = "short" => script # "me30"
           /\ queue # << >> /\ Head(queue).body = "short" => script # "me30"
<1>1. script = "me30" => Tame
  BY DEF Crashing, Tame
<1>2. Queued(queue) /\ IsSequence(queue)
  BY DEF Mail, Queued
<1>3. queue # << >> /\ Lengthy(queue) => Head(queue).body # "short"
  BY <1>2, TailQueued
<1> QED
  BY <1>1, <1>3 DEF Mail

LEMMA SeenGuarded ==
    ASSUME Mail, ~Crashing
    PROVE  /\ step.op = "wait" => step.empty \in Outcomes(step, script # "me30")
           /\ step.op = "judge" =>
                 ContentOutcome(step, got) \in Outcomes(step, script # "me30")
           /\ step.op = "return" => step.verdict \in Outcomes(step, script # "me30")
           /\ step.op = "decide" =>
                 {step.verdict, "next"} \subseteq Outcomes(step, script # "me30")
           /\ step.op = "compare" =>
                 {"next", "failed"} \subseteq Outcomes(step, script # "me30")
           /\ step.op = "ask" => step.no \in Outcomes(step, script # "me30")
<1> DEFINE short == script # "me30"
<1>1. got.body = "short" => short
  BY TakenLong
<1>2. short \in BOOLEAN
  OBVIOUS
<1> HIDE DEF short
<1>3. /\ step.op = "wait" => step.empty \in Outcomes(step, short)
      /\ step.op = "judge" => ContentOutcome(step, got) \in Outcomes(step, short)
      /\ step.op = "return" => step.verdict \in Outcomes(step, short)
      /\ step.op = "decide" => {step.verdict, "next"} \subseteq Outcomes(step, short)
      /\ step.op = "compare" => {"next", "failed"} \subseteq Outcomes(step, short)
      /\ step.op = "ask" => {"next", step.no} \subseteq Outcomes(step, short)
  BY <1>1, <1>2, OutcomeSeen
<1> QED
  BY <1>3 DEF short

LEMMA OutcomeCaught ==
    ASSUME Placed, Mail, ScriptSound, Caught, ~Crashing, Running,
           NEW x \in Outcomes(step, script # "me30"), Continue(After(x))
    PROVE  leaving' \notin {"raise", "crashed"} /\ verdict' # "crashed"
<1>1. x # "crashed" /\ (x = "raise" => handlers # << >> /\ handlers[1].kind = "except")
  BY GuardedHere
<1>2. leaving \notin {"raise", "crashed"}
  BY DEF Caught
<1>3. After(x).leaving \notin {"raise", "crashed"} /\ After(x).verdict # "crashed"
  BY <1>1, <1>2, AfterCaught
<1> QED
  BY <1>3 DEF Continue

LEMMA JumpCaught ==
    ASSUME Caught, ~Crashing, NEW n, Jump(n)
    PROVE  leaving' \notin {"raise", "crashed"} /\ verdict' # "crashed"
<1>1. leaving' = leaving /\ verdict' = verdict
  BY DEF Jump, Continue, Here
<1> QED
  BY <1>1 DEF Caught

LEMMA ComputeCaught ==
    ASSUME Placed, Mail, ScriptSound, Caught, ~Crashing, Compute
    PROVE  leaving' \notin {"raise", "crashed"} /\ verdict' # "crashed"
<1> DEFINE judged(x) == x \in Outcomes(step, script # "me30") /\ Continue(After(x))
<1>1. Running
  BY DEF Compute, At
<1>2. ASSUME NEW x, judged(x)
      PROVE  leaving' \notin {"raise", "crashed"} /\ verdict' # "crashed"
  BY <1>1, <1>2, OutcomeCaught
<1>4. CASE At("return") /\ Continue(After(step.verdict))
  <2>1. judged(step.verdict)
    BY <1>4, SeenGuarded DEF At
  <2> QED
    BY <1>2, <2>1
<1>5. CASE At("decide") /\ Continue(After(IF Holds(step) THEN step.verdict ELSE "next"))
  <2>1. \E x \in {step.verdict, "next"} : Continue(After(x))
    BY <1>5
  <2>2. {step.verdict, "next"} \subseteq Outcomes(step, script # "me30")
    BY <1>5, SeenGuarded DEF At
  <2> QED
    BY <1>2, <2>1, <2>2
<1>6. CASE At("compare") /\ Continue(After(IF List(step.first) = List(step.second)
                                           THEN "next" ELSE "failed"))
  <2>1. \E x \in {"failed", "next"} : Continue(After(x))
    BY <1>6
  <2>2. {"next", "failed"} \subseteq Outcomes(step, script # "me30")
    BY <1>6, SeenGuarded DEF At
  <2> QED
    BY <1>2, <2>1, <2>2
<1>7. CASE /\ At("when") \/ At("when got") \/ At("when not") \/ At("jump")
           /\ \E n : Jump(n)
  BY <1>7, JumpCaught
<1>8. ASSUME NEW m, NEW h, NEW c, Continue(c),
             c = [Here EXCEPT !.pc = m] \/ c = [Here EXCEPT !.pc = m, !.handlers = h]
      PROVE  leaving' \notin {"raise", "crashed"} /\ verdict' # "crashed"
  <2>1. c.leaving = leaving /\ c.verdict = verdict
    BY <1>8 DEF Here
  <2> QED
    BY <1>8, <2>1 DEF Continue, Caught
<1>9. CASE At("back") /\ Continue([Here EXCEPT !.pc = @ - step.size])
  BY <1>8, <1>9
<1>10. CASE /\ At("try")
            /\ Continue([Here EXCEPT
                   !.pc = pc + 1,
                   !.handlers = <<[kind |-> step.kind, at |-> pc + step.size + 1]>>
                                  \o handlers])
  BY <1>8, <1>10
<1>11. CASE /\ At("leave")
            /\ Continue([Here EXCEPT !.pc = pc + (1 + step.size), !.handlers = Tail(handlers)])
  BY <1>8, <1>11
<1> HIDE DEF judged
<1> QED
  BY <1>4, <1>5, <1>6, <1>7, <1>9, <1>10, <1>11 DEF Compute

LEMMA CaughtNext ==
    ASSUME Placed, Mail, ScriptSound, Caught, [Next]_vars
    PROVE  Caught'
<1>1. ~Crashing' => ~Crashing
  <2>1. options' = options
    BY ScriptStays DEF options
  <2> QED
    BY <2>1, ScriptStays DEF Crashing, None
<1> SUFFICES ASSUME ~Crashing
             PROVE  leaving' \notin {"raise", "crashed"} /\ verdict' # "crashed"
  BY <1>1 DEF Caught
<1>2. (script # "me30") \in BOOLEAN
  OBVIOUS
<1>3. CASE SendMessage \/ OperatorRestarts \/ PurgeMessages \/ SleepStep
  <2>1. Jump(1)
    BY <1>3 DEF SendMessage, OperatorRestarts, PurgeMessages, SleepStep
  <2> QED
    BY <2>1, JumpCaught
<1>4. CASE GetMessage
  <2>1. /\ At("wait") /\ queue # << >>
        /\ Continue(After(Outcome(step, Head(queue))))
    BY <1>4 DEF GetMessage
  <2>2. Head(queue).body = "short" => script # "me30"
    BY <2>1, TakenLong
  <2>3. Running /\ Outcome(step, Head(queue)) \in Outcomes(step, script # "me30")
    BY <1>2, <2>1, <2>2, OutcomeSeen DEF At
  <2> QED
    BY <2>1, <2>3, OutcomeCaught
<1>5. CASE Timeout
  <2>1. At("wait") /\ Continue(After(step.empty))
    BY <1>5 DEF Timeout
  <2>2. Running /\ step.empty \in Outcomes(step, script # "me30")
    BY <2>1, SeenGuarded DEF At
  <2> QED
    BY <2>1, <2>2, OutcomeCaught
<1>6. CASE JudgeContent
  <2>1. At("judge") /\ Continue(After(ContentOutcome(step, got)))
    BY <1>6 DEF JudgeContent
  <2>2. Running /\ ContentOutcome(step, got) \in Outcomes(step, script # "me30")
    BY <2>1, SeenGuarded DEF At
  <2> QED
    BY <2>1, <2>2, OutcomeCaught
<1>7. CASE Compute
  BY <1>7, ComputeCaught
<1>8. CASE Resume
  <2>1. Running /\ leaving \notin {"raise", "crashed"}
    BY <1>8 DEF Resume, At, Caught
  <2>2. CASE leaving = None
    <3>1. Jump(1)
      BY <1>8, <2>2 DEF Resume
    <3> QED
      BY <3>1, JumpCaught
  <2>3. CASE leaving # None
    <3> DEFINE c == LeaveWith(leaving, handlers)
               d == [c EXCEPT !.leaving = IF c.verdict = None THEN @ ELSE None]
    <3>1. Continue(d)
      BY <1>8, <2>1, <2>3 DEF Resume
    <3>2. leaving \in Verdicts
      BY <2>1, <2>3 DEF Placed, Held
    <3>3. c.verdict \in {None, leaving} /\ c.leaving = leaving
          /\ DOMAIN c = {"pc", "handlers", "leaving", "verdict"}
      BY <2>1 DEF LeaveWith, Ended, Here, Running
    <3> HIDE DEF c
    <3>4. d.verdict = c.verdict /\ d.leaving \in {c.leaving, None}
      BY <3>3
    <3> HIDE DEF d
    <3> QED
      BY <2>1, <3>1, <3>3, <3>4 DEF Continue, None
  <2> QED
    BY <2>2, <2>3
<1>9. CASE OperatorAnswers
  <2>1. At("ask") /\ (Jump(1) \/ Continue(After(step.no)))
    BY <1>9 DEF OperatorAnswers
  <2>2. Running /\ step.no \in Outcomes(step, script # "me30")
    BY <2>1, SeenGuarded DEF At
  <2> QED
    BY <2>1, <2>2, JumpCaught, OutcomeCaught
<1>10. CASE Around \/ UNCHANGED vars
  <2>1. UNCHANGED <<leaving, verdict>>
    BY <1>10, AroundKeeps
  <2> QED
    BY <2>1 DEF Caught
<1> QED
  BY <1>3, <1>4, <1>5, <1>6, <1>7, <1>8, <1>9, <1>10, NextParts DEF MainThread

-----------------------------------------------------------------------------
(* Whose messages the script acts on. *)

\* Of the messages that another node sends, or the device to another node, a step takes
\* none and fails on none that it ignores.
LEMMA OthersIgnored ==
    ASSUME Placed, Mail, ScriptSound, step.op = "wait", queue # << >>,
           Foreign(Head(queue))
    PROVE  /\ script \notin FromAnyone \cup ToAnyone =>
                 Outcome(step, Head(queue)) \notin Acceptances
           /\ script \notin StrictAboutSource \cup StrictAboutDestination =>
                 Outcome(step, Head(queue)) \notin Blames
           /\ script \notin Disturbed => Outcome(step, Head(queue)) \notin Elsewhere
<1>1. Sound(script, profile)
  BY SoundScript DEF Placed
<1>2. pc \in DOMAIN program /\ step = program[pc]
  BY DEF Placed
<1>3. Queued(queue)
  BY DEF Mail
<1>4. Proper(Head(queue))
  BY <1>3, TailQueued
<1>5. ASSUME NEW outcomes, IgnoresOthers(program, outcomes)
      PROVE  Outcome(step, Head(queue)) \notin outcomes
  <2>1. Ignores(step, outcomes)
    BY <1>2, <1>5 DEF IgnoresOthers
  <2> QED
    BY <1>4, <2>1, Ignored
<1>6. /\ script \notin FromAnyone \cup ToAnyone => IgnoresOthers(program, Acceptances)
      /\ script \notin StrictAboutSource \cup StrictAboutDestination =>
            IgnoresOthers(program, Blames)
      /\ script \notin Disturbed => IgnoresOthers(program, Elsewhere)
  BY <1>1 DEF Sound, program
<1> QED
  BY <1>5, <1>6

LEMMA MarksNext ==
    ASSUME Placed, Mail, ScriptSound, TakesOnlyAnswers, BlamesOnlyDevice, [Next]_vars
    PROVE  TakesOnlyAnswers' /\ BlamesOnlyDevice'
<1>1. script' = script
  BY ScriptStays
<1>2. CASE GetMessage
  <2> DEFINE m == Head(queue)
             x == Outcome(step, m)
  <2>1. At("wait") /\ queue # << >> /\ marks' = marks \cup Mark(m, x)
    BY <1>2 DEF GetMessage
  <2>2. ASSUME Foreign(m)
        PROVE  /\ script \notin FromAnyone \cup ToAnyone => x \notin Acceptances
               /\ script \notin StrictAboutSource \cup StrictAboutDestination =>
                     x \notin Blames
    BY <2>1, <2>2, OthersIgnored DEF At
  <2> HIDE DEF m, x
  <2>3. "took another's" \in Mark(m, x) => Foreign(m) /\ x \in Acceptances
    BY DEF Mark, Accepts
  <2>4. "blamed another's" \in Mark(m, x) => Foreign(m) /\ x \in Blames
    BY DEF Mark, Accepts, Blames
  <2> QED
    BY <1>1, <2>1, <2>2, <2>3, <2>4 DEF TakesOnlyAnswers, BlamesOnlyDevice
<1>3. CASE \/ SendMessage \/ OperatorRestarts \/ PurgeMessages \/ SleepStep \/ Timeout
           \/ JudgeContent \/ Compute \/ Resume \/ OperatorAnswers
  <2>1. UNCHANGED marks
    BY <1>3 DEF SendMessage, OperatorRestarts, PurgeMessages, SleepStep, Timeout,
       JudgeContent, Compute, Resume, OperatorAnswers, ghosts
  <2> QED
    BY <1>1, <2>1 DEF TakesOnlyAnswers, BlamesOnlyDevice
<1>4. CASE Around \/ UNCHANGED vars
  <2>1. UNCHANGED vars => UNCHANGED marks
    BY DEF vars, ghosts
  <2>2. UNCHANGED marks
    BY <1>4, <2>1 DEF Around, ProcessMessage, DeviceTimer, DeviceHurries, Sends,
       ReplyGoesWrong, DeviceRestarts, DeviceReports, Stray, Chatter, Finished, ghosts
  <2> QED
    BY <1>1, <2>2 DEF TakesOnlyAnswers, BlamesOnlyDevice
<1> QED
  BY <1>2, <1>3, <1>4, NextParts DEF MainThread

\* A script that is not disturbed stays where it is.
LEMMA StaysUndisturbed ==
    ASSUME Placed, Mail, ScriptSound, GetMessage, Foreign(Head(queue)),
           script \notin Disturbed
    PROVE  UNCHANGED <<control, got, stored, notes, flagged>>
<1> DEFINE x == Outcome(step, Head(queue))
<1>1. /\ At("wait") /\ queue # << >> /\ Continue(After(x)) /\ UNCHANGED flagged
      /\ x # "next" => UNCHANGED got
      /\ x \notin {"next", "keep"} => UNCHANGED <<stored, notes>>
  BY DEF GetMessage
<1>2. /\ script \notin FromAnyone \cup ToAnyone
      /\ script \notin StrictAboutSource \cup StrictAboutDestination
  BY DEF Disturbed
<1>3. x \notin Acceptances /\ x \notin Blames /\ x \notin Elsewhere
  BY <1>1, <1>2, OthersIgnored DEF At
<1> HIDE DEF x
<1>4. After(x) = Here
  BY <1>3 DEF After, Acceptances, Blames, Elsewhere, Verdicts
<1>5. /\ pc' = pc /\ step' = StepAt(pc) /\ handlers' = handlers
      /\ leaving' = leaving /\ verdict' = verdict
  BY <1>1, <1>4 DEF Continue, Here
<1>6. StepAt(pc) = step
  BY DEF Placed, StepAt
<1>7. UNCHANGED <<got, stored, notes, flagged>>
  BY <1>1, <1>3 DEF Acceptances
<1> QED
  BY <1>5, <1>6, <1>7 DEF control

-----------------------------------------------------------------------------
(* The inductive invariant. *)

Inv ==
    /\ Placed
    /\ Bounds
    /\ Mail
    /\ Caught
    /\ TakesOnlyAnswers
    /\ BlamesOnlyDevice

LEMMA InvInit ==
    ASSUME Init, ScriptSound
    PROVE  Inv
<1>1. Placed
  BY PlacedInit
<1>2. Bounds
  BY BoundsAssumption DEF Init, Bounds
<1>3. Mail
  <2>1. queue = << >> /\ transit = << >> /\ got.body # "short"
    BY DEF Init, Message, None
  <2> QED
    BY <2>1, EmptyQueued DEF Mail
<1>4. Caught /\ TakesOnlyAnswers /\ BlamesOnlyDevice
  BY DEF Init, Caught, TakesOnlyAnswers, BlamesOnlyDevice, None
<1> QED
  BY <1>1, <1>2, <1>3, <1>4 DEF Inv

LEMMA InvNext ==
    ASSUME Inv, ScriptSound, [Next]_vars
    PROVE  Inv'
<1>1. /\ Placed /\ Bounds /\ Mail /\ Caught /\ TakesOnlyAnswers /\ BlamesOnlyDevice
  BY DEF Inv
<1>2. WellNested(program)
  BY <1>1, SoundScript DEF Placed
<1>3. Placed'
  BY <1>1, <1>2, PlacedNext
<1>4. Bounds'
  BY <1>1, BoundsNext
<1>5. Mail'
  BY <1>1, MailNext
<1>6. Caught'
  BY <1>1, CaughtNext
<1>7. TakesOnlyAnswers' /\ BlamesOnlyDevice'
  BY <1>1, MarksNext
<1> QED
  BY <1>3, <1>4, <1>5, <1>6, <1>7 DEF Inv

LEMMA AlwaysInv == Spec /\ ScriptSound => [](Inv /\ ScriptSound)
<1>1. Init /\ ScriptSound => Inv
  BY InvInit
<1>2. Inv /\ ScriptSound /\ [Next]_vars => Inv'
  BY InvNext
<1>3. ScriptSound /\ [Next]_vars => ScriptSound'
  BY ScriptStays DEF ScriptSound
<1> QED
  BY <1>1, <1>2, <1>3, PTL DEF Spec

LEMMA InvType ==
    ASSUME Inv, ScriptSound
    PROVE  TypeOK
<1>1. Placed /\ Bounds
  BY DEF Inv
<1>2. WellNested(program)
  BY <1>1, SoundScript DEF Placed
<1>3. /\ DOMAIN program = 1 .. Len(program)
      /\ handlers \in Seq(Handlers(program))
      /\ \A k \in 1 .. Len(handlers) : handlers[k].at \in DOMAIN program
      /\ pc \in Finals(program) =>
            \E k \in pc .. Len(program) : program[k].op = "resume"
  BY <1>1, <1>2, NestedHere
<1>4. Chosen /\ pc \in DOMAIN program /\ Held(leaving, verdict, pc)
  BY <1>1 DEF Placed
<1>5. DOMAIN handlers = 1 .. Len(handlers)
  BY <1>3
<1> QED
  BY <1>1, <1>3, <1>4, <1>5 DEF TypeOK, Chosen, Held, Bounds, Running

\* Whatever arrives, in whatever order, and whatever goes wrong: a check is at one of its
\* steps and in the try blocks around it, and holds a result back only while a "finally"
\* part runs.
THEOREM StaysInScript == Spec /\ ScriptSound => []TypeOK
<1>1. Inv /\ ScriptSound => TypeOK
  BY InvType
<1> QED
  BY <1>1, AlwaysInv, PTL

\* No exception leaves a check, besides those that Crashing names, whatever the
\* device and other nodes send.
THEOREM NoCheckCrashes == Spec /\ ScriptSound => []NeverCrashes
<1>1. Inv => NeverCrashes
  BY DEF Inv, Caught, NeverCrashes
<1> QED
  BY <1>1, AlwaysInv, PTL

\* Outside of the scripts listed no check takes a message that another node sent, or the
\* device to another node, for an answer, however alike the two look.
THEOREM OnlyAnswersTaken == Spec /\ ScriptSound => []TakesOnlyAnswers
<1>1. Inv => TakesOnlyAnswers
  BY DEF Inv
<1> QED
  BY <1>1, AlwaysInv, PTL

\* Outside of the scripts listed no check fails because of such a message.
THEOREM OnlyDeviceBlamed == Spec /\ ScriptSound => []BlamesOnlyDevice
<1>1. Inv => BlamesOnlyDevice
  BY DEF Inv
<1> QED
  BY <1>1, AlwaysInv, PTL

\* Outside of these lists a check takes no notice of what other nodes send to each other,
\* to all or to the checker, nor of what the device sends to them.
THEOREM NeverDisturbed == Spec /\ ScriptSound => Undisturbed
<1>1. /\ Inv /\ ScriptSound /\ [Next]_vars
      => [GetMessage /\ Foreign(Head(queue)) /\ script \notin Disturbed
            => UNCHANGED <<control, got, stored, notes, flagged>>]_vars
  BY StaysUndisturbed DEF Inv
<1> QED
  BY <1>1, AlwaysInv, PTL DEF Spec, Undisturbed

=============================================================================
