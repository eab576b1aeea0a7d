------------------------ MODULE CanReassembly_proofs ------------------------
(***************************************************************************)
(* Proofs about CanReassembly, for any number of senders, messages, bytes, *)
(* frames and outages.                                                     *)
(***************************************************************************)
EXTENDS CanReassembly, SequenceTheorems, TLAPS

-----------------------------------------------------------------------------
(* The inductive invariant. *)

Byte == Senders \X Nat \X Nat
SentMessage == [mti : Mtis, source : Ids, dest : Ids, data : Seq(Byte)]
NodeIDs == Ids \cup InternalIds
ReceivedMessage == [mti : Mtis, source : NodeIDs, dest : NodeIDs, data : Seq(Byte)]
Entry == {Missing, Shipped} \cup {Partial(bytes) : bytes \in Seq(Byte)}

Frames(m) == nSegments(m.mti, Len(m.data))

Types ==
    /\ sent \in [Senders -> Seq(SentMessage)]
    /\ \A s \in Senders : Len(sent[s]) <= MaxMessages
    /\ \A s \in Senders : \A k \in 1 .. Len(sent[s]) : sent[s][k] \in MessagesOf(s, k)
    /\ position \in [Senders -> Nat]
    /\ \A s \in Senders :
          position[s] <= IF sent[s] = << >> THEN 0 ELSE Frames(Newest(s))
    /\ linkUp \in BOOLEAN
    /\ alive \in BOOLEAN
    /\ aliasToNodeID \in [Aliases -> NodeIDs \cup {None}]
    /\ \A a \in Aliases : aliasToNodeID[a] \in {IdOf[a], None} \cup InternalIds
    /\ \A a \in KnownAliases : aliasToNodeID[a] = IdOf[a]
    /\ nextInternal \in InternalIds
    /\ accumulator \in [Keys -> Entry]
    /\ received \in Seq(ReceivedMessage)
    /\ outages \in 0 .. MaxOutages

\* At most one node is unknown, so no two nodes have one internal node ID.
OneUnknown == \A a, b \in Aliases \ KnownAliases : a = b

\* The sender with a node ID, be it a real or an internal one.
Owns(s, id) == id = IdOf[s] \/ (id \in InternalIds /\ s \notin KnownAliases)

\* The byte u comes from s, in a message that is put together under key k ("messages"
\* are those that s has sent) ...
Comes(messages, s, k, u) ==
    /\ u[1] = s
    /\ u[2] \in 1 .. Len(messages)
    /\ messages[u[2]].mti = k[1]
    /\ k[2] \in {IdOf[s]} \cup InternalIds
    /\ k[3] \in {messages[u[2]].dest} \cup InternalIds

\* ... and in one of the frames transmitted so far, "count" of the last message.
Gone(messages, count, u) ==
    \/ u[2] < Len(messages)
    \/ u[2] = Len(messages) /\ u[3] <= Room(messages[Len(messages)].mti) * count

Sound(messages, count, s, k, bytes) ==
    /\ \A i \in 1 .. Len(bytes) :
          Comes(messages, s, k, bytes[i]) /\ Gone(messages, count, bytes[i])
    /\ \A i \in 1 .. Len(bytes) - 1 : Precedes(bytes[i], bytes[i + 1])

\* What is held under a key comes from one sender, in order, and so does what was given
\* to the listeners.
Lists ==
    \A k \in Keys : accumulator[k].held = "list" =>
        \A s \in Senders : Owns(s, k[2]) =>
            Sound(sent[s], position[s], s, k, accumulator[k].bytes)

Received ==
    \A r \in 1 .. Len(received) : \E s \in Senders :
        Sound(sent[s], position[s], s,
              <<received[r].mti, received[r].source, received[r].dest>>, received[r].data)

\* Nothing was ever held under a node ID that is not in use yet.
Unused ==
    \A a \in Aliases : \A k \in Keys :
        /\ aliasToNodeID[a] # IdOf[a] /\ IdOf[a] \in {k[2], k[3]}
              => accumulator[k] = Missing
        /\ aliasToNodeID[a] = None /\ {k[2], k[3]} \cap InternalIds # {}
              => accumulator[k] = Missing

\* The key under which the frames of the newest message of s are put together.
Destination(s) == nodeIdToAlias[Newest(s).dest]
Key(s) == <<Newest(s).mti, aliasToNodeID[s], aliasToNodeID[Destination(s)]>>

\* The bytes of its first i frames.
Prefix(mti, data, i) == SubSeq(data, 1, Lesser(Room(mti) * i, Len(data)))

Midway(s) == sent[s] # << >> /\ position[s] # 0 /\ ~Idle(s)

\* Before an outage: what is held of a message in transmission are all bytes of it
\* that were transmitted, or nothing if its start was missed.
Gapless ==
    outages = 0 =>
        /\ alive
        /\ ~linkUp => \A k \in Keys : accumulator[k] = Missing
        /\ \A s \in Senders :
              Midway(s) /\ aliasToNodeID[s] # None /\ aliasToNodeID[Destination(s)] # None
                => accumulator[Key(s)] \in
                     {Missing, Partial(Prefix(Newest(s).mti, Newest(s).data, position[s]))}

-----------------------------------------------------------------------------
(* Frames and bytes. *)

LEMMA RoomType == \A mti : Room(mti) \in {6, 8}
  BY DEF Room

LEMMA FrameCount ==
  ASSUME NEW mti, NEW size \in Nat
  PROVE  LET n == nSegments(mti, size) IN
         /\ n \in Nat \ {0}
         /\ size <= Room(mti) * n
         /\ n > 1 => Room(mti) * (n - 1) < size
  <1>1. CASE Room(mti) = 6
    BY <1>1 DEF nSegments
  <1>2. CASE Room(mti) = 8
    BY <1>2 DEF nSegments
  <1> QED BY <1>1, <1>2, RoomType

LEMMA PayloadBytes ==
  ASSUME NEW s \in Senders, NEW n \in Nat, NEW size \in Nat
  PROVE  /\ Payload(s, n, size) \in Seq(Byte)
         /\ Len(Payload(s, n, size)) = size
         /\ \A i \in 1 .. size : Payload(s, n, size)[i] = <<s, n, i>>
  <1>1. \A i \in 1 .. size : <<s, n, i>> \in Byte
    BY DEF Byte
  <1> QED BY <1>1 DEF Payload

LEMMA NewestMessage ==
  ASSUME Types, NEW s \in Senders, sent[s] # << >>
  PROVE  LET m == Newest(s)
             n == Len(sent[s])
         IN /\ n \in Nat \ {0} /\ n <= MaxMessages
            /\ m \in SentMessage
            /\ m.source = IdOf[s]
            /\ \A i \in 1 .. Len(m.data) : m.data[i] = <<s, n, i>>
  <1> DEFINE n == Len(sent[s])
  <1>1. n \in Nat \ {0} /\ sent[s][n] \in SentMessage
    BY DEF Types
  <1>2. n <= MaxMessages
    BY DEF Types
  <1>3. sent[s][n] \in MessagesOf(s, n)
    BY <1>1 DEF Types
  <1>4. PICK mti \in Mtis, dest \in Ids \ {IdOf[s]}, size \in Sizes[n] :
               sent[s][n] = Message(s, n, mti, dest, size)
    BY <1>3 DEF MessagesOf
  <1>5. size \in Nat
    BY <1>1, <1>2, ConstantsAssumption
  <1>6. /\ Len(sent[s][n].data) = size
        /\ \A i \in 1 .. size : sent[s][n].data[i] = <<s, n, i>>
    <2>1. sent[s][n].data = Payload(s, n, size)
      BY <1>4 DEF Message
    <2>2. n \in Nat
      BY <1>1
    <2> HIDE DEF n
    <2>3. /\ Len(Payload(s, n, size)) = size
          /\ \A i \in 1 .. size : Payload(s, n, size)[i] = <<s, n, i>>
      BY <1>5, <2>2, PayloadBytes
    <2> QED BY <2>1, <2>3
  <1> QED BY <1>1, <1>2, <1>4, <1>6 DEF Newest, Message

LEMMA DestinationAlias ==
  ASSUME Types, NEW s \in Senders, sent[s] # << >>
  PROVE  Destination(s) \in Aliases /\ IdOf[Destination(s)] = Newest(s).dest
  <1>1. Newest(s).dest \in Ids
    BY NewestMessage DEF SentMessage
  <1>2. nodeIdToAlias[Newest(s).dest]
          = CHOOSE a \in Aliases : IdOf[a] = Newest(s).dest
    BY <1>1 DEF nodeIdToAlias
  <1> QED BY <1>1, <1>2, ConstantsAssumption DEF Destination

-----------------------------------------------------------------------------
(* The bytes of the first frames of a message. *)

LEMMA FramesOf ==
  ASSUME NEW S, NEW mti, NEW data \in Seq(S), NEW i \in 1 .. nSegments(mti, Len(data))
  PROVE  LET room == Room(mti)
             last == Lesser(room * i, Len(data))
         IN /\ room \in Nat
            /\ room * (i - 1) \in Nat
            /\ room * (i - 1) <= last
            /\ last \in 0 .. Len(data)
            /\ last <= room * i
            /\ i < nSegments(mti, Len(data)) => last = room * i
            /\ i = nSegments(mti, Len(data)) => last = Len(data)
  <1> DEFINE n == nSegments(mti, Len(data))
  <1>1. /\ Len(data) \in Nat
        /\ n \in Nat \ {0}
        /\ Len(data) <= Room(mti) * n
        /\ n > 1 => Room(mti) * (n - 1) < Len(data)
    BY FrameCount
  <1> HIDE DEF n
  <1>2. i \in 1 .. n
    BY DEF n
  <1>3. CASE Room(mti) = 6
    BY <1>1, <1>2, <1>3 DEF Lesser, n
  <1>4. CASE Room(mti) = 8
    BY <1>1, <1>2, <1>4 DEF Lesser, n
  <1> QED BY <1>3, <1>4, RoomType

LEMMA PrefixGrows ==
  ASSUME NEW S, NEW mti, NEW data \in Seq(S), NEW i \in 1 .. nSegments(mti, Len(data))
  PROVE  /\ Segment(mti, data, i) \in Seq(S)
         /\ Prefix(mti, data, i) \in Seq(S)
         /\ i = 1 => << >> \o Segment(mti, data, i) = Prefix(mti, data, i)
         /\ i > 1 => Prefix(mti, data, i - 1) \o Segment(mti, data, i)
                       = Prefix(mti, data, i)
         /\ i = nSegments(mti, Len(data)) => Prefix(mti, data, i) = data
  <1> DEFINE room == Room(mti)
             last == Lesser(room * i, Len(data))
             n == nSegments(mti, Len(data))
  <1>1. /\ Len(data) \in Nat /\ n \in Nat \ {0}
        /\ room \in Nat /\ room * (i - 1) \in Nat /\ room * (i - 1) <= last
        /\ last \in 0 .. Len(data)
        /\ i = n => last = Len(data)
    BY FrameCount, FramesOf
  <1>2. i > 1 => Lesser(room * (i - 1), Len(data)) = room * (i - 1)
    BY <1>1 DEF Lesser
  <1>3. i = 1 => room * (i - 1) = 0
    BY <1>1
  <1> DEFINE before == room * (i - 1)
  <1> HIDE DEF room, last, n, before
  <1>4. /\ Segment(mti, data, i) = SubSeq(data, before + 1, last)
        /\ Prefix(mti, data, i) = SubSeq(data, 1, last)
        /\ i > 1 => Prefix(mti, data, i - 1) = SubSeq(data, 1, before)
        /\ before \in 0 .. last
        /\ i = 1 => before = 0
    BY <1>1, <1>2, <1>3 DEF Segment, Prefix, room, last, before
  <1>5. SubSeq(data, before + 1, last) \in Seq(S) /\ SubSeq(data, 1, last) \in Seq(S)
    BY <1>1, <1>4
  <1>6. SubSeq(data, 1, before) \o SubSeq(data, before + 1, last) = SubSeq(data, 1, last)
    BY <1>1, <1>4, ConcatAdjacentSubSeq
  <1>7. i = 1 => << >> \o SubSeq(data, before + 1, last) = SubSeq(data, 1, last)
    BY <1>4, <1>5, ConcatEmptySeq
  <1>8. i = n => SubSeq(data, 1, last) = data
    BY <1>1, SubSeqFull
  <1> QED BY <1>4, <1>5, <1>6, <1>7, <1>8 DEF n

LEMMA SegmentBytes ==
  ASSUME NEW S, NEW mti, NEW data \in Seq(S), NEW i \in 1 .. nSegments(mti, Len(data)),
         NEW j \in 1 .. Len(Segment(mti, data, i))
  PROVE  LET place == Room(mti) * (i - 1) + j IN
         /\ place \in 1 .. Len(data)
         /\ place <= Room(mti) * i
         /\ Segment(mti, data, i)[j] = data[place]
  <1> DEFINE room == Room(mti)
             last == Lesser(room * i, Len(data))
             before == room * (i - 1)
  <1>1. /\ Len(data) \in Nat /\ room \in Nat /\ before \in Nat /\ before <= last
        /\ last \in 0 .. Len(data) /\ last <= room * i
    BY FramesOf
  <1> HIDE DEF last, before, room
  <1>2. Segment(mti, data, i) = SubSeq(data, before + 1, last)
    BY DEF Segment, last, before, room
  <1>3. \A k \in before + 1 .. last : data[k] \in S
    BY <1>1
  <1>4. /\ Len(Segment(mti, data, i)) = last - before
        /\ \A k \in 1 .. last - before : Segment(mti, data, i)[k] = data[before + k]
    <2>1. before + 1 \in Int /\ last \in Int
      BY <1>1
    <2> QED BY <1>1, <1>2, <1>3, <2>1, SubSeqProperties
  <1>5. j \in 1 .. last - before
    BY <1>4
  <1>6. room * i \in Int
    BY <1>1, FrameCount
  <1> QED BY SMTT(60), <1>1, <1>4, <1>5, <1>6 DEF before, room

-----------------------------------------------------------------------------
(* The next frame of a sender, and the node IDs that it is handled under.  *)

LEMMA NextFrameShape ==
  ASSUME Types, NEW s \in Senders, ~Idle(s)
  PROVE  LET f == NextFrame(s) IN
         /\ sent[s] # << >>
         /\ position[s] \in Nat
         /\ position[s] + 1 \in 1 .. Frames(Newest(s))
         /\ f.mti = Newest(s).mti
         /\ f.src = s
         /\ f.dst = Destination(s)
         /\ f.start <=> position[s] = 0
         /\ f.end <=> position[s] + 1 = Frames(Newest(s))
         /\ f.data = Segment(Newest(s).mti, Newest(s).data, position[s] + 1)
         /\ f.data \in Seq(Byte)
  <1>1. sent[s] # << >> /\ position[s] # Frames(Newest(s))
    BY DEF Idle, Frames
  <1>2. position[s] \in Nat /\ position[s] <= Frames(Newest(s))
    BY <1>1 DEF Types
  <1>3. Newest(s).data \in Seq(Byte)
    BY <1>1, NewestMessage DEF SentMessage
  <1>4. Frames(Newest(s)) \in Nat
    BY <1>3, FrameCount DEF Frames
  <1>5. position[s] + 1 \in 1 .. Frames(Newest(s))
    BY <1>1, <1>2, <1>4
  <1>6. Segment(Newest(s).mti, Newest(s).data, position[s] + 1) \in Seq(Byte)
    BY <1>3, <1>5, PrefixGrows DEF Frames
  <1>7. /\ NextFrame(s).start = (position[s] + 1 = 1)
        /\ NextFrame(s).end = (position[s] + 1 = Frames(Newest(s)))
    BY DEF NextFrame, Frames
  <1>8. (position[s] + 1 = 1) <=> position[s] = 0
    BY <1>2
  <1>9. /\ NextFrame(s).start <=> position[s] = 0
        /\ NextFrame(s).end <=> position[s] + 1 = Frames(Newest(s))
    BY Zenon, <1>7, <1>8
  <1> QED BY <1>1, <1>2, <1>5, <1>6, <1>9 DEF NextFrame, Destination

LEMMA InternalNotReal ==
  /\ InternalIds \cap Ids = {}
  /\ None \notin InternalIds \cup Ids
  BY ConstantsAssumption DEF InternalIds

\* The handler gives both nodes an ID and changes no other; a new one is internal.
LEMMA AliasesHandled ==
  ASSUME Types, NEW s \in Senders, ~Idle(s), HandleAliases(NextFrame(s))
  PROVE  /\ aliasToNodeID' \in [Aliases -> NodeIDs \cup {None}]
         /\ \A a \in Aliases : aliasToNodeID'[a] \in {IdOf[a], None} \cup InternalIds
         /\ \A a \in Aliases :
               aliasToNodeID'[a] # aliasToNodeID[a] =>
                  aliasToNodeID[a] = None /\ aliasToNodeID'[a] \in InternalIds
         /\ aliasToNodeID'[s] \in NodeIDs
         /\ aliasToNodeID'[Destination(s)] \in NodeIDs
         /\ nextInternal' \in InternalIds
         /\ AccumKey(NextFrame(s))
              = <<Newest(s).mti, aliasToNodeID'[s], aliasToNodeID'[Destination(s)]>>
         /\ AccumKey(NextFrame(s)) \in Keys
  <1> DEFINE f == NextFrame(s)
             d == Destination(s)
             new == nextAfterSource(f)
  <1>1. s \in Aliases /\ d \in Aliases /\ f.src = s /\ f.dst = d /\ f.mti = Newest(s).mti
    BY NextFrameShape, DestinationAlias, ConstantsAssumption
  <1>2. nextInternal \in Nat \ {0} /\ nextInternal <= MaxInternal
    BY ConstantsAssumption DEF Types, InternalIds
  <1>3. /\ new = IF aliasToNodeID[s] # None THEN nextInternal ELSE nextInternal + 1
        /\ new <= MaxInternal
        /\ nextInternal' = new
    BY <1>1 DEF nextAfterSource, HandleAliases
  <1>4. new \in InternalIds /\ nextInternal \in InternalIds
    BY <1>2, <1>3, ConstantsAssumption DEF InternalIds
  <1> HIDE DEF f, d, new
  <1> DEFINE M == MapAfterSource(f)
  <1>5. M = IF aliasToNodeID[s] # None THEN aliasToNodeID
            ELSE [aliasToNodeID EXCEPT ![s] = nextInternal]
    BY <1>1 DEF MapAfterSource
  <1>6. aliasToNodeID \in [Aliases -> NodeIDs \cup {None}]
    BY DEF Types
  <1>7. /\ M \in [Aliases -> NodeIDs \cup {None}]
        /\ M[s] \in NodeIDs
        /\ \A a \in Aliases : M[a] # aliasToNodeID[a] =>
              aliasToNodeID[a] = None /\ M[a] \in InternalIds
    BY <1>1, <1>4, <1>5, <1>6, InternalNotReal DEF NodeIDs
  <1>8. aliasToNodeID' = IF M[d] # None THEN M ELSE [M EXCEPT ![d] = new]
    BY <1>1 DEF HandleAliases, MapAfterDest, f, new
  <1> HIDE DEF M
  <1>9. /\ aliasToNodeID' \in [Aliases -> NodeIDs \cup {None}]
        /\ aliasToNodeID'[s] \in NodeIDs
        /\ aliasToNodeID'[d] \in NodeIDs
        /\ \A a \in Aliases : aliasToNodeID'[a] # aliasToNodeID[a] =>
              aliasToNodeID[a] = None /\ aliasToNodeID'[a] \in InternalIds
    <2>1. CASE M[d] # None
      BY <1>1, <1>7, <1>8, <2>1 DEF NodeIDs
    <2>2. CASE M[d] = None
      <3>1. s # d
        BY <1>7, <2>2, InternalNotReal DEF NodeIDs
      <3> QED BY <1>1, <1>4, <1>7, <1>8, <2>2, <3>1, InternalNotReal DEF NodeIDs
    <2> QED BY <2>1, <2>2
  <1>10. \A a \in Aliases : aliasToNodeID'[a] \in {IdOf[a], None} \cup InternalIds
    BY <1>9 DEF Types
  <1>11. AccumKey(f) = <<Newest(s).mti, aliasToNodeID'[s], aliasToNodeID'[d]>>
    BY <1>1 DEF AccumKey, HandleAliases, f
  <1>12. Newest(s).mti \in Mtis
    BY NextFrameShape, NewestMessage DEF SentMessage
  <1>13. AccumKey(f) \in Keys
    BY <1>9, <1>11, <1>12 DEF Keys, NodeIDs
  <1> QED BY <1>3, <1>4, <1>9, <1>10, <1>11, <1>13 DEF f, d

LEMMA EntryKinds ==
  ASSUME NEW e \in Entry
  PROVE  /\ e.held \in {"missing", "None", "list"}
         /\ e.held = "list" => e.bytes \in Seq(Byte) /\ e = Partial(e.bytes)
         /\ e = Missing <=> e.held = "missing"
         /\ e = Shipped <=> e.held = "None"
  BY DEF Entry, Missing, Shipped, Partial

LEMMA ListEntry ==
  ASSUME NEW bytes \in Seq(Byte)
  PROVE  /\ Partial(bytes) \in Entry
         /\ Partial(bytes).held = "list"
         /\ Partial(bytes).bytes = bytes
  BY DEF Entry, Partial

LEMMA OtherEntries ==
  /\ Missing \in Entry /\ Missing.held = "missing"
  /\ Shipped \in Entry /\ Shipped.held = "None"
  BY DEF Entry, Missing, Shipped

-----------------------------------------------------------------------------
(* What becomes of a frame that is heard. *)

FrameKey(s) == AccumKey(NextFrame(s))
FrameBytes(s) == Segment(Newest(s).mti, Newest(s).data, position[s] + 1)
Held(s) == IF position[s] = 0 THEN Partial(<< >>) ELSE accumulator[FrameKey(s)]
Joined(s) == Held(s).bytes \o FrameBytes(s)
Whole(s) ==
    [mti |-> Newest(s).mti, source |-> aliasToNodeID'[s],
     dest |-> aliasToNodeID'[Destination(s)], data |-> Joined(s)]

Dropped(s) == Held(s) = Missing /\ UNCHANGED <<alive, accumulator, received>>
Died(s) == Held(s) = Shipped /\ alive' = FALSE /\ UNCHANGED <<accumulator, received>>
Extended(s) ==
    /\ Held(s).held = "list"
    /\ position[s] + 1 # Frames(Newest(s))
    /\ accumulator' = [accumulator EXCEPT ![FrameKey(s)] = Partial(Joined(s))]
    /\ UNCHANGED <<alive, received>>
Finished(s) ==
    /\ Held(s).held = "list"
    /\ position[s] + 1 = Frames(Newest(s))
    /\ accumulator' = [accumulator EXCEPT ![FrameKey(s)] = Shipped]
    /\ received' = Append(received, Whole(s))
    /\ UNCHANGED alive

LEMMA Heard ==
  ASSUME Types, NEW s \in Senders, Transmit(s), linkUp, alive
  PROVE  /\ ~Idle(s) /\ HandleAliases(NextFrame(s))
         /\ FrameKey(s) \in Keys
         /\ FrameKey(s)
              = <<Newest(s).mti, aliasToNodeID'[s], aliasToNodeID'[Destination(s)]>>
         /\ Held(s) \in Entry
         /\ Dropped(s) \/ Died(s) \/ Extended(s) \/ Finished(s)
         /\ Held(s).held = "list" =>
               /\ Held(s).bytes \in Seq(Byte)
               /\ FrameBytes(s) \in Seq(Byte)
               /\ Joined(s) \in Seq(Byte)
  <1> DEFINE f == NextFrame(s)
  <1>1. ~Idle(s) /\ HandleAliases(f) /\ (DropFrame(f) \/ DieOnFrame(f) \/ Accumulate(f))
    BY DEF Transmit, handleReceivedData
  <1>2. /\ f.mti = Newest(s).mti
        /\ f.start <=> position[s] = 0
        /\ f.end <=> position[s] + 1 = Frames(Newest(s))
        /\ f.data = FrameBytes(s) /\ f.data \in Seq(Byte)
        /\ position[s] \in Nat
    BY <1>1, NextFrameShape DEF FrameBytes
  <1>3. /\ FrameKey(s) \in Keys
        /\ FrameKey(s)
              = <<Newest(s).mti, aliasToNodeID'[s], aliasToNodeID'[Destination(s)]>>
    BY <1>1, AliasesHandled DEF FrameKey
  <1> HIDE DEF f
  <1>4. Started(f) = Held(s)
    BY <1>2 DEF Started, Held, FrameKey, f
  <1>5. Held(s) \in Entry
    <2>1. << >> \in Seq(Byte)
      OBVIOUS
    <2> QED BY <1>3, <2>1, ListEntry DEF Held, Types
  <1>6. Held(s).held = "list" => Held(s).bytes \in Seq(Byte) /\ Joined(s) \in Seq(Byte)
    BY <1>2, <1>5, EntryKinds DEF Joined
  <1>7. ASSUME DropFrame(f) PROVE Dropped(s)
    BY <1>4, <1>7 DEF DropFrame, Dropped
  <1>8. ASSUME DieOnFrame(f) PROVE Died(s)
    BY <1>4, <1>8 DEF DieOnFrame, Died
  <1>9. ASSUME Accumulate(f) PROVE Extended(s) \/ Finished(s)
    <2>1. Held(s).held = "list" /\ UNCHANGED alive
      BY <1>4, <1>9 DEF Accumulate
    <2>2. Started(f).bytes \o f.data = Joined(s) /\ AccumKey(f) = FrameKey(s)
      BY <1>2, <1>4 DEF Joined, FrameKey, f
    <2>3. CASE f.end
      <3>1. /\ accumulator' = [accumulator EXCEPT ![FrameKey(s)] = Shipped]
            /\ received' = Append(received,
                  [mti |-> f.mti, source |-> FrameKey(s)[2], dest |-> FrameKey(s)[3],
                   data |-> Joined(s)])
        BY <1>9, <2>2, <2>3 DEF Accumulate
      <3> QED BY <1>2, <1>3, <2>1, <2>3, <3>1 DEF Finished, Whole
    <2>4. CASE ~f.end
      <3>1. /\ accumulator' = [accumulator EXCEPT ![FrameKey(s)] = Partial(Joined(s))]
            /\ UNCHANGED received
        BY <1>9, <2>2, <2>4 DEF Accumulate
      <3> QED BY <1>2, <2>1, <2>4, <3>1 DEF Extended
    <2> QED BY <2>3, <2>4
  <1> QED BY <1>1, <1>2, <1>3, <1>5, <1>6, <1>7, <1>8, <1>9 DEF f

LEMMA WholeType ==
  ASSUME Types, NEW s \in Senders, Transmit(s), linkUp, alive, Held(s).held = "list"
  PROVE  Whole(s) \in ReceivedMessage
  <1>1. /\ Joined(s) \in Seq(Byte)
        /\ ~Idle(s) /\ HandleAliases(NextFrame(s))
    BY Heard
  <1>2. Newest(s).mti \in Mtis
    BY <1>1, NextFrameShape, NewestMessage DEF SentMessage
  <1>3. aliasToNodeID'[s] \in NodeIDs /\ aliasToNodeID'[Destination(s)] \in NodeIDs
    BY <1>1, AliasesHandled
  <1> QED BY <1>1, <1>2, <1>3 DEF Whole, ReceivedMessage

-----------------------------------------------------------------------------
(* Types. *)

LEMMA InitTypes == Init => Types
  <1> SUFFICES ASSUME Init PROVE Types
    OBVIOUS
  <1>1. accumulator \in [Keys -> Entry]
    BY OtherEntries DEF Init
  <1>2. nextInternal \in InternalIds
    BY ConstantsAssumption DEF Init, InternalIds
  <1>3. aliasToNodeID \in [Aliases -> NodeIDs \cup {None}]
    BY ConstantsAssumption DEF Init, NodeIDs
  <1>4. received \in Seq(ReceivedMessage) /\ outages \in 0 .. MaxOutages
    BY ConstantsAssumption DEF Init
  <1>5. \A a \in KnownAliases : a \in Aliases
    BY ConstantsAssumption
  <1>6. \A a \in Aliases : aliasToNodeID[a] = IF a \in KnownAliases THEN IdOf[a] ELSE None
    BY DEF Init
  <1>7. /\ sent \in [Senders -> Seq(SentMessage)]
        /\ position \in [Senders -> Nat]
        /\ \A s \in Senders : Len(sent[s]) = 0 /\ sent[s] = << >> /\ position[s] = 0
    BY DEF Init
  <1>8. MaxMessages \in Nat
    BY ConstantsAssumption
  <1>9. linkUp \in BOOLEAN /\ alive \in BOOLEAN
    BY Zenon DEF Init
  <1> QED BY <1>1, <1>2, <1>3, <1>4, <1>5, <1>6, <1>7, <1>8, <1>9 DEF Types

LEMMA SendTypes ==
  ASSUME Types, NEW s \in Senders, sendMessage(s)
  PROVE  Types'
  <1> DEFINE n == Len(sent[s]) + 1
  <1>1. PICK m \in MessagesOf(s, n) : sent' = [sent EXCEPT ![s] = Append(@, m)]
    BY DEF sendMessage
  <1>2. sent[s] \in Seq(SentMessage) /\ n \in 1 .. MaxMessages
    BY ConstantsAssumption DEF Types, sendMessage
  <1>3. PICK mti \in Mtis, dest \in Ids \ {IdOf[s]}, size \in Sizes[n] :
               m = Message(s, n, mti, dest, size)
    BY DEF MessagesOf
  <1>4. size \in Nat
    BY <1>2, ConstantsAssumption
  <1>5. Payload(s, n, size) \in Seq(Byte)
    <2>1. n \in Nat
      BY <1>2
    <2> HIDE DEF n
    <2> QED BY <1>4, <2>1, PayloadBytes
  <1>6. IdOf[s] \in Ids
    BY ConstantsAssumption
  <1>7. m \in SentMessage
    BY <1>3, <1>5, <1>6 DEF Message, SentMessage
  <1>8. /\ sent' \in [Senders -> Seq(SentMessage)]
        /\ \A t \in Senders : t # s => sent'[t] = sent[t]
        /\ Len(sent'[s]) = n /\ sent'[s] # << >>
        /\ sent'[s][n] = m
        /\ \A k \in 1 .. n - 1 : sent'[s][k] = sent[s][k]
    BY <1>1, <1>2, <1>7 DEF Types
  <1>9. \A t \in Senders : \A k \in 1 .. Len(sent'[t]) : sent'[t][k] \in MessagesOf(t, k)
    <2> SUFFICES ASSUME NEW t \in Senders, NEW k \in 1 .. Len(sent'[t])
                 PROVE  sent'[t][k] \in MessagesOf(t, k)
      OBVIOUS
    <2>1. CASE t # s
      BY <1>8, <2>1 DEF Types
    <2>2. CASE t = s /\ k = n
      BY <1>8, <2>2
    <2>3. CASE t = s /\ k # n
      <3>1. k \in 1 .. Len(sent[s])
        BY <1>2, <1>8, <2>3
      <3>2. sent'[s][k] = sent[s][k]
        BY <1>8, <3>1
      <3>3. sent[s][k] \in MessagesOf(s, k)
        BY <3>1 DEF Types
      <3> QED BY <2>3, <3>2, <3>3
    <2> QED BY <2>1, <2>2, <2>3
  <1>10. /\ position' \in [Senders -> Nat]
         /\ position'[s] = 0
         /\ \A t \in Senders : t # s => position'[t] = position[t]
    BY DEF sendMessage, Types
  <1>11. \A t \in Senders :
            position'[t] <= IF sent'[t] = << >> THEN 0 ELSE Frames(Newest(t)')
    <2> SUFFICES ASSUME NEW t \in Senders
                 PROVE position'[t] <= IF sent'[t] = << >> THEN 0 ELSE Frames(Newest(t)')
      OBVIOUS
    <2>1. CASE t # s
      BY <1>8, <1>10, <2>1 DEF Types, Newest
    <2>2. CASE t = s
      <3>1. Newest(t)' = m
        BY <1>8, <2>2 DEF Newest
      <3>2. m.data \in Seq(Byte)
        BY <1>7 DEF SentMessage
      <3> QED BY <1>8, <1>10, <2>2, <3>1, <3>2, FrameCount DEF Frames
    <2> QED BY <2>1, <2>2
  <1>12. \A t \in Senders : Len(sent'[t]) <= MaxMessages
    BY <1>2, <1>8 DEF Types
  <1> QED BY <1>8, <1>9, <1>10, <1>11, <1>12 DEF Types, sendMessage

LEMMA TransmitTypes ==
  ASSUME Types, NEW s \in Senders, Transmit(s)
  PROVE  Types'
  <1>1. ~Idle(s) /\ sent' = sent /\ linkUp' = linkUp /\ outages' = outages
    BY DEF Transmit
  <1>2. position' = [position EXCEPT ![s] = position[s] + 1]
    BY DEF Transmit
  <1>3. /\ sent[s] # << >> /\ position[s] \in Nat
        /\ position[s] + 1 \in 1 .. Frames(Newest(s))
    BY <1>1, NextFrameShape
  <1>4. Newest(s)' = Newest(s) /\ \A t \in Senders : Newest(t)' = Newest(t)
    BY <1>1 DEF Newest
  <1>5. /\ position' \in [Senders -> Nat]
        /\ \A t \in Senders :
              position'[t] <= IF sent'[t] = << >> THEN 0 ELSE Frames(Newest(t)')
    <2>1. position \in [Senders -> Nat]
      BY DEF Types
    <2>2. position' \in [Senders -> Nat]
      BY <1>2, <1>3, <2>1
    <2>3. ASSUME NEW t \in Senders
          PROVE position'[t] <= IF sent'[t] = << >> THEN 0 ELSE Frames(Newest(t)')
      <3>1. CASE t = s
        <4>1. position'[s] = position[s] + 1
          BY <1>2, <2>1
        <4> QED BY <1>1, <1>3, <1>4, <3>1, <4>1
      <3>2. CASE t # s
        BY <1>1, <1>2, <1>4, <2>1, <3>2 DEF Types
      <3> QED BY <3>1, <3>2
    <2> QED BY <2>2, <2>3
  <1>6. CASE linkUp /\ alive
    <2>1. HandleAliases(NextFrame(s)) /\ FrameKey(s) \in Keys
      BY <1>6, Heard
    <2>2. /\ aliasToNodeID' \in [Aliases -> NodeIDs \cup {None}]
          /\ \A a \in Aliases : aliasToNodeID'[a] \in {IdOf[a], None} \cup InternalIds
          /\ nextInternal' \in InternalIds
      BY <1>1, <2>1, AliasesHandled
    <2>3. \A a \in KnownAliases : aliasToNodeID'[a] = IdOf[a]
      <3>1. \A a \in KnownAliases : a \in Aliases /\ IdOf[a] # None
        <4>1. \A a \in Aliases : IdOf[a] \in Ids
          BY ConstantsAssumption
        <4> QED BY <4>1, InternalNotReal, ConstantsAssumption
      <3>2. \A a \in Aliases : aliasToNodeID'[a] # aliasToNodeID[a] => aliasToNodeID[a] = None
        BY <1>1, <2>1, AliasesHandled
      <3> QED BY <3>1, <3>2 DEF Types
    <2>4. alive' \in BOOLEAN /\ accumulator' \in [Keys -> Entry]
            /\ received' \in Seq(ReceivedMessage)
      <3>1. alive \in BOOLEAN /\ accumulator \in [Keys -> Entry]
              /\ received \in Seq(ReceivedMessage)
        BY DEF Types
      <3>2. CASE Dropped(s)
        BY <3>1, <3>2 DEF Dropped
      <3>3. CASE Died(s)
        BY <3>1, <3>3 DEF Died
      <3>4. CASE Extended(s)
        <4>1. Partial(Joined(s)) \in Entry
          BY <1>6, <3>4, Heard, ListEntry DEF Extended
        <4> QED BY <2>1, <3>1, <3>4, <4>1 DEF Extended
      <3>5. CASE Finished(s)
        <4>1. Whole(s) \in ReceivedMessage
          BY <1>6, <3>5, WholeType DEF Finished
        <4> QED BY <2>1, <3>1, <3>5, <4>1, OtherEntries DEF Finished
      <3> QED BY <1>6, <3>2, <3>3, <3>4, <3>5, Heard
    <2> QED BY <1>1, <1>4, <1>5, <2>2, <2>3, <2>4 DEF Types
  <1>7. CASE ~(linkUp /\ alive)
    <2>1. UNCHANGED <<alive, aliasToNodeID, nextInternal, accumulator, received>>
      BY <1>7 DEF Transmit
    <2> QED BY <1>1, <1>4, <1>5, <2>1 DEF Types
  <1> QED BY <1>6, <1>7

LEMMA NextTypes ==
  ASSUME Types, [Next]_vars
  PROVE  Types'
  <1>1. ASSUME NEW s \in Senders, sendMessage(s) PROVE Types'
    BY <1>1, SendTypes
  <1>2. ASSUME NEW s \in Senders, Transmit(s) PROVE Types'
    BY <1>2, TransmitTypes
  <1>3. ASSUME NEW a \in Aliases, handleReceivedAMD(a) PROVE Types'
    <2>1. IdOf[a] \in Ids
      BY ConstantsAssumption
    <2> QED BY <1>3, <2>1 DEF handleReceivedAMD, Types, NodeIDs, Newest
  <1>4. CASE handleReceivedLinkUp
    BY <1>4 DEF handleReceivedLinkUp, Types, Newest
  <1>5. CASE handleReceivedLinkDown
    <2>1. linkUp' \in BOOLEAN
      BY Zenon, <1>5 DEF handleReceivedLinkDown
    <2>2. outages' \in 0 .. MaxOutages
      BY <1>5, ConstantsAssumption DEF handleReceivedLinkDown, Types
    <2> QED BY <1>5, <2>1, <2>2 DEF handleReceivedLinkDown, Types, Newest
  <1>6. CASE UNCHANGED vars
    BY <1>6 DEF vars, Types, Newest
  <1> QED BY <1>1, <1>2, <1>3, <1>4, <1>5, <1>6 DEF Next

\* Whatever is lost and whoever is unknown, messages that were sent and entries of the
\* accumulator keep their form, and every message is given to the listeners with an MTI
\* and with node IDs that are in use.
THEOREM ReassemblyTypes == Spec => []TypeOK
  <1>1. Types => TypeOK
    <2> SUFFICES ASSUME Types PROVE TypeOK
      OBVIOUS
    <2>1. \A s \in Senders :
             position[s] \in 0 .. IF sent[s] = << >> THEN 0 ELSE
                                  nSegments(Newest(s).mti, Len(Newest(s).data))
      <3> SUFFICES ASSUME NEW s \in Senders
                   PROVE position[s] \in 0 .. IF sent[s] = << >> THEN 0 ELSE
                                              nSegments(Newest(s).mti, Len(Newest(s).data))
        OBVIOUS
      <3>1. CASE sent[s] = << >>
        BY <3>1 DEF Types
      <3>2. CASE sent[s] # << >>
        <4>1. Frames(Newest(s)) \in Nat
          BY <3>2, NewestMessage, FrameCount DEF SentMessage, Frames
        <4> QED BY <3>2, <4>1 DEF Types, Frames
      <3> QED BY <3>1, <3>2
    <2>2. \A k \in Keys : accumulator[k].held \in {"missing", "None", "list"}
      BY EntryKinds DEF Types
    <2>3. ASSUME NEW r \in 1 .. Len(received)
          PROVE <<received[r].mti, received[r].source, received[r].dest>> \in Keys
      <3>1. received[r] \in ReceivedMessage
        BY DEF Types
      <3> QED BY <3>1 DEF ReceivedMessage, Keys, NodeIDs
    <2>4. nextInternal \in 1 .. MaxInternal /\ DOMAIN accumulator = Keys
      BY DEF Types, InternalIds
    <2> QED BY <2>1, <2>2, <2>3, <2>4 DEF Types, TypeOK, NodeIDs
  <1> QED BY <1>1, InitTypes, NextTypes, PTL DEF Spec

-----------------------------------------------------------------------------
(* Conversations. *)

LEMMA OneOwner ==
  ASSUME OneUnknown, NEW s \in Senders, NEW t \in Senders, NEW id, Owns(s, id), Owns(t, id)
  PROVE  s = t
  <1>1. s \in Aliases /\ t \in Aliases /\ IdOf[s] \in Ids /\ IdOf[t] \in Ids
    BY ConstantsAssumption
  <1>2. IdOf[s] = IdOf[t] => s = t
    BY <1>1, ConstantsAssumption
  <1>3. s \notin KnownAliases /\ t \notin KnownAliases => s = t
    BY <1>1 DEF OneUnknown
  <1> QED BY <1>1, <1>2, <1>3, InternalNotReal DEF Owns

\* The ID that the handler gives the source is the sender's own.
LEMMA SourceOwned ==
  ASSUME Types, NEW s \in Senders, Transmit(s), linkUp, alive
  PROVE  /\ Owns(s, FrameKey(s)[2])
         /\ FrameKey(s)[1] = Newest(s).mti
         /\ FrameKey(s)[2] \in {IdOf[s]} \cup InternalIds
         /\ FrameKey(s)[3] \in {Newest(s).dest} \cup InternalIds
  <1>1. /\ ~Idle(s) /\ HandleAliases(NextFrame(s)) /\ sent[s] # << >>
        /\ FrameKey(s)
              = <<Newest(s).mti, aliasToNodeID'[s], aliasToNodeID'[Destination(s)]>>
    BY Heard, NextFrameShape
  <1>2. s \in Aliases /\ IdOf[s] \in Ids
    BY ConstantsAssumption
  <1>3. Destination(s) \in Aliases /\ IdOf[Destination(s)] = Newest(s).dest
    BY <1>1, DestinationAlias
  <1>4. /\ aliasToNodeID'[s] \in {IdOf[s], None} \cup InternalIds
        /\ aliasToNodeID'[Destination(s)] \in {Newest(s).dest, None} \cup InternalIds
        /\ aliasToNodeID'[s] \in NodeIDs /\ aliasToNodeID'[Destination(s)] \in NodeIDs
    BY <1>1, <1>2, <1>3, AliasesHandled
  <1>5. /\ aliasToNodeID'[s] \in {IdOf[s]} \cup InternalIds
        /\ aliasToNodeID'[Destination(s)] \in {Newest(s).dest} \cup InternalIds
    BY <1>4, InternalNotReal DEF NodeIDs
  <1>6. s \in KnownAliases => aliasToNodeID'[s] = IdOf[s]
    BY TransmitTypes DEF Types
  <1>7. Owns(s, aliasToNodeID'[s])
    BY <1>2, <1>5, <1>6, InternalNotReal DEF Owns
  <1> QED BY <1>1, <1>5, <1>7

\* A sender's messages only grow, and its frames pass.
LEMMA SenderStep ==
  ASSUME Types, [Next]_vars, NEW s \in Senders
  PROVE  \/ sent'[s] = sent[s] /\ position'[s] \in Nat /\ position[s] <= position'[s]
         \/ /\ Len(sent'[s]) = Len(sent[s]) + 1
            /\ \A k \in 1 .. Len(sent[s]) : sent'[s][k] = sent[s][k]
  <1>1. /\ sent \in [Senders -> Seq(SentMessage)]
        /\ position \in [Senders -> Nat]
    BY DEF Types
  <1>2. ASSUME NEW t \in Senders, sendMessage(t)
        PROVE  \/ sent'[s] = sent[s] /\ position'[s] = position[s]
               \/ /\ Len(sent'[s]) = Len(sent[s]) + 1
                  /\ \A k \in 1 .. Len(sent[s]) : sent'[s][k] = sent[s][k]
    <2>1. PICK m : sent' = [sent EXCEPT ![t] = Append(@, m)]
      BY <1>2 DEF sendMessage
    <2>2. position' = [position EXCEPT ![t] = 0]
      BY <1>2 DEF sendMessage
    <2> QED BY <1>1, <2>1, <2>2
  <1>3. ASSUME NEW t \in Senders, Transmit(t)
        PROVE  sent'[s] = sent[s] /\ position'[s] \in {position[s], position[s] + 1}
    BY <1>1, <1>3 DEF Transmit
  <1>4. CASE UNCHANGED <<sent, position>>
    BY <1>1, <1>4
  <1> QED BY <1>1, <1>2, <1>3, <1>4
          DEF Next, vars, handleReceivedAMD, handleReceivedLinkUp, handleReceivedLinkDown

LEMMA SoundKept ==
  ASSUME Types, [Next]_vars, NEW s \in Senders, NEW k, NEW bytes \in Seq(Byte),
         Sound(sent[s], position[s], s, k, bytes)
  PROVE  Sound(sent'[s], position'[s], s, k, bytes)
  <1> DEFINE n == Len(sent[s])
             room == Room(sent[s][n].mti)
  <1>1. n \in Nat /\ position[s] \in Nat /\ room \in Nat
    <2>1. room \in {6, 8}
      BY RoomType
    <2> HIDE DEF room
    <2> QED BY <2>1 DEF Types
  <1> SUFFICES ASSUME NEW i \in 1 .. Len(bytes)
               PROVE  /\ Comes(sent'[s], s, k, bytes[i])
                      /\ Gone(sent'[s], position'[s], bytes[i])
    BY DEF Sound
  <1>2. Comes(sent[s], s, k, bytes[i]) /\ Gone(sent[s], position[s], bytes[i])
    BY DEF Sound
  <1>3. bytes[i] \in Byte
    OBVIOUS
  <1>4. bytes[i][2] \in Nat /\ bytes[i][3] \in Nat
    BY <1>3 DEF Byte
  <1>5. CASE sent'[s] = sent[s] /\ position'[s] \in Nat /\ position[s] <= position'[s]
    <2>1. room * position[s] <= room * position'[s]
      <3>1. CASE room = 6
        BY <1>1, <1>5, <3>1
      <3>2. CASE room = 8
        BY <1>1, <1>5, <3>2
      <3> QED BY <3>1, <3>2, RoomType
    <2>2. room * position[s] \in Nat /\ room * position'[s] \in Nat
      BY <1>1, <1>5
    <2> HIDE DEF room
    <2>3. Gone(sent[s], position'[s], bytes[i])
      BY <1>2, <1>4, <2>1, <2>2 DEF Gone, room
    <2> QED BY <1>2, <1>5, <2>3
  <1>6. CASE /\ Len(sent'[s]) = n + 1
             /\ \A j \in 1 .. n : sent'[s][j] = sent[s][j]
    BY SMTT(60), <1>1, <1>2, <1>4, <1>6 DEF Comes, Gone
  <1> QED BY <1>5, <1>6, SenderStep

\* The frame's bytes follow those that were held.
LEMMA SoundJoined ==
  ASSUME Types, NEW s \in Senders, Transmit(s), linkUp, alive, Held(s).held = "list",
         Sound(sent[s], position[s], s, FrameKey(s), Held(s).bytes)
  PROVE  Sound(sent'[s], position'[s], s, FrameKey(s), Joined(s))
  <1> DEFINE m == Newest(s)
             n == Len(sent[s])
             key == FrameKey(s)
             held == Held(s).bytes
             new == FrameBytes(s)
             pos == position[s]
             room == Room(m.mti)
  <1>1. /\ ~Idle(s) /\ sent' = sent /\ position' = [position EXCEPT ![s] = @ + 1]
        /\ held \in Seq(Byte) /\ new \in Seq(Byte) /\ Joined(s) = held \o new
    BY Heard DEF Transmit, Joined
  <1>2. /\ sent[s] # << >> /\ pos \in Nat /\ pos + 1 \in 1 .. Frames(m)
    BY <1>1, NextFrameShape
  <1>3. /\ n \in Nat \ {0} /\ m = sent[s][n] /\ m.data \in Seq(Byte)
        /\ \A i \in 1 .. Len(m.data) : m.data[i] = <<s, n, i>>
    BY <1>2, NewestMessage DEF Newest, SentMessage
  <1>4. position'[s] = pos + 1
    BY <1>1 DEF Types
  <1>5. room \in {6, 8} /\ room * pos \in Nat /\ room * (pos + 1) \in Nat
          /\ room * pos <= room * (pos + 1)
    <2>1. room \in {6, 8}
      BY RoomType
    <2> HIDE DEF room
    <2>2. CASE room = 6
      BY <1>2, <2>2
    <2>3. CASE room = 8
      BY <1>2, <2>3
    <2> QED BY <2>1, <2>2, <2>3
  <1>6. ASSUME NEW j \in 1 .. Len(new)
        PROVE  /\ new[j] = <<s, n, room * pos + j>>
               /\ room * pos + j <= room * (pos + 1)
               /\ j \in Nat \ {0}
    <2>1. j \in 1 .. Len(Segment(m.mti, m.data, pos + 1))
      BY DEF FrameBytes
    <2>2. pos + 1 \in 1 .. nSegments(m.mti, Len(m.data))
      BY <1>2 DEF Frames
    <2>3. /\ room * pos + j \in 1 .. Len(m.data)
          /\ room * pos + j <= room * (pos + 1)
          /\ Segment(m.mti, m.data, pos + 1)[j] = m.data[room * pos + j]
      <3> DEFINE i == pos + 1
      <3>1. /\ room * (i - 1) + j \in 1 .. Len(m.data)
            /\ room * (i - 1) + j <= room * i
            /\ Segment(m.mti, m.data, i)[j] = m.data[room * (i - 1) + j]
        <4> HIDE DEF i
        <4>1. i \in 1 .. nSegments(m.mti, Len(m.data))
          BY <2>2 DEF i
        <4>2. j \in 1 .. Len(Segment(m.mti, m.data, i))
          BY <2>1 DEF i
        <4> QED BY <1>3, <4>1, <4>2, SegmentBytes
      <3>2. i = pos + 1 /\ i - 1 = pos
        BY <1>2
      <3> HIDE DEF i, pos, room
      <3> QED BY <3>1, <3>2
    <2>4. j \in Nat \ {0}
      BY <1>1
    <2> QED BY <1>3, <2>3, <2>4 DEF FrameBytes
  <1>7. /\ key[1] = m.mti
        /\ key[2] \in {IdOf[s]} \cup InternalIds
        /\ key[3] \in {m.dest} \cup InternalIds
    BY SourceOwned
  <1>8. \A i \in 1 .. Len(held) :
           Comes(sent[s], s, key, held[i]) /\ Gone(sent[s], pos, held[i])
    BY DEF Sound
  <1>9. \A i \in 1 .. Len(held) : held[i][2] \in Nat /\ held[i][3] \in Nat
    <2> SUFFICES ASSUME NEW i \in 1 .. Len(held)
                 PROVE held[i][2] \in Nat /\ held[i][3] \in Nat
      OBVIOUS
    <2>1. held[i] \in Byte
      BY <1>1
    <2> QED BY <2>1 DEF Byte
  <1> HIDE DEF n, key, held, new, pos, room
  <1>10. /\ Len(held) \in Nat /\ Len(new) \in Nat
         /\ Len(held \o new) = Len(held) + Len(new)
         /\ \A i \in 1 .. Len(held) : (held \o new)[i] = held[i]
         /\ \A i \in Len(held) + 1 .. Len(held) + Len(new) :
               (held \o new)[i] = new[i - Len(held)] /\ i - Len(held) \in 1 .. Len(new)
    BY <1>1
  <1>11. \A i \in 1 .. Len(held) : Gone(sent[s], pos + 1, held[i])
    <2>1. sent[s][Len(sent[s])].mti = m.mti /\ Len(sent[s]) = n
      BY <1>3 DEF n
    <2> QED BY <1>5, <1>8, <1>9, <2>1 DEF Gone, room
  <1>12. \A j \in 1 .. Len(new) :
            Comes(sent[s], s, key, new[j]) /\ Gone(sent[s], pos + 1, new[j])
    <2> SUFFICES ASSUME NEW j \in 1 .. Len(new)
                 PROVE  Comes(sent[s], s, key, new[j]) /\ Gone(sent[s], pos + 1, new[j])
      OBVIOUS
    <2>1. sent[s][n].mti = m.mti /\ sent[s][n].dest = m.dest /\ Len(sent[s]) = n
      BY <1>3 DEF n
    <2>2. /\ new[j][1] = s /\ new[j][2] = n
          /\ new[j][3] <= room * (pos + 1)
      BY <1>6
    <2>3. Comes(sent[s], s, key, new[j])
      BY <1>3, <1>7, <2>1, <2>2 DEF Comes
    <2>4. Gone(sent[s], pos + 1, new[j])
      BY <2>1, <2>2 DEF Gone, room
    <2> QED BY <2>3, <2>4
  <1>13. ASSUME NEW i \in 1 .. Len(held \o new)
         PROVE  Comes(sent[s], s, key, (held \o new)[i])
                  /\ Gone(sent[s], pos + 1, (held \o new)[i])
    <2>1. CASE i \in 1 .. Len(held)
      BY <1>8, <1>10, <1>11, <2>1
    <2>2. CASE i \in Len(held) + 1 .. Len(held) + Len(new)
      BY <1>10, <1>12, <2>2
    <2> QED BY <1>10, <2>1, <2>2
  <1>14. ASSUME NEW i \in 1 .. Len(held \o new) - 1
         PROVE  Precedes((held \o new)[i], (held \o new)[i + 1])
    <2>1. CASE i + 1 \in 1 .. Len(held)
      BY <1>10, <2>1 DEF Sound, held
    <2>2. CASE i \in Len(held) + 1 .. Len(held) + Len(new)
      <3>1. /\ i - Len(held) \in 1 .. Len(new)
            /\ i - Len(held) + 1 \in 1 .. Len(new)
            /\ i + 1 \in Len(held) + 1 .. Len(held) + Len(new)
            /\ i + 1 - Len(held) = i - Len(held) + 1
        BY <1>10, <2>2
      <3>2. /\ (held \o new)[i] = new[i - Len(held)]
            /\ (held \o new)[i + 1] = new[i - Len(held) + 1]
        BY <1>10, <2>2, <3>1
      <3> DEFINE j == i - Len(held)
      <3>3. j \in 1 .. Len(new) /\ j + 1 \in 1 .. Len(new)
        BY <3>1
      <3> HIDE DEF j
      <3>4. /\ new[j] = <<s, n, room * pos + j>>
            /\ new[j + 1] = <<s, n, room * pos + (j + 1)>>
        BY <1>6, <3>3
      <3>5. Precedes(new[j], new[j + 1])
        BY <1>3, <1>5, <3>3, <3>4 DEF Precedes
      <3> QED BY <3>2, <3>5 DEF j
    <2>3. CASE i = Len(held)
      <3>1. /\ (held \o new)[i] = held[i]
            /\ (held \o new)[i + 1] = new[1]
            /\ 1 \in 1 .. Len(new)
        BY <1>10, <2>3
      <3>2. new[1] = <<s, n, room * pos + 1>>
        BY <1>6, <3>1
      <3>3. held[i][2] \in Nat /\ held[i][3] \in Nat /\ Gone(sent[s], pos, held[i])
              /\ Comes(sent[s], s, key, held[i])
        BY <1>8, <1>9, <1>10, <2>3
      <3>4. Len(sent[s]) = n /\ sent[s][n].mti = m.mti
        BY <1>3 DEF n
      <3> QED BY SMTT(60), <1>3, <1>5, <3>1, <3>2, <3>3, <3>4 DEF Gone, Precedes, room
    <2> QED BY <1>10, <2>1, <2>2, <2>3
  <1>15. Sound(sent[s], pos + 1, s, key, held \o new)
    BY <1>13, <1>14 DEF Sound
  <1> QED BY <1>1, <1>4, <1>15 DEF key, pos, held, new

LEMMA AccumulatorStep ==
  ASSUME Types, [Next]_vars
  PROVE  \/ accumulator' = accumulator /\ received' = received
         \/ \E s \in Senders : /\ Transmit(s) /\ linkUp /\ alive
                               /\ Extended(s) \/ Finished(s)
  <1>1. ASSUME NEW s \in Senders, Transmit(s)
        PROVE  \/ accumulator' = accumulator /\ received' = received
               \/ linkUp /\ alive /\ (Extended(s) \/ Finished(s))
    <2>1. CASE ~(linkUp /\ alive)
      BY <1>1, <2>1 DEF Transmit
    <2>2. CASE linkUp /\ alive
      BY <1>1, <2>2, Heard DEF Dropped, Died
    <2> QED BY <2>1, <2>2
  <1>2. CASE \E s \in Senders : sendMessage(s)
    BY <1>2 DEF sendMessage
  <1> QED BY <1>1, <1>2 DEF Next, vars, handleReceivedAMD, handleReceivedLinkUp,
                            handleReceivedLinkDown

\* What is held when a frame is heard has come from its sender.
LEMMA HeldSound ==
  ASSUME Types, Lists, NEW s \in Senders, Transmit(s), linkUp, alive, Held(s).held = "list"
  PROVE  Sound(sent[s], position[s], s, FrameKey(s), Held(s).bytes)
  <1>1. CASE position[s] = 0
    <2>1. Held(s).bytes = << >> /\ Len(<< >>) = 0
      BY <1>1 DEF Held, Partial
    <2> QED BY <2>1 DEF Sound
  <1>2. CASE position[s] # 0
    BY <1>2, Heard, SourceOwned DEF Held, Lists
  <1> QED BY <1>1, <1>2

LEMMA ListsStep ==
  ASSUME OneUnknown, Types, Lists, [Next]_vars
  PROVE  Lists'
  <1> SUFFICES ASSUME NEW k \in Keys, accumulator'[k].held = "list",
                      NEW s \in Senders, Owns(s, k[2])
               PROVE  Sound(sent'[s], position'[s], s, k, accumulator'[k].bytes)
    BY DEF Lists
  <1>1. CASE accumulator'[k] = accumulator[k]
    <2>1. accumulator[k] \in Entry
      BY DEF Types
    <2>2. accumulator[k].held = "list" /\ accumulator[k].bytes \in Seq(Byte)
      BY <1>1, <2>1, EntryKinds
    <2>3. Sound(sent[s], position[s], s, k, accumulator[k].bytes)
      BY <2>2 DEF Lists
    <2> QED BY <1>1, <2>2, <2>3, SoundKept
  <1>2. ASSUME NEW t \in Senders, Transmit(t), linkUp, alive, Extended(t) \/ Finished(t),
               accumulator'[k] # accumulator[k]
        PROVE  Sound(sent'[s], position'[s], s, k, accumulator'[k].bytes)
    <2>1. accumulator \in [Keys -> Entry] /\ FrameKey(t) \in Keys
      BY <1>2, Heard DEF Types
    <2>2. k = FrameKey(t)
      BY <1>2, <2>1 DEF Extended, Finished
    <2>3. Extended(t)
      <3>1. CASE Finished(t)
        <4>1. accumulator'[k] = Shipped
          BY <2>1, <2>2, <3>1 DEF Finished
        <4> QED BY <4>1, OtherEntries
      <3> QED BY <1>2, <3>1
    <2>4. Held(t).held = "list" /\ accumulator'[k] = Partial(Joined(t))
      BY <2>1, <2>2, <2>3 DEF Extended
    <2>5. accumulator'[k].bytes = Joined(t)
      BY <2>4 DEF Partial
    <2>6. s = t
      BY <1>2, <2>2, SourceOwned, OneOwner
    <2>7. Sound(sent'[t], position'[t], t, FrameKey(t), Joined(t))
      BY <1>2, <2>4, HeldSound, SoundJoined
    <2> QED BY <2>2, <2>5, <2>6, <2>7
  <1> QED BY <1>1, <1>2, AccumulatorStep

LEMMA ReceivedStep ==
  ASSUME Types, Lists, Received, [Next]_vars
  PROVE  Received'
  <1> SUFFICES ASSUME NEW r \in 1 .. Len(received')
               PROVE  \E s \in Senders :
                         Sound(sent'[s], position'[s], s,
                               <<received'[r].mti, received'[r].source, received'[r].dest>>,
                               received'[r].data)
    BY DEF Received
  <1>1. received \in Seq(ReceivedMessage)
    BY DEF Types
  <1>2. CASE r \in 1 .. Len(received) /\ received'[r] = received[r]
    <2>1. received[r].data \in Seq(Byte)
      <3>1. received[r] \in ReceivedMessage
        BY <1>1, <1>2
      <3> QED BY <3>1 DEF ReceivedMessage
    <2>2. PICK s \in Senders :
             Sound(sent[s], position[s], s,
                   <<received[r].mti, received[r].source, received[r].dest>>,
                   received[r].data)
      BY <1>2 DEF Received
    <2> QED BY <1>2, <2>1, <2>2, SoundKept
  <1>3. ASSUME NEW s \in Senders, Transmit(s), linkUp, alive, Finished(s),
               r = Len(received) + 1
        PROVE  Sound(sent'[s], position'[s], s,
                     <<received'[r].mti, received'[r].source, received'[r].dest>>,
                     received'[r].data)
    <2>1. received'[r] = Whole(s) /\ Held(s).held = "list"
      BY <1>1, <1>3 DEF Finished
    <2>2. <<Whole(s).mti, Whole(s).source, Whole(s).dest>> = FrameKey(s)
      BY <1>3, Heard DEF Whole
    <2>3. Whole(s).data = Joined(s)
      BY DEF Whole
    <2> QED BY <1>3, <2>1, <2>2, <2>3, HeldSound, SoundJoined
  <1>4. CASE received' = received
    BY <1>2, <1>4
  <1>5. ASSUME NEW s \in Senders, Transmit(s), linkUp, alive, Finished(s)
        PROVE  \E t \in Senders :
                  Sound(sent'[t], position'[t], t,
                        <<received'[r].mti, received'[r].source, received'[r].dest>>,
                        received'[r].data)
    <2>1. received' = Append(received, Whole(s))
      BY <1>5 DEF Finished
    <2>2. CASE r = Len(received) + 1
      BY <1>3, <1>5, <2>2
    <2>3. CASE r # Len(received) + 1
      <3>1. r \in 1 .. Len(received) /\ received'[r] = received[r]
        BY <1>1, <2>1, <2>3
      <3> QED BY <1>2, <3>1
    <2> QED BY <2>2, <2>3
  <1> QED BY <1>4, <1>5, AccumulatorStep DEF Extended

LEMMA InitConversations == Init => Lists /\ Received
  <1> SUFFICES ASSUME Init PROVE Lists /\ Received
    OBVIOUS
  <1>1. \A k \in Keys : accumulator[k].held = "missing"
    BY OtherEntries DEF Init
  <1>2. Len(received) = 0
    BY DEF Init
  <1> QED BY <1>1, <1>2 DEF Lists, Received

LEMMA ReceivedConversations == Received => OneConversation
  <1> SUFFICES ASSUME Received, NEW r \in 1 .. Len(received)
               PROVE  LET m == received[r]
                          From(s, u) ==
                              /\ u[1] = s
                              /\ sent[s][u[2]].mti = m.mti
                              /\ m.source \in {IdOf[s]} \cup InternalIds
                              /\ m.dest \in {sent[s][u[2]].dest} \cup InternalIds
                      IN /\ \E s \in Senders : \A i \in 1 .. Len(m.data) : From(s, m.data[i])
                         /\ \A i \in 1 .. Len(m.data) - 1 : Precedes(m.data[i], m.data[i + 1])
    BY DEF OneConversation
  <1>1. PICK s \in Senders :
           Sound(sent[s], position[s], s,
                 <<received[r].mti, received[r].source, received[r].dest>>, received[r].data)
    BY DEF Received
  <1> QED BY <1>1 DEF Sound, Comes

\* Whatever frames are lost with the link, and however the frames of several senders
\* interleave, a message given to the listeners has bytes of one sender only, of one MTI
\* and to one node, in the order in which they were sent (handleReceivedData).
THEOREM ConversationsKept ==
  ASSUME OneUnknown
  PROVE  Spec => []OneConversation
  <1>1. Init => Types /\ Lists /\ Received
    BY InitTypes, InitConversations
  <1>2. Types /\ Lists /\ Received /\ [Next]_vars => (Types /\ Lists /\ Received)'
    BY NextTypes, ListsStep, ReceivedStep
  <1>3. Types /\ Lists /\ Received => OneConversation
    BY ReceivedConversations
  <1> QED BY <1>1, <1>2, <1>3, PTL DEF Spec

-----------------------------------------------------------------------------
(* Node IDs in use. *)

LEMMA InitUnused == Init => Unused
  BY DEF Init, Unused

\* A node ID that a frame is handled under is in use.
LEMMA FrameKeyInUse ==
  ASSUME OneUnknown, Types, NEW s \in Senders, Transmit(s), linkUp, alive,
         NEW a \in Aliases
  PROVE  /\ aliasToNodeID'[a] # IdOf[a]
              => IdOf[a] \notin {FrameKey(s)[2], FrameKey(s)[3]}
         /\ aliasToNodeID'[a] = None
              => {FrameKey(s)[2], FrameKey(s)[3]} \cap InternalIds = {}
  <1> DEFINE d == Destination(s)
  <1>1. /\ ~Idle(s) /\ HandleAliases(NextFrame(s)) /\ sent[s] # << >>
        /\ FrameKey(s) = <<Newest(s).mti, aliasToNodeID'[s], aliasToNodeID'[d]>>
    BY Heard, NextFrameShape
  <1>2. s \in Aliases /\ d \in Aliases
    BY <1>1, DestinationAlias, ConstantsAssumption
  <1>3. aliasToNodeID'[s] \in NodeIDs /\ aliasToNodeID'[d] \in NodeIDs
    BY <1>1, AliasesHandled
  <1>4. Types'
    BY TransmitTypes
  <1>5. \A b \in Aliases :
           /\ aliasToNodeID'[b] \in {IdOf[b], None} \cup InternalIds
           /\ b \in KnownAliases => aliasToNodeID'[b] = IdOf[b]
    BY <1>4 DEF Types
  <1>6. \A b \in Aliases : IdOf[b] \in Ids /\ (IdOf[a] = IdOf[b] => a = b)
    BY ConstantsAssumption
  <1> HIDE DEF d
  <1>7. ASSUME NEW b \in {s, d}
        PROVE  /\ aliasToNodeID'[a] # IdOf[a] => IdOf[a] # aliasToNodeID'[b]
               /\ aliasToNodeID'[a] = None => aliasToNodeID'[b] \notin InternalIds
    <2>1. b \in Aliases /\ aliasToNodeID'[b] \in NodeIDs
      BY <1>2, <1>3
    <2>2. aliasToNodeID'[a] # IdOf[a] => IdOf[a] # aliasToNodeID'[b]
      BY <1>5, <1>6, <2>1, InternalNotReal DEF NodeIDs
    <2>3. ASSUME aliasToNodeID'[a] = None, aliasToNodeID'[b] \in InternalIds PROVE FALSE
      <3>1. a \notin KnownAliases /\ b \notin KnownAliases
        BY <1>5, <1>6, <2>1, <2>3, InternalNotReal
      <3>2. a = b
        BY <2>1, <3>1 DEF OneUnknown
      <3> QED BY <2>3, <3>2, InternalNotReal
    <2> QED BY <2>2, <2>3
  <1> QED BY <1>1, <1>7 DEF d

\* IDs only come into use; a real one stays.
LEMMA IDsStep ==
  ASSUME Types, [Next]_vars, NEW a \in Aliases
  PROVE  /\ aliasToNodeID[a] = IdOf[a] => aliasToNodeID'[a] = IdOf[a]
         /\ aliasToNodeID[a] # None => aliasToNodeID'[a] # None
  <1>1. IdOf[a] \in Ids
    BY ConstantsAssumption
  <1>2. ASSUME NEW s \in Senders, Transmit(s)
        PROVE  aliasToNodeID'[a] = aliasToNodeID[a] \/ aliasToNodeID[a] = None
    <2>1. CASE linkUp /\ alive
      BY <1>2, <2>1, Heard, AliasesHandled
    <2>2. CASE ~(linkUp /\ alive)
      BY <1>2, <2>2 DEF Transmit
    <2> QED BY <2>1, <2>2
  <1>3. ASSUME NEW b \in Aliases, handleReceivedAMD(b)
        PROVE  aliasToNodeID'[a] = aliasToNodeID[a] \/ aliasToNodeID'[a] = IdOf[a]
    BY <1>3 DEF handleReceivedAMD, Types
  <1> QED BY <1>1, <1>2, <1>3, InternalNotReal
          DEF Next, vars, sendMessage, handleReceivedLinkUp, handleReceivedLinkDown

LEMMA UnusedStep ==
  ASSUME OneUnknown, Types, Unused, [Next]_vars
  PROVE  Unused'
  <1> SUFFICES ASSUME NEW a \in Aliases, NEW k \in Keys
               PROVE  /\ aliasToNodeID'[a] # IdOf[a] /\ IdOf[a] \in {k[2], k[3]}
                            => accumulator'[k] = Missing
                      /\ aliasToNodeID'[a] = None /\ {k[2], k[3]} \cap InternalIds # {}
                            => accumulator'[k] = Missing
    BY DEF Unused
  <1>1. CASE accumulator'[k] = accumulator[k]
    BY <1>1, IDsStep DEF Unused
  <1>2. ASSUME NEW s \in Senders, Transmit(s), linkUp, alive, Extended(s) \/ Finished(s),
               accumulator'[k] # accumulator[k]
        PROVE  k = FrameKey(s)
    <2>1. accumulator \in [Keys -> Entry]
      BY DEF Types
    <2> QED BY <1>2, <2>1 DEF Extended, Finished
  <1> QED BY <1>1, <1>2, AccumulatorStep, FrameKeyInUse

-----------------------------------------------------------------------------
(* Before the link has gone down. *)

\* An alias is given a new internal ID or its real one.
LEMMA AliasStep ==
  ASSUME Types, [Next]_vars, NEW a \in Aliases
  PROVE  \/ aliasToNodeID'[a] = aliasToNodeID[a]
         \/ aliasToNodeID[a] = None /\ aliasToNodeID'[a] \in InternalIds
         \/ aliasToNodeID[a] # IdOf[a] /\ aliasToNodeID'[a] = IdOf[a]
  <1>1. ASSUME NEW s \in Senders, Transmit(s)
        PROVE  \/ aliasToNodeID'[a] = aliasToNodeID[a]
               \/ aliasToNodeID[a] = None /\ aliasToNodeID'[a] \in InternalIds
    <2>1. CASE linkUp /\ alive
      BY <1>1, <2>1, Heard, AliasesHandled
    <2>2. CASE ~(linkUp /\ alive)
      BY <1>1, <2>2 DEF Transmit
    <2> QED BY <2>1, <2>2
  <1>2. ASSUME NEW b \in Aliases, handleReceivedAMD(b)
        PROVE  \/ aliasToNodeID'[a] = aliasToNodeID[a]
               \/ aliasToNodeID[a] # IdOf[a] /\ aliasToNodeID'[a] = IdOf[a]
    BY <1>2 DEF handleReceivedAMD, Types
  <1> QED BY <1>1, <1>2
          DEF Next, vars, sendMessage, handleReceivedLinkUp, handleReceivedLinkDown

\* The key of a message changes only to one under which nothing was held.
LEMMA KeyStep ==
  ASSUME Types, Unused, [Next]_vars, NEW s \in Senders, sent[s] # << >>,
         aliasToNodeID'[s] \in NodeIDs, aliasToNodeID'[Destination(s)] \in NodeIDs
  PROVE  LET key == <<Newest(s).mti, aliasToNodeID'[s], aliasToNodeID'[Destination(s)]>> IN
         /\ key \in Keys
         /\ \/ /\ aliasToNodeID[s] # None /\ aliasToNodeID[Destination(s)] # None
               /\ key = Key(s)
            \/ accumulator[key] = Missing
  <1> DEFINE d == Destination(s)
             key == <<Newest(s).mti, aliasToNodeID'[s], aliasToNodeID'[d]>>
  <1>1. s \in Aliases /\ d \in Aliases
    BY DestinationAlias, ConstantsAssumption
  <1>2. key \in Keys
    BY NewestMessage DEF SentMessage, Keys, NodeIDs
  <1>3. key[2] = aliasToNodeID'[s] /\ key[3] = aliasToNodeID'[d]
    OBVIOUS
  <1>4. aliasToNodeID'[s] # None /\ aliasToNodeID'[d] # None
    BY InternalNotReal DEF NodeIDs
  <1>5. CASE aliasToNodeID'[s] = aliasToNodeID[s] /\ aliasToNodeID'[d] = aliasToNodeID[d]
    BY <1>2, <1>4, <1>5 DEF Key
  <1> HIDE DEF key, d
  <1>6. ASSUME NEW b \in {s, d}, aliasToNodeID'[b] # aliasToNodeID[b]
        PROVE  accumulator[key] = Missing
    <2>1. b \in Aliases /\ aliasToNodeID'[b] \in {key[2], key[3]}
      BY <1>1, <1>3
    <2>2. CASE aliasToNodeID[b] = None /\ aliasToNodeID'[b] \in InternalIds
      <3>1. {key[2], key[3]} \cap InternalIds # {}
        BY <2>1, <2>2
      <3> QED BY <1>2, <2>1, <2>2, <3>1 DEF Unused
    <2>3. CASE aliasToNodeID[b] # IdOf[b] /\ aliasToNodeID'[b] = IdOf[b]
      <3>1. IdOf[b] \in {key[2], key[3]}
        BY <2>1, <2>3
      <3> QED BY <1>2, <2>1, <2>3, <3>1 DEF Unused
    <2> QED BY <1>6, <2>1, <2>2, <2>3, AliasStep
  <1> QED BY <1>2, <1>5, <1>6 DEF key, d

LEMMA InitGapless == Init => Gapless
  BY DEF Init, Gapless, Midway

\* A frame that is heard finds all bytes of its message so far, or nothing.
LEMMA HeldGapless ==
  ASSUME Types, Unused, Gapless, outages = 0, NEW s \in Senders, Transmit(s), linkUp, alive
  PROVE  LET m == Newest(s) IN
         /\ Held(s) \in {Missing, Partial(Prefix(m.mti, m.data, position[s]))}
         /\ Held(s).held = "list" =>
              /\ Joined(s) = Prefix(m.mti, m.data, position[s] + 1)
              /\ position[s] + 1 = Frames(m) => Joined(s) = m.data
  <1> DEFINE m == Newest(s)
             pos == position[s]
  <1>1. /\ ~Idle(s) /\ HandleAliases(NextFrame(s))
        /\ FrameKey(s) \in Keys
        /\ FrameKey(s) = <<m.mti, aliasToNodeID'[s], aliasToNodeID'[Destination(s)]>>
    BY Heard
  <1>2. sent[s] # << >> /\ pos \in Nat /\ pos + 1 \in 1 .. Frames(m)
    BY <1>1, NextFrameShape
  <1>3. m.data \in Seq(Byte)
    BY <1>2, NewestMessage DEF SentMessage
  <1>4. aliasToNodeID'[s] \in NodeIDs /\ aliasToNodeID'[Destination(s)] \in NodeIDs
    BY <1>1, AliasesHandled
  <1>5. Prefix(m.mti, m.data, 0) = << >>
    <2>1. Room(m.mti) * 0 = 0
      BY RoomType
    <2>2. Len(m.data) \in Nat
      BY <1>3
    <2>3. Lesser(Room(m.mti) * 0, Len(m.data)) = 0
      BY <2>1, <2>2 DEF Lesser
    <2> QED BY <1>3, <2>3, SubSeqEmpty DEF Prefix
  <1>6. Held(s) \in {Missing, Partial(Prefix(m.mti, m.data, pos))}
    <2>1. CASE pos = 0
      BY <1>5, <2>1 DEF Held
    <2>2. CASE pos # 0
      <3>1. Midway(s) /\ Held(s) = accumulator[FrameKey(s)]
        BY <1>1, <1>2, <2>2 DEF Midway, Held
      <3>2. \/ accumulator[FrameKey(s)] = Missing
            \/ /\ aliasToNodeID[s] # None /\ aliasToNodeID[Destination(s)] # None
               /\ FrameKey(s) = Key(s)
        BY <1>1, <1>2, <1>4, KeyStep DEF Next
      <3> QED BY <3>1, <3>2 DEF Gapless
    <2> QED BY <2>1, <2>2
  <1>7. ASSUME Held(s).held = "list"
        PROVE  Joined(s) = Prefix(m.mti, m.data, pos) \o FrameBytes(s)
    <2>1. Held(s) = Partial(Prefix(m.mti, m.data, pos))
      BY <1>6, <1>7, OtherEntries
    <2> QED BY <2>1 DEF Partial, Joined
  <1>8. /\ Prefix(m.mti, m.data, pos) \o FrameBytes(s) = Prefix(m.mti, m.data, pos + 1)
        /\ pos + 1 = Frames(m) => Prefix(m.mti, m.data, pos + 1) = m.data
    <2> DEFINE i == pos + 1
    <2>1. i \in 1 .. nSegments(m.mti, Len(m.data)) /\ i - 1 = pos /\ (i = 1 \/ i > 1)
      BY <1>2 DEF Frames
    <2>2. i = 1 => Prefix(m.mti, m.data, pos) = << >>
      BY <1>2, <1>5
    <2> HIDE DEF i, pos
    <2>3. /\ i = 1 => << >> \o Segment(m.mti, m.data, i) = Prefix(m.mti, m.data, i)
          /\ i > 1 => Prefix(m.mti, m.data, i - 1) \o Segment(m.mti, m.data, i)
                        = Prefix(m.mti, m.data, i)
          /\ i = nSegments(m.mti, Len(m.data)) => Prefix(m.mti, m.data, i) = m.data
      <3> DEFINE mti == m.mti
                 data == m.data
      <3>1. data \in Seq(Byte) /\ i \in 1 .. nSegments(mti, Len(data))
        BY <1>3, <2>1
      <3> HIDE DEF mti, data
      <3>2. /\ i = 1 => << >> \o Segment(mti, data, i) = Prefix(mti, data, i)
            /\ i > 1 => Prefix(mti, data, i - 1) \o Segment(mti, data, i) = Prefix(mti, data, i)
            /\ i = nSegments(mti, Len(data)) => Prefix(mti, data, i) = data
        BY <3>1, PrefixGrows
      <3> QED BY <3>2 DEF mti, data
    <2>4. FrameBytes(s) = Segment(m.mti, m.data, i)
      BY DEF FrameBytes, i, pos
    <2>5. Prefix(m.mti, m.data, pos) \o FrameBytes(s) = Prefix(m.mti, m.data, i)
      BY <2>1, <2>2, <2>3, <2>4
    <2> QED BY <2>3, <2>5 DEF i, Frames
  <1> QED BY <1>6, <1>7, <1>8

\* Nothing but a frame of its sender's changes what is held of a message.
LEMMA OthersKeep ==
  ASSUME OneUnknown, Types, NEW s \in Senders, Transmit(s), linkUp, alive,
         NEW t \in Senders, t # s, NEW k \in Keys, k[2] = aliasToNodeID'[t]
  PROVE  accumulator'[k] = accumulator[k]
  <1>1. accumulator \in [Keys -> Entry] /\ FrameKey(s) \in Keys
    BY Heard DEF Types
  <1>2. t \in Aliases /\ IdOf[t] \in Ids
    BY ConstantsAssumption
  <1>3. /\ aliasToNodeID'[t] \in {IdOf[t], None} \cup InternalIds
        /\ t \in KnownAliases => aliasToNodeID'[t] = IdOf[t]
    BY <1>2, TransmitTypes DEF Types
  <1>4. k[2] # None
    BY InternalNotReal DEF Keys
  <1>5. Owns(t, k[2])
    BY <1>2, <1>3, <1>4, InternalNotReal DEF Owns
  <1>6. k # FrameKey(s)
    BY <1>5, SourceOwned, OneOwner
  <1> QED BY <1>1, <1>6, Heard DEF Dropped, Died, Extended, Finished

LEMMA GaplessStep ==
  ASSUME OneUnknown, Types, Unused, Gapless, [Next]_vars
  PROVE  Gapless'
  <1> DEFINE Kept(t) ==
               accumulator[Key(t)] \in
                 {Missing, Partial(Prefix(Newest(t).mti, Newest(t).data, position[t]))}
  <1> SUFFICES ASSUME outages' = 0
               PROVE  /\ alive'
                      /\ ~linkUp' => \A k \in Keys : accumulator'[k] = Missing
                      /\ \A t \in Senders :
                            /\ Midway(t)'
                            /\ aliasToNodeID'[t] # None /\ aliasToNodeID'[Destination(t)'] # None
                            => Kept(t)'
    BY DEF Gapless
  <1>1. outages = 0
    <2>1. CASE handleReceivedLinkDown
      BY <2>1 DEF handleReceivedLinkDown, Types
    <2> QED BY <2>1 DEF Next, vars, sendMessage, Transmit, handleReceivedAMD,
                        handleReceivedLinkUp
  <1>2. ~handleReceivedLinkDown
    BY <1>1 DEF handleReceivedLinkDown
  <1>3. ASSUME NEW s \in Senders, Transmit(s), linkUp, alive
        PROVE  ~Died(s)
    BY <1>1, <1>3, HeldGapless DEF Died, Missing, Shipped, Partial
  <1>4. alive'
    <2>1. alive
      BY <1>1 DEF Gapless
    <2>2. ASSUME NEW s \in Senders, Transmit(s) PROVE alive'
      BY <1>3, <2>1, <2>2, Heard DEF Transmit, Dropped, Extended, Finished
    <2> QED BY <1>2, <2>1, <2>2 DEF Next, vars, sendMessage, handleReceivedAMD,
                                    handleReceivedLinkUp
  <1>5. ~linkUp' => \A k \in Keys : accumulator'[k] = Missing
    <2>1. ~linkUp' => ~linkUp /\ accumulator' = accumulator
      BY <1>2 DEF Next, vars, sendMessage, Transmit, handleReceivedAMD, handleReceivedLinkUp
    <2> QED BY <1>1, <2>1 DEF Gapless
  <1>6. ASSUME NEW t \in Senders, Midway(t)', sent'[t] = sent[t],
               aliasToNodeID'[t] # None, aliasToNodeID'[Destination(t)'] # None
        PROVE  /\ sent[t] # << >> /\ Newest(t)' = Newest(t) /\ Destination(t)' = Destination(t)
               /\ Key(t)' = <<Newest(t).mti, aliasToNodeID'[t], aliasToNodeID'[Destination(t)]>>
               /\ aliasToNodeID'[t] \in NodeIDs
               /\ aliasToNodeID'[Destination(t)] \in NodeIDs
               /\ Key(t)' \in Keys
               /\ \/ /\ aliasToNodeID[t] # None /\ aliasToNodeID[Destination(t)] # None
                     /\ Key(t)' = Key(t)
                  \/ accumulator[Key(t)'] = Missing
    <2>1. sent[t] # << >>
      BY <1>6 DEF Midway
    <2>2. Newest(t)' = Newest(t) /\ Destination(t)' = Destination(t)
      BY <1>6 DEF Newest, Destination, nodeIdToAlias
    <2>3. t \in Aliases /\ Destination(t) \in Aliases
      BY <2>1, DestinationAlias, ConstantsAssumption
    <2>4. aliasToNodeID' \in [Aliases -> NodeIDs \cup {None}]
      BY NextTypes DEF Types
    <2>5. aliasToNodeID'[t] \in NodeIDs /\ aliasToNodeID'[Destination(t)] \in NodeIDs
      BY <1>6, <2>2, <2>3, <2>4
    <2>6. Key(t)' = <<Newest(t).mti, aliasToNodeID'[t], aliasToNodeID'[Destination(t)]>>
      BY <2>2 DEF Key
    <2> QED BY <2>1, <2>2, <2>5, <2>6, KeyStep
  <1>7. ASSUME NEW t \in Senders, Midway(t)', sent'[t] = sent[t], position'[t] = position[t],
               aliasToNodeID'[t] # None, aliasToNodeID'[Destination(t)'] # None,
               accumulator'[Key(t)'] = accumulator[Key(t)']
        PROVE  Kept(t)'
    <2>1. Midway(t)
      BY <1>6, <1>7 DEF Midway, Idle, Newest
    <2> QED BY <1>1, <1>6, <1>7, <2>1 DEF Gapless
  <1>8. ASSUME NEW t \in Senders, Midway(t)',
               aliasToNodeID'[t] # None, aliasToNodeID'[Destination(t)'] # None
        PROVE  Kept(t)'
    <2>1. sent \in [Senders -> Seq(SentMessage)] /\ position \in [Senders -> Nat]
      BY DEF Types
    <2>2. ASSUME NEW s \in Senders, sendMessage(s) PROVE Kept(t)'
      <3>1. s # t
        BY <1>8, <2>1, <2>2 DEF sendMessage, Midway
      <3>2. sent'[t] = sent[t] /\ position'[t] = position[t] /\ accumulator' = accumulator
        BY <2>1, <2>2, <3>1 DEF sendMessage
      <3> HIDE DEF Kept
      <3> QED BY <1>7, <1>8, <3>2
    <2>3. ASSUME NEW s \in Senders, Transmit(s), ~linkUp PROVE Kept(t)'
      <3>1. sent'[t] = sent[t] /\ accumulator' = accumulator
        BY <2>3 DEF Transmit
      <3>2. Key(t)' \in Keys
        BY <1>6, <1>8, <3>1
      <3> QED BY <1>1, <2>3, <3>1, <3>2 DEF Gapless
    <2>4. ASSUME NEW s \in Senders, Transmit(s), linkUp, s # t PROVE Kept(t)'
      <3>1. sent'[t] = sent[t] /\ position'[t] = position[t]
        BY <2>1, <2>4 DEF Transmit
      <3>2. Key(t)' \in Keys /\ Key(t)'[2] = aliasToNodeID'[t]
        BY <1>6, <1>8, <3>1
      <3>3. alive
        BY <1>1 DEF Gapless
      <3>4. accumulator'[Key(t)'] = accumulator[Key(t)']
        BY <2>4, <3>2, <3>3, OthersKeep
      <3> HIDE DEF Kept
      <3> QED BY <1>7, <1>8, <3>1, <3>4
    <2>5. ASSUME Transmit(t), linkUp PROVE Kept(t)'
      <3>1. sent'[t] = sent[t] /\ position'[t] = position[t] + 1
        BY <2>1, <2>5 DEF Transmit
      <3>2. alive
        BY <1>1 DEF Gapless
      <3>3. Newest(t)' = Newest(t) /\ Key(t)' = FrameKey(t) /\ FrameKey(t) \in Keys
        BY <1>6, <1>8, <2>5, <3>1, <3>2, Heard
      <3>4. ~Finished(t)
        BY <1>8, <3>1, <3>3 DEF Finished, Frames, Midway, Idle
      <3>5. CASE Dropped(t)
        BY <3>3, <3>5 DEF Dropped, Held, Missing, Partial
      <3>6. CASE Extended(t)
        <4>1. Joined(t) = Prefix(Newest(t).mti, Newest(t).data, position[t] + 1)
          BY <1>1, <2>5, <3>2, <3>6, HeldGapless DEF Extended
        <4>2. accumulator'[FrameKey(t)] = Partial(Joined(t))
          BY <3>3, <3>6 DEF Extended, Types
        <4> QED BY <3>1, <3>3, <4>1, <4>2
      <3> HIDE DEF Kept
      <3> QED BY <1>3, <2>5, <3>2, <3>4, <3>5, <3>6, Heard
    <2>6. CASE UNCHANGED <<sent, position, accumulator>>
      <3> HIDE DEF Kept
      <3> QED BY <1>7, <1>8, <2>6
    <2> HIDE DEF Kept
    <2> QED BY <1>2, <2>2, <2>3, <2>4, <2>5, <2>6
            DEF Next, vars, handleReceivedAMD, handleReceivedLinkUp
  <1> QED BY <1>4, <1>5, <1>8

\* No frame ends the receive thread while the link has not gone down: an entry that was
\* reset to None is found only by a frame whose start was lost (handleReceivedData).
THEOREM ReceiverAlive ==
  ASSUME OneUnknown, MaxOutages = 0
  PROVE  Spec => []ReceiverSurvives
  <1>1. Init => Types /\ Unused /\ Gapless
    BY InitTypes, InitUnused, InitGapless
  <1>2. Types /\ Unused /\ Gapless /\ [Next]_vars => (Types /\ Unused /\ Gapless)'
    BY NextTypes, UnusedStep, GaplessStep
  <1>3. Types /\ Unused /\ Gapless => ReceiverSurvives
    BY DEF Types, Gapless, ReceiverSurvives
  <1> QED BY <1>1, <1>2, <1>3, PTL DEF Spec

\* What a sender has sent stays.
LEMMA SentStays ==
  ASSUME Types, [Next]_vars, NEW s \in Senders, NEW k \in 1 .. Len(sent[s])
  PROVE  k \in 1 .. Len(sent'[s]) /\ sent'[s][k] = sent[s][k]
  <1>1. Len(sent[s]) \in Nat
    BY DEF Types
  <1> QED BY <1>1, SenderStep

\* The message that the last frame completes is the one that was sent.
LEMMA FinishedWhole ==
  ASSUME Types, Unused, Gapless, outages = 0, NEW s \in Senders, Transmit(s),
         linkUp, alive, Finished(s)
  PROVE  LET m == Newest(s) IN
         /\ Whole(s).mti = m.mti
         /\ Whole(s).data = m.data
         /\ Whole(s).source \in {m.source} \cup InternalIds
         /\ Whole(s).dest \in {m.dest} \cup InternalIds
  <1>1. ~Idle(s) /\ sent[s] # << >>
    BY Heard, NextFrameShape
  <1>2. Newest(s).source = IdOf[s]
    BY <1>1, NewestMessage
  <1>3. /\ FrameKey(s)[2] = aliasToNodeID'[s]
        /\ FrameKey(s)[3] = aliasToNodeID'[Destination(s)]
    BY Heard
  <1>4. Joined(s) = Newest(s).data
    BY HeldGapless DEF Finished
  <1> QED BY <1>2, <1>3, <1>4, SourceOwned DEF Whole

LEMMA WholeStep ==
  ASSUME Types, Unused, Gapless, WholeMessages, [Next]_vars
  PROVE  WholeMessages'
  <1> DEFINE From(r, s, k) ==
               /\ received[r].mti = sent[s][k].mti
               /\ received[r].data = sent[s][k].data
               /\ received[r].source \in {sent[s][k].source} \cup InternalIds
               /\ received[r].dest \in {sent[s][k].dest} \cup InternalIds
  <1> SUFFICES ASSUME outages' = 0, NEW r \in 1 .. Len(received')
               PROVE  \E s \in Senders : \E k \in 1 .. Len(sent'[s]) : From(r, s, k)'
    BY DEF WholeMessages
  <1>1. outages = 0
    <2>1. CASE handleReceivedLinkDown
      BY <2>1 DEF handleReceivedLinkDown, Types
    <2> QED BY <2>1 DEF Next, vars, sendMessage, Transmit, handleReceivedAMD,
                        handleReceivedLinkUp
  <1>2. received \in Seq(ReceivedMessage)
    BY DEF Types
  <1>3. CASE r \in 1 .. Len(received) /\ received'[r] = received[r]
    <2>1. PICK s \in Senders : \E k \in 1 .. Len(sent[s]) : From(r, s, k)
      BY <1>1, <1>3 DEF WholeMessages
    <2>2. PICK k \in 1 .. Len(sent[s]) : From(r, s, k)
      BY <2>1
    <2>3. k \in 1 .. Len(sent'[s]) /\ sent'[s][k] = sent[s][k]
      BY SentStays
    <2> QED BY <1>3, <2>2, <2>3
  <1>4. ASSUME NEW s \in Senders, Transmit(s), linkUp, alive, Finished(s),
               r = Len(received) + 1
        PROVE  \E k \in 1 .. Len(sent'[s]) : From(r, s, k)'
    <2> DEFINE n == Len(sent[s])
    <2>1. received'[r] = Whole(s)
      BY <1>2, <1>4 DEF Finished
    <2>2. sent' = sent /\ n \in 1 .. Len(sent[s])
      BY <1>4, Heard, NextFrameShape, NewestMessage DEF Transmit
    <2>3. sent'[s][n] = Newest(s)
      BY <2>2 DEF Newest
    <2>4. From(r, s, n)'
      BY <1>1, <1>4, <2>1, <2>2, <2>3, FinishedWhole
    <2> QED BY <2>2, <2>4
  <1>5. CASE received' = received
    BY <1>3, <1>5
  <1>6. ASSUME NEW s \in Senders, Transmit(s), linkUp, alive, Finished(s)
        PROVE  r = Len(received) + 1 \/ (r \in 1 .. Len(received) /\ received'[r] = received[r])
    BY <1>2, <1>6 DEF Finished
  <1> HIDE DEF From
  <1> QED BY <1>3, <1>4, <1>5, <1>6, AccumulatorStep DEF Extended

\* Until the link goes down, a message given to the listeners is one that was sent, with
\* all its bytes and none of another: neither the frames of other messages in between nor
\* those missed before the link came up show (handleReceivedData, sendMessage).
THEOREM MessagesWhole ==
  ASSUME OneUnknown
  PROVE  Spec => []WholeMessages
  <1>1. Init => Types /\ Unused /\ Gapless /\ WholeMessages
    <2>1. Init => WholeMessages
      BY DEF Init, WholeMessages
    <2> QED BY <2>1, InitTypes, InitUnused, InitGapless
  <1>2. Types /\ Unused /\ Gapless /\ WholeMessages /\ [Next]_vars
          => (Types /\ Unused /\ Gapless /\ WholeMessages)'
    BY NextTypes, UnusedStep, GaplessStep, WholeStep
  <1> QED BY <1>1, <1>2, PTL DEF Spec

-----------------------------------------------------------------------------
(* The receiver implements MessageBus. *)

\* A message counts as settled once its last frame was transmitted.
settled == [s \in Senders |-> IF Idle(s) THEN Len(sent[s]) ELSE Len(sent[s]) - 1]

LEMMA SettledKept ==
  ASSUME NEW s \in Senders, sent'[s] = sent[s], position'[s] = position[s]
  PROVE  settled'[s] = settled[s]
  BY DEF settled, Idle, Newest

LEMMA SendRefines ==
  ASSUME Types, NEW s \in Senders, sendMessage(s)
  PROVE  Bus!Send(s)
  <1> DEFINE n == Len(sent[s])
  <1>1. sent \in [Senders -> Seq(SentMessage)] /\ position \in [Senders -> Nat]
    BY DEF Types
  <1>2. PICK m \in MessagesOf(s, n + 1) : sent' = [sent EXCEPT ![s] = Append(@, m)]
    BY DEF sendMessage
  <1>3. n + 1 \in 1 .. MaxMessages
    BY <1>1, ConstantsAssumption DEF sendMessage
  <1>4. m \in BusMessages
    BY <1>3 DEF BusMessages
  <1>5. settled[s] = n
    BY DEF sendMessage, settled
  <1>6. settled'[s] = n
    <2>1. sent'[s] = Append(sent[s], m)
      BY <1>1, <1>2
    <2>2. Len(sent'[s]) = n + 1 /\ sent'[s] # << >> /\ position'[s] = 0 /\ n \in Nat
      <3>1. position'[s] = 0
        BY <1>1 DEF sendMessage
      <3>2. sent[s] \in Seq(SentMessage) /\ n \in Nat
        BY <1>1
      <3>3. Len(Append(sent[s], m)) = n + 1 /\ Append(sent[s], m) # << >>
        BY <3>2
      <3> QED BY <2>1, <3>1, <3>2, <3>3
    <2>3. Newest(s)' \in SentMessage
      <3>1. sent' \in [Senders -> Seq(SentMessage)]
        BY SendTypes DEF Types
      <3> QED BY <2>2, <3>1 DEF Newest
    <2>4. Len(Newest(s)'.data) \in Nat
      BY <2>3 DEF SentMessage
    <2>5. nSegments(Newest(s)'.mti, Len(Newest(s)'.data)) # 0
      BY <2>4, FrameCount
    <2>6. ~Idle(s)'
      BY <2>2, <2>5 DEF Idle
    <2> QED BY <2>2, <2>6 DEF settled
  <1>7. \A t \in Senders : settled'[t] = settled[t]
    <2> SUFFICES ASSUME NEW t \in Senders, t # s PROVE settled'[t] = settled[t]
      BY <1>5, <1>6
    <2>1. sent'[t] = sent[t] /\ position'[t] = position[t]
      BY <1>1, <1>2 DEF sendMessage
    <2> QED BY <2>1, SettledKept
  <1>8. settled' = settled
    BY <1>7 DEF settled
  <1>9. received' = received
    BY DEF sendMessage
  <1> QED BY <1>2, <1>4, <1>5, <1>8, <1>9 DEF Bus!Send, settled

LEMMA TransmitSettles ==
  ASSUME Types, NEW s \in Senders, Transmit(s)
  PROVE  /\ settled[s] = Len(sent[s]) - 1 /\ Len(sent[s]) \in Nat \ {0} /\ sent' = sent
         /\ position[s] + 1 # Frames(Newest(s)) => settled' = settled
         /\ position[s] + 1 = Frames(Newest(s))
              => settled' = [settled EXCEPT ![s] = settled[s] + 1]
  <1>1. ~Idle(s) /\ sent' = sent
    BY DEF Transmit
  <1>2. sent[s] # << >> /\ Len(sent[s]) \in Nat \ {0}
    BY <1>1, NextFrameShape, NewestMessage
  <1>3. /\ position'[s] = position[s] + 1
        /\ \A t \in Senders : t # s => position'[t] = position[t]
    BY DEF Transmit, Types
  <1>4. settled[s] = Len(sent[s]) - 1
    BY <1>1 DEF settled
  <1>5. Idle(s)' <=> position[s] + 1 = Frames(Newest(s))
    BY <1>1, <1>2, <1>3 DEF Idle, Newest, Frames
  <1>6. settled'[s] = IF position[s] + 1 = Frames(Newest(s)) THEN Len(sent[s])
                                                             ELSE Len(sent[s]) - 1
    BY <1>1, <1>5 DEF settled
  <1>7. \A t \in Senders : t # s => settled'[t] = settled[t]
    BY <1>1, <1>3, SettledKept
  <1>8. settled = [t \in Senders |-> settled[t]] /\ settled' = [t \in Senders |-> settled'[t]]
    BY DEF settled
  <1> HIDE DEF settled
  <1> QED BY <1>1, <1>2, <1>4, <1>6, <1>7, <1>8

LEMMA FinishedMessage ==
  ASSUME KnownAliases = Aliases, Types, Unused, Gapless, outages = 0,
         NEW s \in Senders, Transmit(s), linkUp, alive, Finished(s)
  PROVE  Whole(s) = Newest(s)
  <1>1. ~Idle(s) /\ sent[s] # << >>
    BY Heard, NextFrameShape
  <1>2. Newest(s) \in SentMessage /\ Newest(s).source = IdOf[s]
    BY <1>1, NewestMessage
  <1>3. \A a \in Aliases : aliasToNodeID'[a] = IdOf[a]
    BY TransmitTypes DEF Types
  <1>4. /\ aliasToNodeID'[s] = Newest(s).source
        /\ aliasToNodeID'[Destination(s)] = Newest(s).dest
    BY <1>1, <1>2, <1>3, DestinationAlias, ConstantsAssumption
  <1>5. Joined(s) = Newest(s).data
    BY HeldGapless DEF Finished
  <1>6. Newest(s) = [mti |-> Newest(s).mti, source |-> Newest(s).source,
                     dest |-> Newest(s).dest, data |-> Newest(s).data]
    BY <1>2 DEF SentMessage
  <1> QED BY <1>4, <1>5, <1>6 DEF Whole

LEMMA TransmitRefines ==
  ASSUME KnownAliases = Aliases, Types, Unused, Gapless, outages = 0,
         NEW s \in Senders, Transmit(s)
  PROVE  Bus!Receive(s) \/ Bus!Miss(s) \/ UNCHANGED <<sent, settled, received>>
  <1>1. CASE position[s] + 1 # Frames(Newest(s))
    <2>1. received' = received
      <3>1. CASE linkUp /\ alive
        BY <1>1, <3>1, Heard DEF Dropped, Died, Extended, Finished
      <3>2. CASE ~(linkUp /\ alive)
        BY <3>2 DEF Transmit
      <3> QED BY <3>1, <3>2
    <2> QED BY <1>1, <2>1, TransmitSettles
  <1>2. CASE position[s] + 1 = Frames(Newest(s))
    <2>1. Bus!Settle(s)
      BY <1>2, TransmitSettles DEF Bus!Settle, settled
    <2>2. CASE received' = received
      BY <2>1, <2>2 DEF Bus!Miss
    <2>3. CASE linkUp /\ alive /\ Finished(s)
      <3>1. received' = Append(received, Newest(s))
        BY <2>3, FinishedMessage DEF Finished
      <3> QED BY <2>1, <3>1 DEF Bus!Receive, Newest
    <2>4. CASE ~(linkUp /\ alive)
      BY <2>2, <2>4 DEF Transmit
    <2> QED BY <1>2, <2>2, <2>3, <2>4, Heard DEF Dropped, Died, Extended
  <1> QED BY <1>1, <1>2

\* A receiver that knows every alias, and whose link does not go down once it is up, is a
\* MessageBus: each message that a node sends (sendMessage) is given to the listeners
\* whole, once and in its sender's order, or not at all (handleReceivedData).
THEOREM BusImplemented ==
  ASSUME KnownAliases = Aliases, MaxOutages = 0
  PROVE  Spec => ImplementsMessageBus
  <1>1. OneUnknown
    BY DEF OneUnknown
  <1>2. Init => Bus!Init
    <2> SUFFICES ASSUME Init PROVE Bus!Init
      OBVIOUS
    <2>1. \A s \in Senders : Idle(s) /\ Len(sent[s]) = 0
      BY DEF Init, Idle
    <2>2. settled = [s \in Senders |-> 0]
      BY <2>1 DEF settled
    <2> QED BY <2>2 DEF Init, Bus!Init, settled
  <1>3. Types /\ Unused /\ Gapless /\ [Next]_vars => [Bus!Next]_<<sent, settled, received>>
    <2> SUFFICES ASSUME Types, Unused, Gapless, [Next]_vars
                 PROVE  Bus!Next \/ UNCHANGED <<sent, settled, received>>
      OBVIOUS
    <2>1. outages = 0
      BY DEF Types
    <2>2. ASSUME NEW s \in Senders, sendMessage(s)
          PROVE  Bus!Next
      BY <2>2, SendRefines DEF Bus!Next
    <2>3. ASSUME NEW s \in Senders, Transmit(s)
          PROVE  Bus!Next \/ UNCHANGED <<sent, settled, received>>
      BY <2>1, <2>3, TransmitRefines DEF Bus!Next
    <2>4. CASE UNCHANGED <<sent, position, received>>
      BY <2>4 DEF settled, Idle, Newest
    <2> QED BY <2>2, <2>3, <2>4
            DEF Next, vars, handleReceivedAMD, handleReceivedLinkUp, handleReceivedLinkDown
  <1>4. Init => Types /\ Unused /\ Gapless
    BY InitTypes, InitUnused, InitGapless
  <1>5. Types /\ Unused /\ Gapless /\ [Next]_vars => (Types /\ Unused /\ Gapless)'
    BY <1>1, NextTypes, UnusedStep, GaplessStep
  <1> QED BY <1>2, <1>3, <1>4, <1>5, PTL
          DEF Spec, ImplementsMessageBus, Bus!Spec, settled

=============================================================================
