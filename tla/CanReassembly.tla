---------------------------- MODULE CanReassembly ----------------------------
(***************************************************************************)
(* How src/openlcb/canbus/canlink.py cuts addressed messages and datagrams *)
(* into frames (sendMessage) and puts them together again                  *)
(* (handleReceivedData), seen by one receiver on a bus where the frames of *)
(* several senders interleave.                                             *)
(*                                                                         *)
(* A sender transmits one message at a time, frame by frame; a frame is    *)
(* handled when it is transmitted, or lost while the receiver's link is    *)
(* down.  Aliases do not collide here: that is CanLink's subject.          *)
(***************************************************************************)
EXTENDS Integers, Sequences

CONSTANTS
    Aliases,      \* aliases of the nodes on the bus
    Senders,      \* those that send
    Ids,          \* node IDs
    IdOf,         \* the node ID behind each alias
    KnownAliases, \* aliases whose AMD came before the first frame here
    Mtis,         \* "Datagram" and the addressed MTIs
    Sizes,        \* lengths in bytes of a sender's first, second... message
    None,         \* no entry in a dictionary
    MaxMessages,  \* bound: messages of one sender
    MaxInternal,  \* bound: internal node IDs
    MaxOutages    \* bound: times the link goes down after it has come up

ASSUME ConstantsAssumption ==
    /\ Senders \subseteq Aliases
    /\ KnownAliases \subseteq Aliases
    /\ IdOf \in [Aliases -> Ids]
    /\ \A id \in Ids : \E a \in Aliases : IdOf[a] = id
    /\ \A a, b \in Aliases : IdOf[a] = IdOf[b] => a = b
    /\ None \notin Ids
    /\ \A id \in Ids : id \notin Nat  \* internal node IDs are never real ones
    /\ Sizes \in [1 .. MaxMessages -> SUBSET Nat]
    /\ None \notin Nat
    /\ MaxMessages \in Nat
    /\ MaxInternal \in Nat \ {0}
    /\ MaxOutages \in Nat

VARIABLES
    sent,          \* the messages each sender has begun
    position,      \* how many frames of the last one it has transmitted
    linkUp,        \* the receiver's link is up
    alive,         \* the receive thread has not died of an exception
    aliasToNodeID, \* CanLink.aliasToNodeID
    nextInternal,  \* CanLink.nextInternallyAssignedNodeID
    accumulator,   \* CanLink.accumulator
    received,      \* the messages given to the listeners
    outages        \* for MaxOutages

vars == <<sent, position, linkUp, alive, aliasToNodeID, nextInternal,
          accumulator, received, outages>>

-----------------------------------------------------------------------------
(* Segmentation.  A byte is named by the message it belongs to and its     *)
(* place in it.                                                            *)

Payload(s, number, size) == [i \in 1 .. size |-> <<s, number, i>>]

\* The bytes of data one frame holds: an addressed frame spends two on its
\* destination.
Room(mti) == IF mti = "Datagram" THEN 8 ELSE 6

\* Mutant: integer division without rounding up.
nSegments_floor(mti, size) ==
    LET n == size \div Room(mti) IN IF n = 0 THEN 1 ELSE n

nSegments(mti, size) ==
    LET n == (size + Room(mti) - 1) \div Room(mti) IN IF n = 0 THEN 1 ELSE n

Lesser(x, y) == IF x < y THEN x ELSE y

\* segmentDatagramDataArray and segmentAddressedDataArray
Segment(mti, data, i) ==
    SubSeq(data, Room(mti) * (i - 1) + 1, Lesser(Room(mti) * i, Len(data)))

-----------------------------------------------------------------------------
(* A sender. *)

Newest(s) == sent[s][Len(sent[s])]

\* Mutant: one frame too many.
Idle_oneMore(s) ==
    sent[s] # << >>
        => position[s] = nSegments(Newest(s).mti, Len(Newest(s).data)) + 1

Idle(s) ==
    sent[s] # << >>
        => position[s] = nSegments(Newest(s).mti, Len(Newest(s).data))

\* The sender's nodeIdToAlias, complete here.
nodeIdToAlias == [id \in Ids |-> CHOOSE a \in Aliases : IdOf[a] = id]

\* Mutant: the last frame is not marked as the last.
NextFrame_noEnd(s) ==
    LET m == Newest(s)
        i == position[s] + 1
    IN [mti |-> m.mti, src |-> s, dst |-> nodeIdToAlias[m.dest],
        start |-> i = 1,
        end |-> FALSE,
        data |-> Segment(m.mti, m.data, i)]

\* The next frame of s: whether it is the first and the last of its message,
\* and the bytes it carries.
NextFrame(s) ==
    LET m == Newest(s)
        i == position[s] + 1
    IN [mti |-> m.mti, src |-> s, dst |-> nodeIdToAlias[m.dest],
        start |-> i = 1,
        end |-> i = nSegments(m.mti, Len(m.data)),
        data |-> Segment(m.mti, m.data, i)]

Message(s, number, mti, dest, size) ==
    [mti |-> mti, source |-> IdOf[s], dest |-> dest,
     data |-> Payload(s, number, size)]

\* The messages that may be the sender's number-th.
MessagesOf(s, number) ==
    {Message(s, number, mti, dest, size) :
       mti \in Mtis, dest \in Ids \ {IdOf[s]}, size \in Sizes[number]}

sendMessage(s) ==
    /\ Idle(s)
    /\ Len(sent[s]) < MaxMessages
    /\ \E message \in MessagesOf(s, Len(sent[s]) + 1) :
          sent' = [sent EXCEPT ![s] = Append(@, message)]
    /\ position' = [position EXCEPT ![s] = 0]
    /\ UNCHANGED <<linkUp, alive, aliasToNodeID, nextInternal, accumulator,
                   received, outages>>

-----------------------------------------------------------------------------
(* The receiver. *)

\* An unknown source is given a new internal node ID.
MapAfterSource(f) ==
    IF aliasToNodeID[f.src] # None THEN aliasToNodeID
    ELSE [aliasToNodeID EXCEPT ![f.src] = nextInternal]

nextAfterSource(f) ==
    IF aliasToNodeID[f.src] # None THEN nextInternal ELSE nextInternal + 1

\* An unknown destination is given the next internal node ID as well, but the
\* counter stays where it is.
MapAfterDest(f) ==
    IF MapAfterSource(f)[f.dst] # None THEN MapAfterSource(f)
    ELSE [MapAfterSource(f) EXCEPT ![f.dst] = nextAfterSource(f)]

\* Mutant: the source is left out of the key.
AccumKey_noSource(f) ==
    <<f.mti, MapAfterDest(f)[f.dst], MapAfterDest(f)[f.dst]>>

AccumKey(f) == <<f.mti, MapAfterDest(f)[f.src], MapAfterDest(f)[f.dst]>>

\* What accumulator.get(key) can tell: nothing, an entry that was reset to
\* Python's None when its message was shipped, or the bytes so far.
Missing == [held |-> "missing"]
Shipped == [held |-> "None"]
Partial(bytes) == [held |-> "list", bytes |-> bytes]

\* Mutant: a start frame creates its entry only if there is none.
Started_keepsEntry(f) ==
    IF f.start /\ accumulator[AccumKey(f)] = Missing THEN Partial(<< >>)
    ELSE accumulator[AccumKey(f)]

Started(f) == IF f.start THEN Partial(<< >>) ELSE accumulator[AccumKey(f)]

HandleAliases(f) ==
    /\ nextAfterSource(f) <= MaxInternal
    /\ aliasToNodeID' = MapAfterDest(f)
    /\ nextInternal' = nextAfterSource(f)

DropFrame(f) ==
    /\ Started(f) = Missing
    /\ UNCHANGED <<alive, accumulator, received>>

\* None has no extend(): the exception ends the receive thread, which guards
\* only the read from the link.
DieOnFrame(f) ==
    /\ Started(f) = Shipped
    /\ alive' = FALSE
    /\ UNCHANGED <<accumulator, received>>

Accumulate(f) ==
    /\ Started(f).held = "list"
    /\ LET bytes == Started(f).bytes \o f.data
           key == AccumKey(f)
       IN IF f.end
          THEN /\ accumulator' = [accumulator EXCEPT ![key] = Shipped]
               /\ received' = Append(received,
                     [mti |-> f.mti, source |-> key[2], dest |-> key[3],
                      data |-> bytes])
          ELSE /\ accumulator' = [accumulator EXCEPT ![key] = Partial(bytes)]
               /\ UNCHANGED received
    /\ UNCHANGED alive

handleReceivedData(f) ==
    /\ HandleAliases(f)
    /\ DropFrame(f) \/ DieOnFrame(f) \/ Accumulate(f)

Transmit(s) ==
    /\ ~Idle(s)
    /\ position' = [position EXCEPT ![s] = @ + 1]
    /\ IF linkUp /\ alive
       THEN handleReceivedData(NextFrame(s))
       ELSE UNCHANGED <<alive, aliasToNodeID, nextInternal, accumulator,
                        received>>
    /\ UNCHANGED <<sent, linkUp, outages>>

handleReceivedAMD(a) ==
    /\ linkUp /\ alive
    /\ aliasToNodeID[a] # IdOf[a]  \* else nothing changes
    /\ aliasToNodeID' = [aliasToNodeID EXCEPT ![a] = IdOf[a]]
    /\ UNCHANGED <<sent, position, linkUp, alive, nextInternal, accumulator,
                   received, outages>>

handleReceivedLinkUp ==
    /\ ~linkUp /\ alive
    /\ linkUp' = TRUE
    /\ UNCHANGED <<sent, position, alive, aliasToNodeID, nextInternal,
                   accumulator, received, outages>>

\* The accumulator is not emptied.
handleReceivedLinkDown ==
    /\ linkUp /\ alive
    /\ outages < MaxOutages
    /\ linkUp' = FALSE
    /\ outages' = outages + 1
    /\ UNCHANGED <<sent, position, alive, aliasToNodeID, nextInternal,
                   accumulator, received>>

-----------------------------------------------------------------------------
InternalIds == 1 .. MaxInternal
Keys == Mtis \X (Ids \cup InternalIds) \X (Ids \cup InternalIds)

Init ==
    /\ sent = [s \in Senders |-> << >>]
    /\ position = [s \in Senders |-> 0]
    /\ linkUp = FALSE
    /\ alive = TRUE
    /\ aliasToNodeID = [a \in Aliases |->
                          IF a \in KnownAliases THEN IdOf[a] ELSE None]
    /\ nextInternal = 1
    /\ accumulator = [k \in Keys |-> Missing]
    /\ received = << >>
    /\ outages = 0

Next ==
    \/ \E s \in Senders : sendMessage(s) \/ Transmit(s)
    \/ \E a \in Aliases : handleReceivedAMD(a)
    \/ handleReceivedLinkUp
    \/ handleReceivedLinkDown

Spec == Init /\ [][Next]_vars

\* A bus transmits what a node has begun to send.
Fairness == \A s \in Senders : WF_vars(Transmit(s))
FairSpec == Spec /\ Fairness

-----------------------------------------------------------------------------
(* What is checked. *)

TypeOK ==
    /\ \A s \in Senders : \A k \in 1 .. Len(sent[s]) :
          sent[s][k] \in MessagesOf(s, k)
    /\ \A s \in Senders :
          position[s] \in 0 .. IF sent[s] = << >> THEN 0 ELSE
                               nSegments(Newest(s).mti, Len(Newest(s).data))
    /\ linkUp \in BOOLEAN
    /\ alive \in BOOLEAN
    /\ aliasToNodeID \in [Aliases -> Ids \cup InternalIds \cup {None}]
    /\ nextInternal \in 1 .. MaxInternal
    /\ DOMAIN accumulator = Keys
    /\ \A k \in Keys : accumulator[k].held \in {"missing", "None", "list"}
    /\ \A r \in 1 .. Len(received) :
          <<received[r].mti, received[r].source, received[r].dest>> \in Keys
    /\ outages \in 0 .. MaxOutages

\* Every message given to the listeners is one that was sent, with all its
\* bytes and none of another: the frames of other messages in between, and
\* the frames missed before the link came up, do not show.
WholeMessages ==
    outages = 0 =>
    \A r \in 1 .. Len(received) :
        \E s \in Senders : \E k \in 1 .. Len(sent[s]) :
            /\ received[r].mti = sent[s][k].mti
            /\ received[r].data = sent[s][k].data
            /\ received[r].source \in {sent[s][k].source} \cup InternalIds
            /\ received[r].dest \in {sent[s][k].dest} \cup InternalIds

\* Frames lost in an outage leave gaps that nobody notices, so a message may
\* lack bytes or end with those of a later one; but all are its sender's, in
\* the order they were sent, to the same node and with the same MTI.
Precedes(u, v) == u[2] < v[2] \/ (u[2] = v[2] /\ u[3] < v[3])

OneConversation ==
    \A r \in 1 .. Len(received) :
        LET m == received[r]
            From(s, u) ==
                /\ u[1] = s
                /\ sent[s][u[2]].mti = m.mti
                /\ m.source \in {IdOf[s]} \cup InternalIds
                /\ m.dest \in {sent[s][u[2]].dest} \cup InternalIds
        IN /\ \E s \in Senders : \A i \in 1 .. Len(m.data) : From(s, m.data[i])
           /\ \A i \in 1 .. Len(m.data) - 1 : Precedes(m.data[i], m.data[i + 1])

\* No frame ends the receive thread.
ReceiverSurvives == alive

\* A message begun while the link is up reaches the listeners.
Delivered(s, k) ==
    \E r \in 1 .. Len(received) :
        /\ received[r].data = sent[s][k].data
        /\ received[r].source = sent[s][k].source

EveryMessageArrives ==
    \A s \in Senders : \A k \in 1 .. MaxMessages :
        (linkUp /\ Len(sent[s]) = k /\ position[s] = 0)
            ~> (k <= Len(sent[s]) /\ Delivered(s, k))

\* The receiver is a MessageBus when it knows all aliases: a message in
\* transmission is not settled yet.
BusMessages ==
    UNION {MessagesOf(s, k) : s \in Senders, k \in 1 .. MaxMessages}

Bus == INSTANCE MessageBus WITH
    Messages <- BusMessages,
    settled <- [s \in Senders |-> IF Idle(s) THEN Len(sent[s])
                                             ELSE Len(sent[s]) - 1]

\* Every behaviour is one of MessageBus: whole, once, in the sender's order.
ImplementsMessageBus == Bus!Spec

=============================================================================
