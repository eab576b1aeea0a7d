----------------------------- MODULE MessageBus -----------------------------
(***************************************************************************)
(* What the frame layer promises to the layers above it: every message     *)
(* that a node puts on the bus is received once, whole and in the order of *)
(* its sender, or not at all.  Messages of different senders are received  *)
(* in any order.                                                           *)
(***************************************************************************)
EXTENDS Naturals, Sequences

CONSTANTS
    Senders,
    Messages

VARIABLES
    sent,       \* what each sender has begun to send
    settled,    \* how many of them have been received or missed
    received    \* what the receiver has been given

Init ==
    /\ sent = [s \in Senders |-> << >>]
    /\ settled = [s \in Senders |-> 0]
    /\ received = << >>

\* A sender begins a message once its last one is on the bus.
Send(s) == \E m \in Messages :
    /\ settled[s] = Len(sent[s])
    /\ sent' = [sent EXCEPT ![s] = Append(@, m)]
    /\ UNCHANGED <<settled, received>>

Settle(s) ==
    /\ settled[s] < Len(sent[s])
    /\ settled' = [settled EXCEPT ![s] = @ + 1]
    /\ UNCHANGED sent

Receive(s) == Settle(s) /\ received' = Append(received, sent[s][Len(sent[s])])

Miss(s) == Settle(s) /\ UNCHANGED received

Next == \E s \in Senders : Send(s) \/ Receive(s) \/ Miss(s)

Spec == Init /\ [][Next]_<<sent, settled, received>>

=============================================================================
