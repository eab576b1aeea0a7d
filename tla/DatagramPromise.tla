-------------------------- MODULE DatagramPromise --------------------------
(***************************************************************************)
(* What the datagram service promises its users: datagrams are handled in  *)
(* the order they were submitted, each at least once, and a user is told   *)
(* the outcome of each of its datagrams once, after it was handled.        *)
(***************************************************************************)
EXTENDS Naturals, Sequences

CONSTANTS
    Nodes,     \* where datagrams go
    Outcomes   \* what a user is told

VARIABLES
    submitted,  \* memos [dest, number] in the order of submission
    handled,    \* memos in the order the destinations handled them
    answered    \* [memo, outcome] in the order the users were told

Init ==
    /\ submitted = << >>
    /\ handled = << >>
    /\ answered = << >>

Submit == \E r \in Nodes :
    /\ submitted' = Append(submitted, [dest |-> r, number |-> Len(submitted) + 1])
    /\ UNCHANGED <<handled, answered>>

\* The oldest datagram whose outcome is not known yet.
Outstanding == submitted[Len(answered) + 1]

Handle ==
    /\ Len(answered) < Len(submitted)
    /\ handled' = Append(handled, Outstanding)
    /\ UNCHANGED <<submitted, answered>>

Answer == \E outcome \in Outcomes :
    /\ Len(answered) < Len(submitted)
    /\ \E k \in 1 .. Len(handled) : handled[k] = Outstanding
    /\ answered' = Append(answered, [memo |-> Outstanding, outcome |-> outcome])
    /\ UNCHANGED <<submitted, handled>>

Spec == Init /\ [][Submit \/ Handle \/ Answer]_<<submitted, handled, answered>>

=============================================================================
