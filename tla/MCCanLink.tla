----------------------------- MODULE MCCanLink -----------------------------
(***************************************************************************)
(* Two programs on one bus.  Both first compute alias a; after a collision *)
(* one goes on to b and c, the other to b and back to a, so that they      *)
(* collide a second time in some interleavings and part in the others.     *)
(***************************************************************************)
EXTENDS CanLink

CONSTANTS n1, n2, i1, i2, a, b, c

BothNodes == {n1, n2}
OwnIds == [n \in BothNodes |-> IF n = n1 THEN i1 ELSE i2]
SameIds == [n \in BothNodes |-> i1]
SixSeeds == 1 .. 6
FirstSeeds == [n \in BothNodes |-> IF n = n1 THEN 1 ELSE 4]
SeedCycles == [s \in SixSeeds |-> CASE s = 3 -> 1 [] s = 6 -> 4 [] OTHER -> s + 1]
SeedAliases == <<a, b, c, a, b, a>>

=============================================================================
