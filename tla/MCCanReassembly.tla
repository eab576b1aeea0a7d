-------------------------- MODULE MCCanReassembly --------------------------
(***************************************************************************)
(* Nodes x, y and z send; r only receives.                                 *)
(***************************************************************************)
EXTENDS CanReassembly

CONSTANTS x, y, z, r, idX, idY, idZ, idR

\* A first message of no bytes, or of one more than a frame of either format
\* holds; a second one of two full frames or of three.
EdgeSizes == <<{0, 7, 9}, {16}>>
OneSize == <<{13}, {13}>>
TwoSizes == <<{9, 16}>>

NodeIdOf == [a \in Aliases |->
               CASE a = x -> idX [] a = y -> idY [] a = z -> idZ [] a = r -> idR]

=============================================================================
