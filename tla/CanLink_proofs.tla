--------------------------- MODULE CanLink_proofs ---------------------------
(***************************************************************************)
(* Proofs about CanLink, for any number of programs, aliases and frames.   *)
(***************************************************************************)
EXTENDS CanLink, SequenceTheorems, TLAPS

-----------------------------------------------------------------------------
(* Sequences of frames. *)

LEMMA CarriesConcat ==
    ASSUME NEW q \in Seq(Frame), NEW r \in Seq(Frame), NEW a,
           Carries(q, a) \/ Carries(r, a)
    PROVE  Carries(q \o r, a)
<1>1. CASE Carries(q, a)
  <2>1. PICK k \in 1 .. Len(q) : q[k].alias = a
    BY <1>1 DEF Carries
  <2>2. k \in 1 .. Len(q \o r) /\ (q \o r)[k] = q[k]
    BY <2>1
  <2> QED
    BY <2>1, <2>2 DEF Carries
<1>2. CASE Carries(r, a)
  <2>1. PICK k \in 1 .. Len(r) : r[k].alias = a
    BY <1>2 DEF Carries
  <2>2. /\ Len(q) + k \in 1 .. Len(q \o r)
        /\ (q \o r)[Len(q) + k] = r[k]
    BY <2>1
  <2> QED
    BY <2>1, <2>2 DEF Carries
<1> QED
  BY <1>1, <1>2

LEMMA CarriesAppend ==
    ASSUME NEW q \in Seq(Frame), NEW f \in Frame, NEW a,
           Carries(q, a) \/ f.alias = a
    PROVE  Carries(Append(q, f), a)
<1>1. Append(q, f) = q \o <<f>>
  OBVIOUS
<1>2. <<f>> \in Seq(Frame)
  OBVIOUS
<1>3. CASE Carries(q, a)
  BY <1>1, <1>2, <1>3, CarriesConcat
<1>4. CASE f.alias = a
  <2>1. Carries(<<f>>, a)
    <3>1. 1 \in 1 .. Len(<<f>>) /\ <<f>>[1].alias = a
      BY <1>4
    <3> QED
      BY <3>1 DEF Carries
  <2> QED
    BY <1>1, <1>2, <2>1, CarriesConcat
<1> QED
  BY <1>3, <1>4

\* Taking the first frame loses an alias only if that frame carried it.
LEMMA CarriesTail ==
    ASSUME NEW q \in Seq(Frame), q # << >>, NEW a,
           Carries(q, a), Head(q).alias # a
    PROVE  Carries(Tail(q), a)
<1>1. PICK k \in 1 .. Len(q) : q[k].alias = a
  BY DEF Carries
<1>2. k # 1
  BY <1>1
<1>3. /\ k - 1 \in 1 .. Len(Tail(q))
      /\ Tail(q)[k - 1] = q[k]
  BY <1>1, <1>2
<1> QED
  BY <1>1, <1>3 DEF Carries

-----------------------------------------------------------------------------
(* The frames a handler sends. *)

LEMMA MkFrameType ==
    ASSUME NEW kind \in Kinds, NEW a \in WireAliases,
           NEW id \in Ids \cup {None}
    PROVE  MkFrame(kind, a, id) \in Frame /\ MkFrame(kind, a, id).alias = a
BY DEF MkFrame, Frame

LEMMA AllocationFramesType ==
    ASSUME NEW n \in Nodes, NEW a \in Aliases
    PROVE  /\ AllocationFrames(n, a) \in Seq(Frame)
           /\ Carries(AllocationFrames(n, a), a)
<1> DEFINE cids == [i \in 1 .. CidFrames |-> MkFrame("CID", a, None)]
           rid == MkFrame("RID", a, None)
           last == <<MkFrame("AMD", a, IdOf[n]), MkFrame("AME", a, None)>>
<1>1. a \in WireAliases /\ IdOf[n] \in Ids
  BY ConstantsAssumption DEF WireAliases
<1>2. /\ MkFrame("CID", a, None) \in Frame
      /\ rid \in Frame /\ rid.alias = a
      /\ MkFrame("AMD", a, IdOf[n]) \in Frame
      /\ MkFrame("AME", a, None) \in Frame
  BY <1>1, MkFrameType DEF Kinds
<1>3. cids \in Seq(Frame)
  <2>1. CidFrames \in Nat
    BY ConstantsAssumption
  <2>2. cids \in [1 .. CidFrames -> Frame]
    BY <1>2
  <2> QED
    BY <2>1, <2>2, SeqDef
<1>4. <<rid>> \in Seq(Frame) /\ last \in Seq(Frame)
  BY <1>2
<1>5. Carries(<<rid>>, a)
  <2>1. 1 \in 1 .. Len(<<rid>>) /\ <<rid>>[1] = rid
    OBVIOUS
  <2> QED
    BY <1>2, <2>1 DEF Carries
<1>6. Carries(cids \o <<rid>>, a) /\ cids \o <<rid>> \in Seq(Frame)
  BY <1>3, <1>4, <1>5, CarriesConcat, ConcatProperties
<1>7. /\ Carries((cids \o <<rid>>) \o last, a)
      /\ (cids \o <<rid>>) \o last \in Seq(Frame)
  BY <1>4, <1>6, CarriesConcat, ConcatProperties
<1>8. AllocationFrames(n, a) = (cids \o <<rid>>) \o last
  BY DEF AllocationFrames, sendAliasAllocationSequence
<1> QED
  BY <1>7, <1>8
\* What defineAndReserveAlias leaves behind: a Permitted program with its new
\* alias in its maps, and a frame with that alias on the way to the others.
LEMMA Reserve ==
    ASSUME TypeOK, NEW n \in Nodes, NEW a \in Aliases,
           NEW before \in Seq(Frame),
           defineAndReserveAlias(n, a, before)
    PROVE  /\ state' \in [Nodes -> {"Initial", "Inhibited", "Permitted"}]
           /\ state' = [state EXCEPT ![n] = "Permitted"]
           /\ aliasToNodeID' \in
                  [Nodes -> [WireAliases -> NodeIDs \cup {None}]]
           /\ aliasToNodeID' = [aliasToNodeID EXCEPT ![n][a] = IdOf[n]]
           /\ nodeIdToAlias' \in
                  [Nodes -> [NodeIDs -> WireAliases \cup {None}]]
           /\ nodeIdToAlias' = [nodeIdToAlias EXCEPT ![n][IdOf[n]] = a]
           /\ out' \in [Nodes -> Seq(Frame)]
           /\ Carries(out'[n], a)
           /\ \A m \in Nodes \ {n} : out'[m] = out[m]
<1>1. a \in WireAliases /\ IdOf[n] \in NodeIDs
  BY ConstantsAssumption DEF WireAliases, NodeIDs
<1>2. /\ AllocationFrames(n, a) \in Seq(Frame)
      /\ Carries(AllocationFrames(n, a), a)
  BY AllocationFramesType
<1>3. /\ before \o AllocationFrames(n, a) \in Seq(Frame)
      /\ Carries(before \o AllocationFrames(n, a), a)
  BY <1>2, CarriesConcat, ConcatProperties
<1>4. out[n] \in Seq(Frame)
  BY DEF TypeOK
<1>5. /\ out[n] \o (before \o AllocationFrames(n, a)) \in Seq(Frame)
      /\ Carries(out[n] \o (before \o AllocationFrames(n, a)), a)
  BY <1>3, <1>4, CarriesConcat, ConcatProperties
<1>6. /\ out' \in [Nodes -> Seq(Frame)]
      /\ out'[n] = out[n] \o (before \o AllocationFrames(n, a))
      /\ \A m \in Nodes \ {n} : out'[m] = out[m]
  BY <1>5 DEF TypeOK, defineAndReserveAlias, Emit
<1> QED
  BY <1>1, <1>5, <1>6 DEF TypeOK, defineAndReserveAlias

LEMMA Collision ==
    ASSUME TypeOK, NEW n \in Nodes, processCollision(n)
    PROVE  /\ seed' \in [Nodes -> Seeds]
           /\ alias' \in [Nodes -> Aliases]
           /\ \A m \in Nodes \ {n} : alias'[m] = alias[m]
           /\ state' \in [Nodes -> {"Initial", "Inhibited", "Permitted"}]
           /\ state' = [state EXCEPT ![n] = "Permitted"]
           /\ aliasToNodeID' \in
                  [Nodes -> [WireAliases -> NodeIDs \cup {None}]]
           /\ aliasToNodeID' = [aliasToNodeID EXCEPT
                                   ![n][alias'[n]] = IdOf[n]]
           /\ nodeIdToAlias' \in
                  [Nodes -> [NodeIDs -> WireAliases \cup {None}]]
           /\ nodeIdToAlias' = [nodeIdToAlias EXCEPT
                                   ![n][IdOf[n]] = alias'[n]]
           /\ out' \in [Nodes -> Seq(Frame)]
           /\ Carries(out'[n], alias'[n])
           /\ \A m \in Nodes \ {n} : out'[m] = out[m]
<1> DEFINE s == NextSeed[seed[n]]
           amr == MkFrame("AMR", alias[n], IdOf[n])
<1>1. s \in Seeds /\ AliasOf[s] \in Aliases
  BY ConstantsAssumption DEF TypeOK
<1>2. /\ seed' = [seed EXCEPT ![n] = s]
      /\ alias' = [alias EXCEPT ![n] = AliasOf[s]]
      /\ defineAndReserveAlias(n, AliasOf[s], <<amr>>)
  BY DEF processCollision
<1>3. alias'[n] = AliasOf[s]
  BY <1>2 DEF TypeOK
<1>4. <<amr>> \in Seq(Frame)
  <2>1. alias[n] \in WireAliases /\ IdOf[n] \in Ids
    BY ConstantsAssumption DEF TypeOK, WireAliases
  <2>2. amr \in Frame
    BY <2>1, MkFrameType DEF Kinds
  <2> QED
    BY <2>2
<1>5. /\ seed' \in [Nodes -> Seeds]
      /\ alias' \in [Nodes -> Aliases]
      /\ \A m \in Nodes \ {n} : alias'[m] = alias[m]
  BY <1>1, <1>2 DEF TypeOK
<1> HIDE DEF s, amr
<1> QED
  BY <1>1, <1>2, <1>3, <1>4, <1>5, Reserve

\* Frames sent without any other effect.
LEMMA Sent ==
    ASSUME TypeOK, NEW n \in Nodes, NEW f \in Frame, Emit(n, <<f>>)
    PROVE  /\ out' \in [Nodes -> Seq(Frame)]
           /\ Carries(out'[n], f.alias)
           /\ \A m \in Nodes, a \in WireAliases :
                  Carries(out[m], a) => Carries(out'[m], a)
<1>1. out[n] \in Seq(Frame) /\ <<f>> \in Seq(Frame)
  BY DEF TypeOK
<1>2. out' = [out EXCEPT ![n] = out[n] \o <<f>>]
  BY DEF Emit
<1>3. out[n] \o <<f>> \in Seq(Frame)
  BY <1>1, ConcatProperties
<1>4. out' \in [Nodes -> Seq(Frame)] /\ out'[n] = out[n] \o <<f>>
  BY <1>2, <1>3 DEF TypeOK
<1>5. Carries(<<f>>, f.alias)
  <2>1. 1 \in 1 .. Len(<<f>>) /\ <<f>>[1] = f
    OBVIOUS
  <2> QED
    BY <2>1 DEF Carries
<1>6. Carries(out'[n], f.alias)
  BY <1>1, <1>4, <1>5, CarriesConcat
<1>7. ASSUME NEW m \in Nodes, NEW a \in WireAliases, Carries(out[m], a)
      PROVE  Carries(out'[m], a)
  <2>1. CASE m = n
    BY <1>1, <1>4, <1>7, <2>1, CarriesConcat
  <2>2. CASE m # n
    BY <1>2, <1>7, <2>2 DEF TypeOK
  <2> QED
    BY <2>1, <2>2
<1> QED
  BY <1>4, <1>6, <1>7
-----------------------------------------------------------------------------
(* Type correctness. *)

LEMMA TakeType ==
    ASSUME TypeOK, NEW n \in Nodes, Take(n)
    PROVE  /\ frame(n) \in Frame
           /\ in' \in [Nodes -> Seq(Frame)]
           /\ in'[n] = Tail(in[n])
           /\ \A m \in Nodes \ {n} : in'[m] = in[m]
<1>1. in[n] \in Seq(Frame) /\ in[n] # << >>
  BY DEF TypeOK, Take
<1>2. Head(in[n]) \in Frame /\ Tail(in[n]) \in Seq(Frame)
  BY <1>1, HeadTailProperties
<1> QED
  BY <1>2 DEF TypeOK, Take, frame

\* What arrives at a node is what was in flight.
LEMMA ForwardType ==
    ASSUME TypeOK, NEW n \in Nodes, Forward(n)
    PROVE  /\ in' \in [Nodes -> Seq(Frame)]
           /\ out' \in [Nodes -> Seq(Frame)]
           /\ Head(out[n]) \in Frame
<1>1. out[n] \in Seq(Frame) /\ out[n] # << >>
  BY DEF TypeOK, Forward
<1>2. Head(out[n]) \in Frame /\ Tail(out[n]) \in Seq(Frame)
  BY <1>1, HeadTailProperties
<1>3. ASSUME NEW m \in Nodes
      PROVE  Append(in[m], Head(out[n])) \in Seq(Frame)
  <2>1. in[m] \in Seq(Frame)
    BY DEF TypeOK
  <2> QED
    BY <1>2, <2>1
<1> QED
  BY <1>2, <1>3 DEF TypeOK, Forward

\* One entry of a program's maps changes.
LEMMA EntryType ==
    ASSUME TypeOK, NEW n \in Nodes, NEW a \in WireAliases,
           NEW id \in NodeIDs \cup {None}
    PROVE  /\ \A v \in NodeIDs \cup {None} :
                  [aliasToNodeID EXCEPT ![n][a] = v]
                      \in [Nodes -> [WireAliases -> NodeIDs \cup {None}]]
           /\ \A v \in WireAliases \cup {None} :
                  [nodeIdToAlias EXCEPT ![n][id] = v]
                      \in [Nodes -> [NodeIDs -> WireAliases \cup {None}]]
BY DEF TypeOK

LEMMA TypeStep ==
    ASSUME TypeOK, [Next]_vars
    PROVE  TypeOK'
<1> USE ConstantsAssumption
<1>1. CASE UNCHANGED vars
  BY <1>1 DEF TypeOK, vars
<1>2. ASSUME NEW n \in Nodes, Forward(n)
      PROVE  TypeOK'
  BY <1>2, ForwardType DEF TypeOK, Forward
<1>3. ASSUME NEW n \in Nodes, handleReceivedLinkUp(n)
      PROVE  TypeOK'
  <2>1. alias[n] \in Aliases /\ << >> \in Seq(Frame)
    BY DEF TypeOK
  <2>2. defineAndReserveAlias(n, alias[n], << >>)
    BY <1>3 DEF handleReceivedLinkUp
  <2>3. /\ state' \in [Nodes -> {"Initial", "Inhibited", "Permitted"}]
        /\ aliasToNodeID' \in [Nodes -> [WireAliases -> NodeIDs \cup {None}]]
        /\ nodeIdToAlias' \in [Nodes -> [NodeIDs -> WireAliases \cup {None}]]
        /\ out' \in [Nodes -> Seq(Frame)]
    BY <2>1, <2>2, Reserve
  <2> QED
    BY <1>3, <2>3 DEF TypeOK, handleReceivedLinkUp
<1>4. ASSUME NEW n \in Nodes, handleReceivedLinkRestarted(n)
      PROVE  TypeOK'
  BY <1>4 DEF TypeOK, handleReceivedLinkRestarted
<1>5. ASSUME NEW n \in Nodes, handleReceivedLinkDown(n)
      PROVE  TypeOK'
  <2>1. << >> \in Seq(Frame)
    OBVIOUS
  <2> QED
    BY <1>5, <2>1 DEF TypeOK, handleReceivedLinkDown, LoseQueues
<1>6. ASSUME NEW n \in Nodes, Restart(n)
      PROVE  TypeOK'
  <2>1. << >> \in Seq(Frame) /\ 1 \in 1 .. MaxInternal + 1
    OBVIOUS
  <2>2. /\ [a \in WireAliases |-> None]
               \in [WireAliases -> NodeIDs \cup {None}]
        /\ [i \in NodeIDs |-> None] \in [NodeIDs -> WireAliases \cup {None}]
    OBVIOUS
  <2>3. FirstSeed[n] \in Seeds /\ AliasOf[FirstSeed[n]] \in Aliases
    OBVIOUS
  <2> QED
    BY <1>6, <2>1, <2>2, <2>3 DEF TypeOK, Restart, LoseQueues
<1>7. ASSUME NEW n \in Nodes, SendData(n)
      PROVE  TypeOK'
  <2> DEFINE own == nodeIdToAlias[n][IdOf[n]]
             src == IF own = None THEN ZeroAlias ELSE own
  <2>1. PICK kind \in {"Verified", "Data"} :
            Emit(n, <<MkFrame(kind, src, IF kind = "Verified"
                                          THEN IdOf[n] ELSE None)>>)
    BY <1>7 DEF SendData
  <2>2. src \in WireAliases
    BY DEF TypeOK, WireAliases, NodeIDs
  <2>3. MkFrame(kind, src, IF kind = "Verified" THEN IdOf[n] ELSE None)
            \in Frame
    BY <2>2, MkFrameType DEF Kinds
  <2>4. out' \in [Nodes -> Seq(Frame)]
    BY <2>1, <2>3, Sent
  <2> QED
    BY <1>7, <2>4 DEF TypeOK, SendData
<1>8. ASSUME NEW n \in Nodes, QueryAlias(n)
      PROVE  TypeOK'
  <2>1. PICK id \in Ids \cup {None} : Emit(n, <<MkFrame("AME", alias[n], id)>>)
    BY <1>8 DEF QueryAlias
  <2>2. MkFrame("AME", alias[n], id) \in Frame
    BY MkFrameType DEF Kinds, TypeOK, WireAliases
  <2>3. out' \in [Nodes -> Seq(Frame)]
    BY <2>1, <2>2, Sent
  <2> QED
    BY <1>8, <2>3 DEF TypeOK, QueryAlias
<1>9. ASSUME NEW n \in Nodes, Receive(n)
      PROVE  TypeOK'
  <2>1. Take(n)
    BY <1>9 DEF Receive, TakeClear, handleReceivedCID, handleReceivedRID,
                checkAndHandleAliasCollision, duplicateNodeID,
                handleReceivedAMD, handleReceivedAME, handleReceivedAMR,
                handleReceivedData
  <2>2. /\ frame(n) \in Frame
        /\ in' \in [Nodes -> Seq(Frame)]
        /\ UNCHANGED <<linked, sends, outages>>
    BY <2>1, TakeType DEF Take
  <2>3. /\ frame(n).alias \in WireAliases
        /\ frame(n).id \in Ids \cup {None}
        /\ frame(n).kind \in Kinds
    BY <2>2 DEF Frame
  <2>4. CASE handleReceivedCID(n)
    <3>1. MkFrame("RID", alias[n], None) \in Frame
      BY MkFrameType DEF Kinds, TypeOK, WireAliases
    <3>2. out' \in [Nodes -> Seq(Frame)]
      BY <2>4, <3>1, Sent DEF handleReceivedCID, TypeOK
    <3> QED
      BY <2>2, <2>4, <3>2 DEF TypeOK, handleReceivedCID
  <2>5. CASE checkAndHandleAliasCollision(n)
    <3>1. processCollision(n)
      BY <2>5 DEF checkAndHandleAliasCollision
    <3> QED
      BY <2>2, <2>5, <3>1, Collision DEF TypeOK, checkAndHandleAliasCollision
  <2>6. CASE handleReceivedRID(n)
    BY <2>2, <2>6 DEF TypeOK, handleReceivedRID
  <2>7. CASE duplicateNodeID(n)
    <3>1. processCollision(n) /\ duplicates' \in 0 .. MaxDuplicates
      BY <2>7 DEF duplicateNodeID, TypeOK
    <3> QED
      BY <2>2, <2>7, <3>1, Collision DEF TypeOK, duplicateNodeID
  <2>8. CASE handleReceivedAMD(n)
    BY <2>2, <2>3, <2>8 DEF TypeOK, handleReceivedAMD, NodeIDs
  <2>9. CASE handleReceivedAME(n)
    <3>1. MkFrame("AMD", alias[n], IdOf[n]) \in Frame
      BY MkFrameType DEF Kinds, TypeOK, WireAliases
    <3>2. out' \in [Nodes -> Seq(Frame)]
      BY <2>9, <3>1, Sent DEF handleReceivedAME, TypeOK
    <3> QED
      BY <2>2, <2>9, <3>2 DEF TypeOK, handleReceivedAME
  <2>10. CASE handleReceivedAMR(n)
    <3> DEFINE id == frame(n).id
               a == frame(n).alias
    <3>1. id \in NodeIDs \cup {None} /\ a \in WireAliases
      BY <2>3 DEF NodeIDs
    <3>2. /\ [aliasToNodeID EXCEPT ![n][a] = None]
                 \in [Nodes -> [WireAliases -> NodeIDs \cup {None}]]
          /\ [nodeIdToAlias EXCEPT ![n][id] = None]
                 \in [Nodes -> [NodeIDs -> WireAliases \cup {None}]]
      BY <3>1, EntryType
    <3> HIDE DEF id, a
    <3>3. /\ aliasToNodeID' \in [Nodes -> [WireAliases -> NodeIDs \cup {None}]]
          /\ nodeIdToAlias' \in [Nodes -> [NodeIDs -> WireAliases \cup {None}]]
      BY <2>10, <3>2 DEF TypeOK, handleReceivedAMR, id, a
    <3> QED
      BY <2>2, <2>10, <3>3 DEF TypeOK, handleReceivedAMR
  <2>11. CASE handleReceivedData(n)
    <3>1. ASSUME NEW id \in NodeIDs \cup {None}, Learn(n, frame(n).alias, id)
          PROVE  /\ aliasToNodeID' \in
                        [Nodes -> [WireAliases -> NodeIDs \cup {None}]]
                 /\ nodeIdToAlias' \in
                        [Nodes -> [NodeIDs -> WireAliases \cup {None}]]
      BY <2>3, <3>1, EntryType DEF Learn
    <3>2. CASE UNCHANGED <<aliasToNodeID, nodeIdToAlias, nextInternal>>
      BY <2>2, <2>11, <3>2 DEF TypeOK, handleReceivedData
    <3>3. CASE Learn(n, frame(n).alias, frame(n).id) /\ UNCHANGED nextInternal
      <4>1. frame(n).id \in NodeIDs \cup {None}
        BY <2>3 DEF NodeIDs
      <4> QED
        BY <2>2, <2>11, <3>1, <3>3, <4>1 DEF TypeOK, handleReceivedData
    <3>4. CASE /\ nextInternal[n] \in InternalIds
               /\ Learn(n, frame(n).alias, nextInternal[n])
               /\ nextInternal' = [nextInternal EXCEPT ![n] = @ + 1]
      <4>1. nextInternal[n] \in NodeIDs \cup {None}
        BY <3>4 DEF NodeIDs
      <4>2. nextInternal' \in [Nodes -> 1 .. MaxInternal + 1]
        BY <3>4 DEF TypeOK, InternalIds
      <4> QED
        BY <2>2, <2>11, <3>1, <3>4, <4>1, <4>2 DEF TypeOK, handleReceivedData
    <3> QED
      BY <2>11, <3>2, <3>3, <3>4 DEF handleReceivedData
  <2> QED
    BY <1>9, <2>4, <2>5, <2>6, <2>7, <2>8, <2>9, <2>10, <2>11 DEF Receive
<1> QED
  BY <1>1, <1>2, <1>3, <1>4, <1>5, <1>6, <1>7, <1>8, <1>9 DEF Next

\* Every reachable state is well typed: in particular no alias is ever 0.
THEOREM TypeCorrect == Spec => []TypeOK
<1>1. Init => TypeOK
  BY ConstantsAssumption DEF Init, TypeOK
<1>2. TypeOK /\ [Next]_vars => TypeOK'
  BY TypeStep
<1> QED
  BY <1>1, <1>2, PTL DEF Spec
-----------------------------------------------------------------------------
(* Two programs never use one alias unnoticed. *)

Noticed(m, n) == \E q \in {in[m], in[n], out[m], out[n]} : Carries(q, alias[n])

\* ClashInFlight is not inductive alone: a frame that is forwarded reaches a
\* program only if it is connected, which a Permitted program is.
ClashInv ==
    /\ \A n \in Nodes : Permitted(n) => linked[n]
    /\ ClashInFlight

\* A program that has just put an alias into use has announced it.
LEMMA ClashReserve ==
    ASSUME TypeOK, ClashInv, NEW k \in Nodes,
           alias' \in [Nodes -> Aliases],
           linked'[k],
           Carries(out'[k], alias'[k]),
           \A m \in Nodes \ {k} : /\ out'[m] = out[m]
                                   /\ in'[m] = in[m]
                                   /\ state'[m] = state[m]
                                   /\ alias'[m] = alias[m]
                                   /\ linked'[m] = linked[m]
    PROVE  ClashInv'
<1>1. \A n \in Nodes : Permitted(n)' => linked'[n]
  BY DEF ClashInv, Permitted
<1>2. ASSUME NEW m \in Nodes, NEW n \in Nodes, m # n,
             Permitted(m)', Permitted(n)', alias'[m] = alias'[n]
      PROVE  Noticed(m, n)'
  <2>1. CASE m = k \/ n = k
    BY <1>2, <2>1 DEF Noticed
  <2>2. CASE m # k /\ n # k
    <3>1. /\ Permitted(m) /\ Permitted(n) /\ alias[m] = alias[n]
          /\ alias'[n] = alias[n]
          /\ in'[m] = in[m] /\ in'[n] = in[n]
          /\ out'[m] = out[m] /\ out'[n] = out[n]
      BY <1>2, <2>2 DEF Permitted
    <3> QED
      BY <1>2, <3>1 DEF ClashInv, ClashInFlight, Noticed
  <2> QED
    BY <2>1, <2>2
<1> QED
  BY <1>1, <1>2 DEF ClashInv, ClashInFlight, Noticed

\* A program that loses its link no longer counts.
LEMMA ClashLost ==
    ASSUME TypeOK, ClashInv, NEW k \in Nodes,
           ~Permitted(k)',
           \A m \in Nodes \ {k} : /\ out'[m] = out[m]
                                   /\ in'[m] = in[m]
                                   /\ state'[m] = state[m]
                                   /\ alias'[m] = alias[m]
                                   /\ linked'[m] = linked[m]
    PROVE  ClashInv'
<1>1. ASSUME NEW m \in Nodes, NEW n \in Nodes, m # n,
             Permitted(m)', Permitted(n)', alias'[m] = alias'[n]
      PROVE  Noticed(m, n)'
  <2>1. m # k /\ n # k
    BY <1>1
  <2>2. /\ Permitted(m) /\ Permitted(n) /\ alias[m] = alias[n]
        /\ alias'[n] = alias[n]
        /\ in'[m] = in[m] /\ in'[n] = in[n]
        /\ out'[m] = out[m] /\ out'[n] = out[n]
    BY <1>1, <2>1 DEF Permitted
  <2> QED
    BY <1>1, <2>2 DEF ClashInv, ClashInFlight, Noticed
<1>2. \A n \in Nodes : Permitted(n)' => linked'[n]
  BY DEF ClashInv, Permitted
<1> QED
  BY <1>1, <1>2 DEF ClashInv, ClashInFlight, Noticed

\* The queues of Permitted programs keep carrying their alias.
LEMMA ClashKept ==
    ASSUME TypeOK, ClashInv,
           UNCHANGED <<state, alias>>,
           \A m \in Nodes : linked[m] => linked'[m],
           \A m, n \in Nodes :
               /\ m # n
               /\ Permitted(m) /\ Permitted(n)
               /\ alias[m] = alias[n]
               /\ Noticed(m, n)
               => Noticed(m, n)'
    PROVE  ClashInv'
<1>1. \A n \in Nodes : Permitted(n)' <=> Permitted(n)
  BY DEF Permitted
<1>2. \A n \in Nodes : Permitted(n)' => linked'[n]
  BY <1>1 DEF ClashInv
<1>3. ASSUME NEW m \in Nodes, NEW n \in Nodes, m # n,
             Permitted(m)', Permitted(n)', alias'[m] = alias'[n]
      PROVE  Noticed(m, n)'
  <2>1. Permitted(m) /\ Permitted(n) /\ alias[m] = alias[n]
    BY <1>1, <1>3
  <2>2. Noticed(m, n)
    BY <1>3, <2>1 DEF ClashInv, ClashInFlight, Noticed
  <2> QED
    BY <1>3, <2>1, <2>2
<1> QED
  BY <1>2, <1>3 DEF ClashInv, ClashInFlight, Noticed

\* The hub takes a frame from one queue of the pair and puts it into another.
LEMMA ClashForward ==
    ASSUME TypeOK, ClashInv, NEW k \in Nodes, Forward(k)
    PROVE  ClashInv'
<1> DEFINE f == Head(out[k])
<1>1. f \in Frame /\ out[k] \in Seq(Frame) /\ out[k] # << >>
  BY ForwardType DEF TypeOK, Forward
<1>2. /\ out'[k] = Tail(out[k])
      /\ \A m \in Nodes \ {k} : out'[m] = out[m]
      /\ \A m \in Nodes : in'[m] = IF m # k /\ linked[m]
                                   THEN Append(in[m], f) ELSE in[m]
  BY DEF Forward, TypeOK
<1> HIDE DEF f
<1>3. ASSUME NEW m \in Nodes, NEW a, Carries(in[m], a)
      PROVE  Carries(in'[m], a)
  <2>1. in[m] \in Seq(Frame)
    BY DEF TypeOK
  <2> QED
    BY <1>1, <1>2, <1>3, <2>1, CarriesAppend
<1>4. ASSUME NEW m \in Nodes \ {k}, NEW a, linked[m], f.alias = a
      PROVE  Carries(in'[m], a)
  <2>1. in[m] \in Seq(Frame)
    BY DEF TypeOK
  <2> QED
    BY <1>1, <1>2, <1>4, <2>1, CarriesAppend
<1>5. ASSUME NEW a, Carries(out[k], a)
      PROVE  f.alias = a \/ Carries(out'[k], a)
  BY <1>1, <1>2, <1>5, CarriesTail DEF f
<1>6. ASSUME NEW m \in Nodes, NEW n \in Nodes, m # n,
             Permitted(m), Permitted(n), alias[m] = alias[n], Noticed(m, n)
      PROVE  Noticed(m, n)'
  <2>1. alias' = alias /\ linked[m] /\ linked[n]
    BY <1>6 DEF Forward, ClashInv
  <2>2. CASE Carries(in[m], alias[n]) \/ Carries(in[n], alias[n])
    BY <1>3, <2>1, <2>2 DEF Noticed
  <2>3. CASE Carries(out[m], alias[n])
    <3>1. CASE m # k
      BY <1>2, <2>1, <2>3, <3>1 DEF Noticed
    <3>2. CASE m = k
      <4>1. f.alias = alias[n] \/ Carries(out'[k], alias[n])
        BY <1>5, <2>3, <3>2
      <4>2. f.alias = alias[n] => Carries(in'[n], alias[n])
        BY <1>4, <1>6, <2>1, <3>2
      <4> QED
        BY <2>1, <3>2, <4>1, <4>2 DEF Noticed
    <3> QED
      BY <3>1, <3>2
  <2>4. CASE Carries(out[n], alias[n])
    <3>1. CASE n # k
      BY <1>2, <2>1, <2>4, <3>1 DEF Noticed
    <3>2. CASE n = k
      <4>1. f.alias = alias[n] \/ Carries(out'[k], alias[n])
        BY <1>5, <2>4, <3>2
      <4>2. f.alias = alias[n] => Carries(in'[m], alias[n])
        BY <1>4, <1>6, <2>1, <3>2
      <4> QED
        BY <2>1, <3>2, <4>1, <4>2 DEF Noticed
    <3> QED
      BY <3>1, <3>2
  <2> QED
    BY <1>6, <2>2, <2>3, <2>4 DEF Noticed
<1> QED
  BY <1>6, ClashKept DEF Forward

\* A handler that neither moves to another alias nor loses frames: the frame
\* it takes carried another alias, or it has answered with its own.
LEMMA ClashTake ==
    ASSUME TypeOK, ClashInv, NEW k \in Nodes, Take(k),
           UNCHANGED <<state, alias>>,
           \A m \in Nodes, a \in WireAliases :
               Carries(out[m], a) => Carries(out'[m], a),
           Permitted(k) /\ frame(k).alias = alias[k]
               => Carries(out'[k], alias[k])
    PROVE  ClashInv'
<1>1. in[k] \in Seq(Frame) /\ in[k] # << >>
  BY DEF TypeOK, Take
<1>2. /\ in'[k] = Tail(in[k]) /\ frame(k) = Head(in[k])
      /\ \A m \in Nodes \ {k} : in'[m] = in[m]
  BY TakeType DEF frame
<1>3. ASSUME NEW a, Carries(in[k], a), frame(k).alias # a
      PROVE  Carries(in'[k], a)
  BY <1>1, <1>2, <1>3, CarriesTail
<1>4. ASSUME NEW m \in Nodes, NEW n \in Nodes, m # n,
             Permitted(m), Permitted(n), alias[m] = alias[n], Noticed(m, n)
      PROVE  Noticed(m, n)'
  <2>1. alias' = alias /\ alias[n] \in WireAliases
    BY DEF TypeOK, WireAliases
  <2>2. CASE Carries(out[m], alias[n]) \/ Carries(out[n], alias[n])
    BY <2>1, <2>2 DEF Noticed
  <2>3. CASE k \in {m, n} /\ frame(k).alias = alias[n]
    <3>1. Carries(out'[k], alias[n])
      BY <1>4, <2>3
    <3> QED
      BY <2>1, <2>3, <3>1 DEF Noticed
  <2>4. CASE /\ Carries(in[m], alias[n]) \/ Carries(in[n], alias[n])
             /\ ~(k \in {m, n} /\ frame(k).alias = alias[n])
    <3>1. \A p \in {m, n} : Carries(in[p], alias[n]) => Carries(in'[p], alias[n])
      BY <1>2, <1>3, <2>4
    <3> QED
      BY <2>1, <2>4, <3>1 DEF Noticed
  <2> QED
    BY <1>4, <2>2, <2>3, <2>4 DEF Noticed
<1> QED
  BY <1>4, ClashKept DEF Take
LEMMA ClashStep ==
    ASSUME TypeOK, ClashInv, [Next]_vars
    PROVE  ClashInv'
<1>0. TypeOK'
  BY TypeStep
<1>1. CASE UNCHANGED vars
  BY <1>1, ClashKept DEF vars, Noticed
<1>2. ASSUME NEW k \in Nodes, Forward(k)
      PROVE  ClashInv'
  BY <1>2, ClashForward
<1>3. ASSUME NEW k \in Nodes, handleReceivedLinkUp(k)
      PROVE  ClashInv'
  <2>1. alias[k] \in Aliases /\ << >> \in Seq(Frame)
    BY DEF TypeOK
  <2>2. /\ Carries(out'[k], alias[k])
        /\ state' = [state EXCEPT ![k] = "Permitted"]
        /\ \A m \in Nodes \ {k} : out'[m] = out[m]
    BY <1>3, <2>1, Reserve DEF handleReceivedLinkUp
  <2>3. /\ alias' = alias /\ in' = in
        /\ linked' = [linked EXCEPT ![k] = TRUE]
    BY <1>3 DEF handleReceivedLinkUp
  <2> QED
    BY <1>0, <2>2, <2>3, ClashReserve DEF TypeOK
<1>4. ASSUME NEW k \in Nodes, handleReceivedLinkRestarted(k)
      PROVE  ClashInv'
  <2>1. /\ UNCHANGED <<state, alias, in, out>>
        /\ linked' = [linked EXCEPT ![k] = TRUE]
    BY <1>4 DEF handleReceivedLinkRestarted
  <2> QED
    BY <2>1, ClashKept DEF Noticed, TypeOK
<1>5. ASSUME NEW k \in Nodes, handleReceivedLinkDown(k)
      PROVE  ClashInv'
  BY <1>5, ClashLost
     DEF handleReceivedLinkDown, LoseQueues, TypeOK, Permitted
<1>6. ASSUME NEW k \in Nodes, Restart(k)
      PROVE  ClashInv'
  BY <1>6, ClashLost DEF Restart, LoseQueues, TypeOK, Permitted
<1>7. ASSUME NEW k \in Nodes, SendData(k) \/ QueryAlias(k)
      PROVE  ClashInv'
  <2>1. UNCHANGED <<state, alias, linked, in>>
    BY <1>7 DEF SendData, QueryAlias
  <2>2. PICK f \in Frame : Emit(k, <<f>>)
    <3> DEFINE own == nodeIdToAlias[k][IdOf[k]]
               src == IF own = None THEN ZeroAlias ELSE own
    <3>1. src \in WireAliases
      BY ConstantsAssumption DEF TypeOK, WireAliases, NodeIDs
    <3>2. CASE SendData(k)
      <4>1. PICK kind \in {"Verified", "Data"} :
                Emit(k, <<MkFrame(kind, src, IF kind = "Verified"
                                              THEN IdOf[k] ELSE None)>>)
        BY <3>2 DEF SendData
      <4>2. MkFrame(kind, src, IF kind = "Verified" THEN IdOf[k] ELSE None)
                \in Frame
        BY <3>1, ConstantsAssumption, MkFrameType DEF Kinds
      <4> QED
        BY <4>1, <4>2
    <3>3. CASE QueryAlias(k)
      <4>1. PICK id \in Ids \cup {None} :
                Emit(k, <<MkFrame("AME", alias[k], id)>>)
        BY <3>3 DEF QueryAlias
      <4>2. MkFrame("AME", alias[k], id) \in Frame
        BY MkFrameType DEF Kinds, TypeOK, WireAliases
      <4> QED
        BY <4>1, <4>2
    <3> QED
      BY <1>7, <3>2, <3>3
  <2>3. \A m \in Nodes, a \in WireAliases :
            Carries(out[m], a) => Carries(out'[m], a)
    BY <2>2, Sent
  <2>4. \A n \in Nodes : alias[n] \in WireAliases
    BY DEF TypeOK, WireAliases
  <2> QED
    BY <2>1, <2>3, <2>4, ClashKept DEF Noticed
<1>8. ASSUME NEW k \in Nodes, processCollision(k), Take(k)
      PROVE  ClashInv'
  <2>1. /\ Carries(out'[k], alias'[k])
        /\ alias' \in [Nodes -> Aliases]
        /\ state' = [state EXCEPT ![k] = "Permitted"]
        /\ \A m \in Nodes \ {k} : out'[m] = out[m] /\ alias'[m] = alias[m]
    BY <1>8, Collision
  <2>2. /\ linked[k] /\ linked' = linked
        /\ \A m \in Nodes \ {k} : in'[m] = in[m]
    BY <1>8, TakeType DEF Take
  <2> QED
    BY <2>1, <2>2, ClashReserve DEF TypeOK
<1>9. ASSUME NEW k \in Nodes, Take(k), UNCHANGED <<state, alias, out>>,
             ~isAliasCollision(k)
      PROVE  ClashInv'
  BY <1>9, ClashTake DEF isAliasCollision, Permitted
<1>10. ASSUME NEW k \in Nodes, handleReceivedCID(k)
       PROVE  ClashInv'
  <2>1. Take(k) /\ UNCHANGED <<state, alias>>
    BY <1>10 DEF handleReceivedCID
  <2>2. CASE frame(k).alias = alias[k]
    <3>1. /\ MkFrame("RID", alias[k], None) \in Frame
          /\ MkFrame("RID", alias[k], None).alias = alias[k]
      BY MkFrameType DEF Kinds, TypeOK, WireAliases
    <3>2. /\ Carries(out'[k], alias[k])
          /\ \A m \in Nodes, a \in WireAliases :
                 Carries(out[m], a) => Carries(out'[m], a)
      BY <1>10, <2>2, <3>1, Sent DEF handleReceivedCID
    <3> QED
      BY <2>1, <3>2, ClashTake
  <2>3. CASE frame(k).alias # alias[k]
    <3>1. UNCHANGED out
      BY <1>10, <2>3 DEF handleReceivedCID
    <3> QED
      BY <2>1, <2>3, <3>1, ClashTake
  <2> QED
    BY <2>2, <2>3
<1>11. ASSUME NEW k \in Nodes, handleReceivedAME(k)
       PROVE  ClashInv'
  <2>1. /\ Take(k) /\ UNCHANGED <<state, alias>>
        /\ ~isAliasCollision(k)
    BY <1>11 DEF handleReceivedAME, TakeClear
  <2>2. CASE UNCHANGED out
    BY <1>9, <2>1, <2>2
  <2>3. CASE Emit(k, <<MkFrame("AMD", alias[k], IdOf[k])>>)
    <3>1. MkFrame("AMD", alias[k], IdOf[k]) \in Frame
      BY ConstantsAssumption, MkFrameType DEF Kinds, TypeOK, WireAliases
    <3>2. \A m \in Nodes, a \in WireAliases :
              Carries(out[m], a) => Carries(out'[m], a)
      BY <2>3, <3>1, Sent
    <3> QED
      BY <2>1, <3>2, ClashTake DEF isAliasCollision, Permitted
  <2> QED
    BY <1>11, <2>2, <2>3 DEF handleReceivedAME
<1>12. ASSUME NEW k \in Nodes, Receive(k)
       PROVE  ClashInv'
  <2>1. CASE checkAndHandleAliasCollision(k) \/ duplicateNodeID(k)
    BY <1>8, <2>1 DEF checkAndHandleAliasCollision, duplicateNodeID, TakeClear
  <2>2. CASE handleReceivedRID(k) \/ handleReceivedAMD(k)
    BY <1>9, <2>2 DEF handleReceivedRID, handleReceivedAMD, TakeClear
  <2>3. CASE handleReceivedAMR(k) \/ handleReceivedData(k)
    BY <1>9, <2>3 DEF handleReceivedAMR, handleReceivedData, TakeClear
  <2> QED
    BY <1>10, <1>11, <1>12, <2>1, <2>2, <2>3 DEF Receive
<1> QED
  BY <1>1, <1>2, <1>3, <1>4, <1>5, <1>6, <1>7, <1>12 DEF Next

\* While two programs use one alias, a frame that will tell them is on its way.
THEOREM ClashNoticed == Spec => []ClashInFlight
<1>1. Init => TypeOK /\ ClashInv
  <2>1. Init => TypeOK
    BY ConstantsAssumption DEF Init, TypeOK
  <2>2. Init => ClashInv
    BY DEF Init, ClashInv, ClashInFlight, Permitted
  <2> QED
    BY <2>1, <2>2
<1>2. TypeOK /\ ClashInv /\ [Next]_vars => (TypeOK /\ ClashInv)'
  BY TypeStep, ClashStep
<1>3. ClashInv => ClashInFlight
  BY DEF ClashInv
<1> QED
  BY <1>1, <1>2, <1>3, PTL DEF Spec

UniqueWhenQuiet ==
    Quiet => \A m, n \in Nodes :
        m # n /\ Permitted(m) /\ Permitted(n) => alias[m] # alias[n]

\* A bus with no frame on its way has no alias in use twice.
THEOREM QuietAliasesUnique == Spec => []UniqueWhenQuiet
<1>1. ClashInFlight => UniqueWhenQuiet
  <2> SUFFICES ASSUME ClashInFlight, Quiet, NEW m \in Nodes, NEW n \in Nodes,
                      m # n, Permitted(m), Permitted(n), alias[m] = alias[n]
               PROVE  FALSE
    BY DEF UniqueWhenQuiet
  <2>1. PICK q \in {in[m], in[n], out[m], out[n]} : Carries(q, alias[n])
    BY DEF ClashInFlight
  <2>2. q = << >>
    BY DEF Quiet
  <2> QED
    BY <2>1, <2>2 DEF Carries
<1> QED
  BY <1>1, ClashNoticed, PTL
-----------------------------------------------------------------------------
(* A program that may transmit is in its own maps under its own alias. *)

\* Needed: with two programs of one node ID a Verified Node ID from the other,
\* or its AMR, rewrites the entry of a program's own ID.
DistinctIds ==
    /\ \A m, n \in Nodes : IdOf[m] = IdOf[n] => m = n
    /\ Ids \cap InternalIds = {}

\* What a program may send, and what can reach it: only an AME names another
\* program's node ID.
OwnFrames(n) == {f \in Frame : f.kind # "AME" => f.id \in {None, IdOf[n]}}
ForeignFrames(n) == {f \in Frame : f.kind # "AME" => f.id # IdOf[n]}

SenderInv ==
    /\ \A n \in Nodes : out[n] \in Seq(OwnFrames(n))
    /\ \A n \in Nodes : in[n] \in Seq(ForeignFrames(n))

LEMMA OwnAllocation ==
    ASSUME NEW n \in Nodes, NEW a \in Aliases
    PROVE  AllocationFrames(n, a) \in Seq(OwnFrames(n))
<1> DEFINE cids == [i \in 1 .. CidFrames |-> MkFrame("CID", a, None)]
           rid == <<MkFrame("RID", a, None)>>
           last == <<MkFrame("AMD", a, IdOf[n]), MkFrame("AME", a, None)>>
<1>1. a \in WireAliases /\ IdOf[n] \in Ids /\ CidFrames \in Nat
  BY ConstantsAssumption DEF WireAliases
<1>2. /\ MkFrame("CID", a, None) \in OwnFrames(n)
      /\ MkFrame("RID", a, None) \in OwnFrames(n)
      /\ MkFrame("AMD", a, IdOf[n]) \in OwnFrames(n)
      /\ MkFrame("AME", a, None) \in OwnFrames(n)
  BY <1>1 DEF OwnFrames, MkFrame, Frame, Kinds
<1>3. cids \in Seq(OwnFrames(n))
  BY <1>1, <1>2, SeqDef
<1>4. rid \in Seq(OwnFrames(n)) /\ last \in Seq(OwnFrames(n))
  BY <1>2
<1>5. (cids \o rid) \o last \in Seq(OwnFrames(n))
  BY <1>3, <1>4, ConcatProperties
<1> QED
  BY <1>5 DEF AllocationFrames, sendAliasAllocationSequence

LEMMA SenderEmit ==
    ASSUME TypeOK, SenderInv, NEW n \in Nodes,
           NEW frames \in Seq(OwnFrames(n)), Emit(n, frames)
    PROVE  \A m \in Nodes : out'[m] \in Seq(OwnFrames(m))
<1>1. out[n] \o frames \in Seq(OwnFrames(n))
  BY ConcatProperties DEF SenderInv
<1> QED
  BY <1>1 DEF SenderInv, Emit, TypeOK

LEMMA SenderReserve ==
    ASSUME TypeOK, SenderInv, NEW n \in Nodes, NEW a \in Aliases,
           NEW before \in Seq(OwnFrames(n)),
           defineAndReserveAlias(n, a, before)
    PROVE  \A m \in Nodes : out'[m] \in Seq(OwnFrames(m))
<1>1. before \o AllocationFrames(n, a) \in Seq(OwnFrames(n))
  BY OwnAllocation, ConcatProperties
<1> QED
  BY <1>1, SenderEmit DEF defineAndReserveAlias

LEMMA SenderTake ==
    ASSUME TypeOK, SenderInv, NEW n \in Nodes, Take(n)
    PROVE  /\ frame(n) \in ForeignFrames(n)
           /\ \A m \in Nodes : in'[m] \in Seq(ForeignFrames(m))
<1>1. in[n] \in Seq(ForeignFrames(n)) /\ in[n] # << >>
  BY DEF SenderInv, Take
<1>2. Head(in[n]) \in ForeignFrames(n) /\ Tail(in[n]) \in Seq(ForeignFrames(n))
  BY <1>1, HeadTailProperties
<1> QED
  BY <1>2, TakeType DEF SenderInv, frame

LEMMA SenderCollision ==
    ASSUME TypeOK, SenderInv, NEW n \in Nodes, processCollision(n)
    PROVE  \A m \in Nodes : out'[m] \in Seq(OwnFrames(m))
<1> DEFINE s == NextSeed[seed[n]]
           amr == MkFrame("AMR", alias[n], IdOf[n])
<1>1. AliasOf[s] \in Aliases
  BY ConstantsAssumption DEF TypeOK
<1>2. amr \in OwnFrames(n)
  BY ConstantsAssumption
     DEF TypeOK, OwnFrames, MkFrame, Frame, Kinds, WireAliases
<1>3. defineAndReserveAlias(n, AliasOf[s], <<amr>>)
  BY DEF processCollision
<1>4. <<amr>> \in Seq(OwnFrames(n))
  BY <1>2
<1> HIDE DEF s, amr
<1> QED
  BY <1>1, <1>3, <1>4, SenderReserve

LEMMA SenderStep ==
    ASSUME DistinctIds, TypeOK, SenderInv, [Next]_vars
    PROVE  SenderInv'
<1> USE ConstantsAssumption
<1> DEFINE OutKept == \A m \in Nodes : out'[m] \in Seq(OwnFrames(m))
<1>1. CASE UNCHANGED vars
  BY <1>1 DEF SenderInv, vars
<1>2. ASSUME NEW n \in Nodes, Forward(n)
      PROVE  SenderInv'
  <2> DEFINE f == Head(out[n])
  <2>1. out[n] \in Seq(OwnFrames(n)) /\ out[n] # << >>
    BY <1>2 DEF SenderInv, Forward
  <2>2. f \in OwnFrames(n) /\ Tail(out[n]) \in Seq(OwnFrames(n))
    BY <2>1, HeadTailProperties
  <2>3. ASSUME NEW m \in Nodes \ {n}
        PROVE  Append(in[m], f) \in Seq(ForeignFrames(m))
    <3>1. IdOf[m] # IdOf[n] /\ IdOf[m] # None
      BY DEF DistinctIds
    <3>2. f \in ForeignFrames(m)
      BY <2>2, <3>1 DEF OwnFrames, ForeignFrames
    <3>3. in[m] \in Seq(ForeignFrames(m))
      BY DEF SenderInv
    <3> HIDE DEF f
    <3> QED
      BY <3>2, <3>3
  <2>4. \A m \in Nodes : in'[m] \in Seq(ForeignFrames(m))
    BY <1>2, <2>3 DEF SenderInv, Forward
  <2>5. OutKept
    BY <1>2, <2>2 DEF SenderInv, Forward, TypeOK
  <2> QED
    BY <2>4, <2>5 DEF SenderInv
<1>3. ASSUME NEW n \in Nodes, handleReceivedLinkUp(n)
      PROVE  SenderInv'
  <2>1. alias[n] \in Aliases /\ << >> \in Seq(OwnFrames(n))
    BY DEF TypeOK
  <2>2. OutKept
    BY <1>3, <2>1, SenderReserve DEF handleReceivedLinkUp
  <2> QED
    BY <1>3, <2>2 DEF SenderInv, handleReceivedLinkUp
<1>4. ASSUME NEW n \in Nodes, handleReceivedLinkRestarted(n)
      PROVE  SenderInv'
  BY <1>4 DEF SenderInv, handleReceivedLinkRestarted
<1>5. ASSUME NEW n \in Nodes, handleReceivedLinkDown(n) \/ Restart(n)
      PROVE  SenderInv'
  <2>1. LoseQueues(n)
    BY <1>5 DEF handleReceivedLinkDown, Restart
  <2>2. \A S : << >> \in Seq(S)
    OBVIOUS
  <2> QED
    BY <2>1, <2>2 DEF SenderInv, LoseQueues, TypeOK
<1>6. ASSUME NEW n \in Nodes, SendData(n) \/ QueryAlias(n)
      PROVE  SenderInv'
  <2>1. PICK f \in OwnFrames(n) : Emit(n, <<f>>)
    <3>1. CASE SendData(n)
      <4> DEFINE own == nodeIdToAlias[n][IdOf[n]]
                 src == IF own = None THEN ZeroAlias ELSE own
      <4>1. src \in WireAliases
        BY DEF TypeOK, WireAliases, NodeIDs
      <4>2. PICK kind \in {"Verified", "Data"} :
                Emit(n, <<MkFrame(kind, src, IF kind = "Verified"
                                              THEN IdOf[n] ELSE None)>>)
        BY <3>1 DEF SendData
      <4> HIDE DEF src
      <4>3. MkFrame(kind, src, IF kind = "Verified" THEN IdOf[n] ELSE None)
                \in OwnFrames(n)
        BY <4>1 DEF OwnFrames, MkFrame, Frame, Kinds
      <4> QED
        BY <4>2, <4>3
    <3>2. CASE QueryAlias(n)
      <4>1. PICK id \in Ids \cup {None} :
                Emit(n, <<MkFrame("AME", alias[n], id)>>)
        BY <3>2 DEF QueryAlias
      <4>2. MkFrame("AME", alias[n], id) \in OwnFrames(n)
        BY DEF TypeOK, WireAliases, OwnFrames, MkFrame, Frame, Kinds
      <4> QED
        BY <4>1, <4>2
    <3> QED
      BY <1>6, <3>1, <3>2
  <2>2. <<f>> \in Seq(OwnFrames(n))
    OBVIOUS
  <2>3. OutKept
    BY <2>1, <2>2, SenderEmit
  <2> QED
    BY <1>6, <2>3 DEF SenderInv, SendData, QueryAlias
<1>7. ASSUME NEW n \in Nodes, Receive(n)
      PROVE  SenderInv'
  <2>1. Take(n)
    BY <1>7 DEF Receive, TakeClear, handleReceivedCID, handleReceivedRID,
                checkAndHandleAliasCollision, duplicateNodeID,
                handleReceivedAMD, handleReceivedAME, handleReceivedAMR,
                handleReceivedData
  <2>2. \/ UNCHANGED out
        \/ processCollision(n)
        \/ Emit(n, <<MkFrame("RID", alias[n], None)>>)
        \/ Emit(n, <<MkFrame("AMD", alias[n], IdOf[n])>>)
    BY <1>7 DEF Receive, handleReceivedCID, handleReceivedRID,
                checkAndHandleAliasCollision, duplicateNodeID,
                handleReceivedAMD, handleReceivedAME, handleReceivedAMR,
                handleReceivedData
  <2>3. /\ MkFrame("RID", alias[n], None) \in OwnFrames(n)
        /\ MkFrame("AMD", alias[n], IdOf[n]) \in OwnFrames(n)
    BY DEF TypeOK, WireAliases, OwnFrames, MkFrame, Frame, Kinds
  <2>4. \A f \in OwnFrames(n) : <<f>> \in Seq(OwnFrames(n))
    OBVIOUS
  <2>5. OutKept
    BY <2>2, <2>3, <2>4, SenderCollision, SenderEmit DEF SenderInv
  <2> QED
    BY <2>1, <2>5, SenderTake DEF SenderInv
<1> QED
  BY <1>1, <1>2, <1>3, <1>4, <1>5, <1>6, <1>7 DEF Next
LEMMA OwnAliasReserved ==
    ASSUME TypeOK, OwnAliasKnown, NEW k \in Nodes,
           alias'[k] \in Aliases,
           aliasToNodeID' = [aliasToNodeID EXCEPT ![k][alias'[k]] = IdOf[k]],
           nodeIdToAlias' = [nodeIdToAlias EXCEPT ![k][IdOf[k]] = alias'[k]],
           \A m \in Nodes \ {k} : state'[m] = state[m] /\ alias'[m] = alias[m]
    PROVE  OwnAliasKnown'
<1>1. alias'[k] \in WireAliases /\ IdOf[k] \in NodeIDs
  BY ConstantsAssumption DEF WireAliases, NodeIDs
<1>2. /\ aliasToNodeID'[k][alias'[k]] = IdOf[k]
      /\ nodeIdToAlias'[k][IdOf[k]] = alias'[k]
  BY <1>1 DEF TypeOK
<1>3. \A m \in Nodes \ {k} : /\ aliasToNodeID'[m] = aliasToNodeID[m]
                             /\ nodeIdToAlias'[m] = nodeIdToAlias[m]
  BY DEF TypeOK
<1> QED
  BY <1>2, <1>3 DEF OwnAliasKnown, Permitted

\* Entries of other aliases and other node IDs change.
LEMMA OwnAliasKept ==
    ASSUME TypeOK, OwnAliasKnown, NEW k \in Nodes,
           NEW a \in WireAliases, NEW id \in NodeIDs \cup {None},
           Permitted(k) => a # alias[k], id # IdOf[k],
           UNCHANGED <<state, alias>>,
           NEW v, aliasToNodeID' = [aliasToNodeID EXCEPT ![k][a] = v],
           NEW w, nodeIdToAlias' = [nodeIdToAlias EXCEPT ![k][id] = w]
    PROVE  OwnAliasKnown'
<1>1. ASSUME NEW n \in Nodes, Permitted(n)
      PROVE  /\ aliasToNodeID'[n][alias[n]] = aliasToNodeID[n][alias[n]]
             /\ nodeIdToAlias'[n][IdOf[n]] = nodeIdToAlias[n][IdOf[n]]
  <2>1. CASE n = k
    BY <1>1, <2>1 DEF TypeOK
  <2>2. CASE n # k
    BY <2>2 DEF TypeOK
  <2> QED
    BY <2>1, <2>2
<1> QED
  BY <1>1 DEF OwnAliasKnown, Permitted

LEMMA OwnAliasStep ==
    ASSUME DistinctIds, TypeOK, SenderInv, OwnAliasKnown, [Next]_vars
    PROVE  OwnAliasKnown'
<1> USE ConstantsAssumption
<1>1. CASE UNCHANGED <<state, alias, aliasToNodeID, nodeIdToAlias>>
  BY <1>1 DEF OwnAliasKnown, Permitted
<1>2. ASSUME NEW k \in Nodes, handleReceivedLinkUp(k)
      PROVE  OwnAliasKnown'
  <2>1. defineAndReserveAlias(k, alias[k], << >>) /\ alias' = alias
    BY <1>2 DEF handleReceivedLinkUp
  <2>2. alias[k] \in Aliases
    BY DEF TypeOK
  <2> QED
    BY <2>1, <2>2, OwnAliasReserved DEF defineAndReserveAlias, TypeOK
<1>3. ASSUME NEW k \in Nodes, handleReceivedLinkDown(k) \/ Restart(k)
      PROVE  OwnAliasKnown'
  BY <1>3 DEF OwnAliasKnown, Permitted, TypeOK, handleReceivedLinkDown, Restart
<1>4. ASSUME NEW k \in Nodes, processCollision(k)
      PROVE  OwnAliasKnown'
  <2>1. /\ alias' \in [Nodes -> Aliases]
        /\ aliasToNodeID' = [aliasToNodeID EXCEPT ![k][alias'[k]] = IdOf[k]]
        /\ nodeIdToAlias' = [nodeIdToAlias EXCEPT ![k][IdOf[k]] = alias'[k]]
        /\ state' = [state EXCEPT ![k] = "Permitted"]
        /\ \A m \in Nodes \ {k} : alias'[m] = alias[m]
    BY <1>4, Collision
  <2> QED
    BY <2>1, OwnAliasReserved DEF TypeOK
<1>5. ASSUME NEW k \in Nodes, Take(k)
      PROVE  /\ frame(k).alias \in WireAliases
             /\ frame(k).id \in NodeIDs \cup {None}
             /\ frame(k).kind # "AME" => frame(k).id # IdOf[k]
  BY <1>5, SenderTake DEF ForeignFrames, Frame, NodeIDs
<1>6. ASSUME NEW k \in Nodes, ~isAliasCollision(k), Permitted(k)
      PROVE  frame(k).alias # alias[k]
  BY <1>6 DEF isAliasCollision, Permitted
<1>7. ASSUME NEW k \in Nodes, handleReceivedAMD(k)
      PROVE  OwnAliasKnown'
  <2>1. /\ Take(k) /\ ~isAliasCollision(k) /\ UNCHANGED <<state, alias>>
        /\ frame(k).id # IdOf[k]
    BY <1>7 DEF handleReceivedAMD, TakeClear
  <2> QED
    BY <1>5, <1>6, <1>7, <2>1, OwnAliasKept DEF handleReceivedAMD
<1>8. ASSUME NEW k \in Nodes, handleReceivedAMR(k)
      PROVE  OwnAliasKnown'
  <2>1. /\ Take(k) /\ ~isAliasCollision(k) /\ UNCHANGED <<state, alias>>
        /\ frame(k).kind = "AMR"
    BY <1>8 DEF handleReceivedAMR, TakeClear
  <2>2. frame(k).id # IdOf[k]
    BY <1>5, <2>1
  <2>3. CASE UNCHANGED <<aliasToNodeID, nodeIdToAlias>>
    BY <1>1, <2>1, <2>3
  <2>4. CASE ~UNCHANGED <<aliasToNodeID, nodeIdToAlias>>
    <3> DEFINE a == frame(k).alias
               id == frame(k).id
    <3>1. /\ aliasToNodeID' = [aliasToNodeID EXCEPT ![k][a] = None]
          /\ nodeIdToAlias' = [nodeIdToAlias EXCEPT ![k][id] = None]
      BY <1>8, <2>4 DEF handleReceivedAMR
    <3>2. /\ a \in WireAliases /\ id \in NodeIDs \cup {None}
          /\ Permitted(k) => a # alias[k]
          /\ id # IdOf[k]
      BY <1>5, <1>6, <2>1, <2>2
    <3> HIDE DEF a, id
    <3> QED
      BY <2>1, <3>1, <3>2, OwnAliasKept
  <2> QED
    BY <2>3, <2>4
<1>9. ASSUME NEW k \in Nodes, handleReceivedData(k)
      PROVE  OwnAliasKnown'
  <2>1. /\ Take(k) /\ ~isAliasCollision(k) /\ UNCHANGED <<state, alias>>
        /\ frame(k).kind \in {"Verified", "Data"}
    BY <1>9 DEF handleReceivedData, TakeClear
  <2>2. frame(k).id # IdOf[k]
    BY <1>5, <2>1
  <2>3. ASSUME NEW id \in NodeIDs \cup {None}, id # IdOf[k],
               Learn(k, frame(k).alias, id)
        PROVE  OwnAliasKnown'
    BY <1>5, <1>6, <2>1, <2>3, OwnAliasKept DEF Learn
  <2>4. CASE UNCHANGED <<aliasToNodeID, nodeIdToAlias>>
    BY <1>1, <2>1, <2>4
  <2>5. CASE Learn(k, frame(k).alias, frame(k).id)
    BY <1>5, <2>1, <2>2, <2>3, <2>5
  <2>6. CASE /\ nextInternal[k] \in InternalIds
             /\ Learn(k, frame(k).alias, nextInternal[k])
    <3>1. nextInternal[k] \in NodeIDs /\ nextInternal[k] # IdOf[k]
      BY <2>6 DEF NodeIDs, DistinctIds
    <3> QED
      BY <2>3, <2>6, <3>1
  <2> QED
    BY <1>9, <2>4, <2>5, <2>6 DEF handleReceivedData
<1>10. ASSUME NEW k \in Nodes, Receive(k)
       PROVE  OwnAliasKnown'
  <2>1. CASE checkAndHandleAliasCollision(k) \/ duplicateNodeID(k)
    BY <1>4, <2>1 DEF checkAndHandleAliasCollision, duplicateNodeID
  <2>2. CASE handleReceivedCID(k) \/ handleReceivedRID(k) \/ handleReceivedAME(k)
    BY <1>1, <2>2 DEF handleReceivedCID, handleReceivedRID, handleReceivedAME
  <2> QED
    BY <1>7, <1>8, <1>9, <1>10, <2>1, <2>2 DEF Receive
<1>11. CASE \E k \in Nodes : \/ Forward(k)
                             \/ handleReceivedLinkRestarted(k)
                             \/ SendData(k)
                             \/ QueryAlias(k)
  BY <1>1, <1>11 DEF Forward, handleReceivedLinkRestarted, SendData, QueryAlias
<1>12. CASE UNCHANGED vars
  BY <1>1, <1>12 DEF vars
<1> QED
  BY <1>2, <1>3, <1>10, <1>11, <1>12 DEF Next

\* With distinct node IDs no frame of another program can make a Permitted
\* program send under an alias it has not reserved.
THEOREM OwnAliasAlwaysKnown ==
    ASSUME DistinctIds
    PROVE  Spec => []OwnAliasKnown
<1>1. Init => TypeOK /\ SenderInv /\ OwnAliasKnown
  <2>1. Init => TypeOK
    BY ConstantsAssumption DEF Init, TypeOK
  <2>2. \A S : << >> \in Seq(S)
    OBVIOUS
  <2>3. Init => SenderInv
    BY <2>2 DEF Init, SenderInv
  <2>4. Init => OwnAliasKnown
    BY DEF Init, OwnAliasKnown, Permitted
  <2> QED
    BY <2>1, <2>3, <2>4
<1>2. TypeOK /\ SenderInv /\ OwnAliasKnown /\ [Next]_vars
        => (TypeOK /\ SenderInv /\ OwnAliasKnown)'
  BY TypeStep, SenderStep, OwnAliasStep
<1> QED
  BY <1>1, <1>2, PTL DEF Spec
-----------------------------------------------------------------------------
(* The maps of a quiet bus. *)

\* After frame f an alias that was entered for a node ID is no longer, or not
\* in both maps.  Data and Verified Node ID of a known alias change nothing.
Spoils(f, a, id) ==
    \/ f.alias = a /\ f.id # id /\ f.kind \in {"AMD", "AMR"}
    \/ f.id = id /\ f.kind = "AMR"
    \/ f.alias # a /\ f.id = id /\ f.kind \in {"AMD", "Verified"}

Unspoiled(q, a, id) == \A k \in 1 .. Len(q) : ~Spoils(q[k], a, id)

\* The frames of q, taken in order, leave the alias entered for the node ID.
Announces(q, a, id) ==
    \E k \in 1 .. Len(q) :
        /\ q[k] = MkFrame("AMD", a, id)
        /\ \A j \in k + 1 .. Len(q) : ~Spoils(q[j], a, id)

Entered(m, a, id) == aliasToNodeID[m][a] = id /\ nodeIdToAlias[m][id] = a

\* When m has taken what is on its way from n, and nothing else comes, it
\* knows n.
Told(m, n) ==
    \/ Announces(out[n], alias[n], IdOf[n])
    \/ /\ Unspoiled(out[n], alias[n], IdOf[n])
       /\ \/ Announces(in[m], alias[n], IdOf[n])
          \/ /\ Unspoiled(in[m], alias[n], IdOf[n])
             /\ Entered(m, alias[n], IdOf[n])

\* A frame with its own alias has come to n: it will take another one.
Clashes(q, a) == \E k \in 1 .. Len(q) : q[k].alias = a /\ q[k].kind # "CID"

\* An enquiry for all nodes is on its way.
Asks(q) == \E k \in 1 .. Len(q) : q[k].kind = "AME" /\ q[k].id = None

WillKnow(m, n) ==
    \/ Clashes(in[n], alias[n])
    \/ Asks(out[m]) \/ Asks(in[n])
    \/ Told(m, n)

LinkedInv == \A n \in Nodes : Permitted(n) => linked[n]

MapsInv ==
    \A m, n \in Nodes : m # n /\ Permitted(m) /\ Permitted(n) => WillKnow(m, n)

LEMMA TakenFrames ==
    ASSUME NEW q \in Seq(Frame), q # << >>, NEW a, NEW id
    PROVE  /\ Unspoiled(q, a, id) => ~Spoils(Head(q), a, id) /\ Unspoiled(Tail(q), a, id)
           /\ Announces(q, a, id) =>
                 \/ Announces(Tail(q), a, id)
                 \/ Head(q) = MkFrame("AMD", a, id) /\ Unspoiled(Tail(q), a, id)
           /\ Clashes(q, a) =>
                 \/ Clashes(Tail(q), a)
                 \/ Head(q).alias = a /\ Head(q).kind # "CID"
           /\ Asks(q) =>
                 \/ Asks(Tail(q))
                 \/ Head(q).kind = "AME" /\ Head(q).id = None
<1> DEFINE n == Len(q)
           t == Tail(q)
<1>1. /\ n \in Nat \ {0} /\ Len(t) = n - 1 /\ Head(q) = q[1]
      /\ \A i \in 1 .. n - 1 : t[i] = q[i + 1]
  OBVIOUS
<1>2. /\ \A i \in 1 .. Len(t) : i + 1 \in 1 .. n /\ t[i] = q[i + 1]
      /\ \A i \in 2 .. n : i - 1 \in 1 .. Len(t) /\ t[i - 1] = q[i]
      /\ 1 \in 1 .. n
      /\ \A i \in 1 .. n : i = 1 \/ i \in 2 .. n
  <2> HIDE DEF t, n
  <2> QED
    BY <1>1
<1> HIDE DEF t
<1>3. Unspoiled(q, a, id) => ~Spoils(Head(q), a, id) /\ Unspoiled(t, a, id)
  BY <1>1, <1>2 DEF Unspoiled
<1>4. Clashes(q, a) => Clashes(t, a) \/ (Head(q).alias = a /\ Head(q).kind # "CID")
  <2> SUFFICES ASSUME Clashes(q, a), ~(Head(q).alias = a /\ Head(q).kind # "CID")
               PROVE  Clashes(t, a)
    OBVIOUS
  <2>1. PICK i \in 1 .. n : q[i].alias = a /\ q[i].kind # "CID"
    BY DEF Clashes, n
  <2>2. i - 1 \in 1 .. Len(t) /\ t[i - 1] = q[i]
    BY <1>1, <1>2, <2>1
  <2> QED
    BY <2>1, <2>2 DEF Clashes
<1>5. Asks(q) => Asks(t) \/ (Head(q).kind = "AME" /\ Head(q).id = None)
  <2> SUFFICES ASSUME Asks(q), ~(Head(q).kind = "AME" /\ Head(q).id = None)
               PROVE  Asks(t)
    OBVIOUS
  <2>1. PICK i \in 1 .. n : q[i].kind = "AME" /\ q[i].id = None
    BY DEF Asks, n
  <2>2. i - 1 \in 1 .. Len(t) /\ t[i - 1] = q[i]
    BY <1>1, <1>2, <2>1
  <2> QED
    BY <2>1, <2>2 DEF Asks
<1>6. ASSUME Announces(q, a, id)
      PROVE  \/ Announces(t, a, id)
             \/ Head(q) = MkFrame("AMD", a, id) /\ Unspoiled(t, a, id)
  <2>1. PICK k \in 1 .. n :
            /\ q[k] = MkFrame("AMD", a, id)
            /\ \A j \in k + 1 .. n : ~Spoils(q[j], a, id)
    BY <1>6 DEF Announces
  <2>2. CASE k = 1
    <3>1. \A i \in 1 .. Len(t) : i + 1 \in k + 1 .. n /\ t[i] = q[i + 1]
      BY <1>1, <1>2, <2>2
    <3> QED
      BY <1>1, <2>1, <2>2, <3>1 DEF Unspoiled
  <2>3. CASE k \in 2 .. n
    <3>1. k - 1 \in 1 .. Len(t) /\ t[k - 1] = MkFrame("AMD", a, id)
      BY <1>2, <2>1, <2>3
    <3>2. \A i \in (k - 1) + 1 .. Len(t) : i + 1 \in k + 1 .. n /\ t[i] = q[i + 1]
      BY <1>1, <2>3
    <3>3. \A i \in (k - 1) + 1 .. Len(t) : ~Spoils(t[i], a, id)
      BY <2>1, <3>2
    <3> QED
      BY <3>1, <3>3 DEF Announces
  <2> QED
    BY <1>2, <2>2, <2>3
<1> QED
  BY <1>3, <1>4, <1>5, <1>6 DEF t

LEMMA JoinedFrames ==
    ASSUME NEW q \in Seq(Frame), NEW r \in Seq(Frame), NEW a, NEW id
    PROVE  /\ Unspoiled(q, a, id) /\ Unspoiled(r, a, id) => Unspoiled(q \o r, a, id)
           /\ Announces(q, a, id) /\ Unspoiled(r, a, id) => Announces(q \o r, a, id)
           /\ Announces(r, a, id) => Announces(q \o r, a, id)
           /\ Clashes(q, a) \/ Clashes(r, a) => Clashes(q \o r, a)
           /\ Asks(q) \/ Asks(r) => Asks(q \o r)
<1> DEFINE n == Len(q)
           l == Len(r)
           u == q \o r
<1>1. /\ n \in Nat /\ l \in Nat /\ Len(u) = n + l
      /\ \A i \in 1 .. Len(u) : u[i] = IF i <= n THEN q[i] ELSE r[i - n]
  OBVIOUS
<1> HIDE DEF n, l, u
<1>2. /\ \A i \in 1 .. n : i \in 1 .. Len(u) /\ u[i] = q[i]
      /\ \A i \in 1 .. l : n + i \in 1 .. Len(u) /\ u[n + i] = r[i]
      /\ \A i \in 1 .. Len(u) : i \in 1 .. n \/ (i - n \in 1 .. l /\ u[i] = r[i - n])
  <2>1. \A i \in 1 .. n : i \in 1 .. Len(u) /\ i <= n
    BY <1>1
  <2>2. \A i \in 1 .. l : n + i \in 1 .. Len(u) /\ ~(n + i <= n) /\ (n + i) - n = i
    BY <1>1
  <2>3. \A i \in 1 .. Len(u) : i \in 1 .. n \/ (i - n \in 1 .. l /\ ~(i <= n))
    BY <1>1
  <2>4. \A i \in 1 .. n : u[i] = q[i]
    BY <1>1, <2>1
  <2>5. \A i \in 1 .. l : u[n + i] = r[i]
    BY <1>1, <2>2
  <2> QED
    BY <1>1, <2>1, <2>2, <2>3, <2>4, <2>5
<1>3. Unspoiled(q, a, id) /\ Unspoiled(r, a, id) => Unspoiled(u, a, id)
  BY <1>2 DEF Unspoiled, n, l
<1>4. ASSUME Announces(q, a, id), Unspoiled(r, a, id)
      PROVE  Announces(u, a, id)
  <2>1. PICK k \in 1 .. n :
            /\ q[k] = MkFrame("AMD", a, id)
            /\ \A j \in k + 1 .. n : ~Spoils(q[j], a, id)
    BY <1>4 DEF Announces, n
  <2>2. \A i \in 1 .. l : ~Spoils(r[i], a, id)
    BY <1>4 DEF Unspoiled, l
  <2>3. ASSUME NEW j \in k + 1 .. Len(u)
        PROVE  ~Spoils(u[j], a, id)
    <3>1. CASE j <= n
      <4>1. j \in k + 1 .. n /\ j \in 1 .. n
        BY <1>1, <3>1
      <4> QED
        BY <1>2, <2>1, <4>1
    <3>2. CASE j > n
      <4>1. j \in 1 .. Len(u) /\ j \notin 1 .. n
        BY <1>1, <3>2
      <4> QED
        BY <1>2, <2>2, <4>1
    <3> QED
      BY <1>1, <3>1, <3>2
  <2> QED
    BY <1>2, <2>1, <2>3 DEF Announces
<1>5. ASSUME Announces(r, a, id)
      PROVE  Announces(u, a, id)
  <2>1. PICK k \in 1 .. l :
            /\ r[k] = MkFrame("AMD", a, id)
            /\ \A j \in k + 1 .. l : ~Spoils(r[j], a, id)
    BY <1>5 DEF Announces, l
  <2>2. n + k \in 1 .. Len(u) /\ u[n + k] = MkFrame("AMD", a, id)
    BY <1>2, <2>1
  <2>3. ASSUME NEW j \in (n + k) + 1 .. Len(u)
        PROVE  ~Spoils(u[j], a, id)
    <3>1. j \in 1 .. Len(u) /\ j \notin 1 .. n /\ j - n \in k + 1 .. l
      BY <1>1
    <3> QED
      BY <1>2, <2>1, <3>1
  <2> QED
    BY <2>2, <2>3 DEF Announces
<1>6. Clashes(q, a) \/ Clashes(r, a) => Clashes(u, a)
  <2>1. Clashes(q, a) => Clashes(u, a)
    BY <1>2 DEF Clashes, n
  <2>2. Clashes(r, a) => Clashes(u, a)
    BY <1>2 DEF Clashes, l
  <2> QED
    BY <2>1, <2>2
<1>7. Asks(q) \/ Asks(r) => Asks(u)
  <2>1. Asks(q) => Asks(u)
    BY <1>2 DEF Asks, n
  <2>2. Asks(r) => Asks(u)
    BY <1>2 DEF Asks, l
  <2> QED
    BY <2>1, <2>2
<1> QED
  BY <1>3, <1>4, <1>5, <1>6, <1>7 DEF u

LEMMA PairJoined ==
    ASSUME NEW S, NEW x \in S, NEW y \in S
    PROVE  <<x>> \o <<y>> = <<x, y>>
<1> DEFINE u == <<x>> \o <<y>>
           v == <<x, y>>
<1>1. /\ u \in Seq(S) /\ Len(u) = 2 /\ u[1] = x /\ u[2] = y
      /\ v \in Seq(S) /\ Len(v) = 2 /\ v[1] = x /\ v[2] = y
  OBVIOUS
<1> HIDE DEF u, v
<1>2. \A i \in 1 .. 2 : i = 1 \/ i = 2
  OBVIOUS
<1>3. \A i \in 1 .. 2 : u[i] = v[i]
  BY <1>1, <1>2
<1>4. u = v
  BY <1>1, <1>3, SeqEqual
<1> QED
  BY <1>4 DEF u, v

LEMMA ThreeJoined ==
    ASSUME NEW q \in Seq(Frame), NEW r \in Seq(Frame), NEW t \in Seq(Frame)
    PROVE  (q \o r) \o t = q \o (r \o t)
BY SMTT(60), ConcatAssociative

LEMMA OneFrame ==
    ASSUME NEW f \in Frame, NEW a, NEW id
    PROVE  /\ <<f>> \in Seq(Frame)
           /\ ~Spoils(f, a, id) => Unspoiled(<<f>>, a, id)
           /\ f = MkFrame("AMD", a, id) => Announces(<<f>>, a, id)
           /\ f.alias = a /\ f.kind # "CID" => Clashes(<<f>>, a)
           /\ f.kind = "AME" /\ f.id = None => Asks(<<f>>)
<1>1. /\ <<f>> \in Seq(Frame) /\ Len(<<f>>) = 1
      /\ 1 \in 1 .. Len(<<f>>) /\ <<f>>[1] = f
      /\ \A i \in 1 .. Len(<<f>>) : <<f>>[i] = f
      /\ 1 + 1 .. Len(<<f>>) = {}
  OBVIOUS
<1> DEFINE q == <<f>>
<1> HIDE DEF q
<1>2. /\ ~Spoils(f, a, id) => Unspoiled(q, a, id)
      /\ f.alias = a /\ f.kind # "CID" => Clashes(q, a)
      /\ f.kind = "AME" /\ f.id = None => Asks(q)
  BY <1>1 DEF q, Unspoiled, Clashes, Asks
<1>3. f = MkFrame("AMD", a, id) => Announces(q, a, id)
  BY <1>1 DEF q, Announces
<1> QED
  BY <1>1, <1>2, <1>3 DEF q

\* The allocation tells the others, and asks them.
LEMMA AllocationTells ==
    ASSUME NEW n \in Nodes, NEW a \in Aliases, NEW q \in Seq(Frame)
    PROVE  /\ Announces(q \o AllocationFrames(n, a), a, IdOf[n])
           /\ Asks(q \o AllocationFrames(n, a))
<1> DEFINE amd == MkFrame("AMD", a, IdOf[n])
           ame == MkFrame("AME", a, None)
           cids == [i \in 1 .. CidFrames |-> MkFrame("CID", a, None)]
           rid == MkFrame("RID", a, None)
           first == cids \o <<rid>>
<1>1. a \in WireAliases /\ IdOf[n] \in Ids /\ CidFrames \in Nat
  BY ConstantsAssumption DEF WireAliases
<1>2. amd \in Frame /\ ame \in Frame /\ rid \in Frame /\ MkFrame("CID", a, None) \in Frame
  BY <1>1, MkFrameType DEF Kinds
<1>3. /\ ame.kind = "AME" /\ ame.id = None
      /\ ~Spoils(ame, a, IdOf[n])
  BY DEF MkFrame, Spoils
<1>4. first \in Seq(Frame)
  <2>1. cids \in Seq(Frame)
    BY <1>1, <1>2, SeqDef
  <2>2. <<rid>> \in Seq(Frame)
    BY <1>2
  <2> HIDE DEF cids, rid
  <2> QED
    BY <2>1, <2>2, ConcatProperties
<1>5. AllocationFrames(n, a) = first \o (<<amd>> \o <<ame>>)
  <2>1. <<amd>> \o <<ame>> = <<amd, ame>>
    BY <1>2, PairJoined
  <2> QED
    BY <2>1 DEF AllocationFrames, sendAliasAllocationSequence
<1> HIDE DEF first
<1>6. amd = MkFrame("AMD", a, IdOf[n])
  OBVIOUS
<1> HIDE DEF amd, ame
<1>7. /\ Announces(<<amd>>, a, IdOf[n]) /\ <<amd>> \in Seq(Frame)
      /\ Unspoiled(<<ame>>, a, IdOf[n]) /\ <<ame>> \in Seq(Frame) /\ Asks(<<ame>>)
  BY <1>2, <1>3, <1>6, OneFrame
<1>8. /\ <<amd>> \o <<ame>> \in Seq(Frame)
      /\ Announces(<<amd>> \o <<ame>>, a, IdOf[n])
      /\ Asks(<<amd>> \o <<ame>>)
  BY <1>7, JoinedFrames, ConcatProperties
<1> DEFINE last == <<amd>> \o <<ame>>
<1> HIDE DEF last
<1>9. /\ first \o last \in Seq(Frame)
      /\ Announces(first \o last, a, IdOf[n])
      /\ Asks(first \o last)
  BY <1>4, <1>8, JoinedFrames, ConcatProperties DEF last
<1>10. AllocationFrames(n, a) = first \o last
  BY <1>5 DEF last
<1> HIDE DEF first, last
<1> QED
  BY <1>9, <1>10, JoinedFrames

\* Nothing that concerns m and n changes.
LEMMA WillKnowKept ==
    ASSUME NEW m \in Nodes, NEW n \in Nodes, WillKnow(m, n),
           alias'[n] = alias[n], in'[m] = in[m], in'[n] = in[n],
           out'[m] = out[m], out'[n] = out[n],
           aliasToNodeID'[m] = aliasToNodeID[m],
           nodeIdToAlias'[m] = nodeIdToAlias[m]
    PROVE  WillKnow(m, n)'
BY DEF WillKnow, Told, Entered

\* A program that reserves an alias tells all others and asks all others.
LEMMA MapsReserve ==
    ASSUME TypeOK, MapsInv, NEW k \in Nodes, NEW before \in Seq(Frame),
           alias'[k] \in Aliases,
           defineAndReserveAlias(k, alias'[k], before),
           \A m \in Nodes \ {k} : alias'[m] = alias[m] /\ in'[m] = in[m]
    PROVE  MapsInv'
<1>1. out[k] \in Seq(Frame) /\ out[k] \o before \in Seq(Frame)
  BY ConcatProperties DEF TypeOK
<1>2. AllocationFrames(k, alias'[k]) \in Seq(Frame)
  BY AllocationFramesType
<1>3. out'[k] = (out[k] \o before) \o AllocationFrames(k, alias'[k])
  <2>1. out'[k] = out[k] \o (before \o AllocationFrames(k, alias'[k]))
    BY DEF TypeOK, defineAndReserveAlias, Emit
  <2> DEFINE new == AllocationFrames(k, alias'[k])
  <2> HIDE DEF new
  <2>2. out[k] \in Seq(Frame) /\ before \in Seq(Frame) /\ new \in Seq(Frame)
    BY <1>1, <1>2 DEF new
  <2>3. (out[k] \o before) \o new = out[k] \o (before \o new)
    BY <2>2, ThreeJoined
  <2> QED
    BY <2>1, <2>3 DEF new
<1>4. Announces(out'[k], alias'[k], IdOf[k]) /\ Asks(out'[k])
  BY <1>1, <1>3, AllocationTells
<1>5. \A m \in Nodes \ {k} : /\ state'[m] = state[m] /\ out'[m] = out[m]
                             /\ aliasToNodeID'[m] = aliasToNodeID[m]
                             /\ nodeIdToAlias'[m] = nodeIdToAlias[m]
  BY DEF TypeOK, defineAndReserveAlias, Emit
<1> SUFFICES ASSUME NEW m \in Nodes, NEW n \in Nodes, m # n,
                    Permitted(m)', Permitted(n)'
             PROVE  WillKnow(m, n)'
  BY DEF MapsInv
<1>6. CASE n = k
  BY <1>4, <1>6 DEF WillKnow, Told
<1>7. CASE m = k
  BY <1>4, <1>7 DEF WillKnow
<1>8. CASE m # k /\ n # k
  <2>1. WillKnow(m, n)
    BY <1>5, <1>8 DEF MapsInv, Permitted
  <2> QED
    BY <1>5, <1>8, <2>1, WillKnowKept
<1> QED
  BY <1>6, <1>7, <1>8

\* A frame that another program sends spoils what is known of n only if it
\* carries the alias of n.
LEMMA OthersFrames ==
    ASSUME DistinctIds, NEW p \in Nodes, NEW n \in Nodes, p # n,
           NEW f \in OwnFrames(p), NEW a, f.alias # a \/ f.kind = "CID"
    PROVE  ~Spoils(f, a, IdOf[n])
<1>1. IdOf[n] # IdOf[p] /\ IdOf[n] # None
  BY ConstantsAssumption DEF DistinctIds
<1> QED
  BY <1>1 DEF Spoils, OwnFrames

LEMMA MapsForward ==
    ASSUME DistinctIds, TypeOK, SenderInv, LinkedInv, MapsInv,
           NEW p \in Nodes, Forward(p)
    PROVE  MapsInv'
<1> SUFFICES ASSUME NEW m \in Nodes, NEW n \in Nodes, m # n,
                    Permitted(m)', Permitted(n)'
             PROVE  WillKnow(m, n)'
  BY DEF MapsInv
<1> DEFINE f == Head(out[p])
           a == alias[n]
           id == IdOf[n]
<1>1. /\ UNCHANGED <<state, alias, aliasToNodeID, nodeIdToAlias>>
      /\ out[p] # << >> /\ out'[p] = Tail(out[p])
      /\ \A k \in Nodes \ {p} : out'[k] = out[k]
      /\ in'[p] = in[p]
      /\ \A k \in Nodes \ {p} : linked[k] => in'[k] = Append(in[k], f)
  BY DEF Forward, TypeOK
<1>2. linked[m] /\ linked[n] /\ WillKnow(m, n)
  BY <1>1 DEF LinkedInv, MapsInv, Permitted
<1>3. /\ \A k \in Nodes : in[k] \in Seq(Frame) /\ out[k] \in Seq(Frame)
      /\ f \in Frame /\ f \in OwnFrames(p) /\ <<f>> \in Seq(Frame)
  <2>1. out[p] \in Seq(OwnFrames(p))
    BY DEF SenderInv
  <2>2. f \in OwnFrames(p)
    BY <1>1, <2>1, HeadTailProperties
  <2>3. f \in Frame
    BY <2>2 DEF OwnFrames
  <2> HIDE DEF f
  <2> QED
    BY <2>2, <2>3, OneFrame DEF TypeOK
<1>4. \A k \in Nodes \ {p} : linked[k] => in'[k] = in[k] \o <<f>>
  <2> HIDE DEF f
  <2>1. \A q \in Seq(Frame) : Append(q, f) = q \o <<f>>
    BY <1>3
  <2> QED
    BY <1>1, <1>3, <2>1
<1>5. CASE Clashes(in[n], a)
  <2>1. n = p \/ in'[n] = in[n] \o <<f>>
    BY <1>2, <1>4
  <2> HIDE DEF f
  <2>2. Clashes(in'[n], a)
    BY <1>1, <1>3, <1>5, <2>1, JoinedFrames
  <2> QED
    BY <1>1, <2>2 DEF WillKnow
<1>6. CASE Asks(in[n])
  <2>1. n = p \/ in'[n] = in[n] \o <<f>>
    BY <1>2, <1>4
  <2> HIDE DEF f
  <2>2. Asks(in'[n])
    BY <1>1, <1>3, <1>6, <2>1, JoinedFrames
  <2> QED
    BY <2>2 DEF WillKnow
<1>7. CASE Asks(out[m])
  <2>1. CASE m = p
    <3>1. in'[n] = in[n] \o <<f>>
      BY <1>2, <1>4, <2>1
    <3>2. Asks(Tail(out[p])) \/ (f.kind = "AME" /\ f.id = None)
      BY <1>1, <1>3, <1>7, <2>1, TakenFrames
    <3> HIDE DEF f
    <3>3. CASE Asks(Tail(out[p]))
      BY <1>1, <2>1, <3>3 DEF WillKnow
    <3>4. CASE f.kind = "AME" /\ f.id = None
      <4>1. Asks(<<f>>)
        BY <1>3, <3>4, OneFrame
      <4>2. Asks(in'[n])
        BY <1>3, <3>1, <4>1, JoinedFrames
      <4> QED
        BY <4>2 DEF WillKnow
    <3> QED
      BY <3>2, <3>3, <3>4
  <2>2. CASE m # p
    BY <1>1, <1>7, <2>2 DEF WillKnow
  <2> QED
    BY <2>1, <2>2
<1>8. CASE Told(m, n) /\ p = n
  <2>1. in'[m] = in[m] \o <<f>>
    BY <1>2, <1>4, <1>8
  <2>2. /\ Unspoiled(out[n], a, id) => ~Spoils(f, a, id) /\ Unspoiled(out'[n], a, id)
        /\ Announces(out[n], a, id) =>
              \/ Announces(out'[n], a, id)
              \/ f = MkFrame("AMD", a, id) /\ Unspoiled(out'[n], a, id)
    BY <1>1, <1>3, <1>8, TakenFrames
  <2> HIDE DEF f
  <2>3. /\ ~Spoils(f, a, id) => Unspoiled(<<f>>, a, id)
        /\ f = MkFrame("AMD", a, id) => Announces(<<f>>, a, id)
    BY <1>3, OneFrame
  <2>4. /\ Unspoiled(in[m], a, id) /\ Unspoiled(<<f>>, a, id) => Unspoiled(in'[m], a, id)
        /\ Announces(in[m], a, id) /\ Unspoiled(<<f>>, a, id) => Announces(in'[m], a, id)
        /\ Announces(<<f>>, a, id) => Announces(in'[m], a, id)
    BY <1>3, <2>1, JoinedFrames
  <2>5. Told(m, n)'
    BY <1>1, <1>8, <2>2, <2>3, <2>4 DEF Told, Entered
  <2> QED
    BY <2>5 DEF WillKnow
<1>9. CASE Told(m, n) /\ p = m
  <2>1. Told(m, n)'
    BY <1>1, <1>9 DEF Told, Entered
  <2> QED
    BY <2>1 DEF WillKnow
<1>10. CASE Told(m, n) /\ p # m /\ p # n
  <2>1. in'[m] = in[m] \o <<f>> /\ in'[n] = in[n] \o <<f>>
    BY <1>2, <1>4, <1>10
  <2> HIDE DEF f
  <2>2. CASE f.alias = a /\ f.kind # "CID"
    <3>1. Clashes(<<f>>, a)
      BY <1>3, <2>2, OneFrame
    <3>2. Clashes(in'[n], a)
      BY <1>3, <2>1, <3>1, JoinedFrames
    <3> QED
      BY <1>1, <3>2 DEF WillKnow
  <2>3. CASE f.alias # a \/ f.kind = "CID"
    <3>1. ~Spoils(f, a, id)
      BY <1>3, <1>10, <2>3, OthersFrames
    <3>2. Unspoiled(<<f>>, a, id)
      BY <1>3, <3>1, OneFrame
    <3>3. /\ Unspoiled(in[m], a, id) => Unspoiled(in'[m], a, id)
          /\ Announces(in[m], a, id) => Announces(in'[m], a, id)
      BY <1>3, <2>1, <3>2, JoinedFrames
    <3>4. Told(m, n)'
      BY <1>1, <1>10, <3>3 DEF Told, Entered
    <3> QED
      BY <3>4 DEF WillKnow
  <2> QED
    BY <2>2, <2>3
<1> QED
  BY <1>2, <1>5, <1>6, <1>7, <1>8, <1>9, <1>10 DEF WillKnow

\* A frame that k sends under its own alias.
LEMMA OwnWord ==
    ASSUME TypeOK, NEW k \in Nodes, NEW f \in Frame, Emit(k, <<f>>),
           NEW a, NEW id, ~Spoils(f, a, id)
    PROVE  /\ \A m \in Nodes \ {k} : out'[m] = out[m]
           /\ Asks(out[k]) => Asks(out'[k])
           /\ Unspoiled(out[k], a, id) => Unspoiled(out'[k], a, id)
           /\ Announces(out[k], a, id) => Announces(out'[k], a, id)
           /\ f = MkFrame("AMD", a, id) => Announces(out'[k], a, id)
<1>1. /\ out'[k] = out[k] \o <<f>>
      /\ \A m \in Nodes \ {k} : out'[m] = out[m]
  BY DEF Emit, TypeOK
<1>2. out[k] \in Seq(Frame) /\ <<f>> \in Seq(Frame)
  BY OneFrame DEF TypeOK
<1>3. /\ Unspoiled(<<f>>, a, id)
      /\ f = MkFrame("AMD", a, id) => Announces(<<f>>, a, id)
  BY OneFrame
<1> QED
  BY <1>1, <1>2, <1>3, JoinedFrames

\* The handlers that take a frame and keep the alias.
Hear(k) ==
    \/ handleReceivedCID(k) \/ handleReceivedRID(k) \/ handleReceivedAMD(k)
    \/ handleReceivedAME(k) \/ handleReceivedAMR(k) \/ handleReceivedData(k)

Word(k) ==
    \/ Emit(k, <<MkFrame("RID", alias[k], None)>>)
    \/ Emit(k, <<MkFrame("AMD", alias[k], IdOf[k])>>)

LEMMA Heard ==
    ASSUME TypeOK, NEW k \in Nodes, Hear(k)
    PROVE  /\ Take(k) /\ UNCHANGED <<state, alias>>
           /\ \A m \in Nodes \ {k} : /\ aliasToNodeID'[m] = aliasToNodeID[m]
                                     /\ nodeIdToAlias'[m] = nodeIdToAlias[m]
           /\ Permitted(k) /\ frame(k).kind # "CID" => frame(k).alias # alias[k]
           /\ UNCHANGED out \/ Word(k)
           /\ Permitted(k) /\ frame(k).kind = "AME" /\ frame(k).id = None
                 => Emit(k, <<MkFrame("AMD", alias[k], IdOf[k])>>)
<1>1. CASE handleReceivedCID(k)
  BY <1>1 DEF handleReceivedCID, Word
<1>2. CASE handleReceivedRID(k)
  BY <1>2 DEF handleReceivedRID, TakeClear, isAliasCollision, Permitted
<1>3. CASE handleReceivedAMD(k)
  BY <1>3 DEF handleReceivedAMD, TakeClear, isAliasCollision, Permitted, TypeOK
<1>4. CASE handleReceivedAME(k)
  BY <1>4 DEF handleReceivedAME, TakeClear, isAliasCollision, Permitted, Word
<1>5. CASE handleReceivedAMR(k)
  BY <1>5 DEF handleReceivedAMR, TakeClear, isAliasCollision, Permitted, TypeOK
<1>6. CASE handleReceivedData(k)
  BY <1>6 DEF handleReceivedData, Learn, TakeClear, isAliasCollision, Permitted, TypeOK
<1> QED
  BY <1>1, <1>2, <1>3, <1>4, <1>5, <1>6 DEF Hear

\* What k has entered for another program stays, unless the frame spoils it.
LEMMA HeardEntry ==
    ASSUME DistinctIds, TypeOK, SenderInv, NEW k \in Nodes, Hear(k),
           NEW n \in Nodes, n # k, NEW a \in Aliases
    PROVE  /\ Entered(k, a, IdOf[n]) /\ ~Spoils(frame(k), a, IdOf[n])
                 => aliasToNodeID'[k][a] = IdOf[n] /\ nodeIdToAlias'[k][IdOf[n]] = a
           /\ frame(k) = MkFrame("AMD", a, IdOf[n])
                 => aliasToNodeID'[k][a] = IdOf[n] /\ nodeIdToAlias'[k][IdOf[n]] = a
<1> DEFINE f == frame(k)
           id == IdOf[n]
           Known == aliasToNodeID'[k][a] = id /\ nodeIdToAlias'[k][id] = a
<1>1. /\ a \in WireAliases /\ id \in NodeIDs /\ id # None /\ id # IdOf[k]
      /\ id \notin InternalIds
  BY ConstantsAssumption DEF WireAliases, NodeIDs, DistinctIds
<1>2. f.alias \in WireAliases /\ f.kind \in Kinds
  <2>1. Take(k)
    BY Heard
  <2> QED
    BY <2>1, TakeType DEF Frame
<1>3. /\ \A x, v : aliasToNodeID' = [aliasToNodeID EXCEPT ![k][x] = v]
             => aliasToNodeID'[k][a] = IF x = a THEN v ELSE aliasToNodeID[k][a]
      /\ \A x, v : nodeIdToAlias' = [nodeIdToAlias EXCEPT ![k][x] = v]
             => nodeIdToAlias'[k][id] = IF x = id THEN v ELSE nodeIdToAlias[k][id]
  BY <1>1 DEF TypeOK
<1>4. CASE UNCHANGED <<aliasToNodeID, nodeIdToAlias>> /\ f.kind # "AMD"
  <2>1. f # MkFrame("AMD", a, id)
    BY <1>4 DEF MkFrame
  <2> QED
    BY <1>4, <2>1 DEF Entered
<1>5. CASE handleReceivedAMD(k)
  <2>1. /\ aliasToNodeID' = [aliasToNodeID EXCEPT ![k][f.alias] = f.id]
        /\ nodeIdToAlias' = [nodeIdToAlias EXCEPT ![k][f.id] = f.alias]
        /\ f.kind = "AMD"
    BY <1>5 DEF handleReceivedAMD, TakeClear
  <2>2. f = MkFrame("AMD", a, id) => f.alias = a /\ f.id = id
    BY DEF MkFrame
  <2> HIDE DEF f
  <2>3. aliasToNodeID'[k][a] = IF f.alias = a THEN f.id ELSE aliasToNodeID[k][a]
    BY <1>1, <2>1 DEF TypeOK
  <2>4. nodeIdToAlias'[k][id] = IF f.id = id THEN f.alias ELSE nodeIdToAlias[k][id]
    BY <1>1, <2>1 DEF TypeOK
  <2>5. ~Spoils(f, a, id) => (f.alias = a <=> f.id = id)
    BY <2>1 DEF Spoils
  <2> QED
    BY <2>2, <2>3, <2>4, <2>5 DEF Entered, f
<1>6. CASE handleReceivedAMR(k)
  <2>1. f.kind = "AMR"
    BY <1>6 DEF handleReceivedAMR, TakeClear
  <2>2. CASE UNCHANGED <<aliasToNodeID, nodeIdToAlias>>
    BY <1>4, <2>1, <2>2
  <2>3. CASE /\ aliasToNodeID' = [aliasToNodeID EXCEPT ![k][f.alias] = None]
             /\ nodeIdToAlias' = [nodeIdToAlias EXCEPT ![k][f.id] = None]
    <3>1. /\ aliasToNodeID'[k][a] = IF f.alias = a THEN None ELSE aliasToNodeID[k][a]
          /\ nodeIdToAlias'[k][id] = IF f.id = id THEN None ELSE nodeIdToAlias[k][id]
      BY <1>3, <2>3
    <3>2. f # MkFrame("AMD", a, id)
      BY <2>1 DEF MkFrame
    <3> HIDE DEF f
    <3>3. ~Spoils(f, a, id) => f.alias # a /\ f.id # id
      BY <2>1 DEF Spoils
    <3> QED
      BY <3>1, <3>2, <3>3 DEF Entered, f
  <2> QED
    BY <1>6, <2>2, <2>3 DEF handleReceivedAMR
<1>7. CASE handleReceivedData(k)
  <2>1. f.kind \in {"Verified", "Data"} /\ f # MkFrame("AMD", a, id)
    BY <1>7 DEF handleReceivedData, TakeClear, MkFrame
  <2>2. CASE UNCHANGED <<aliasToNodeID, nodeIdToAlias>>
    BY <1>4, <2>1, <2>2
  <2>3. ASSUME NEW v, Learn(k, f.alias, v), aliasToNodeID[k][f.alias] = None,
               Entered(k, a, id), v # id
        PROVE  Known
    <3>1. f.alias # a
      BY <1>1, <2>3 DEF Entered
    <3>2. /\ aliasToNodeID' = [aliasToNodeID EXCEPT ![k][f.alias] = v]
          /\ nodeIdToAlias' = [nodeIdToAlias EXCEPT ![k][v] = f.alias]
      BY <2>3 DEF Learn
    <3>3. /\ aliasToNodeID'[k][a] = aliasToNodeID[k][a]
          /\ nodeIdToAlias'[k][id] = nodeIdToAlias[k][id]
      BY <1>3, <2>3, <3>1, <3>2
    <3> QED
      BY <2>3, <3>3 DEF Entered
  <2>4. CASE /\ aliasToNodeID[k][f.alias] = None
             /\ f.kind = "Verified" /\ Learn(k, f.alias, f.id)
    <3>1. Entered(k, a, id) => f.alias # a
      BY <1>1, <2>4 DEF Entered
    <3>2. Entered(k, a, id) /\ ~Spoils(f, a, id) => f.id # id
      BY <2>4, <3>1 DEF Spoils
    <3> HIDE DEF f, Known
    <3> QED
      BY <2>1, <2>3, <2>4, <3>2 DEF f, Known
  <2>5. CASE /\ aliasToNodeID[k][f.alias] = None
             /\ nextInternal[k] \in InternalIds
             /\ Learn(k, f.alias, nextInternal[k])
    <3>1. nextInternal[k] # id
      BY <1>1, <2>5
    <3> HIDE DEF f, Known
    <3> QED
      BY <2>1, <2>3, <2>5, <3>1 DEF f, Known
  <2> QED
    BY <1>7, <2>2, <2>4, <2>5 DEF handleReceivedData
<1>8. CASE handleReceivedCID(k) \/ handleReceivedRID(k) \/ handleReceivedAME(k)
  BY <1>4, <1>8
     DEF handleReceivedCID, handleReceivedRID, handleReceivedAME, TakeClear
<1> QED
  BY <1>5, <1>6, <1>7, <1>8 DEF Hear

LEMMA OwnWordsHarmless ==
    ASSUME TypeOK, NEW k \in Nodes
    PROVE  /\ MkFrame("RID", alias[k], None) \in Frame
           /\ ~Spoils(MkFrame("RID", alias[k], None), alias[k], IdOf[k])
           /\ MkFrame("AMD", alias[k], IdOf[k]) \in Frame
           /\ ~Spoils(MkFrame("AMD", alias[k], IdOf[k]), alias[k], IdOf[k])
<1>1. alias[k] \in WireAliases /\ IdOf[k] \in Ids
  BY ConstantsAssumption DEF TypeOK, WireAliases
<1>2. /\ MkFrame("RID", alias[k], None) \in Frame
      /\ MkFrame("AMD", alias[k], IdOf[k]) \in Frame
  BY <1>1, MkFrameType DEF Kinds
<1> QED
  BY <1>2 DEF Spoils, MkFrame

LEMMA MapsHear ==
    ASSUME DistinctIds, TypeOK, SenderInv, MapsInv, NEW k \in Nodes, Hear(k)
    PROVE  MapsInv'
<1> DEFINE f == frame(k)
           word == MkFrame("AMD", alias[k], IdOf[k])
<1>1. /\ Take(k) /\ UNCHANGED <<state, alias>>
      /\ \A m \in Nodes \ {k} : /\ aliasToNodeID'[m] = aliasToNodeID[m]
                                /\ nodeIdToAlias'[m] = nodeIdToAlias[m]
  BY Heard
<1>2. /\ Permitted(k) /\ f.kind # "CID" => f.alias # alias[k]
      /\ Permitted(k) /\ f.kind = "AME" /\ f.id = None => Emit(k, <<word>>)
      /\ UNCHANGED out \/ Word(k)
  BY Heard
<1>3. /\ in'[k] = Tail(in[k]) /\ in[k] # << >> /\ f = Head(in[k])
      /\ \A m \in Nodes \ {k} : in'[m] = in[m]
      /\ \A m \in Nodes : in[m] \in Seq(Frame) /\ out[m] \in Seq(Frame)
  BY <1>1, TakeType DEF Take, TypeOK, frame
<1>4. /\ \A m \in Nodes \ {k} : out'[m] = out[m]
      /\ Asks(out[k]) => Asks(out'[k])
      /\ Unspoiled(out[k], alias[k], IdOf[k]) => Unspoiled(out'[k], alias[k], IdOf[k])
      /\ Announces(out[k], alias[k], IdOf[k]) => Announces(out'[k], alias[k], IdOf[k])
  BY <1>2, OwnWordsHarmless, OwnWord DEF Word
<1> SUFFICES ASSUME NEW m \in Nodes, NEW n \in Nodes, m # n,
                    Permitted(m)', Permitted(n)'
             PROVE  WillKnow(m, n)'
  BY DEF MapsInv
<1>5. Permitted(m) /\ Permitted(n) /\ WillKnow(m, n)
  BY <1>1 DEF MapsInv, Permitted
<1> DEFINE a == alias[n]
           id == IdOf[n]
<1>6. CASE n = k
  <2>1. CASE Clashes(in[n], a)
    <3>1. Clashes(in'[n], a)
      BY <1>2, <1>3, <1>5, <1>6, <2>1, TakenFrames
    <3> QED
      BY <1>1, <3>1 DEF WillKnow
  <2>2. CASE Asks(in[n])
    <3>1. Asks(in'[n]) \/ (f.kind = "AME" /\ f.id = None)
      BY <1>3, <1>6, <2>2, TakenFrames
    <3>2. CASE f.kind = "AME" /\ f.id = None
      <4>1. Emit(k, <<word>>)
        BY <1>2, <1>5, <1>6, <3>2
      <4>2. Announces(out'[k], alias[k], IdOf[k])
        BY <4>1, OwnWordsHarmless, OwnWord
      <4> QED
        BY <1>1, <1>6, <4>2 DEF WillKnow, Told
    <3> QED
      BY <3>1, <3>2 DEF WillKnow
  <2>3. CASE Asks(out[m])
    BY <1>4, <1>6, <2>3 DEF WillKnow
  <2>4. CASE Told(m, n)
    <3>1. Told(m, n)'
      BY <1>1, <1>3, <1>4, <1>6, <2>4 DEF Told, Entered
    <3> QED
      BY <3>1 DEF WillKnow
  <2> QED
    BY <1>5, <2>1, <2>2, <2>3, <2>4 DEF WillKnow
<1>7. CASE m = k
  <2>1. CASE Clashes(in[n], a) \/ Asks(in[n]) \/ Asks(out[m])
    BY <1>1, <1>3, <1>4, <1>7, <2>1 DEF WillKnow
  <2>2. CASE Told(m, n)
    <3>1. out'[n] = out[n]
      BY <1>4, <1>7
    <3>2. /\ Unspoiled(in[m], a, id) => ~Spoils(f, a, id) /\ Unspoiled(in'[m], a, id)
          /\ Announces(in[m], a, id) =>
                \/ Announces(in'[m], a, id)
                \/ f = MkFrame("AMD", a, id) /\ Unspoiled(in'[m], a, id)
      BY <1>3, <1>7, TakenFrames
    <3>3. a \in Aliases
      BY DEF TypeOK
    <3>4. /\ Entered(m, a, id) /\ ~Spoils(f, a, id)
                => aliasToNodeID'[m][a] = id /\ nodeIdToAlias'[m][id] = a
          /\ f = MkFrame("AMD", a, id)
                => aliasToNodeID'[m][a] = id /\ nodeIdToAlias'[m][id] = a
      BY <1>7, <3>3, HeardEntry
    <3> HIDE DEF f
    <3>5. Told(m, n)'
      BY <1>1, <2>2, <3>1, <3>2, <3>4 DEF Told, Entered
    <3> QED
      BY <3>5 DEF WillKnow
  <2> QED
    BY <1>5, <2>1, <2>2 DEF WillKnow
<1>8. CASE m # k /\ n # k
  BY <1>1, <1>3, <1>4, <1>5, <1>8, WillKnowKept
<1> QED
  BY <1>6, <1>7, <1>8

LEMMA MapsSend ==
    ASSUME TypeOK, OwnAliasKnown, MapsInv,
           NEW k \in Nodes, SendData(k) \/ QueryAlias(k)
    PROVE  MapsInv'
<1>1. UNCHANGED <<state, alias, aliasToNodeID, nodeIdToAlias, in>>
  BY DEF SendData, QueryAlias
<1>2. PICK f \in Frame :
          /\ Emit(k, <<f>>)
          /\ Permitted(k) => ~Spoils(f, alias[k], IdOf[k])
  <2>1. CASE SendData(k)
    <3> DEFINE own == nodeIdToAlias[k][IdOf[k]]
               src == IF own = None THEN ZeroAlias ELSE own
    <3>1. PICK kind \in {"Verified", "Data"} :
              Emit(k, <<MkFrame(kind, src, IF kind = "Verified"
                                            THEN IdOf[k] ELSE None)>>)
      BY <2>1 DEF SendData
    <3>2. src \in WireAliases /\ IdOf[k] \in Ids
      BY ConstantsAssumption DEF TypeOK, WireAliases, NodeIDs
    <3>3. Permitted(k) => src = alias[k]
      <4>1. alias[k] # None
        BY ConstantsAssumption DEF TypeOK
      <4> QED
        BY <4>1 DEF OwnAliasKnown
    <3> HIDE DEF src
    <3> DEFINE g == MkFrame(kind, src, IF kind = "Verified" THEN IdOf[k] ELSE None)
    <3>4. g \in Frame
      BY <3>2, MkFrameType DEF Kinds
    <3>5. g.alias = src /\ g.kind \in {"Verified", "Data"}
      BY DEF MkFrame
    <3> HIDE DEF g
    <3>6. Permitted(k) => ~Spoils(g, alias[k], IdOf[k])
      BY <3>3, <3>5 DEF Spoils
    <3> QED
      BY <3>1, <3>4, <3>6 DEF g
  <2>2. CASE QueryAlias(k)
    <3>1. PICK id \in Ids \cup {None} : Emit(k, <<MkFrame("AME", alias[k], id)>>)
      BY <2>2 DEF QueryAlias
    <3>2. MkFrame("AME", alias[k], id) \in Frame
      BY MkFrameType DEF Kinds, TypeOK, WireAliases
    <3>3. ~Spoils(MkFrame("AME", alias[k], id), alias[k], IdOf[k])
      BY DEF Spoils, MkFrame
    <3> QED
      BY <3>1, <3>2, <3>3
  <2> QED
    BY <2>1, <2>2
<1>3. /\ \A m \in Nodes \ {k} : out'[m] = out[m]
      /\ out'[k] = out[k] \o <<f>>
      /\ out[k] \in Seq(Frame) /\ <<f>> \in Seq(Frame)
  BY <1>2, OneFrame DEF Emit, TypeOK
<1>4. Asks(out[k]) => Asks(out'[k])
  BY <1>3, JoinedFrames
<1>5. Permitted(k) =>
        /\ Unspoiled(out[k], alias[k], IdOf[k]) => Unspoiled(out'[k], alias[k], IdOf[k])
        /\ Announces(out[k], alias[k], IdOf[k]) => Announces(out'[k], alias[k], IdOf[k])
  BY <1>2, OwnWord
<1> SUFFICES ASSUME NEW m \in Nodes, NEW n \in Nodes, m # n,
                    Permitted(m)', Permitted(n)'
             PROVE  WillKnow(m, n)'
  BY DEF MapsInv
<1>6. Permitted(m) /\ Permitted(n) /\ WillKnow(m, n)
  BY <1>1 DEF MapsInv, Permitted
<1>7. CASE Clashes(in[n], alias[n]) \/ Asks(in[n]) \/ Asks(out[m])
  BY <1>1, <1>3, <1>4, <1>7 DEF WillKnow
<1>8. CASE Told(m, n)
  <2>1. Told(m, n)'
    BY <1>1, <1>3, <1>5, <1>6, <1>8 DEF Told, Entered
  <2> QED
    BY <2>1 DEF WillKnow
<1> QED
  BY <1>6, <1>7, <1>8 DEF WillKnow

LEMMA LinkedStep ==
    ASSUME TypeOK, LinkedInv, [Next]_vars
    PROVE  LinkedInv'
<1>1. CASE UNCHANGED <<state, linked>>
  BY <1>1 DEF LinkedInv, Permitted
<1>2. ASSUME NEW k \in Nodes,
             \/ handleReceivedLinkUp(k) \/ handleReceivedLinkRestarted(k)
             \/ handleReceivedLinkDown(k) \/ Restart(k)
      PROVE  LinkedInv'
  BY <1>2 DEF handleReceivedLinkUp, handleReceivedLinkRestarted,
              handleReceivedLinkDown, Restart, defineAndReserveAlias,
              LinkedInv, Permitted, TypeOK
<1>3. ASSUME NEW k \in Nodes, Receive(k)
      PROVE  LinkedInv'
  <2>1. CASE Hear(k)
    <3>1. UNCHANGED <<state, linked>>
      BY <2>1, Heard DEF Take
    <3> QED
      BY <1>1, <3>1
  <2>2. CASE checkAndHandleAliasCollision(k) \/ duplicateNodeID(k)
    <3>1. Take(k) /\ processCollision(k)
      BY <2>2 DEF checkAndHandleAliasCollision, duplicateNodeID, TakeClear
    <3>2. linked[k] /\ linked' = linked
      BY <3>1 DEF Take
    <3>3. \A m \in Nodes \ {k} : state'[m] = state[m]
      BY <3>1 DEF processCollision, defineAndReserveAlias, TypeOK
    <3> QED
      BY <3>2, <3>3 DEF LinkedInv, Permitted
  <2> QED
    BY <1>3, <2>1, <2>2 DEF Receive, Hear
<1>4. CASE \E k \in Nodes : Forward(k) \/ SendData(k) \/ QueryAlias(k)
  BY <1>1, <1>4 DEF Forward, SendData, QueryAlias
<1>5. CASE UNCHANGED vars
  BY <1>1, <1>5 DEF vars
<1> QED
  BY <1>2, <1>3, <1>4, <1>5 DEF Next

LEMMA MapsStep ==
    ASSUME DistinctIds, TypeOK, SenderInv, OwnAliasKnown, LinkedInv, MapsInv,
           [Next]_vars
    PROVE  MapsInv'
<1>1. CASE UNCHANGED vars
  BY <1>1 DEF vars, MapsInv, WillKnow, Told, Entered, Permitted
<1>2. ASSUME NEW k \in Nodes, handleReceivedLinkUp(k)
      PROVE  MapsInv'
  <2>1. /\ defineAndReserveAlias(k, alias'[k], << >>)
        /\ UNCHANGED <<alias, in>>
    BY <1>2 DEF handleReceivedLinkUp
  <2>2. alias'[k] \in Aliases /\ << >> \in Seq(Frame)
    BY <2>1 DEF TypeOK
  <2> QED
    BY <2>1, <2>2, MapsReserve
<1>3. ASSUME NEW k \in Nodes, handleReceivedLinkRestarted(k)
      PROVE  MapsInv'
  BY <1>3 DEF handleReceivedLinkRestarted, MapsInv, WillKnow, Told, Entered, Permitted
<1>4. ASSUME NEW k \in Nodes, handleReceivedLinkDown(k) \/ Restart(k)
      PROVE  MapsInv'
  <2>1. /\ state'[k] # "Permitted"
        /\ \A m \in Nodes \ {k} : /\ state'[m] = state[m] /\ alias'[m] = alias[m]
                                  /\ in'[m] = in[m] /\ out'[m] = out[m]
                                  /\ aliasToNodeID'[m] = aliasToNodeID[m]
                                  /\ nodeIdToAlias'[m] = nodeIdToAlias[m]
    BY <1>4 DEF handleReceivedLinkDown, Restart, LoseQueues, TypeOK
  <2> QED
    BY <2>1, WillKnowKept DEF MapsInv, Permitted
<1>5. ASSUME NEW k \in Nodes, Take(k), processCollision(k)
      PROVE  MapsInv'
  <2> DEFINE amr == MkFrame("AMR", alias[k], IdOf[k])
  <2>1. /\ alias' \in [Nodes -> Aliases]
        /\ \A m \in Nodes \ {k} : alias'[m] = alias[m]
    BY <1>5, Collision
  <2>2. defineAndReserveAlias(k, alias'[k], <<amr>>)
    BY <1>5 DEF processCollision, TypeOK
  <2>3. \A m \in Nodes \ {k} : in'[m] = in[m]
    BY <1>5, TakeType
  <2>4. <<amr>> \in Seq(Frame)
    <3>1. alias[k] \in WireAliases /\ IdOf[k] \in Ids
      BY ConstantsAssumption DEF TypeOK, WireAliases
    <3>2. amr \in Frame
      BY <3>1, MkFrameType DEF Kinds
    <3> QED
      BY <3>2, OneFrame
  <2> HIDE DEF amr
  <2>5. alias'[k] \in Aliases
    BY <2>1
  <2> QED
    BY <2>1, <2>2, <2>3, <2>4, <2>5, MapsReserve
<1>6. ASSUME NEW k \in Nodes, Receive(k)
      PROVE  MapsInv'
  <2>1. CASE Hear(k)
    BY <2>1, MapsHear
  <2>2. CASE checkAndHandleAliasCollision(k) \/ duplicateNodeID(k)
    BY <1>5, <2>2 DEF checkAndHandleAliasCollision, duplicateNodeID, TakeClear
  <2> QED
    BY <1>6, <2>1, <2>2 DEF Receive, Hear
<1>7. CASE \E k \in Nodes : Forward(k)
  BY <1>7, MapsForward
<1>8. CASE \E k \in Nodes : SendData(k) \/ QueryAlias(k)
  BY <1>8, MapsSend
<1> QED
  BY <1>1, <1>2, <1>3, <1>4, <1>6, <1>7, <1>8 DEF Next

\* With distinct node IDs, whatever collisions, restarts, link losses and
\* frames of third programs came before: on a quiet bus every program that may
\* transmit has the current alias of every other one in both its maps.
THEOREM MapsAlwaysAgree ==
    ASSUME DistinctIds
    PROVE  Spec => []MapsAgree
<1> DEFINE Inv == TypeOK /\ SenderInv /\ OwnAliasKnown /\ LinkedInv /\ MapsInv
<1>1. Init => Inv
  <2> SUFFICES ASSUME Init PROVE Inv
    OBVIOUS
  <2>1. TypeOK
    BY ConstantsAssumption DEF Init, TypeOK
  <2>2. \A S : << >> \in Seq(S)
    OBVIOUS
  <2>3. SenderInv
    BY <2>2 DEF Init, SenderInv
  <2>4. \A n \in Nodes : ~Permitted(n)
    BY DEF Init, Permitted
  <2> QED
    BY <2>1, <2>3, <2>4 DEF OwnAliasKnown, LinkedInv, MapsInv
<1>2. Inv /\ [Next]_vars => Inv'
  BY TypeStep, SenderStep, OwnAliasStep, LinkedStep, MapsStep
<1>3. Inv => MapsAgree
  <2> SUFFICES ASSUME Inv, Quiet, NEW m \in Nodes, NEW n \in Nodes, m # n,
                      Permitted(m), Permitted(n)
               PROVE  Acquainted(m, n)
    BY DEF MapsAgree
  <2>1. WillKnow(m, n)
    BY DEF MapsInv
  <2>2. in[m] = << >> /\ in[n] = << >> /\ out[m] = << >> /\ out[n] = << >>
    BY DEF Quiet
  <2>3. Entered(m, alias[n], IdOf[n])
    <3>1. 1 .. Len(<< >>) = {}
      OBVIOUS
    <3> QED
      BY <2>1, <2>2, <3>1 DEF WillKnow, Told, Clashes, Asks, Announces
  <2>4. alias[m] # alias[n]
    BY <2>3 DEF Entered, OwnAliasKnown, DistinctIds
  <2> QED
    BY <2>3, <2>4 DEF Acquainted, Entered
<1> QED
  BY <1>1, <1>2, <1>3, PTL DEF Spec

=============================================================================
