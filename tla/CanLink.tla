------------------------------ MODULE CanLink ------------------------------
(***************************************************************************)
(* Alias allocation of src/openlcb/canbus/canlink.py: several programs,    *)
(* each running one CanLink, share a CAN bus through a GridConnect hub.    *)
(*                                                                         *)
(* A handler of CanLink runs to completion on the receive thread before    *)
(* the next frame is taken, so a handler is one action; the frames it      *)
(* sends go to the node's socket (out), and the hub moves them one at a    *)
(* time to every other node (in), so the frames of different nodes         *)
(* interleave freely.  A node never hears its own frames.                  *)
(*                                                                         *)
(* The 48-bit seed and the 12-bit alias made from it are abstracted to a   *)
(* finite set of seeds with a successor function and an alias each.        *)
(***************************************************************************)
EXTENDS Integers, Sequences

CONSTANTS
    Nodes,        \* the programs on the bus
    Ids,          \* the node IDs that programs are configured with
    IdOf,         \* the node ID of each program
    Aliases,      \* the aliases createAlias12 can return, never 0
    Seeds,        \* the values of localAliasSeed
    FirstSeed,    \* the seed of each program: its node ID
    NextSeed,     \* incrementAlias48
    AliasOf,      \* createAlias12
    ZeroAlias,    \* alias field 0, sent when the sender has no alias
    None,         \* no entry in a map, no node ID in a frame
    CidFrames,    \* CID frames before a RID: 4 in the code
    MaxInternal,  \* bound: node IDs made up for unknown source aliases
    MaxSends,     \* bound: frames sent on behalf of the checks
    MaxOutages,   \* bound: link losses and program restarts
    MaxDuplicates \* bound: claims of a node's own ID that it answers

ASSUME ConstantsAssumption ==
    /\ IdOf \in [Nodes -> Ids]
    /\ FirstSeed \in [Nodes -> Seeds]
    /\ NextSeed \in [Seeds -> Seeds]
    /\ AliasOf \in [Seeds -> Aliases]
    /\ ZeroAlias \notin Aliases
    /\ None \notin Aliases \cup {ZeroAlias}
    /\ None \notin Ids
    /\ None \notin Nat
    /\ CidFrames \in Nat
    /\ MaxInternal \in Nat
    /\ MaxSends \in Nat
    /\ MaxOutages \in Nat
    /\ MaxDuplicates \in Nat

VARIABLES
    state,          \* CanLink.state
    seed,           \* CanLink.localAliasSeed
    alias,          \* CanLink.localAlias
    aliasToNodeID,  \* CanLink.aliasToNodeID
    nodeIdToAlias,  \* CanLink.nodeIdToAlias
    nextInternal,   \* CanLink.nextInternallyAssignedNodeID
    linked,         \* the node's socket is connected to the hub
    out,            \* frames the node has sent that the hub has not forwarded
    in,             \* frames forwarded to the node and not yet handled
    sends,          \* frames sent by SendData and QueryAlias, for MaxSends
    outages,        \* link losses and restarts, for MaxOutages
    duplicates      \* duplicateNodeID steps, for MaxDuplicates

vars == <<state, seed, alias, aliasToNodeID, nodeIdToAlias, nextInternal,
          linked, out, in, sends, outages, duplicates>>

WireAliases == Aliases \cup {ZeroAlias}
InternalIds == 1 .. MaxInternal
NodeIDs == Ids \cup InternalIds

\* The control frames CanLink acts on, and the two kinds of data frame its
\* source lookup tells apart.
Kinds == {"CID", "RID", "AMD", "AME", "AMR", "Verified", "Data"}
Frame == [kind : Kinds, alias : WireAliases, id : Ids \cup {None}]

MkFrame(kind, a, id) == [kind |-> kind, alias |-> a, id |-> id]

-----------------------------------------------------------------------------
(* What the handlers are made of. *)

Emit(n, frames) == out' = [out EXCEPT ![n] = @ \o frames]

sendAliasAllocationSequence(a) ==
    [i \in 1 .. CidFrames |-> MkFrame("CID", a, None)]
        \o <<MkFrame("RID", a, None)>>

\* Mutant: no AME, so the aliases in use before are never asked for.
AllocationFrames_noAME(n, a) ==
    sendAliasAllocationSequence(a) \o <<MkFrame("AMD", a, IdOf[n])>>

\* The code's TODO is kept: AMD follows the CID frames at once, with no wait
\* for an objection.
AllocationFrames(n, a) ==
    sendAliasAllocationSequence(a)
        \o <<MkFrame("AMD", a, IdOf[n]), MkFrame("AME", a, None)>>

\* Mutant: the node ID's entry is forgotten.
defineAndReserveAlias_unmapped(n, a, before) ==
    /\ Emit(n, before \o AllocationFrames(n, a))
    /\ state' = [state EXCEPT ![n] = "Permitted"]
    /\ aliasToNodeID' = [aliasToNodeID EXCEPT ![n][a] = IdOf[n]]
    /\ UNCHANGED nodeIdToAlias

\* The frames in "before" have been sent earlier in the same handler.
defineAndReserveAlias(n, a, before) ==
    /\ Emit(n, before \o AllocationFrames(n, a))
    /\ state' = [state EXCEPT ![n] = "Permitted"]
    /\ aliasToNodeID' = [aliasToNodeID EXCEPT ![n][a] = IdOf[n]]
    /\ nodeIdToAlias' = [nodeIdToAlias EXCEPT ![n][IdOf[n]] = a]

\* Mutant: createAlias12 without its replacements for zero.
processCollision_zeroAlias(n) ==
    /\ seed' = [seed EXCEPT ![n] = NextSeed[@]]
    /\ alias' = [alias EXCEPT ![n] = ZeroAlias]
    /\ defineAndReserveAlias(n, ZeroAlias, <<MkFrame("AMR", alias[n], IdOf[n])>>)

\* Mutant: the new alias is used without the allocation sequence.
processCollision_unannounced(n) ==
    LET s == NextSeed[seed[n]] IN
    /\ seed' = [seed EXCEPT ![n] = s]
    /\ alias' = [alias EXCEPT ![n] = AliasOf[s]]
    /\ Emit(n, <<MkFrame("AMR", alias[n], IdOf[n])>>)
    /\ aliasToNodeID' = [aliasToNodeID EXCEPT ![n][AliasOf[s]] = IdOf[n]]
    /\ nodeIdToAlias' = [nodeIdToAlias EXCEPT ![n][IdOf[n]] = AliasOf[s]]
    /\ state' = [state EXCEPT ![n] = "Permitted"]

\* A new seed and alias; the entry of the old alias in the node's own maps
\* stays.
processCollision(n) ==
    LET s == NextSeed[seed[n]] IN
    /\ seed' = [seed EXCEPT ![n] = s]
    /\ alias' = [alias EXCEPT ![n] = AliasOf[s]]
    /\ defineAndReserveAlias(n, AliasOf[s],
                             <<MkFrame("AMR", alias[n], IdOf[n])>>)

\* The receive loop hands the node its next frame.  It runs once
\* physicalLayerUp has been called, so never in the Initial state.
frame(n) == Head(in[n])

Take(n) ==
    /\ linked[n]
    /\ state[n] # "Initial"
    /\ in[n] # << >>
    /\ in' = [in EXCEPT ![n] = Tail(@)]
    /\ UNCHANGED <<linked, sends, outages>>

\* Mutant: only data frames are checked for a collision.
isAliasCollision_dataOnly(n) ==
    /\ state[n] = "Permitted"
    /\ frame(n).alias = alias[n]
    /\ frame(n).kind \in {"Verified", "Data"}

\* checkAndHandleAliasCollision's condition
isAliasCollision(n) == state[n] = "Permitted" /\ frame(n).alias = alias[n]

TakeClear(n, kinds) ==
    /\ Take(n)
    /\ frame(n).kind \in kinds
    /\ ~isAliasCollision(n)

-----------------------------------------------------------------------------
Init ==
    /\ state = [n \in Nodes |-> "Initial"]
    /\ seed = FirstSeed
    /\ alias = [n \in Nodes |-> AliasOf[FirstSeed[n]]]
    /\ aliasToNodeID = [n \in Nodes |-> [a \in WireAliases |-> None]]
    /\ nodeIdToAlias = [n \in Nodes |-> [i \in NodeIDs |-> None]]
    /\ nextInternal = [n \in Nodes |-> 1]
    /\ linked = [n \in Nodes |-> TRUE]
    /\ out = [n \in Nodes |-> << >>]
    /\ in = [n \in Nodes |-> << >>]
    /\ sends = 0
    /\ outages = 0
    /\ duplicates = 0

\* The hub forwards one frame to every other connected node.
Forward(n) ==
    /\ out[n] # << >>
    /\ out' = [out EXCEPT ![n] = Tail(@)]
    /\ in' = [m \in Nodes |-> IF m # n /\ linked[m]
                              THEN Append(in[m], Head(out[n]))
                              ELSE in[m]]
    /\ UNCHANGED <<state, seed, alias, aliasToNodeID, nodeIdToAlias,
                   nextInternal, linked, sends, outages, duplicates>>

handleReceivedLinkUp(n) ==
    /\ state[n] = "Initial" \/ ~linked[n]
    /\ linked' = [linked EXCEPT ![n] = TRUE]
    /\ defineAndReserveAlias(n, alias[n], << >>)
    /\ UNCHANGED <<seed, alias, nextInternal, in, sends, outages, duplicates>>

\* A second or later connection: only a message to the layers above.
handleReceivedLinkRestarted(n) ==
    /\ ~linked[n]
    /\ linked' = [linked EXCEPT ![n] = TRUE]
    /\ UNCHANGED <<state, seed, alias, aliasToNodeID, nodeIdToAlias,
                   nextInternal, out, in, sends, outages, duplicates>>

LoseQueues(n) ==
    /\ out' = [out EXCEPT ![n] = << >>]
    /\ in' = [in EXCEPT ![n] = << >>]
    /\ outages' = outages + 1

\* The connection is lost with the frames in it; no AMR can be sent.
handleReceivedLinkDown(n) ==
    /\ outages < MaxOutages
    /\ linked[n] /\ state[n] # "Initial"
    /\ state' = [state EXCEPT ![n] = "Inhibited"]
    /\ linked' = [linked EXCEPT ![n] = FALSE]
    /\ LoseQueues(n)
    /\ UNCHANGED <<seed, alias, aliasToNodeID, nodeIdToAlias, nextInternal,
                   sends, duplicates>>

\* The program ends and is run again: a new CanLink on a new connection.
Restart(n) ==
    /\ outages < MaxOutages
    /\ state[n] # "Initial"
    /\ state' = [state EXCEPT ![n] = "Initial"]
    /\ seed' = [seed EXCEPT ![n] = FirstSeed[n]]
    /\ alias' = [alias EXCEPT ![n] = AliasOf[FirstSeed[n]]]
    /\ aliasToNodeID' = [aliasToNodeID EXCEPT
                           ![n] = [a \in WireAliases |-> None]]
    /\ nodeIdToAlias' = [nodeIdToAlias EXCEPT
                           ![n] = [i \in NodeIDs |-> None]]
    /\ nextInternal' = [nextInternal EXCEPT ![n] = 1]
    /\ linked' = [linked EXCEPT ![n] = TRUE]
    /\ LoseQueues(n)
    /\ UNCHANGED <<sends, duplicates>>

-----------------------------------------------------------------------------
(* The frame handlers. *)

\* No collision check and no state check here: an RID objects.
handleReceivedCID(n) ==
    /\ Take(n)
    /\ frame(n).kind = "CID"
    /\ IF frame(n).alias = alias[n]
       THEN Emit(n, <<MkFrame("RID", alias[n], None)>>)
       ELSE UNCHANGED out
    /\ UNCHANGED <<state, seed, alias, aliasToNodeID, nodeIdToAlias,
                   nextInternal, duplicates>>

\* The first thing every other handler does, and the last if it finds one.
checkAndHandleAliasCollision(n) ==
    /\ Take(n)
    /\ frame(n).kind # "CID"
    /\ isAliasCollision(n)
    /\ processCollision(n)
    /\ UNCHANGED <<nextInternal, duplicates>>

handleReceivedRID(n) ==
    /\ TakeClear(n, {"RID"})
    /\ UNCHANGED <<state, seed, alias, aliasToNodeID, nodeIdToAlias,
                   nextInternal, out, duplicates>>

\* Another program claims this node's ID.
duplicateNodeID(n) ==
    /\ TakeClear(n, {"AMD"})
    /\ frame(n).id = IdOf[n]
    /\ duplicates < MaxDuplicates
    /\ processCollision(n)
    /\ duplicates' = duplicates + 1
    /\ UNCHANGED nextInternal

\* An older alias of the same node, and an older node of the same alias, keep
\* their entries in the other map.
handleReceivedAMD(n) ==
    /\ TakeClear(n, {"AMD"})
    /\ frame(n).id # IdOf[n]
    /\ aliasToNodeID' = [aliasToNodeID EXCEPT ![n][frame(n).alias] = frame(n).id]
    /\ nodeIdToAlias' = [nodeIdToAlias EXCEPT ![n][frame(n).id] = frame(n).alias]
    /\ UNCHANGED <<state, seed, alias, nextInternal, out, duplicates>>

handleReceivedAME(n) ==
    /\ TakeClear(n, {"AME"})
    /\ IF state[n] = "Permitted" /\ frame(n).id \in {None, IdOf[n]}
       THEN Emit(n, <<MkFrame("AMD", alias[n], IdOf[n])>>)
       ELSE UNCHANGED out
    /\ UNCHANGED <<state, seed, alias, aliasToNodeID, nodeIdToAlias,
                   nextInternal, duplicates>>

\* One try block: if the alias is not known, the entry of the node ID stays.
handleReceivedAMR(n) ==
    /\ TakeClear(n, {"AMR"})
    /\ IF aliasToNodeID[n][frame(n).alias] = None
       THEN UNCHANGED <<aliasToNodeID, nodeIdToAlias>>
       ELSE /\ aliasToNodeID' = [aliasToNodeID EXCEPT ![n][frame(n).alias] = None]
            /\ nodeIdToAlias' = [nodeIdToAlias EXCEPT ![n][frame(n).id] = None]
    /\ UNCHANGED <<state, seed, alias, nextInternal, out, duplicates>>

Learn(n, a, id) ==
    /\ aliasToNodeID' = [aliasToNodeID EXCEPT ![n][a] = id]
    /\ nodeIdToAlias' = [nodeIdToAlias EXCEPT ![n][id] = a]

\* The source part of handleReceivedData: an unknown alias is given the node
\* ID that a Verified Node ID message carries, or else one made up here.
handleReceivedData(n) ==
    /\ TakeClear(n, {"Verified", "Data"})
    /\ \/ /\ aliasToNodeID[n][frame(n).alias] # None
          /\ UNCHANGED <<aliasToNodeID, nodeIdToAlias, nextInternal>>
       \/ /\ aliasToNodeID[n][frame(n).alias] = None
          /\ frame(n).kind = "Verified"
          /\ Learn(n, frame(n).alias, frame(n).id)
          /\ UNCHANGED nextInternal
       \/ /\ aliasToNodeID[n][frame(n).alias] = None
          /\ frame(n).kind = "Data"
          /\ nextInternal[n] \in InternalIds
          /\ Learn(n, frame(n).alias, nextInternal[n])
          /\ nextInternal' = [nextInternal EXCEPT ![n] = @ + 1]
    /\ UNCHANGED <<state, seed, alias, out, duplicates>>

-----------------------------------------------------------------------------
(* What the checks send from the main thread.  Neither looks at the state. *)

\* sendMessage of a global message: the source field is whatever the map
\* holds for the node's own ID.
SendData(n) == \E kind \in {"Verified", "Data"} :
    /\ sends < MaxSends
    /\ linked[n]
    /\ LET own == nodeIdToAlias[n][IdOf[n]]
           id == IF kind = "Verified" THEN IdOf[n] ELSE None
       IN Emit(n, <<MkFrame(kind, IF own = None THEN ZeroAlias ELSE own, id)>>)
    /\ sends' = sends + 1
    /\ UNCHANGED <<state, seed, alias, aliasToNodeID, nodeIdToAlias,
                   nextInternal, linked, in, outages, duplicates>>

\* check_fr20: an AME for all nodes or for one.
QueryAlias(n) == \E id \in Ids \cup {None} :
    /\ sends < MaxSends
    /\ linked[n]
    /\ Emit(n, <<MkFrame("AME", alias[n], id)>>)
    /\ sends' = sends + 1
    /\ UNCHANGED <<state, seed, alias, aliasToNodeID, nodeIdToAlias,
                   nextInternal, linked, in, outages, duplicates>>

-----------------------------------------------------------------------------
Receive(n) ==
    \/ handleReceivedCID(n)
    \/ checkAndHandleAliasCollision(n)
    \/ handleReceivedRID(n)
    \/ duplicateNodeID(n)
    \/ handleReceivedAMD(n)
    \/ handleReceivedAME(n)
    \/ handleReceivedAMR(n)
    \/ handleReceivedData(n)

Next == \E n \in Nodes :
    \/ Forward(n)
    \/ Receive(n)
    \/ handleReceivedLinkUp(n)
    \/ handleReceivedLinkRestarted(n)
    \/ handleReceivedLinkDown(n)
    \/ Restart(n)
    \/ SendData(n)
    \/ QueryAlias(n)

Spec == Init /\ [][Next]_vars

\* The receive thread takes what has arrived, the hub forwards what was sent
\* and a started program brings its link up.  Nothing obliges a check to
\* send, nor a link to fail or to come back.
Fairness == \A n \in Nodes :
    /\ WF_vars(Forward(n))
    /\ WF_vars(Receive(n))
    /\ WF_vars(state[n] = "Initial" /\ handleReceivedLinkUp(n))

FairSpec == Spec /\ Fairness

-----------------------------------------------------------------------------
(* What is checked. *)

Carries(q, a) == \E k \in 1 .. Len(q) : q[k].alias = a

Quiet == \A n \in Nodes : in[n] = << >> /\ out[n] = << >>

Permitted(n) == state[n] = "Permitted"

\* Every variable has its type; in particular a local alias is never 0.
TypeOK ==
    /\ state \in [Nodes -> {"Initial", "Inhibited", "Permitted"}]
    /\ seed \in [Nodes -> Seeds]
    /\ alias \in [Nodes -> Aliases]
    /\ aliasToNodeID \in [Nodes -> [WireAliases -> NodeIDs \cup {None}]]
    /\ nodeIdToAlias \in [Nodes -> [NodeIDs -> WireAliases \cup {None}]]
    /\ nextInternal \in [Nodes -> 1 .. MaxInternal + 1]
    /\ linked \in [Nodes -> BOOLEAN]
    /\ out \in [Nodes -> Seq(Frame)]
    /\ in \in [Nodes -> Seq(Frame)]
    /\ sends \in 0 .. MaxSends
    /\ outages \in 0 .. MaxOutages
    /\ duplicates \in 0 .. MaxDuplicates

\* With no 200 ms wait two programs can put the same alias into use, but never
\* unnoticed: as long as both use it a frame that carries it is on its way to
\* or from one of them, and the collision check will find it.
ClashInFlight ==
    \A m, n \in Nodes :
        m # n /\ Permitted(m) /\ Permitted(n) /\ alias[m] = alias[n]
        => \E q \in {in[m], in[n], out[m], out[n]} : Carries(q, alias[n])

\* A program that may transmit sends under its own alias: its maps hold the
\* alias it has reserved, whatever the frames of the others did to them.
OwnAliasKnown ==
    \A n \in Nodes :
        Permitted(n) => /\ nodeIdToAlias[n][IdOf[n]] = alias[n]
                        /\ aliasToNodeID[n][alias[n]] = IdOf[n]

\* Two programs that know each other's alias and node ID.
Acquainted(m, n) ==
    /\ alias[m] # alias[n]
    /\ aliasToNodeID[m][alias[n]] = IdOf[n]
    /\ nodeIdToAlias[m][IdOf[n]] = alias[n]

\* When no frame is on its way, every program that may transmit knows the
\* current alias of every other one, whatever collisions, AMRs that found no
\* entry and restarts came before.
MapsAgree ==
    Quiet => \A m, n \in Nodes :
        m # n /\ Permitted(m) /\ Permitted(n) => Acquainted(m, n)

\* The negotiation ends: from some point on the bus is quiet, every program
\* may transmit and all of them are acquainted.
Settles ==
    <>[](/\ Quiet
         /\ \A n \in Nodes : Permitted(n)
         /\ \A m, n \in Nodes : m # n => Acquainted(m, n))

\* handleReceivedLinkDown's docstring: "return to Inhibited state until link
\* back up".
InhibitedOnlyWhileDown ==
    \A n \in Nodes : state[n] = "Inhibited" => ~linked[n]

=============================================================================
