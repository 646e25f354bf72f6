---------------------------- MODULE GraphUpdater ----------------------------
(***************************************************************************)
(* The graph update actions of Analysis/GraphUpdater.hpp: what each kind   *)
(* of UpdateAction does to the program dependence graph, and which pair of *)
(* actions (the update and the one that reverses it) the                   *)
(* IteratorVarianceGraphUpdateGenerator creates for a memory dependence.   *)
(*                                                                         *)
(* A graph maps every ordered pair of instructions to the dependence       *)
(* information of its edge, a set of flags, or to NoEdge.  An edge may     *)
(* exist with no flag at all.  The graph itself and DetermineHazard come   *)
(* from the pedigree submodule; they are modelled from how the updates     *)
(* use them.                                                               *)
(***************************************************************************)

CONSTANTS
  Inst,      \* the instructions of the function, the units of the graph
  Flag,      \* the bits of an edge's information
  Memory,    \* the bits of pedigree::DO_Memory
  Hazard,    \* Hazard[e]: what pedigree::DetermineHazard answers for pair e
  NoEdge     \* stands for the absence of an edge

Pair == Inst \X Inst

Info == SUBSET Flag

Edge == Info \cup {NoEdge}

Graph == [Pair -> Edge]

\* enum IteratorVarianceValue.
Variance == {"Unknown", "Invariant", "Variant"}

ASSUME GraphAssumption ==
  /\ Memory \subseteq Flag
  /\ Hazard \in [Pair -> Info]
  /\ \A info \in Info : info # NoEdge

-----------------------------------------------------------------------------

(***************************************************************************)
(* The four UpdateAction classes.  A Noop and a Disconnect carry no        *)
(* information.                                                            *)
(***************************************************************************)
Noop(e)          == [op |-> "noop",       edge |-> e, info |-> {}]
Connect(e, i)    == [op |-> "connect",    edge |-> e, info |-> i]
Disconnect(e)    == [op |-> "disconnect", edge |-> e, info |-> {}]
InfoUpdate(e, i) == [op |-> "update",     edge |-> e, info |-> i]

Action ==
  [op : {"noop", "connect", "disconnect", "update"}, edge : Pair, info : Info]

\* addDependentNode, removeDependentNode and setEdgeInfo of a graph node.
AddDependentNode(g, e, i)  == [g EXCEPT ![e] = i]
RemoveDependentNode(g, e)  == [g EXCEPT ![e] = NoEdge]
SetEdgeInfo(g, e, i)       == [g EXCEPT ![e] = i]

\* The graph after performUpdate of action a.
PerformUpdate(g, a) ==
  CASE a.op = "noop"       -> g
    [] a.op = "connect"    -> AddDependentNode(g, a.edge, a.info)
    [] a.op = "disconnect" -> RemoveDependentNode(g, a.edge)
    [] a.op = "update"     -> SetEdgeInfo(g, a.edge, a.info)

(***************************************************************************)
(* What the graph's node operations expect of the graph they run on: an    *)
(* edge is added once, and only an edge that exists is removed or given    *)
(* other information.                                                      *)
(***************************************************************************)
Applicable(g, a) ==
  /\ a.op = "connect" => g[a.edge] = NoEdge
  /\ a.op \in {"disconnect", "update"} => g[a.edge] # NoEdge

-----------------------------------------------------------------------------

(***************************************************************************)
(* What is known of a dependence, given the variance iv of the             *)
(* instructions: Unknown wins over Variant, which wins over Invariant.     *)
(***************************************************************************)
Relation(iv, e) ==
  LET ends == {iv[e[1]], iv[e[2]]}
  IN  IF "Unknown" \in ends THEN "Unknown"
      ELSE IF "Variant" \in ends THEN "Variant" ELSE "Invariant"

\* A pair of null pointers: no update is needed.
NoActions == <<>>

\* Fault: the edge goes whatever else it stands for.
StripWholeEdge(g, e) ==
  IF g[e] = NoEdge \/ g[e] \cap Memory = {} THEN NoActions
  ELSE <<Disconnect(e), Connect(e, g[e])>>

\* Fault: the reversal of a removed edge gives it what was left after the
\* memory information had been reset.
StripForgettingInfo(g, e) ==
  LET newInfo == g[e] \ Memory
  IN  IF g[e] = NoEdge \/ g[e] \cap Memory = {} THEN NoActions
      ELSE IF newInfo # {} THEN <<InfoUpdate(e, newInfo), InfoUpdate(e, g[e])>>
      ELSE <<Disconnect(e), Connect(e, newInfo)>>

\* The updates of an edge one of whose ends varies with the iterator: its
\* memory information goes, and the edge with it if that was all.
StripMemory(g, e) ==
  LET memInfo == g[e] \cap Memory
      newInfo == g[e] \ Memory
  IN  IF g[e] = NoEdge \/ memInfo = {} THEN NoActions
      ELSE IF newInfo # {} THEN <<InfoUpdate(e, newInfo), InfoUpdate(e, g[e])>>
      ELSE <<Disconnect(e), Connect(e, memInfo)>>

\* Fault: no check for an edge that exists.
AddHazardUnchecked(g, e) ==
  IF Hazard[e] # {} THEN <<Connect(e, Hazard[e]), Disconnect(e)>> ELSE NoActions

\* The updates of a pair both ends of which are the same in every iteration:
\* an edge with their hazard, if there is none yet.
AddHazard(g, e) ==
  IF g[e] = NoEdge /\ Hazard[e] # {}
    THEN <<Connect(e, Hazard[e]), Disconnect(e)>>
    ELSE NoActions

\* IteratorVarianceGraphUpdateGenerator::create: the update and its reverse.
Create(g, iv, e) ==
  CASE Relation(iv, e) = "Unknown"   -> <<Noop(e), Noop(e)>>
    [] Relation(iv, e) = "Variant"   -> StripMemory(g, e)
    [] Relation(iv, e) = "Invariant" -> AddHazard(g, e)

=============================================================================
