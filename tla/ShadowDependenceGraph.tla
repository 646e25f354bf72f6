------------------------ MODULE ShadowDependenceGraph ------------------------
(***************************************************************************)
(* The graph that SDependenceGraph builds of the payload of a loop: a node *)
(* for each instruction of the payload and the dependences between them,   *)
(* then a copy of it for the next iteration, and edges from one iteration  *)
(* to the next where a dependence goes through memory.                     *)
(*                                                                         *)
(* The edges of a node are vectors of pointers: what is kept here is how   *)
(* often each node occurs in them.  The methods are called in the order of *)
(* the class; removeNodeFor, which leaves the edges to the node it removes *)
(* behind and has no caller, is not among them.                            *)
(***************************************************************************)
EXTENDS Integers

CONSTANTS
  Unit,      \* instructions
  Graphs     \* the dependence graphs considered

(***************************************************************************)
(* A dependence graph: its edges, those about memory among them, and the   *)
(* units the predicate of computeNodes selects.  Besides, the operands     *)
(* that IsIteratorDependent goes on to from a unit, which are none for an  *)
(* alloca, and IteratorValues.                                             *)
(***************************************************************************)
WellFormed(g) ==
  /\ g.edges \subseteq Unit \X Unit
  /\ g.memory \subseteq g.edges
  /\ g.selected \subseteq Unit
  /\ g.operands \in [Unit -> SUBSET Unit]
  /\ g.iterator \subseteq Unit

ASSUME ShadowAssumption == \A g \in Graphs : WellFormed(g)

\* The node of a unit in this iteration (0) or the next (1).
Node == Unit \X {0, 1}

VARIABLES
  graph,
  pc,          \* the last method called
  nodes,
  outEdges,    \* how often the second node occurs in the out edges of the first
  inEdges,     \* how often the second node occurs in the in edges of the first
  asked,       \* the nodes IsIteratorDependent was asked about
  workList     \* of the call of IsIteratorDependent that goes on, or empty

edgeVars == <<graph, pc, nodes, outEdges, inEdges>>
walk == <<asked, workList>>
vars == <<edgeVars, walk>>

Current == {n \in nodes : n[2] = 0}

Copy(n) == <<n[1], 1>>

-----------------------------------------------------------------------------

Init ==
  /\ graph \in Graphs
  /\ pc = "new"
  /\ nodes = {}
  /\ outEdges = [e \in Node \X Node |-> 0]
  /\ inEdges = [e \in Node \X Node |-> 0]
  /\ asked = {} /\ workList = {}

\* addNodeFor for each unit that is selected.
ComputeNodes ==
  /\ pc = "new"
  /\ nodes' = graph.selected \X {0}
  /\ pc' = "computeNodes"
  /\ UNCHANGED <<graph, outEdges, inEdges, walk>>

\* The pairs of nodes of this iteration with a dependence of the kind.
Pairs(edges) == {p \in Current \X Current : <<p[1][1], p[2][1]>> \in edges}

Turned(pairs) == {<<p[2], p[1]>> : p \in pairs}

\* Each of the pairs gets one occurrence more.
Pushed(edges, pairs) ==
  [e \in Node \X Node |-> IF e \in pairs THEN edges[e] + 1 ELSE edges[e]]

\* Fault: the in edges are those of the node the edge starts in.
ComputeEdgesOneWay ==
  /\ pc = "computeNodes"
  /\ outEdges' = Pushed(outEdges, Pairs(graph.edges))
  /\ inEdges' = Pushed(inEdges, Pairs(graph.edges))
  /\ pc' = "computeEdges"
  /\ UNCHANGED <<graph, nodes, walk>>

\* Both ends of a dependence between two nodes get the other end.
ComputeEdges ==
  /\ pc = "computeNodes"
  /\ outEdges' = Pushed(outEdges, Pairs(graph.edges))
  /\ inEdges' = Pushed(inEdges, Turned(Pairs(graph.edges)))
  /\ pc' = "computeEdges"
  /\ UNCHANGED <<graph, nodes, walk>>

ComputeNextIterationNodes ==
  /\ pc = "computeEdges"
  /\ nodes' = nodes \cup {Copy(n) : n \in nodes}
  /\ pc' = "computeNextIterationNodes"
  /\ UNCHANGED <<graph, outEdges, inEdges, walk>>

\* The pairs of nodes with an edge to copy.
Copied == {p \in Current \X Current : outEdges[p] > 0}

\* Fault: the edge leads to the node that is copied and not to its copy.
NextIterationEdgesBack ==
  /\ pc = "computeNextIterationNodes"
  /\ outEdges' = Pushed(outEdges, {<<Copy(p[1]), p[2]>> : p \in Copied})
  /\ inEdges' = Pushed(inEdges, {<<p[2], Copy(p[1])>> : p \in Copied})
  /\ pc' = "computeNextIterationEdges"
  /\ UNCHANGED <<graph, nodes, walk>>

\* The out edges of a copy lead to the copies of what the out edges of the
\* original lead to.  The in edges of those get the original for a source.
ComputeNextIterationEdges ==
  /\ pc = "computeNextIterationNodes"
  /\ outEdges' = Pushed(outEdges, {<<Copy(p[1]), Copy(p[2])>> : p \in Copied})
  /\ inEdges' = Pushed(inEdges, {<<Copy(p[2]), p[1]>> : p \in Copied})
  /\ pc' = "computeNextIterationEdges"
  /\ UNCHANGED <<graph, nodes, walk>>

\* Fault: in the direction of the dependence.
CrossingUnturned == {<<Copy(p[1]), p[2]>> : p \in Pairs(graph.memory)}

\* The pairs of a node and the copy of one that depends on it through memory.
Crossing == {<<p[2], Copy(p[1])>> : p \in Pairs(graph.memory)}

\* The nodes with a dependence through memory.
Sources == {p[1] : p \in Pairs(graph.memory)}

\* computeCrossIterationEdges asks of each source whether it depends on the
\* iterator.  It does so for each edge; the answer, which is only printed, and
\* the walk are the same each time.
CallIsIteratorDependent ==
  /\ pc = "computeNextIterationEdges" /\ workList = {}
  /\ \E n \in Sources \ asked :
       /\ asked' = asked \cup {n}
       /\ workList' = {n[1]}
  /\ UNCHANGED edgeVars

\* Fault: the walk goes on behind an iterator value.
VisitPastIterator(i) ==
  /\ workList' = (workList \ {i}) \cup graph.operands[i]
  /\ UNCHANGED <<edgeVars, asked>>

\* IsIteratorDependent returns at an iterator value and goes on to the operands
\* of any other.  It keeps no set of what it visited.
Visit(i) ==
  /\ workList' = IF i \in graph.iterator THEN {}
                 ELSE (workList \ {i}) \cup graph.operands[i]
  /\ UNCHANGED <<edgeVars, asked>>

Walk == \E i \in workList : Visit(i)

\* The edges are added when all sources were looked at.
ComputeCrossIterationEdges ==
  /\ pc = "computeNextIterationEdges" /\ workList = {} /\ Sources \subseteq asked
  /\ outEdges' = Pushed(outEdges, Crossing)
  /\ inEdges' = Pushed(inEdges, Turned(Crossing))
  /\ pc' = "computeCrossIterationEdges"
  /\ UNCHANGED <<graph, nodes, walk>>

Next ==
  \/ ComputeNodes \/ ComputeEdges
  \/ ComputeNextIterationNodes \/ ComputeNextIterationEdges
  \/ CallIsIteratorDependent \/ Walk \/ ComputeCrossIterationEdges

\* Which methods a client calls is left to it; a walk that has begun goes on.
Spec == Init /\ [][Next]_vars /\ WF_vars(Walk)

-----------------------------------------------------------------------------

Methods ==
  <<"new", "computeNodes", "computeEdges", "computeNextIterationNodes",
    "computeNextIterationEdges", "computeCrossIterationEdges">>

\* The method m has been called.
Called(m) ==
  \E a, b \in DOMAIN Methods : a <= b /\ Methods[a] = m /\ Methods[b] = pc

\* The types of the variables; edges are between nodes of the graph.
TypeOK ==
  /\ WellFormed(graph)
  /\ pc \in {Methods[a] : a \in DOMAIN Methods}
  /\ nodes \subseteq Node
  /\ outEdges \in [Node \X Node -> 0..1]
  /\ inEdges \in [Node \X Node -> 0..2]
  /\ \A e \in Node \X Node : outEdges[e] + inEdges[e] > 0 => e \in nodes \X nodes
  /\ asked \subseteq Node
  /\ workList \subseteq Unit

\* What the mutation detector walks is the part of the dependence graph on the
\* payload, the same in both directions, whatever was added to it later.
ShadowsPayload ==
  Called("computeEdges") =>
    \A a, b \in Current :
      LET edge == IF <<a[1], b[1]>> \in graph.edges THEN 1 ELSE 0
      IN  outEdges[<<a, b>>] = edge /\ inEdges[<<b, a>>] = edge

\* The next iteration depends within itself as this one does.
IterationsAlike ==
  Called("computeNextIterationEdges") =>
    \A a, b \in Current : outEdges[<<Copy(a), Copy(b)>>] = outEdges[<<a, b>>]

\* Nothing leads from the next iteration back into this one, and what leads
\* into it are the dependences through memory, from the later instruction.
CarriedForward ==
  \A a, b \in Current :
    /\ outEdges[<<Copy(a), b>>] = 0
    /\ Called("computeCrossIterationEdges") =>
         (outEdges[<<b, Copy(a)>>] = 1 <=> <<a[1], b[1]>> \in graph.memory)

\* Every cycle of operands goes through an iterator value.
CyclesCut ==
  \A S \in SUBSET (Unit \ graph.iterator) :
    (\A i \in S : graph.operands[i] \cap S # {}) => S = {}

\* IsIteratorDependent returns if every cycle of operands goes through the
\* iterator, as those of the index do: it ends where they are cut.  On a cycle
\* in the payload it may go round for ever.
WalkReturns == (CyclesCut /\ workList # {}) ~> (workList = {})
=============================================================================
