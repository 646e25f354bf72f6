------------------------- MODULE IteratorRecognition -------------------------
(***************************************************************************)
(* How IteratorRecognitionInfo splits the loops of a function: the program *)
(* dependence graph is condensed into its strongly connected components,   *)
(* the components are mapped to the loops they have instructions in, and   *)
(* the iterator of a loop is what is in the components of the loop that    *)
(* depend on no other component of the loop.                               *)
(*                                                                         *)
(* The components come from LLVM's scc_iterator, which visits every node   *)
(* because the root node, the one without an instruction, is connected to  *)
(* all others.                                                             *)
(***************************************************************************)
EXTENDS Integers, FiniteSets

CONSTANTS
  Inst,       \* the instructions of the function
  Root,       \* the root node of the dependence graph, which has no unit
  NumLoops,   \* loops are numbered in preorder
  Functions   \* the functions considered

Loop == 1..NumLoops
Node == Inst \cup {Root}

(***************************************************************************)
(* A function is a record: the dependence edges between its instructions,  *)
(* the innermost loop each instruction is in (0 for none), the parent of   *)
(* each loop (0 for a top-level loop), and what else modules that extend   *)
(* this one know of it.  Preorder puts parents first.                      *)
(***************************************************************************)
WellFormed(f) ==
  /\ f.edges \subseteq Inst \X Inst
  /\ f.loopFor \in [Inst -> 0..NumLoops]
  /\ f.parent \in [Loop -> 0..NumLoops]
  /\ \A l \in Loop : f.parent[l] < l
  /\ \A l \in Loop : \E i \in Inst : f.loopFor[i] = l

ASSUME RecognitionAssumption ==
  /\ IsFiniteSet(Inst)
  /\ Root \notin Inst
  /\ NumLoops \in Nat
  /\ \A f \in Functions : WellFormed(f)

VARIABLES
  function,
  pc,             \* "condense", "edges", "map", "recognize", "done"
  condensations,  \* the nodes of the condensation graph, sets of nodes
  outEdges, inEdges,
  entryNode,
  map,            \* the loops each condensation has instructions in
  next,           \* the loop to find the iterator of next
  iterators,      \* the instructions of each IteratorInfo made so far
  numTopLevelProcessed, numProcessed, numInseparable   \* the statistics

graph == <<condensations, outEdges, inEdges, entryNode>>
stats == <<numTopLevelProcessed, numProcessed, numInseparable>>
vars  == <<function, pc, graph, map, next, iterators, stats>>

-----------------------------------------------------------------------------

\* GraphTraits of the dependence graph and of its inverse.
Children(n) ==
  IF n = Root THEN Inst ELSE {m \in Inst : <<n, m>> \in function.edges}

InverseChildren(n) == {m \in Node : n \in Children(m)}

\* The strongly connected components.
Reaches(m, n) ==
  \A S \in SUBSET Node :
    m \in S /\ (\A k \in S : Children(k) \subseteq S) => n \in S

Component(n) == {m \in Node : Reaches(m, n) /\ Reaches(n, m)}

\* The loops instruction i is in: its innermost loop and the parents of that.
IsAncestor(k, l) ==
  \A S \in SUBSET Loop :
    l \in S /\ (\A m \in S : function.parent[m] # 0 => function.parent[m] \in S)
      => k \in S

LoopsOf(i) ==
  {l \in Loop : function.loopFor[i] # 0 /\ IsAncestor(l, function.loopFor[i])}

\* Fault: edges within the component are edges of it.
EdgesUnfiltered(cn, reached) == {d \in condensations : d \cap reached # {}}

\* The other components among the nodes that members of cn have an edge to
\* (findCondensationExternalEdges).
ExternalEdges(cn, reached) ==
  {d \in condensations : d \cap (reached \ cn) # {}}

ChildrenOf(cn) == UNION {Children(n) : n \in cn}

InverseChildrenOf(cn) == UNION {InverseChildren(n) : n \in cn}

\* Fault: only the innermost loops.
MapOfInnermost(cn) == {function.loopFor[i] : i \in cn \cap Inst} \ {0}

\* The loops that members of cn are in.
MapOf(cn) == UNION {LoopsOf(i) : i \in cn \cap Inst}

\* The instructions of loop l, those of the loops in it included.
InstructionsOf(l) == {i \in Inst : l \in LoopsOf(i)}

\* The pass hands over the dependence graph of a function, root connected.
Init ==
  /\ function \in Functions
  /\ pc = "condense"
  /\ condensations = {} /\ outEdges = <<>> /\ inEdges = <<>> /\ entryNode = {}
  /\ map = <<>>
  /\ next = 1
  /\ iterators = [l \in {} |-> {}]
  /\ numTopLevelProcessed = 0 /\ numProcessed = 0 /\ numInseparable = 0

\* The constructor of the graph takes the components over.
Condense ==
  /\ pc = "condense"
  /\ condensations' = {Component(n) : n \in Node}
  /\ pc' = "edges"
  /\ UNCHANGED <<function, outEdges, inEdges, entryNode, map, next, iterators,
                 stats>>

\* Fault: the same traversal for both directions.
ComputeEdgesOneWay ==
  /\ pc = "edges"
  /\ entryNode' = CHOOSE cn \in condensations : Root \in cn
  /\ outEdges' = [cn \in condensations |-> ExternalEdges(cn, ChildrenOf(cn))]
  /\ inEdges'  = [cn \in condensations |-> ExternalEdges(cn, ChildrenOf(cn))]
  /\ pc' = "map"
  /\ UNCHANGED <<function, condensations, map, next, iterators, stats>>

\* The edges of all condensations, by one traversal for each direction.
ComputeEdges ==
  /\ pc = "edges"
  /\ entryNode' = CHOOSE cn \in condensations : Root \in cn
  /\ outEdges' = [cn \in condensations |-> ExternalEdges(cn, ChildrenOf(cn))]
  /\ inEdges'  = [cn \in condensations |-> ExternalEdges(cn, InverseChildrenOf(cn))]
  /\ pc' = "map"
  /\ UNCHANGED <<function, condensations, map, next, iterators, stats>>

\* An entry for every condensation, the empty set for one outside all loops.
MapCondensationToLoops ==
  /\ pc = "map"
  /\ map' = [cn \in condensations |-> MapOf(cn)]
  /\ pc' = "recognize"
  /\ UNCHANGED <<function, graph, next, iterators, stats>>

\* One turn of the loop of RecognizeIterator.
RecognizeIterator ==
  /\ pc = "recognize" /\ next \in Loop
  /\ LET loopCondensations == {cn \in condensations : next \in map[cn]}
         free == {cn \in loopCondensations : inEdges[cn] \cap loopCondensations = {}}
     IN  iterators' = [l \in 1..next |-> IF l = next THEN (UNION free) \cap Inst
                                                    ELSE iterators[l]]
  /\ next' = next + 1
  /\ UNCHANGED <<function, pc, graph, map, stats>>

UpdateStatistics ==
  /\ pc = "recognize" /\ next \notin Loop
  /\ numProcessed' = numProcessed + NumLoops
  /\ numTopLevelProcessed' =
       numTopLevelProcessed + Cardinality({l \in Loop : function.parent[l] = 0})
  /\ numInseparable' =
       numInseparable
       + Cardinality({l \in Loop : Cardinality(iterators[l])
                                     = Cardinality(InstructionsOf(l))})
  /\ pc' = "done"
  /\ UNCHANGED <<function, graph, map, next, iterators>>

Next ==
  \/ Condense \/ ComputeEdges \/ MapCondensationToLoops
  \/ RecognizeIterator \/ UpdateStatistics

Spec == Init /\ [][Next]_vars

-----------------------------------------------------------------------------

\* The types of the variables.
TypeOK ==
  /\ WellFormed(function)
  /\ pc \in {"condense", "edges", "map", "recognize", "done"}
  /\ condensations \subseteq SUBSET Node
  /\ pc \in {"map", "recognize", "done"} =>
       /\ outEdges \in [condensations -> SUBSET condensations]
       /\ inEdges \in [condensations -> SUBSET condensations]
       /\ entryNode \in condensations
  /\ pc \in {"recognize", "done"} => map \in [condensations -> SUBSET Loop]
  /\ next \in 1..NumLoops + 1
  /\ iterators \in [1..next - 1 -> SUBSET Inst]
  /\ numTopLevelProcessed \in Nat /\ numProcessed \in Nat
  /\ numInseparable \in Nat

\* The successor and predecessor lists, which are computed apart, describe
\* one graph.
EdgesMirrored ==
  pc \in {"map", "recognize", "done"} =>
    \A c, d \in condensations : d \in outEdges[c] <=> c \in inEdges[d]

\* That graph has no cycle: no set of condensations in which each has a
\* successor in the set.  A walk may begin at the entry node: it is a
\* predecessor of all the others and has none itself.
AcyclicFromEntry ==
  pc \in {"map", "recognize", "done"} =>
    /\ \A S \in (SUBSET condensations) \ {{}} : \E c \in S : outEdges[c] \cap S = {}
    /\ \A c \in condensations : c # entryNode <=> entryNode \in inEdges[c]

\* The iterator of a loop depends on no other instruction of the loop: each
\* edge from the loop into the iterator starts in the iterator.
IteratorSelfContained ==
  \A l \in DOMAIN iterators :
    \A e \in function.edges :
      e[2] \in iterators[l] /\ e[1] \in InstructionsOf(l) => e[1] \in iterators[l]

\* The iterator drives the whole loop: from its instructions in the loop the
\* dependences lead to every instruction of the loop, however these depend on
\* each other and on those of other loops.  No loop is without an iterator.
IteratorDrivesLoop ==
  \A l \in DOMAIN iterators : \A S \in SUBSET Inst :
    /\ iterators[l] \cap InstructionsOf(l) \subseteq S
    /\ \A e \in function.edges : e[1] \in S => e[2] \in S
    => InstructionsOf(l) \subseteq S

=============================================================================
