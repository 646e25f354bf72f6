---------------------- MODULE IteratorRecognition_proofs ----------------------
(***************************************************************************)
(* For any dependence graph and any loop nest: what the condensation graph *)
(* is, what the iterators are, and what the modules that read them, the    *)
(* classification of values, the queries for payload blocks and the        *)
(* reports, return.                                                        *)
(***************************************************************************)
EXTENDS DispositionTracker, PayloadBlocks, RecognitionExport,
        FiniteSetTheorems, WellFoundedInduction, TLAPS

Condensations == {Component(n) : n \in Node}

\* The iterator of a loop, from the condensation graph.
IteratorOf(l) ==
  LET loopCondensations == {cn \in condensations : l \in map[cn]}
      free == {cn \in loopCondensations : inEdges[cn] \cap loopCondensations = {}}
  IN  (UNION free) \cap Inst

\* What each phase has left for the next.
Phases ==
  /\ pc # "condense" => condensations = Condensations
  /\ pc \in {"map", "recognize", "done"} =>
       /\ outEdges = [cn \in condensations |-> ExternalEdges(cn, ChildrenOf(cn))]
       /\ inEdges = [cn \in condensations |-> ExternalEdges(cn, InverseChildrenOf(cn))]
       /\ entryNode \in condensations /\ Root \in entryNode
  /\ pc \in {"recognize", "done"} => map = [cn \in condensations |-> MapOf(cn)]
  /\ pc \notin {"recognize", "done"} => next = 1
  /\ pc = "done" => next = NumLoops + 1
  /\ next \in 1..NumLoops + 1
  /\ iterators = [l \in 1..next - 1 |-> iterators[l]]
  /\ \A l \in 1..next - 1 : iterators[l] = IteratorOf(l)

IInv == WellFormed(function) /\ pc \in {"condense", "edges", "map", "recognize", "done"}
        /\ Phases

-----------------------------------------------------------------------------
\* The components are the classes of an equivalence relation.

LEMMA ReachesTransitive ==
  ASSUME NEW a \in Node, NEW b \in Node, NEW c \in Node,
         Reaches(a, b), Reaches(b, c)
  PROVE  Reaches(a, c)
BY DEF Reaches

LEMMA InOwnComponent ==
  ASSUME NEW n \in Node
  PROVE  n \in Component(n)
BY DEF Component, Reaches

LEMMA ComponentsDisjoint ==
  ASSUME NEW c \in Condensations, NEW d \in Condensations, NEW n, n \in c, n \in d
  PROVE  c = d
<1>1. PICK x \in Node : c = Component(x)
  BY DEF Condensations
<1>2. PICK y \in Node : d = Component(y)
  BY DEF Condensations
<1>3. /\ n \in Node /\ Reaches(n, x) /\ Reaches(x, n)
      /\ Reaches(n, y) /\ Reaches(y, n)
  BY <1>1, <1>2 DEF Component
<1>4. Reaches(x, y) /\ Reaches(y, x)
  BY <1>3, ReachesTransitive
<1>5. ASSUME NEW m \in Node
      PROVE  m \in Component(x) <=> m \in Component(y)
  BY <1>4, ReachesTransitive DEF Component
<1>6. Component(x) \subseteq Node /\ Component(y) \subseteq Node
  BY DEF Component
<1> QED BY <1>1, <1>2, <1>5, <1>6

\* A component is a set of nodes.
LEMMA ComponentNodes ==
  ASSUME NEW c \in Condensations
  PROVE  c \subseteq Node
BY DEF Condensations, Component

LEMMA ChildrenNodes ==
  ASSUME WellFormed(function), NEW n \in Node
  PROVE  Children(n) \subseteq Node
BY DEF WellFormed, Children, Node

\* What the two lists of a component say.
LEMMA OutEdge ==
  ASSUME NEW c, NEW d \in condensations
  PROVE  d \in ExternalEdges(c, ChildrenOf(c))
           <=> \E m \in c, n \in d : n \in Children(m) /\ n \notin c
BY DEF ExternalEdges, ChildrenOf

LEMMA InEdge ==
  ASSUME NEW c \in condensations, NEW d
  PROVE  c \in ExternalEdges(d, InverseChildrenOf(d))
           <=> \E m \in c, n \in d : m \in InverseChildren(n) /\ m \notin d
BY DEF ExternalEdges, InverseChildrenOf

LEMMA Mirror ==
  ASSUME NEW c \in condensations, NEW d \in condensations,
         condensations = Condensations
  PROVE  d \in ExternalEdges(c, ChildrenOf(c))
           <=> c \in ExternalEdges(d, InverseChildrenOf(d))
<1>1. c \subseteq Node /\ d \subseteq Node
  BY ComponentNodes
<1>2. \A m \in c, n \in d : n \in Children(m) <=> m \in InverseChildren(n)
  BY <1>1 DEF InverseChildren
<1>3. ASSUME NEW m \in c, NEW n \in d
      PROVE  n \notin c <=> m \notin d
  BY ComponentsDisjoint
<1> QED BY <1>2, <1>3, OutEdge, InEdge

-----------------------------------------------------------------------------

LEMMA InitInvariant == Init => IInv
BY RecognitionAssumption DEF Init, IInv, Phases

\* Everything a phase computes depends on the function and the condensations.
LEMMA FunctionOnly ==
  ASSUME UNCHANGED function
  PROVE  /\ Condensations' = Condensations
         /\ \A c : ChildrenOf(c)' = ChildrenOf(c)
         /\ \A c : InverseChildrenOf(c)' = InverseChildrenOf(c)
         /\ \A c : MapOf(c)' = MapOf(c)
<1>1. \A n : Children(n)' = Children(n)
  BY DEF Children
<1>2. \A n : InverseChildren(n)' = InverseChildren(n)
  BY <1>1 DEF InverseChildren
<1>3. \A m, n : Reaches(m, n)' <=> Reaches(m, n)
  BY <1>1 DEF Reaches
<1>4. \A n : Component(n)' = Component(n)
  BY <1>3 DEF Component
<1>5. Condensations' = Condensations
  BY <1>4 DEF Condensations
<1>6. /\ \A c : ChildrenOf(c)' = ChildrenOf(c)
      /\ \A c : InverseChildrenOf(c)' = InverseChildrenOf(c)
  BY <1>1, <1>2 DEF ChildrenOf, InverseChildrenOf
<1>7. \A k, l : IsAncestor(k, l)' <=> IsAncestor(k, l)
  BY DEF IsAncestor
<1>8. \A i : LoopsOf(i)' = LoopsOf(i)
  BY <1>7 DEF LoopsOf
<1>9. \A c : MapOf(c)' = MapOf(c)
  BY <1>8 DEF MapOf
<1> QED BY <1>5, <1>6, <1>9

LEMMA SameIterator ==
  ASSUME UNCHANGED <<condensations, map, inEdges>>, NEW l
  PROVE  IteratorOf(l)' = IteratorOf(l)
BY DEF IteratorOf

\* The invariant, phase by phase.
LEMMA StepInvariant == IInv /\ [Next]_vars => IInv'
<1> SUFFICES ASSUME IInv, [Next]_vars
             PROVE  IInv'
  OBVIOUS
<1> NumLoops \in Nat
  BY RecognitionAssumption
<1>0. UNCHANGED function
  BY DEF Next, Condense, ComputeEdges, MapCondensationToLoops,
         RecognizeIterator, UpdateStatistics, vars
<1>f. WellFormed(function)'
  BY <1>0 DEF IInv, WellFormed, Loop
<1>1. CASE Condense
  <2>1. condensations' = Condensations
    BY <1>1 DEF Condense, Condensations
  <2>2. Phases'
    BY <1>1, <2>1, <1>0, FunctionOnly DEF Condense, IInv, Phases
  <2> QED BY <1>1, <1>f, <2>2 DEF Condense, IInv
<1>2. CASE ComputeEdges
  <2>1. /\ condensations' = Condensations'
        /\ outEdges' = [cn \in condensations |-> ExternalEdges(cn, ChildrenOf(cn))]'
        /\ inEdges' =
             [cn \in condensations |-> ExternalEdges(cn, InverseChildrenOf(cn))]'
    BY <1>2, <1>0, FunctionOnly DEF ComputeEdges, IInv, Phases, ExternalEdges
  <2>2. entryNode' \in condensations' /\ Root \in entryNode'
    <3>1. condensations = Condensations /\ condensations' = condensations
      BY <1>2 DEF ComputeEdges, IInv, Phases
    <3>2. \E cn \in condensations : Root \in cn
      BY <3>1, InOwnComponent DEF Condensations, Node
    <3> QED BY <1>2, <3>1, <3>2 DEF ComputeEdges
  <2>3. Phases'
    BY <1>2, <2>1, <2>2 DEF ComputeEdges, IInv, Phases
  <2> QED BY <1>2, <1>f, <2>3 DEF ComputeEdges, IInv
<1>3. ASSUME pc \in {"map", "recognize", "done"}, UNCHANGED graph
      PROVE  /\ condensations' = Condensations'
             /\ outEdges' =
                  [cn \in condensations |-> ExternalEdges(cn, ChildrenOf(cn))]'
             /\ inEdges' =
                  [cn \in condensations |-> ExternalEdges(cn, InverseChildrenOf(cn))]'
             /\ entryNode' \in condensations' /\ Root \in entryNode'
  BY <1>3, <1>0, FunctionOnly DEF IInv, Phases, graph, ExternalEdges
<1>4. CASE MapCondensationToLoops
  <2>1. map' = [cn \in condensations |-> MapOf(cn)]'
    BY <1>4, <1>0, FunctionOnly DEF MapCondensationToLoops, graph
  <2>2. Phases'
    BY <1>4, <1>3, <2>1 DEF MapCondensationToLoops, IInv, Phases
  <2> QED BY <1>4, <1>f, <2>2 DEF MapCondensationToLoops, IInv
<1>5. ASSUME pc \in {"recognize", "done"}, UNCHANGED <<graph, map>>
      PROVE  map' = [cn \in condensations |-> MapOf(cn)]'
  BY <1>5, <1>0, FunctionOnly DEF IInv, Phases, graph
<1>6. CASE RecognizeIterator
  <2>1. iterators' = [l \in 1..next |-> IF l = next THEN IteratorOf(next)
                                                   ELSE iterators[l]]
    BY <1>6 DEF RecognizeIterator, IteratorOf
  <2>2. next' = next + 1 /\ next \in 1..NumLoops
    BY <1>6 DEF RecognizeIterator, Loop
  <2>3. \A l : IteratorOf(l)' = IteratorOf(l)
    BY <1>6, SameIterator DEF RecognizeIterator, graph
  <2>4. \A l \in 1..next' - 1 : iterators'[l] = IteratorOf(l)'
    BY <2>1, <2>2, <2>3 DEF IInv, Phases
  <2>5. iterators' = [l \in 1..next' - 1 |-> iterators'[l]]
    BY <2>1, <2>2
  <2>6. pc = "recognize" /\ pc' = pc /\ UNCHANGED graph /\ UNCHANGED map
    BY <1>6 DEF RecognizeIterator
  <2>7. next' \in 1..NumLoops + 1
    BY <2>2
  <2>8. Phases'
    BY <1>3, <1>5, <2>4, <2>5, <2>6, <2>7 DEF Phases
  <2> QED BY <1>f, <2>6, <2>8 DEF IInv
<1>7. CASE UpdateStatistics
  <2>1. \A l : IteratorOf(l)' = IteratorOf(l)
    BY <1>7, SameIterator DEF UpdateStatistics, graph
  <2>2. next' = NumLoops + 1
    BY <1>7 DEF UpdateStatistics, IInv, Phases, Loop
  <2>3. Phases'
    BY <1>7, <1>3, <1>5, <2>1, <2>2 DEF UpdateStatistics, IInv, Phases
  <2> QED BY <1>7, <1>f, <2>3 DEF UpdateStatistics, IInv
<1>8. CASE UNCHANGED vars
  <2>1. \A l : IteratorOf(l)' = IteratorOf(l)
    BY <1>8, SameIterator DEF vars, graph
  <2>2. /\ UNCHANGED <<pc, next, iterators>> /\ UNCHANGED <<graph, map>>
        /\ condensations' = condensations
    BY <1>8 DEF vars, graph
  <2>3. pc # "condense" => (condensations = Condensations)'
    BY <1>0, <2>2, FunctionOnly DEF IInv, Phases
  <2>4. Phases'
    BY <1>3, <1>5, <2>1, <2>2, <2>3 DEF IInv, Phases
  <2> QED BY <1>f, <2>2, <2>4 DEF IInv
<1> QED BY <1>1, <1>2, <1>4, <1>6, <1>7, <1>8 DEF Next

THEOREM Invariance == Spec => []IInv
BY InitInvariant, StepInvariant, PTL DEF Spec

-----------------------------------------------------------------------------
\* The types.

Typed ==
  /\ condensations \subseteq SUBSET Node
  /\ numTopLevelProcessed \in Nat /\ numProcessed \in Nat
  /\ numInseparable \in Nat

\* The statistics count loops, of which there are finitely many.
LEMMA LoopsCounted ==
  ASSUME NEW S \in SUBSET Loop
  PROVE  Cardinality(S) \in Nat
<1>1. IsFiniteSet(Loop)
  BY FS_Interval, RecognitionAssumption DEF Loop
<1> QED BY <1>1, FS_Subset, FS_CardinalityType

LEMMA StepTyped == Typed /\ [Next]_vars => Typed'
<1> SUFFICES ASSUME Typed, [Next]_vars PROVE Typed'
  OBVIOUS
<1>1. CASE Condense
  BY <1>1 DEF Condense, Typed, Component, stats
<1>2. CASE UpdateStatistics
  <2> DEFINE topLevel == {l \in Loop : function.parent[l] = 0}
             inseparable == {l \in Loop : Cardinality(iterators[l])
                                            = Cardinality(InstructionsOf(l))}
  <2>1. Cardinality(topLevel) \in Nat /\ Cardinality(inseparable) \in Nat
    BY LoopsCounted
  <2>2. /\ numProcessed' = numProcessed + NumLoops
        /\ numTopLevelProcessed' = numTopLevelProcessed + Cardinality(topLevel)
        /\ numInseparable' = numInseparable + Cardinality(inseparable)
        /\ condensations' = condensations
    BY <1>2 DEF UpdateStatistics, graph
  <2> HIDE DEF topLevel, inseparable
  <2> QED BY <2>1, <2>2, RecognitionAssumption DEF Typed
<1>3. CASE ComputeEdges \/ MapCondensationToLoops \/ RecognizeIterator
  BY <1>3 DEF ComputeEdges, MapCondensationToLoops, RecognizeIterator, Typed,
              graph, stats
<1>4. CASE UNCHANGED vars
  BY <1>4 DEF vars, graph, stats, Typed
<1> QED BY <1>1, <1>2, <1>3, <1>4 DEF Next

\* The types of the variables, whatever phase the constructor is in.
THEOREM TypeCorrect == Spec => []TypeOK
<1>1. Init => Typed
  BY DEF Init, Typed
<1>2. IInv /\ Typed => TypeOK
  <2> SUFFICES ASSUME IInv, Typed PROVE TypeOK
    OBVIOUS
  <2>1. \A cn, S : ExternalEdges(cn, S) \in SUBSET condensations
    BY DEF ExternalEdges
  <2>2. pc \in {"map", "recognize", "done"} =>
          /\ outEdges \in [condensations -> SUBSET condensations]
          /\ inEdges \in [condensations -> SUBSET condensations]
          /\ entryNode \in condensations
    BY <2>1 DEF IInv, Phases
  <2>3. \A cn : MapOf(cn) \in SUBSET Loop
    BY DEF MapOf, LoopsOf
  <2>4. pc \in {"recognize", "done"} => map \in [condensations -> SUBSET Loop]
    BY <2>3 DEF IInv, Phases
  <2>5. iterators \in [1..next - 1 -> SUBSET Inst]
    <3>1. \A l : IteratorOf(l) \in SUBSET Inst
      BY DEF IteratorOf
    <3> QED BY <3>1 DEF IInv, Phases
  <2>6. /\ WellFormed(function)
        /\ pc \in {"condense", "edges", "map", "recognize", "done"}
        /\ next \in 1..NumLoops + 1
    BY DEF IInv, Phases
  <2> QED BY <2>2, <2>4, <2>5, <2>6 DEF Typed, TypeOK
<1> QED BY Invariance, <1>1, StepTyped, <1>2, PTL DEF Spec

-----------------------------------------------------------------------------

\* The successor and predecessor lists that computeEdges makes by separate
\* traversals describe one graph.
THEOREM Mirrored == Spec => []EdgesMirrored
<1>1. IInv => EdgesMirrored
  <2> SUFFICES ASSUME IInv, pc \in {"map", "recognize", "done"},
                      NEW c \in condensations, NEW d \in condensations
               PROVE  d \in outEdges[c] <=> c \in inEdges[d]
    BY DEF EdgesMirrored
  <2>1. condensations = Condensations
    BY DEF IInv, Phases
  <2>2. /\ outEdges[c] = ExternalEdges(c, ChildrenOf(c))
        /\ inEdges[d] = ExternalEdges(d, InverseChildrenOf(d))
    BY DEF IInv, Phases
  <2> QED BY <2>1, <2>2, Mirror
<1> QED BY <1>1, Invariance, PTL

\* RecognizeIterator leaves no edge from the rest of a loop into its iterator:
\* the component the edge starts in would be a predecessor within the loop.
THEOREM SelfContained == Spec => []IteratorSelfContained
<1>1. IInv => IteratorSelfContained
  <2> SUFFICES ASSUME IInv, NEW l \in DOMAIN iterators,
                      NEW e \in function.edges,
                      e[2] \in iterators[l], e[1] \in InstructionsOf(l)
               PROVE  e[1] \in iterators[l]
    BY DEF IteratorSelfContained
  <2> DEFINE loopCondensations == {cn \in condensations : l \in map[cn]}
  <2>1. l \in 1..next - 1 /\ next \in 1..NumLoops + 1
    BY DEF IInv, Phases
  <2>2. pc \in {"recognize", "done"}
    BY <2>1, RecognitionAssumption DEF IInv, Phases
  <2>3. /\ condensations = Condensations
        /\ \A cn \in condensations :
             map[cn] = MapOf(cn) /\ inEdges[cn] = ExternalEdges(cn, InverseChildrenOf(cn))
        /\ iterators[l] = IteratorOf(l)
    BY <2>1, <2>2 DEF IInv, Phases
  <2>4. PICK c \in loopCondensations :
          e[2] \in c /\ inEdges[c] \cap loopCondensations = {}
    BY <2>3 DEF IteratorOf
  <2>5. e[1] \in Inst /\ e[2] \in Inst /\ e = <<e[1], e[2]>>
    BY DEF IInv, WellFormed
  <2>6. e[1] \in InverseChildren(e[2])
    BY <2>5, RecognitionAssumption DEF InverseChildren, Children, Node
  <2> DEFINE d == Component(e[1])
  <2>7. d \in condensations /\ e[1] \in d
    BY <2>3, <2>5, InOwnComponent DEF Condensations, Node
  <2>8. d \in loopCondensations
    BY <2>3, <2>5, <2>7 DEF MapOf, InstructionsOf
  <2>9. e[1] \in c
    <3> SUFFICES ASSUME e[1] \notin c
                 PROVE  FALSE
      OBVIOUS
    <3>1. d \in ExternalEdges(c, InverseChildrenOf(c))
      BY <2>4, <2>6, <2>7, InEdge
    <3> QED BY <3>1, <2>3, <2>4, <2>8
  <2> QED BY <2>3, <2>4, <2>5, <2>9 DEF IteratorOf
<1> QED BY <1>1, Invariance, PTL

-----------------------------------------------------------------------------
(***************************************************************************)
(* The condensation graph has no cycle because going down an edge always   *)
(* loses nodes that can be reached, and there are finitely many.           *)
(***************************************************************************)

LEMMA SmallestNat ==
  ASSUME NEW T \in SUBSET Nat, T # {}
  PROVE  \E n \in T : \A m \in T : n <= m
<1> DEFINE R == OpToRel(<, Nat)
<1>1. IsWellFoundedOn(R, Nat)
  BY NatLessThanWellFounded, Zenon
<1> HIDE DEF R
<1>2. PICK n \in T : \A m \in T : ~(<<m, n>> \in R)
  BY <1>1, WFMin
<1>3. ASSUME NEW m \in T
      PROVE  n <= m
  <2>1. ~(<<m, n>> \in R)
    BY <1>2
  <2>2. ~(m < n)
    BY <2>1 DEF R, OpToRel
  <2> QED BY <2>2
<1> QED BY <1>3

\* Among finite sets there is one without a proper subset among them.
LEMMA MinimalSet ==
  ASSUME NEW T, T # {}, \A S \in T : IsFiniteSet(S)
  PROVE  \E S \in T : \A U \in T : U \subseteq S => U = S
<1> DEFINE N == {Cardinality(S) : S \in T}
<1>1. \A S \in T : Cardinality(S) \in Nat
  BY FS_CardinalityType
<1>2. N \in SUBSET Nat /\ N # {}
  BY <1>1
<1>3. PICK n \in N : \A m \in N : n <= m
  BY <1>2, SmallestNat
<1>4. PICK S \in T : Cardinality(S) = n
  OBVIOUS
<1>5. ASSUME NEW U \in T, U \subseteq S
      PROVE  U = S
  <2>1. n <= Cardinality(U)
    BY <1>3
  <2>2. /\ IsFiniteSet(U) /\ Cardinality(U) <= Cardinality(S)
        /\ Cardinality(S) = Cardinality(U) => S = U
    BY <1>5, FS_Subset
  <2> QED BY <1>1, <1>4, <2>1, <2>2
<1> QED BY <1>5

LEMMA NodesFinite == IsFiniteSet(Node)
BY RecognitionAssumption, FS_AddElement DEF Node

\* The nodes that a component can reach, and those that can reach it.
Below(c) == {n \in Node : \E m \in c : Reaches(m, n)}
Above(c) == {n \in Node : \E m \in c : Reaches(n, m)}

\* An edge to another component leads to fewer nodes, from more of them.
LEMMA EdgeLeadsDown ==
  ASSUME NEW c \in Condensations, NEW d \in Condensations, c # d,
         NEW m \in c, NEW n \in d, n \in Children(m)
  PROVE  /\ Below(d) \subseteq Below(c) /\ Below(d) # Below(c)
         /\ Above(c) \subseteq Above(d) /\ Above(c) # Above(d)
<1>1. c \subseteq Node /\ d \subseteq Node
  BY ComponentNodes
<1>2. Reaches(m, n)
  BY <1>1 DEF Reaches
<1>3. /\ \A a \in c : Reaches(a, m) /\ Reaches(m, a)
      /\ \A b \in d : Reaches(b, n) /\ Reaches(n, b)
  BY <1>1, ReachesTransitive DEF Condensations, Component
<1>4. ASSUME Reaches(n, m)
      PROVE  FALSE
  <2>1. m \in Component(n)
    BY <1>1, <1>2, <1>4 DEF Component
  <2>2. Component(n) \in Condensations /\ n \in Component(n)
    BY <1>1, InOwnComponent DEF Condensations
  <2>3. Component(n) = d /\ Component(n) = c
    BY <2>1, <2>2, ComponentsDisjoint
  <2> QED BY <2>3
<1>5. Below(d) \subseteq Below(c)
  <2> SUFFICES ASSUME NEW b \in d, NEW x \in Node, Reaches(b, x)
               PROVE  Reaches(m, x)
    BY DEF Below
  <2> QED BY <1>1, <1>2, <1>3, ReachesTransitive
<1>6. Above(c) \subseteq Above(d)
  <2> SUFFICES ASSUME NEW a \in c, NEW x \in Node, Reaches(x, a)
               PROVE  Reaches(x, n)
    BY DEF Above
  <2> QED BY <1>1, <1>2, <1>3, ReachesTransitive
<1>7. m \in Below(c) /\ m \notin Below(d)
  <2>1. m \in Below(c)
    BY <1>1, <1>3 DEF Below
  <2>2. ASSUME NEW b \in d, Reaches(b, m)
        PROVE  FALSE
    BY <1>1, <1>3, <1>4, <2>2, ReachesTransitive
  <2> QED BY <2>1, <2>2 DEF Below
<1>8. n \in Above(d) /\ n \notin Above(c)
  <2>1. n \in Above(d)
    BY <1>1, <1>3 DEF Above
  <2>2. ASSUME NEW a \in c, Reaches(n, a)
        PROVE  FALSE
    BY <1>1, <1>3, <1>4, <2>2, ReachesTransitive
  <2> QED BY <2>1, <2>2 DEF Above
<1> QED BY <1>5, <1>6, <1>7, <1>8

\* In any choice of condensations one has no successor among them and one has
\* no predecessor among them.
LEMMA SinkAndSource ==
  ASSUME IInv, pc \in {"map", "recognize", "done"},
         NEW S, S \subseteq condensations, S # {}
  PROVE  /\ \E c \in S : outEdges[c] \cap S = {}
         /\ \E c \in S : inEdges[c] \cap S = {}
<1>1. condensations = Condensations
  BY DEF IInv, Phases
<1>2. ASSUME NEW c \in S, NEW d \in S, d \in outEdges[c]
      PROVE  /\ Below(d) \subseteq Below(c) /\ Below(d) # Below(c)
             /\ Above(c) \subseteq Above(d) /\ Above(c) # Above(d)
  <2>1. d \in ExternalEdges(c, ChildrenOf(c))
    BY <1>2 DEF IInv, Phases
  <2>2. PICK m \in c, n \in d : n \in Children(m) /\ n \notin c
    BY <2>1, OutEdge
  <2>3. c # d
    BY <2>2
  <2> QED BY <1>1, <2>2, <2>3, EdgeLeadsDown
<1>3. \A c : IsFiniteSet(Below(c)) /\ IsFiniteSet(Above(c))
  <2>1. \A c : Below(c) \in SUBSET Node /\ Above(c) \in SUBSET Node
    BY DEF Below, Above
  <2> QED BY <2>1, NodesFinite, FS_Subset
<1>4. \E c \in S : outEdges[c] \cap S = {}
  <2> DEFINE T == {Below(c) : c \in S}
  <2>1. \E U \in T : \A V \in T : V \subseteq U => V = U
    <3>1. T # {} /\ \A U \in T : IsFiniteSet(U)
      BY <1>3
    <3> HIDE DEF T
    <3> QED BY <3>1, MinimalSet
  <2>2. PICK c \in S : \A V \in T : V \subseteq Below(c) => V = Below(c)
    BY <2>1
  <2>3. ASSUME NEW d \in S, d \in outEdges[c]
        PROVE  FALSE
    BY <1>2, <2>2, <2>3
  <2> QED BY <2>3
<1>5. \E c \in S : inEdges[c] \cap S = {}
  <2> DEFINE T == {Above(c) : c \in S}
  <2>1. \E U \in T : \A V \in T : V \subseteq U => V = U
    <3>1. T # {} /\ \A U \in T : IsFiniteSet(U)
      BY <1>3
    <3> HIDE DEF T
    <3> QED BY <3>1, MinimalSet
  <2>2. PICK c \in S : \A V \in T : V \subseteq Above(c) => V = Above(c)
    BY <2>1
  <2>3. ASSUME NEW d \in S, d \in inEdges[c]
        PROVE  FALSE
    <3>1. c \in outEdges[d]
      BY <1>1, <2>3, Mirror DEF IInv, Phases
    <3> QED BY <1>2, <2>2, <3>1
  <2> QED BY <2>3
<1> QED BY <1>4, <1>5

\* The root reaches every node and no node reaches it.
LEMMA RootAlone ==
  ASSUME WellFormed(function)
  PROVE  Component(Root) = {Root}
<1>1. Root \in Node /\ Root \notin Inst /\ Inst = Node \ {Root}
  BY RecognitionAssumption DEF Node
<1>2. ASSUME NEW m \in Inst, Reaches(m, Root)
      PROVE  FALSE
  <2>1. \A k \in Inst : Children(k) \subseteq Inst
    BY <1>1 DEF Children
  <2>2. Inst \in SUBSET Node
    BY <1>1
  <2> QED BY <1>1, <1>2, <2>1, <2>2 DEF Reaches
<1>3. Root \in Component(Root)
  BY <1>1, InOwnComponent
<1> QED BY <1>1, <1>2, <1>3 DEF Component

\* The graph that computeEdges makes has no cycle, and the entry node is a
\* predecessor of every other condensation.
THEOREM Acyclic == Spec => []AcyclicFromEntry
<1>1. IInv => AcyclicFromEntry
  <2> SUFFICES ASSUME IInv, pc \in {"map", "recognize", "done"}
               PROVE  /\ \A S \in (SUBSET condensations) \ {{}} :
                           \E c \in S : outEdges[c] \cap S = {}
                      /\ \A c \in condensations :
                           c # entryNode <=> entryNode \in inEdges[c]
    BY DEF AcyclicFromEntry
  <2>1. \A S \in (SUBSET condensations) \ {{}} : \E c \in S : outEdges[c] \cap S = {}
    BY SinkAndSource
  <2>2. condensations = Condensations /\ entryNode \in condensations
    BY DEF IInv, Phases
  <2>3. entryNode = {Root}
    <3>1. /\ Root \in Node /\ Root \in Component(Root)
          /\ Component(Root) \in Condensations
      BY InOwnComponent DEF Node, Condensations
    <3>2. entryNode = Component(Root)
      BY <2>2, <3>1, ComponentsDisjoint DEF IInv, Phases
    <3> QED BY <3>2, RootAlone DEF IInv
  <2>4. ASSUME NEW c \in condensations
        PROVE  c # entryNode <=> entryNode \in inEdges[c]
    <3>1. entryNode \in inEdges[c]
            <=> \E n \in c : Root \in InverseChildren(n) /\ Root \notin c
      <4>1. inEdges[c] = ExternalEdges(c, InverseChildrenOf(c))
        BY DEF IInv, Phases
      <4> QED BY <4>1, <2>2, <2>3, InEdge
    <3>2. \A n \in Inst : Root \in InverseChildren(n)
      BY DEF InverseChildren, Children, Node
    <3>3. c \subseteq Node /\ c # {}
      BY <2>2, ComponentNodes, InOwnComponent DEF Condensations
    <3>4. Root \in c => c = entryNode
      BY <2>2, <2>3, ComponentsDisjoint
    <3>5. Root \notin c => \E n \in c : n \in Inst
      BY <3>3 DEF Node
    <3> QED BY <2>3, <3>1, <3>2, <3>4, <3>5
  <2> QED BY <2>1, <2>4
<1> QED BY <1>1, Invariance, PTL

\* What dependences lead to from a set of instructions that is closed under
\* them.
LEMMA ClosedReaches ==
  ASSUME NEW S \in SUBSET Inst, \A e \in function.edges : e[1] \in S => e[2] \in S,
         NEW m \in S, NEW n \in Node, Reaches(m, n)
  PROVE  n \in S
<1>1. S \in SUBSET Node /\ \A k \in S : k # Root
  BY RecognitionAssumption DEF Node
<1>2. \A k \in S : Children(k) \subseteq S
  BY <1>1 DEF Children
<1> QED BY <1>1, <1>2 DEF Reaches

LEMMA ClosedComponent ==
  ASSUME NEW S \in SUBSET Inst, \A e \in function.edges : e[1] \in S => e[2] \in S,
         NEW c \in Condensations, NEW j \in c, j \in S
  PROVE  c \subseteq S
<1>1. \A m \in c : m \in Node /\ Reaches(j, m)
  BY ReachesTransitive, ComponentNodes DEF Condensations, Component
<1> QED BY <1>1, ClosedReaches

\* Suppose the dependences did not lead from the iterator to all of the loop.
\* Of the components of the loop that they do not lead to, one has no
\* predecessor among these.  If it had one among the other components of the
\* loop they would lead to it after all; if not it is of the iterator.
THEOREM Drives == Spec => []IteratorDrivesLoop
<1>1. IInv => IteratorDrivesLoop
  <2> SUFFICES ASSUME IInv, NEW l \in DOMAIN iterators, NEW S \in SUBSET Inst,
                      iterators[l] \cap InstructionsOf(l) \subseteq S,
                      \A e \in function.edges : e[1] \in S => e[2] \in S,
                      NEW i \in InstructionsOf(l), i \notin S
               PROVE  FALSE
    BY DEF IteratorDrivesLoop
  <2> DEFINE loopCondensations == {cn \in condensations : l \in map[cn]}
             missed == {cn \in loopCondensations : ~(cn \subseteq S)}
  <2>1. l \in 1..next - 1 /\ next \in 1..NumLoops + 1
    BY DEF IInv, Phases
  <2>2. pc \in {"recognize", "done"} /\ l \in Loop
    BY <2>1, RecognitionAssumption DEF IInv, Phases, Loop
  <2>3. /\ condensations = Condensations
        /\ \A cn \in condensations :
             map[cn] = MapOf(cn) /\ inEdges[cn] = ExternalEdges(cn, InverseChildrenOf(cn))
        /\ iterators[l] = IteratorOf(l)
    BY <2>1, <2>2 DEF IInv, Phases
  <2>4. i \in Inst /\ l \in LoopsOf(i)
    BY DEF InstructionsOf
  <2>5. Component(i) \in condensations /\ i \in Component(i)
    BY <2>3, <2>4, InOwnComponent DEF Condensations, Node
  <2>6. Component(i) \in missed
    BY <2>3, <2>4, <2>5 DEF MapOf
  <2>7. PICK c \in missed : inEdges[c] \cap missed = {}
    BY <2>2, <2>6, SinkAndSource
  <2>8. \A j \in c : j \notin S
    BY <2>3, <2>7, ClosedComponent
  <2>9. CASE inEdges[c] \cap loopCondensations = {}
    <3>1. PICK j \in c \cap Inst : l \in LoopsOf(j)
      BY <2>3, <2>7 DEF MapOf
    <3>2. j \in iterators[l] \cap InstructionsOf(l)
      BY <2>3, <2>7, <2>9, <3>1 DEF IteratorOf, InstructionsOf
    <3> QED BY <2>8, <3>1, <3>2
  <2>10. CASE inEdges[c] \cap loopCondensations # {}
    <3>1. PICK d \in loopCondensations : d \in inEdges[c]
      BY <2>10
    <3>2. d \subseteq S
      BY <2>7, <3>1
    <3>3. PICK m \in d, n \in c : m \in InverseChildren(n)
      BY <2>3, <2>7, <3>1, InEdge
    <3>4. n \in Children(m) /\ m \in Inst /\ m # Root
      BY <3>2, <3>3, RecognitionAssumption DEF InverseChildren
    <3>5. <<m, n>> \in function.edges
      BY <3>4 DEF Children
    <3> QED BY <2>8, <3>2, <3>3, <3>5
  <2> QED BY <2>9, <2>10
<1> QED BY <1>1, Invariance, PTL

-----------------------------------------------------------------------------
(***************************************************************************)
(* The payload's borders: what is live out is live for the code behind the *)
(* loop, what is only live in is the payload's own, and the two searches   *)
(* for iterator values agree.                                              *)
(***************************************************************************)

\* The function analysed is one of those considered and does not change.
LEMMA SameFunction == Spec => [](function \in Functions)
<1>1. Init => function \in Functions
  BY DEF Init
<1>2. function \in Functions /\ [Next]_vars => (function \in Functions)'
  BY DEF Next, Condense, ComputeEdges, MapCondensationToLoops,
         RecognizeIterator, UpdateStatistics, vars
<1> QED BY <1>1, <1>2, PTL DEF Spec

\* Uses are dependences between instructions.
LEMMA UsesAreEdges ==
  ASSUME function \in Functions, NEW e \in Inst
  PROVE  /\ Users(e) \subseteq Inst
         /\ \A user \in Users(e) : <<e, user>> \in function.edges
         /\ \A user \in Users(e) : Dominates(e, user) \/ user \in function.phis
BY ClassificationAssumption DEF Classifiable, Users, Dominates

LEMMA PayloadInstructions ==
  ASSUME NEW l
  PROVE  FindPayloadValues(l) \subseteq Inst
BY DEF FindPayloadValues, InstructionsOf

\* A value that is only live in has no user but the payload: a user elsewhere
\* would be dominated by it or be a phi node.
THEOREM LiveInConsumed == Spec => []LiveInIsConsumed
<1>1. function \in Functions => LiveInIsConsumed
  <2> SUFFICES ASSUME function \in Functions, NEW l \in DOMAIN iterators,
                      NEW e \in VirtRegLiveIn(FindPayloadValues(l)),
                      NEW user \in Users(e), user \notin FindPayloadValues(l)
               PROVE  FALSE
    BY DEF LiveInIsConsumed
  <2>1. e \in Inst
    BY PayloadInstructions DEF VirtRegLiveIn, FindVirtRegPayloadLiveValues
  <2>2. ~UsedAfter(e, FindPayloadValues(l))
    BY DEF VirtRegLiveIn
  <2> QED BY <2>1, <2>2, UsesAreEdges DEF UsedAfter
<1> QED BY <1>1, SameFunction, PTL

\* A user of a payload value that is in the loop and not of the payload is of
\* the iterator, and then the value is of the iterator as well.
THEOREM LiveOutLeaves == Spec => []LiveOutLeavesLoop
<1>1. function \in Functions /\ IteratorSelfContained => LiveOutLeavesLoop
  <2> SUFFICES ASSUME function \in Functions, IteratorSelfContained,
                      NEW l \in DOMAIN iterators,
                      NEW e \in VirtRegLiveOut(FindPayloadValues(l)),
                      NEW user \in Users(e) \cap InstructionsOf(l),
                      user \notin FindPayloadValues(l)
               PROVE  FALSE
    BY DEF LiveOutLeavesLoop
  <2>1. e \in InstructionsOf(l) /\ e \notin iterators[l]
    BY DEF VirtRegLiveOut, FindPayloadValues
  <2>2. e \in Inst
    BY <2>1 DEF InstructionsOf
  <2>3. user \in iterators[l]
    BY DEF FindPayloadValues
  <2>4. <<e, user>> \in function.edges
    BY <2>2, UsesAreEdges
  <2> QED BY <2>1, <2>3, <2>4 DEF IteratorSelfContained
<1> QED BY <1>1, SameFunction, SelfContained, PTL

\* An iterator value has a user in the payload just when it is an operand of
\* the payload, and every such operand is live in or live through.
THEOREM IteratorValuesLive == Spec => []IteratorValuesAreLive
<1>1. IInv => IteratorValuesAreLive
  <2> SUFFICES ASSUME IInv, NEW l \in DOMAIN iterators
               PROVE  FindIteratorValues(l) =
                        iterators[l] \cap (VirtRegLiveIn(FindPayloadValues(l))
                                             \cup VirtRegLiveThru(FindPayloadValues(l)))
    BY DEF IteratorValuesAreLive
  <2> DEFINE payload == FindPayloadValues(l)
  <2>1. iterators[l] \subseteq Inst
    BY DEF IInv, Phases, IteratorOf
  <2>2. iterators[l] \cap payload = {}
    BY DEF FindPayloadValues
  <2>3. ASSUME NEW e \in iterators[l]
        PROVE  e \in FindIteratorValues(l) <=> Users(e) \cap payload # {}
    BY DEF FindIteratorValues, FindPayloadValues
  <2>4. ASSUME NEW e \in iterators[l]
        PROVE  e \in FindVirtRegPayloadLiveValues(payload)
                 <=> Users(e) \cap payload # {}
    BY <2>1, <2>2 DEF FindVirtRegPayloadLiveValues
  <2>5. VirtRegLiveIn(payload) \cup VirtRegLiveThru(payload)
          = FindVirtRegPayloadLiveValues(payload) \ payload
    BY DEF VirtRegLiveIn, VirtRegLiveThru
  <2>6. FindIteratorValues(l) \subseteq iterators[l]
    BY DEF FindIteratorValues
  <2> QED BY <2>2, <2>3, <2>4, <2>5, <2>6
<1> QED BY <1>1, Invariance, PTL

-----------------------------------------------------------------------------
(***************************************************************************)
(* The loop nest: preorder makes it a forest.                              *)
(***************************************************************************)

LEMMA LoopsAreNumbers == Loop \subseteq Nat /\ 0 \notin Loop
BY RecognitionAssumption DEF Loop

LEMMA AncestorReflexive ==
  ASSUME NEW l \in Loop
  PROVE  IsAncestor(l, l)
BY DEF IsAncestor

LEMMA AncestorTransitive ==
  ASSUME NEW k \in Loop, NEW l \in Loop, NEW m \in Loop,
         IsAncestor(k, l), IsAncestor(l, m)
  PROVE  IsAncestor(k, m)
BY DEF IsAncestor

\* An ancestor has no higher number.
LEMMA AncestorOrder ==
  ASSUME WellFormed(function), NEW k \in Loop, NEW l \in Loop, IsAncestor(k, l)
  PROVE  k <= l
<1> DEFINE S == {m \in Loop : m <= l}
<1>1. /\ \A m \in Loop : m \in Nat
      /\ \A m \in Loop : function.parent[m] \in 0..NumLoops /\ function.parent[m] < m
  BY LoopsAreNumbers DEF WellFormed
<1>2. l \in S /\ S \in SUBSET Loop
  BY <1>1
<1>3. ASSUME NEW m \in S, function.parent[m] # 0
      PROVE  function.parent[m] \in S
  <2>1. m \in Loop /\ m <= l /\ m \in Nat /\ l \in Nat
    BY <1>1
  <2>2. function.parent[m] \in Loop
    BY <1>1, <1>3, RecognitionAssumption DEF Loop
  <2>3. function.parent[m] < m /\ function.parent[m] \in Nat
    BY <1>1, <2>1, <2>2
  <2>4. function.parent[m] <= l
    BY <2>1, <2>3
  <2> QED BY <2>2, <2>4
<1>4. k \in S
  BY <1>2, <1>3 DEF IsAncestor
<1> QED BY <1>4

\* The ancestors of a loop are itself and those of its parent.
LEMMA AncestorByParent ==
  ASSUME NEW k \in Loop, NEW s \in Loop, NEW l \in Loop, function.parent[s] = l
  PROVE  IsAncestor(k, s) <=> k = s \/ IsAncestor(k, l)
<1>1. ASSUME IsAncestor(k, s), k # s
      PROVE  IsAncestor(k, l)
  <2> SUFFICES ASSUME NEW S \in SUBSET Loop, l \in S,
                      \A m \in S : function.parent[m] # 0 => function.parent[m] \in S
               PROVE  k \in S
    BY DEF IsAncestor
  <2> DEFINE T == S \cup {s}
  <2>1. T \in SUBSET Loop /\ s \in T
    OBVIOUS
  <2>2. \A m \in T : function.parent[m] # 0 => function.parent[m] \in T
    OBVIOUS
  <2>3. k \in T
    BY <1>1, <2>1, <2>2 DEF IsAncestor
  <2> QED BY <1>1, <2>3
<1>2. ASSUME IsAncestor(k, l)
      PROVE  IsAncestor(k, s)
  <2>1. IsAncestor(l, s)
    BY LoopsAreNumbers DEF IsAncestor
  <2> QED BY <1>2, <2>1, AncestorTransitive
<1> QED BY <1>1, <1>2, AncestorReflexive

\* An instruction of a loop is one of its parent as well.
LEMMA InParent ==
  ASSUME WellFormed(function), NEW s \in Loop, NEW l \in Loop, function.parent[s] = l
  PROVE  InstructionsOf(s) \subseteq InstructionsOf(l)
<1> SUFFICES ASSUME NEW i \in Inst, s \in LoopsOf(i)
             PROVE  l \in LoopsOf(i)
  BY DEF InstructionsOf
<1>1. function.loopFor[i] \in Loop
  BY RecognitionAssumption DEF LoopsOf, WellFormed, Loop
<1>2. IsAncestor(l, s)
  BY AncestorByParent, AncestorReflexive
<1> QED BY <1>1, <1>2, AncestorTransitive DEF LoopsOf

\* A block is in a loop as a whole, and in which one tells any instruction of
\* it.
LEMMA BlockInLoop ==
  ASSUME InBlocks(function), NEW q, NEW i \in Inst
  PROVE  function.block[i] \in BlocksOf(q) <=> i \in InstructionsOf(q)
<1>1. ASSUME NEW j \in InstructionsOf(q), function.block[j] = function.block[i]
      PROVE  i \in InstructionsOf(q)
  <2>1. j \in Inst /\ function.loopFor[i] = function.loopFor[j]
    BY <1>1 DEF InBlocks, InstructionsOf
  <2> QED BY <1>1, <2>1 DEF InstructionsOf, LoopsOf
<1> QED BY <1>1 DEF BlocksOf

\* The header of a loop is in a loop just when that is the loop or around it.
LEMMA HeaderInLoop ==
  ASSUME InBlocks(function), NEW s \in Loop, NEW q \in Loop
  PROVE  function.header[s] \in BlocksOf(q) <=> IsAncestor(q, s)
<1>1. PICK i \in Inst : function.block[i] = function.header[s] /\ function.loopFor[i] = s
  BY DEF InBlocks
<1>2. i \in InstructionsOf(q) <=> IsAncestor(q, s)
  BY <1>1, LoopsAreNumbers DEF InstructionsOf, LoopsOf
<1> QED BY <1>1, <1>2, BlockInLoop

\* What the iterators are made of.
LEMMA IteratorsFound ==
  ASSUME IInv, NEW l \in DOMAIN iterators
  PROVE  l \in Loop /\ iterators[l] \subseteq Inst
<1>1. l \in 1..next - 1 /\ next \in 1..NumLoops + 1
  BY DEF IInv, Phases
<1>2. l \in Loop
  BY <1>1, RecognitionAssumption DEF Loop
<1>3. iterators[l] = IteratorOf(l)
  BY <1>1 DEF IInv, Phases
<1> QED BY <1>2, <1>3 DEF IteratorOf

\* The blocks without an iterator instruction, by instruction.
LEMMA NoIteratorInBlock ==
  ASSUME IInv, NEW l \in DOMAIN iterators, NEW b
  PROVE  b \in IteratorBlocks(l) <=> InstructionsIn(b) \cap iterators[l] # {}
BY IteratorsFound DEF IteratorBlocks, InstructionsIn

\* GetPayloadOnlySubloops and GetMixedBlocks, which go by blocks, return what
\* the instructions say.  A loop below the one asked about that has the
\* parent of the iterator's loop would have to be the loop asked about, whose
\* header is never payload only; a header is in no subloop.
THEOREM PayloadQueries == Spec => []PayloadByInstructions
<1>1. IInv /\ function \in Functions => PayloadByInstructions
  <2> SUFFICES ASSUME IInv, function \in Functions, NEW l \in DOMAIN iterators,
                      NEW q \in Loop, IsAncestor(l, q)
               PROVE  /\ GetPayloadOnlySubloops(l, q) =
                           {s \in Loop :
                              /\ q = l /\ function.parent[s] = l
                              /\ InstructionsOf(s) \cap iterators[l] = {}
                              /\ BlocksOf(s) \cap function.latches[l] = {}}
                      /\ GetMixedBlocks(l, q) =
                           {b \in BlocksOf(q) :
                              /\ b # function.header[q] /\ b \notin function.latches[q]
                              /\ InstructionsIn(b) \cap iterators[l] = {}}
    BY DEF PayloadByInstructions, Queried
  <2>1. InBlocks(function) /\ WellFormed(function)
    BY BlocksAssumption, RecognitionAssumption
  <2>2. l \in Loop /\ iterators[l] \subseteq Inst
    BY IteratorsFound
  <2>3. GetMixedBlocks(l, q) =
          {b \in BlocksOf(q) :
             /\ b # function.header[q] /\ b \notin function.latches[q]
             /\ InstructionsIn(b) \cap iterators[l] = {}}
    <3>1. \A b \in BlocksOf(q) : InstructionsIn(b) # {}
      BY DEF BlocksOf, InstructionsIn, InstructionsOf
    <3> QED BY <3>1, NoIteratorInBlock DEF GetMixedBlocks, GetPayloadOnlyBlocks
  <2>4. ASSUME NEW s \in Loop, function.parent[s] = l
        PROVE  BlocksOf(s) \subseteq GetPayloadOnlyBlocks(l, q)
                 <=> /\ q = l
                     /\ InstructionsOf(s) \cap iterators[l] = {}
                     /\ BlocksOf(s) \cap function.latches[l] = {}
    <3>1. function.header[s] \in BlocksOf(s)
      BY <2>1, HeaderInLoop, AncestorReflexive
    <3>2. ASSUME BlocksOf(s) \subseteq GetPayloadOnlyBlocks(l, q)
          PROVE  q = l
      <4>1. /\ function.header[s] \in BlocksOf(q)
            /\ function.header[s] # function.header[q]
        BY <3>1, <3>2 DEF GetPayloadOnlyBlocks
      <4>2. IsAncestor(q, s) /\ q # s
        BY <2>1, <4>1, HeaderInLoop
      <4>3. IsAncestor(q, l)
        BY <2>2, <2>4, <4>2, AncestorByParent
      <4>4. q <= l /\ l <= q
        BY <2>1, <2>2, <4>3, AncestorOrder
      <4> QED BY <2>2, <4>4, LoopsAreNumbers
    <3>3. BlocksOf(s) \subseteq BlocksOf(l)
      BY <2>1, <2>2, <2>4, InParent DEF BlocksOf
    <3>4. function.header[l] \notin BlocksOf(s)
      <4>1. l < s /\ l \in Nat /\ s \in Nat
        BY <2>1, <2>2, <2>4, LoopsAreNumbers DEF WellFormed
      <4>2. ~IsAncestor(s, l)
        BY <2>1, <2>2, <4>1, AncestorOrder
      <4> QED BY <2>1, <2>2, <4>2, HeaderInLoop
    <3>5. BlocksOf(s) \cap IteratorBlocks(l) = {}
            <=> InstructionsOf(s) \cap iterators[l] = {}
      <4>1. ASSUME NEW i \in iterators[l]
            PROVE  function.block[i] \in BlocksOf(s) <=> i \in InstructionsOf(s)
        BY <2>1, <2>2, <4>1, BlockInLoop
      <4> QED BY <4>1 DEF IteratorBlocks
    <3>6. CASE q = l
      BY <3>3, <3>4, <3>5, <3>6 DEF GetPayloadOnlyBlocks
    <3>7. CASE q # l
      BY <3>2, <3>7
    <3> QED BY <3>6, <3>7
  <2> QED BY <2>3, <2>4 DEF GetPayloadOnlySubloops
<1> QED BY <1>1, Invariance, SameFunction, PTL

-----------------------------------------------------------------------------

\* The two reports of JSONExporterPass agree, each instruction is in one entry
\* of them, and an iterator is made of whole entries: components are disjoint,
\* and RecognizeIterator takes them whole.
THEOREM ReportsAgree == Spec => []ReportsTellIterators
<1>1. IInv => ReportsTellIterators
  <2> SUFFICES ASSUME IInv, pc = "done"
               PROVE  /\ ExportGraph = {e.condensation : e \in ExportMap}
                      /\ \A i \in Inst :
                           /\ Cardinality({e \in ExportMap : i \in e.condensation}) = 1
                           /\ \A e \in ExportMap :
                                i \in e.condensation => LoopsOf(i) \subseteq e.loops
                      /\ \A l \in Loop :
                           iterators[l] = UNION {e.condensation : e \in {d \in Entries(l) :
                                                   d.condensation \subseteq iterators[l]}}
    BY DEF ReportsTellIterators
  <2> DEFINE Entry(cn) == [condensation |-> ExportCondensation(cn), loops |-> map[cn]]
  <2>1. /\ condensations = Condensations
        /\ map = [cn \in condensations |-> MapOf(cn)]
    BY DEF IInv, Phases
  <2>2. ExportMap = {Entry(cn) : cn \in condensations}
    BY <2>1 DEF ExportMap
  <2>3. ExportGraph = {e.condensation : e \in ExportMap}
    <3>1. \A cn : Entry(cn).condensation = ExportCondensation(cn)
      OBVIOUS
    <3>2. {e.condensation : e \in ExportMap}
            = {ExportCondensation(cn) : cn \in condensations}
      BY <2>2, <3>1
    <3> QED BY <3>2 DEF ExportGraph
  <2>4. ASSUME NEW i \in Inst
        PROVE  /\ Cardinality({e \in ExportMap : i \in e.condensation}) = 1
               /\ \A e \in ExportMap :
                    i \in e.condensation => LoopsOf(i) \subseteq e.loops
    <3>1. Component(i) \in condensations /\ i \in Component(i)
      BY <2>1, InOwnComponent DEF Condensations, Node
    <3>2. ASSUME NEW cn \in condensations
          PROVE  i \in Entry(cn).condensation <=> cn = Component(i)
      BY <2>1, <3>1, ComponentsDisjoint DEF ExportCondensation
    <3>3. {e \in ExportMap : i \in e.condensation} = {Entry(Component(i))}
      BY <2>2, <3>1, <3>2
    <3>4. Cardinality({e \in ExportMap : i \in e.condensation}) = 1
      BY <3>3, FS_Singleton
    <3>5. LoopsOf(i) \subseteq map[Component(i)]
      BY <2>1, <3>1 DEF MapOf
    <3> QED BY <2>2, <3>2, <3>4, <3>5
  <2>5. ASSUME NEW l \in Loop
        PROVE  iterators[l] = UNION {e.condensation : e \in {d \in Entries(l) :
                                       d.condensation \subseteq iterators[l]}}
    <3>1. iterators[l] = IteratorOf(l)
      BY RecognitionAssumption DEF IInv, Phases, Loop
    <3>2. ASSUME NEW i \in iterators[l]
          PROVE  \E d \in Entries(l) : /\ d.condensation \subseteq iterators[l]
                                       /\ i \in d.condensation
      <4>1. PICK cn \in condensations :
              /\ i \in cn \cap Inst /\ l \in map[cn]
              /\ cn \cap Inst \subseteq iterators[l]
        BY <3>1 DEF IteratorOf
      <4>2. Entry(cn) \in Entries(l) /\ Entry(cn).condensation = cn \cap Inst
        BY <2>2, <4>1 DEF Entries, ExportCondensation
      <4> QED BY <4>1, <4>2
    <3> QED BY <3>2
  <2> QED BY <2>3, <2>4, <2>5
<1> QED BY <1>1, Invariance, PTL

-----------------------------------------------------------------------------
(***************************************************************************)
(* The tracker, which answers queries about the recognised iterators.      *)
(***************************************************************************)

\* Before there is a query the iterators are recognised, and they stay.
LEMMA TrackerKeepsRecognition == TrackerSpec => Spec
<1>1. TrackerInit => Init
  BY DEF TrackerInit
<1>2. [TrackerNext]_<<vars, trackerVars>> => [Next]_vars
  BY DEF TrackerNext, Ask, Step, AnswerIterator, AnswerUnused, BeginSearch, Visit,
         SearchEnded
<1> QED BY <1>1, <1>2, PTL DEF TrackerSpec, Spec

\* What holds of recognition in all states.
Recognition ==
  /\ TypeOK
  /\ function \in Functions
  /\ pc = "done" => next = NumLoops + 1

LEMMA RecognitionHolds == TrackerSpec => []Recognition
<1>1. IInv => (pc = "done" => next = NumLoops + 1)
  BY DEF IInv, Phases
<1> QED BY <1>1, TrackerKeepsRecognition, TypeCorrect, SameFunction, Invariance, PTL
        DEF Recognition

\* What is known of the function and its iterators when there is a query.
LEMMA Recognised ==
  ASSUME Recognition
  PROVE  /\ function.argUsers \in [Argument -> SUBSET Inst]
         /\ function.indices \in [function.geps -> SUBSET Inst]
         /\ \A v \in Value : UsersOf(v) \subseteq Inst
         /\ \A i \in Inst : Operands(i) \subseteq Inst
         /\ pc = "done" => iterators \in [Loop -> SUBSET Inst]
<1>1. Accesses(function) /\ Classifiable(function)
  BY TrackerAssumption, ClassificationAssumption DEF Recognition
<1>2. \A v \in Value : UsersOf(v) \subseteq Inst
  BY <1>1 DEF UsersOf, Value, Accesses, Classifiable, Users
<1>3. pc = "done" => iterators \in [Loop -> SUBSET Inst]
  BY RecognitionAssumption DEF Recognition, TypeOK, Loop
<1> QED BY <1>1, <1>2, <1>3 DEF Accesses, Operands

LEMMA ParentIsAncestor ==
  ASSUME WellFormed(function), NEW l \in Loop, function.parent[l] # 0
  PROVE  /\ function.parent[l] \in Loop
         /\ IsAncestor(function.parent[l], l)
         /\ function.parent[l] < l
<1>1. function.parent[l] \in Loop
  BY RecognitionAssumption DEF WellFormed, Loop
<1>2. IsAncestor(function.parent[l], l)
  BY <1>1, AncestorByParent, AncestorReflexive
<1> QED BY <1>1, <1>2 DEF WellFormed

\* Every loop is in a top-level loop.
LEMMA TopLevel ==
  ASSUME WellFormed(function), NEW l \in Loop
  PROVE  TopLevelOf(l) \in Loop /\ IsAncestor(TopLevelOf(l), l)
<1> DEFINE A == {k \in Loop : IsAncestor(k, l)}
<1>1. A \in SUBSET Nat /\ A # {}
  BY AncestorReflexive, LoopsAreNumbers
<1>2. PICK t \in A : \A k \in A : t <= k
  BY <1>1, SmallestNat
<1>3. function.parent[t] = 0
  <2> SUFFICES ASSUME function.parent[t] # 0 PROVE FALSE
    OBVIOUS
  <2>1. function.parent[t] \in A /\ function.parent[t] < t
    BY ParentIsAncestor, AncestorTransitive
  <2>2. t <= function.parent[t]
    BY <1>2, <2>1
  <2>3. function.parent[t] \in Nat /\ t \in Nat
    BY <1>1, <2>1
  <2> QED BY <2>1, <2>2, <2>3
<1> QED BY <1>2, <1>3 DEF TopLevelOf

\* With the infos of the nest of a query, isIterator tells the iterators that
\* the query is about.
LEMMA IteratorsOfQuery ==
  ASSUME WellFormed(function), NEW q \in Query, NEW i,
         infos = Nest(TopLevelOf(q.loop))
  PROVE  IsIterator(i, q.loop, q.subLoops) <=> i \in Iterators(q)
<1>1. q.loop \in Loop
  BY DEF Query
<1>2. TopLevelOf(q.loop) \in Loop /\ IsAncestor(TopLevelOf(q.loop), q.loop)
  BY <1>1, TopLevel
<1>3. \A m \in LoopsAbout(q.loop, q.subLoops) : m \in infos
  BY <1>1, <1>2, AncestorTransitive DEF Nest, LoopsAbout
<1> QED BY <1>3 DEF IsIterator, Iterators

-----------------------------------------------------------------------------
(***************************************************************************)
(* The invariant of the tracker: whose infos it holds (Held), and how far  *)
(* the search for the query has come (Tracing).                            *)
(***************************************************************************)
Held ==
  /\ topL # NoLoop => infos = Nest(topL)
  /\ tracker # "idle" => topL = TopLevelOf(query.loop) /\ answer = "Unknown"

\* What was met is computed from the indices of the query and nothing of that is
\* lost; what was visited is no iterator.
Tracing ==
  /\ query.value \notin Iterators(query)
  /\ Indices(query) \subseteq visited \cup workList
  /\ \A i \in visited \cup workList : ComputedFrom(Indices(query), i)
  /\ \A i \in visited :
       /\ i \notin Iterators(query)
       /\ Operands(i) \subseteq visited \cup workList

\* The types of the tracker's own variables.
TrackerTyped ==
  /\ topL \in Loop \cup {NoLoop} /\ infos \subseteq Loop
  /\ tracker \in {"idle", "query", "search"}
  /\ tracker # "idle" \/ answer # "Unknown" => pc = "done"
  /\ query \in Query
  /\ workList \subseteq Inst /\ visited \subseteq Inst
  /\ answer \in {"Unknown", "Invariant", "Variant"}

TrackerInv ==
  /\ TrackerTyped
  /\ Held
  /\ tracker = "query" => workList = {} /\ visited = {}
  /\ tracker = "search" => Tracing
  /\ AnswerCorrect

LEMMA TrackerStarts == TrackerInit => TrackerInv
BY DEF TrackerInit, TrackerInv, TrackerTyped, Held, AnswerCorrect

\* What isIterator answers during a query.
LEMMA KnowsIterators ==
  ASSUME Recognition, TrackerInv, tracker # "idle"
  PROVE  \A i : IsIterator(i, query.loop, query.subLoops) <=> i \in Iterators(query)
<1>1. query \in Query /\ query.loop \in Loop /\ WellFormed(function)
  BY DEF Recognition, TypeOK, TrackerInv, TrackerTyped, Query
<1>2. topL \in Loop /\ topL = TopLevelOf(query.loop)
  BY <1>1, TopLevel DEF TrackerInv, Held
<1>3. infos = Nest(TopLevelOf(query.loop))
  BY <1>2, LoopsAreNumbers DEF TrackerInv, Held, NoLoop
<1> QED BY <1>1, <1>3, IteratorsOfQuery

\* The iterators of a query are those of its loops, and instructions.
LEMMA QueryIterators ==
  ASSUME Recognition, pc = "done", NEW q \in Query
  PROVE  Iterators(q) \subseteq Inst
BY Recognised DEF Iterators, LoopsAbout

LEMMA QueryAnswer ==
  ASSUME Recognition, TrackerInv, tracker = "query"
  PROVE  /\ QueryIsIterator <=> query.value \in Iterators(query)
         /\ Indices(query) = UNION {function.indices[gep] : gep \in Geps}
         /\ Indices(query) \subseteq Inst
<1>1. query \in Query /\ pc = "done"
  BY DEF TrackerInv, TrackerTyped
<1>2. Iterators(query) \subseteq Inst
  BY <1>1, QueryIterators
<1>3. Indices(query) = UNION {function.indices[gep] : gep \in Geps}
  BY DEF Indices, Geps
<1>4. Indices(query) \subseteq Inst
  BY <1>3, Recognised DEF Geps
<1> QED BY <1>2, <1>3, <1>4, KnowsIterators DEF QueryIsIterator

\* What is computed from indices.
LEMMA ComputedLeast ==
  ASSUME NEW A, NEW S \in SUBSET Inst, A \subseteq S,
         \A k \in S : Operands(k) \subseteq S,
         NEW i, ComputedFrom(A, i)
  PROVE  i \in S
BY DEF ComputedFrom

LEMMA ComputedOperands ==
  ASSUME NEW A, NEW i \in Inst, ComputedFrom(A, i), NEW j \in Operands(i)
  PROVE  ComputedFrom(A, j)
BY DEF ComputedFrom

-----------------------------------------------------------------------------

\* What AnswerCorrect says once there is an answer.
Correct(a) == a = IF Varies(query) THEN "Variant" ELSE "Invariant"

LEMMA AnswersIterator ==
  ASSUME Recognition, TrackerInv, AnswerIterator
  PROVE  Correct("Invariant")
BY QueryAnswer DEF AnswerIterator, Correct, Varies

LEMMA AnswersUnused ==
  ASSUME Recognition, TrackerInv, AnswerUnused
  PROVE  Correct("Invariant")
<1>1. Indices(query) = {}
  BY QueryAnswer DEF AnswerUnused
<1>2. ASSUME NEW i, ComputedFrom({}, i)
      PROVE  FALSE
  BY <1>2, ComputedLeast
<1> QED BY <1>1, <1>2 DEF Correct, Varies

LEMMA AnswersEnded ==
  ASSUME TrackerInv, SearchEnded
  PROVE  Correct("Invariant")
<1>1. Tracing /\ workList = {} /\ visited \in SUBSET Inst
  BY DEF TrackerInv, SearchEnded, TrackerTyped
<1>2. ASSUME NEW i \in Iterators(query), ComputedFrom(Indices(query), i)
      PROVE  FALSE
  <2>1. i \in visited
    BY <1>1, <1>2, ComputedLeast DEF Tracing
  <2> QED BY <1>1, <1>2, <2>1 DEF Tracing
<1> QED BY <1>2 DEF Correct, Varies

\* As long as the query is the same, so is what it is about.
LEMMA SameQuery ==
  ASSUME UNCHANGED <<function, iterators, query>>
  PROVE  /\ Indices(query)' = Indices(query)
         /\ Iterators(query)' = Iterators(query)
         /\ \A k : ComputedFrom(Indices(query), k)'
                   <=> ComputedFrom(Indices(query), k)
         /\ \A k : Operands(k)' = Operands(k)
         /\ Varies(query)' <=> Varies(query)
<1>1. /\ Indices(query)' = Indices(query)
      /\ Iterators(query)' = Iterators(query)
      /\ \A k : Operands(k)' = Operands(k)
  BY DEF Indices, Iterators, Operands, Users, UsersOf, FindPayloadValues,
         InstructionsOf, LoopsOf, LoopsAbout, IsAncestor
<1>2. \A k : ComputedFrom(Indices(query), k)'
              <=> ComputedFrom(Indices(query), k)
  BY <1>1 DEF ComputedFrom
<1> QED BY <1>1, <1>2 DEF Varies

\* The infos that are held do not change as long as the function does not.
LEMMA SameNest ==
  ASSUME UNCHANGED function
  PROVE  \A l : Nest(l)' = Nest(l) /\ TopLevelOf(l)' = TopLevelOf(l)
BY DEF Nest, TopLevelOf, IsAncestor

-----------------------------------------------------------------------------

\* A step that returns an answer that is right.
LEMMA Returns ==
  ASSUME TrackerInv, tracker # "idle", tracker' = "idle",
         NEW a \in {"Invariant", "Variant"}, answer' = a, Correct(a),
         UNCHANGED <<function, pc, iterators, topL, infos, query>>,
         workList' \subseteq Inst, visited' \subseteq Inst
  PROVE  TrackerInv'
<1>1. AnswerCorrect'
  BY SameQuery DEF AnswerCorrect, Correct
<1>2. TrackerTyped'
  BY DEF TrackerInv, TrackerTyped
<1>3. Held'
  BY SameNest DEF TrackerInv, Held
<1> QED BY <1>1, <1>2, <1>3 DEF TrackerInv

LEMMA AskStep ==
  ASSUME Recognition, TrackerInv, NEW q \in Query, Ask(q)
  PROVE  TrackerInv'
<1>1. q.loop \in Loop /\ TopLevelOf(q.loop) \in Loop
  BY TopLevel DEF Recognition, TypeOK, Query
<1>2. /\ tracker' = "query" /\ query' = q
      /\ UNCHANGED <<function, pc>> /\ pc = "done"
      /\ workList' = {} /\ visited' = {} /\ answer' = "Unknown"
      /\ \/ topL' = TopLevelOf(q.loop) /\ infos' = Nest(TopLevelOf(q.loop))
         \/ topL' = topL /\ infos' = infos /\ topL = TopLevelOf(q.loop)
  BY Zenon DEF Ask, NeedsInit, vars
<1>3. topL # NoLoop => infos = Nest(topL)
  BY DEF TrackerInv, Held
<1>4. topL' # NoLoop => infos' = Nest(topL')
  BY <1>2, <1>3
<1>5. Nest(topL') = Nest(topL)' /\ topL' = TopLevelOf(query.loop)'
  <2>1. TopLevelOf(query.loop)' = TopLevelOf(q.loop)
    BY <1>2 DEF TopLevelOf, IsAncestor
  <2>2. Nest(topL)' = Nest(topL')
    BY <1>2 DEF Nest, IsAncestor
  <2> QED BY <1>2, <2>1, <2>2
<1>6. Held'
  BY <1>2, <1>4, <1>5 DEF Held
<1>7. TrackerTyped'
  BY <1>1, <1>2 DEF TrackerInv, TrackerTyped, Nest
<1> QED BY <1>2, <1>6, <1>7 DEF TrackerInv, AnswerCorrect

LEMMA BeginSearchStep ==
  ASSUME Recognition, TrackerInv, BeginSearch
  PROVE  TrackerInv'
<1>1. /\ tracker = "query" /\ tracker' = "search" /\ visited = {}
      /\ workList' = Indices(query) /\ Indices(query) \subseteq Inst
      /\ query.value \notin Iterators(query)
      /\ UNCHANGED <<function, pc, iterators, topL, infos, query, visited, answer>>
  BY QueryAnswer DEF BeginSearch, TrackerInv, vars
<1>2. \A i \in Indices(query) : ComputedFrom(Indices(query), i)
  BY DEF ComputedFrom
<1>3. Tracing'
  BY <1>1, <1>2, SameQuery DEF Tracing
<1>4. TrackerTyped'
  BY <1>1 DEF TrackerInv, TrackerTyped
<1>5. Held'
  BY <1>1, SameNest DEF TrackerInv, Held
<1> QED BY <1>1, <1>3, <1>4, <1>5 DEF TrackerInv, AnswerCorrect

LEMMA VisitIndexStep ==
  ASSUME Recognition, TrackerInv, Visit
  PROVE  TrackerInv'
<1>1. PICK i \in workList :
        /\ tracker = "search"
        /\ visited' = visited \cup {i}
        /\ UNCHANGED <<function, pc, iterators, topL, infos, query>>
        /\ \/ /\ i \in visited
              /\ workList' = workList \ {i} /\ UNCHANGED <<tracker, answer>>
           \/ /\ i \notin visited /\ IsIterator(i, query.loop, query.subLoops)
              /\ answer' = "Variant" /\ tracker' = "idle" /\ UNCHANGED workList
           \/ /\ i \notin visited /\ ~IsIterator(i, query.loop, query.subLoops)
              /\ workList' = (workList \ {i}) \cup Operands(i)
              /\ UNCHANGED <<tracker, answer>>
  BY DEF Visit, vars
<1>2. /\ Tracing /\ i \in Inst /\ visited \subseteq Inst /\ workList \subseteq Inst
      /\ Operands(i) \subseteq Inst
      /\ IsIterator(i, query.loop, query.subLoops) <=> i \in Iterators(query)
      /\ ComputedFrom(Indices(query), i)
  BY <1>1, KnowsIterators DEF TrackerInv, TrackerTyped, Tracing, Operands
<1>3. CASE i \in visited
  <2>1. /\ visited' = visited /\ workList' = workList \ {i}
        /\ UNCHANGED <<tracker, answer>>
    BY <1>1, <1>3
  <2>2. Tracing'
    BY <1>1, <1>2, <1>3, <2>1, SameQuery DEF Tracing
  <2>3. TrackerTyped'
    BY <1>1, <1>2, <2>1 DEF TrackerInv, TrackerTyped
  <2>4. Held'
    BY <1>1, <2>1, SameNest DEF TrackerInv, Held
  <2> QED BY <1>1, <2>1, <2>2, <2>3, <2>4 DEF TrackerInv, AnswerCorrect
<1>4. CASE i \notin visited /\ i \in Iterators(query)
  <2>1. answer' = "Variant" /\ tracker' = "idle" /\ workList' = workList
    BY <1>1, <1>2, <1>4
  <2>2. Varies(query)
    BY <1>2, <1>4 DEF Varies, Tracing
  <2> QED BY <1>1, <1>2, <2>1, <2>2, Returns DEF Correct
<1>5. CASE i \notin visited /\ i \notin Iterators(query)
  <2>1. /\ workList' = (workList \ {i}) \cup Operands(i)
        /\ UNCHANGED <<tracker, answer>>
    BY <1>1, <1>2, <1>5
  <2>2. \A j \in Operands(i) : ComputedFrom(Indices(query), j)
    BY <1>2, ComputedOperands
  <2>3. Tracing'
    BY <1>1, <1>2, <1>5, <2>1, <2>2, SameQuery DEF Tracing
  <2>4. TrackerTyped'
    BY <1>1, <1>2, <2>1 DEF TrackerInv, TrackerTyped
  <2>5. Held'
    BY <1>1, <2>1, SameNest DEF TrackerInv, Held
  <2> QED BY <1>1, <2>1, <2>3, <2>4, <2>5 DEF TrackerInv, AnswerCorrect
<1> QED BY <1>3, <1>4, <1>5

\* A step of recognition: there has been no query yet.
LEMMA RecognitionStep ==
  ASSUME Recognition, TrackerInv, Next, UNCHANGED trackerVars
  PROVE  TrackerInv'
<1>1. pc # "done" /\ function' = function
  BY DEF Next, Condense, ComputeEdges, MapCondensationToLoops, RecognizeIterator,
         UpdateStatistics
<1>2. UNCHANGED <<topL, infos, tracker, query, workList, visited, answer>>
  BY DEF trackerVars
<1>3. tracker = "idle" /\ answer = "Unknown"
  BY <1>1 DEF TrackerInv, TrackerTyped
<1>4. TrackerTyped'
  BY <1>2, <1>3 DEF TrackerInv, TrackerTyped
<1>5. Held'
  BY <1>1, <1>2, SameNest DEF TrackerInv, Held
<1> QED BY <1>2, <1>3, <1>4, <1>5 DEF TrackerInv, AnswerCorrect

LEMMA TrackerStep ==
  Recognition /\ TrackerInv /\ [TrackerNext]_<<vars, trackerVars>> => TrackerInv'
<1> SUFFICES ASSUME Recognition, TrackerInv, [TrackerNext]_<<vars, trackerVars>>
             PROVE  TrackerInv'
  OBVIOUS
<1>1. CASE Next /\ UNCHANGED trackerVars
  BY <1>1, RecognitionStep
<1>2. ASSUME NEW q \in Query, Ask(q) PROVE TrackerInv'
  BY <1>2, AskStep
<1>3. CASE AnswerIterator \/ AnswerUnused \/ SearchEnded
  <2>1. Correct("Invariant")
    BY <1>3, AnswersIterator, AnswersUnused, AnswersEnded
  <2>2. /\ tracker # "idle" /\ tracker' = "idle" /\ answer' = "Invariant"
        /\ UNCHANGED <<function, pc, iterators, topL, infos, query, workList, visited>>
    BY <1>3 DEF AnswerIterator, AnswerUnused, SearchEnded, vars
  <2>3. workList \subseteq Inst /\ visited \subseteq Inst
    BY DEF TrackerInv, TrackerTyped
  <2> QED BY <2>1, <2>2, <2>3, Returns
<1>4. CASE BeginSearch
  BY <1>4, BeginSearchStep
<1>5. CASE Visit
  BY <1>5, VisitIndexStep
<1>6. CASE UNCHANGED <<vars, trackerVars>>
  <2>1. UNCHANGED <<function, pc, iterators, topL, infos, tracker, query, workList,
                    visited, answer>>
    BY <1>6 DEF vars, trackerVars
  <2>2. TrackerTyped' /\ AnswerCorrect'
    BY <2>1, SameQuery DEF TrackerInv, TrackerTyped, AnswerCorrect
  <2>3. Held'
    BY <2>1, SameNest DEF TrackerInv, Held
  <2>4. Tracing => Tracing'
    BY <2>1, SameQuery DEF Tracing
  <2> QED BY <2>1, <2>2, <2>3, <2>4 DEF TrackerInv
<1> QED BY <1>1, <1>2, <1>3, <1>4, <1>5, <1>6 DEF TrackerNext, Step

LEMMA TrackerInvariance == TrackerSpec => []TrackerInv
BY TrackerStarts, TrackerStep, RecognitionHolds, PTL DEF TrackerSpec

\* The variables of the tracker keep their types, and there is no query before
\* the iterators are recognised.
THEOREM TrackerTypeCorrect == TrackerSpec => []TrackerTypeOK
<1>1. Recognition /\ TrackerInv => TrackerTypeOK
  BY DEF Recognition, TrackerInv, TrackerTyped, TrackerTypeOK
<1> QED BY <1>1, RecognitionHolds, TrackerInvariance, PTL

\* However many queries came before and whatever nests they were about, a
\* disposition query is answered as if it were the first: Variant just when an
\* index of an access in the payload is computed from a recognised iterator.
THEOREM Answers == TrackerSpec => []AnswerCorrect
<1>1. TrackerInv => AnswerCorrect
  BY DEF TrackerInv
<1> QED BY <1>1, TrackerInvariance, PTL

\* A step of a query visits an instruction it has not visited, or only takes one
\* from the worklist, unless it begins or ends the search; the query and the
\* iterators it is about stay the same.
QueryDescends ==
  tracker # "idle" =>
    /\ UNCHANGED <<query, iterators>>
    /\ \/ tracker' = "idle"
       \/ tracker = "query" /\ tracker' = "search"
       \/ /\ tracker = "search" /\ tracker' = "search"
          /\ \/ visited \subseteq visited' /\ visited' # visited
             \/ /\ visited' = visited
                /\ workList' \subseteq workList /\ workList' # workList

\* No query goes on for ever, whatever the cycles the indices are computed in:
\* the function has finitely many instructions and none is visited twice.
THEOREM QueriesEnd == TrackerSpec => [][QueryDescends]_<<vars, trackerVars>>
<1>1. /\ TrackerTypeOK
      /\ [TrackerNext]_<<vars, trackerVars>>
      => [QueryDescends]_<<vars, trackerVars>>
  <2> SUFFICES ASSUME TrackerTypeOK, TrackerNext PROVE QueryDescends
    OBVIOUS
  <2>1. CASE Next /\ UNCHANGED trackerVars
    <3>1. pc # "done"
      BY <2>1 DEF Next, Condense, ComputeEdges, MapCondensationToLoops,
                  RecognizeIterator, UpdateStatistics
    <3> QED BY <3>1 DEF TrackerTypeOK, QueryDescends
  <2>2. CASE \E q \in Query : Ask(q)
    BY <2>2 DEF Ask, QueryDescends
  <2>3. CASE AnswerIterator \/ AnswerUnused \/ BeginSearch \/ SearchEnded
    BY <2>3 DEF AnswerIterator, AnswerUnused, BeginSearch, SearchEnded,
                QueryDescends, vars
  <2>4. CASE Visit
    <3>1. PICK i \in workList :
            /\ tracker = "search" /\ visited' = visited \cup {i}
            /\ UNCHANGED <<query, iterators>>
            /\ i \in visited => workList' = workList \ {i} /\ tracker' = tracker
            /\ i \notin visited => tracker' \in {"search", "idle"}
      BY <2>4 DEF Visit, vars
    <3> QED BY <3>1 DEF QueryDescends
  <2> QED BY <2>1, <2>2, <2>3, <2>4 DEF TrackerNext, Step
<1> QED BY <1>1, TrackerTypeCorrect, PTL DEF TrackerSpec
=============================================================================
