--------------------- MODULE ShadowDependenceGraph_proofs ---------------------
(***************************************************************************)
(* For any dependence graph and any payload: which edges there are between *)
(* and within the iterations after each method of SDependenceGraph.        *)
(***************************************************************************)
EXTENDS ShadowDependenceGraph, TLAPS

\* What has been called when pc is the last method called.
EdgesComputed ==
  pc \in {"computeEdges", "computeNextIterationNodes", "computeNextIterationEdges",
          "computeCrossIterationEdges"}

NextNodesComputed ==
  pc \in {"computeNextIterationNodes", "computeNextIterationEdges",
          "computeCrossIterationEdges"}

NextEdgesComputed ==
  pc \in {"computeNextIterationEdges", "computeCrossIterationEdges"}

CrossEdgesComputed == pc = "computeCrossIterationEdges"

Payload == {u \in Unit : <<u, 0>> \in nodes}

\* The nodes of u in this iteration and in the next.
Now(u)   == <<u, 0>>
Later(u) == <<u, 1>>

\* The dependences within the payload.
Dependences(edges) == edges \cap (Payload \X Payload)

\* How often v occurs in a list of u, if the method that puts it there has been
\* called.
Times(called, edges, u, v) == IF called /\ <<u, v>> \in edges THEN 1 ELSE 0

\* What the lists have in them, where now, next and cross tell which of the
\* methods have been called.
Counts(out, in, edges, memory, now, next, cross) ==
  /\ out \in [Node \X Node -> Nat]
  /\ in \in [Node \X Node -> Nat]
  /\ \A u, v \in Unit :
       /\ out[<<Now(u), Now(v)>>] = Times(now, edges, u, v)
       /\ out[<<Later(u), Later(v)>>] = Times(next, edges, u, v)
       /\ out[<<Now(u), Later(v)>>] = Times(cross, memory, v, u)
       /\ out[<<Later(u), Now(v)>>] = 0
       /\ in[<<Now(u), Now(v)>>] = Times(now, edges, v, u)
       /\ in[<<Later(u), Later(v)>>] = 0
       /\ in[<<Now(u), Later(v)>>] = 0
       /\ in[<<Later(u), Now(v)>>] = Times(next, edges, v, u) + Times(cross, memory, u, v)

EdgeCounts ==
  Counts(outEdges, inEdges, Dependences(graph.edges), Dependences(graph.memory),
         EdgesComputed, NextEdgesComputed, CrossEdgesComputed)

Inv ==
  /\ WellFormed(graph)
  /\ pc \in {"new", "computeNodes"} \/ EdgesComputed
  /\ pc = "new" => Payload = {}
  /\ nodes = Payload \X (IF NextNodesComputed THEN {0, 1} ELSE {0})
  /\ EdgeCounts

-----------------------------------------------------------------------------

LEMMA CalledMethods ==
  ASSUME pc \in {"new", "computeNodes"} \/ EdgesComputed
  PROVE  /\ pc \in {Methods[a] : a \in DOMAIN Methods}
         /\ Called("computeEdges") <=> EdgesComputed
         /\ Called("computeNextIterationEdges") <=> NextEdgesComputed
         /\ Called("computeCrossIterationEdges") <=> CrossEdgesComputed
<1>1. DOMAIN Methods = 1..6
  BY DEF Methods
<1>2. /\ Methods[1] = "new" /\ Methods[2] = "computeNodes"
      /\ Methods[3] = "computeEdges" /\ Methods[4] = "computeNextIterationNodes"
      /\ Methods[5] = "computeNextIterationEdges"
      /\ Methods[6] = "computeCrossIterationEdges"
  BY DEF Methods
<1>3. pc \in {Methods[a] : a \in DOMAIN Methods}
  BY <1>1, <1>2 DEF EdgesComputed
<1>4. \A m : Called(m) <=> \E a, b \in 1..6 : a <= b /\ Methods[a] = m /\ Methods[b] = pc
  BY <1>1 DEF Called
<1>5. \A a \in 1..6 : a = 1 \/ a = 2 \/ a = 3 \/ a = 4 \/ a = 5 \/ a = 6
  OBVIOUS
<1>6. Called("computeEdges") <=> EdgesComputed
  BY <1>2, <1>4, <1>5 DEF EdgesComputed
<1>7. Called("computeNextIterationEdges") <=> NextEdgesComputed
  BY <1>2, <1>4, <1>5 DEF EdgesComputed, NextEdgesComputed
<1>8. Called("computeCrossIterationEdges") <=> CrossEdgesComputed
  BY <1>2, <1>4, <1>5 DEF EdgesComputed, CrossEdgesComputed
<1> QED BY <1>3, <1>6, <1>7, <1>8

LEMMA NodeForm ==
  /\ \A u \in Unit : Now(u) \in Node /\ Later(u) \in Node
  /\ \A n \in Node : \E u \in Unit : n = Now(u) \/ n = Later(u)
BY DEF Node, Now, Later

LEMMA NodeParts ==
  ASSUME NEW u, NEW v
  PROVE  /\ Now(u)[1] = u /\ Later(u)[1] = u /\ Now(u)[2] = 0 /\ Later(u)[2] = 1
         /\ Now(u) = Now(v) <=> u = v
         /\ Later(u) = Later(v) <=> u = v
         /\ Now(u) # Later(v)
         /\ Copy(Now(u)) = Later(u)
BY DEF Now, Later, Copy

LEMMA EqualPairs ==
  ASSUME NEW a, NEW b, NEW c, NEW d
  PROVE  <<a, b>> = <<c, d>> <=> a = c /\ b = d
OBVIOUS

LEMMA PushedPair ==
  ASSUME NEW edges \in [Node \X Node -> Nat], NEW pairs
  PROVE  /\ Pushed(edges, pairs) \in [Node \X Node -> Nat]
         /\ \A e \in Node \X Node :
              /\ e \in pairs => Pushed(edges, pairs)[e] = edges[e] + 1
              /\ e \notin pairs => Pushed(edges, pairs)[e] = edges[e]
BY DEF Pushed

LEMMA TurnedPair ==
  ASSUME NEW pairs \in SUBSET (Node \X Node), NEW a, NEW b
  PROVE  <<a, b>> \in Turned(pairs) <=> <<b, a>> \in pairs
<1>1. ASSUME NEW p \in pairs
      PROVE  p = <<p[1], p[2]>>
  OBVIOUS
<1> QED BY <1>1 DEF Turned

LEMMA CurrentForm ==
  ASSUME nodes \subseteq Node
  PROVE  /\ Current \subseteq Node
         /\ Payload \subseteq Unit
         /\ \A u : Now(u) \in Current <=> u \in Payload
         /\ \A u : Later(u) \notin Current
         /\ \A n \in Current : n = Now(n[1]) /\ n[1] \in Payload /\ Copy(n) = Later(n[1])
<1>1. ASSUME NEW n \in Current
      PROVE  n \in Node /\ n[1] \in Payload /\ n = Now(n[1]) /\ Copy(n) = Later(n[1])
  <2>1. n \in nodes /\ n[2] = 0 /\ n \in Unit \X {0, 1}
    BY DEF Current, Node
  <2>2. n = <<n[1], n[2]>> /\ n[1] \in Unit
    BY <2>1
  <2> QED BY <2>1, <2>2 DEF Payload, Node, Now, Later, Copy
<1>2. ASSUME NEW u \in Payload
      PROVE  u \in Unit /\ Now(u) \in Current
  <2>1. Now(u)[2] = 0
    BY NodeParts
  <2> QED BY <2>1 DEF Current, Payload, Now, Node
<1>3. ASSUME NEW u, Now(u) \in Current
      PROVE  u \in Payload
  BY <1>1, <1>3, NodeParts
<1>4. ASSUME NEW u
      PROVE  Later(u) \notin Current
  BY NodeParts DEF Current
<1> QED BY <1>1, <1>2, <1>3, <1>4

LEMMA CopyOfCurrent ==
  ASSUME nodes \subseteq Node, NEW c \in Current, NEW u
  PROVE  /\ Copy(c) = Later(u) <=> c = Now(u)
         /\ Copy(c) # Now(u)
<1>1. c = Now(c[1]) /\ Copy(c) = Later(c[1])
  BY CurrentForm
<1> QED BY <1>1, NodeParts

\* The pairs that each method pushes.
LEMMA PairsForm ==
  ASSUME nodes \subseteq Node, NEW edges, NEW a, NEW b
  PROVE  <<a, b>> \in Pairs(edges)
           <=> a \in Current /\ b \in Current /\ <<a[1], b[1]>> \in edges
BY DEF Pairs

LEMMA PairsPushed ==
  ASSUME nodes \subseteq Node, NEW edges
  PROVE  /\ Pairs(edges) \in SUBSET (Node \X Node)
         /\ \A u, v :
              /\ <<Now(u), Now(v)>> \in Pairs(edges) <=> <<u, v>> \in Dependences(edges)
              /\ <<Now(u), Later(v)>> \notin Pairs(edges)
              /\ <<Later(u), Now(v)>> \notin Pairs(edges)
              /\ <<Later(u), Later(v)>> \notin Pairs(edges)
<1>1. Pairs(edges) \in SUBSET (Node \X Node)
  BY CurrentForm DEF Pairs
<1>2. ASSUME NEW u, NEW v
      PROVE  /\ <<Now(u), Now(v)>> \in Pairs(edges) <=> <<u, v>> \in Dependences(edges)
             /\ <<Now(u), Later(v)>> \notin Pairs(edges)
             /\ <<Later(u), Now(v)>> \notin Pairs(edges)
             /\ <<Later(u), Later(v)>> \notin Pairs(edges)
  <2>1. <<Now(u), Now(v)>> \in Pairs(edges) <=> <<u, v>> \in Dependences(edges)
    <3>1. Now(u)[1] = u /\ Now(v)[1] = v
      BY NodeParts
    <3> QED BY <3>1, PairsForm, CurrentForm DEF Dependences
  <2>2. <<Now(u), Later(v)>> \notin Pairs(edges)
    BY PairsForm, CurrentForm
  <2>3. <<Later(u), Now(v)>> \notin Pairs(edges)
    BY PairsForm, CurrentForm
  <2>4. <<Later(u), Later(v)>> \notin Pairs(edges)
    BY PairsForm, CurrentForm
  <2> QED BY <2>1, <2>2, <2>3, <2>4
<1> QED BY <1>1, <1>2

LEMMA CrossingPushed ==
  ASSUME nodes \subseteq Node
  PROVE  /\ Crossing \in SUBSET (Node \X Node)
         /\ \A u, v :
              /\ <<Now(u), Later(v)>> \in Crossing <=> <<v, u>> \in Dependences(graph.memory)
              /\ <<Now(u), Now(v)>> \notin Crossing
              /\ <<Later(u), Now(v)>> \notin Crossing
              /\ <<Later(u), Later(v)>> \notin Crossing
<1>1. ASSUME NEW p \in Pairs(graph.memory)
      PROVE  p = <<p[1], p[2]>> /\ p[1] \in Current /\ p[2] \in Current
  BY DEF Pairs
<1>2. ASSUME NEW p \in Pairs(graph.memory)
      PROVE  <<p[2], Copy(p[1])>> \in Node \X Node
  <2>1. p[1][1] \in Unit /\ p[2] \in Node /\ Copy(p[1]) = Later(p[1][1])
    BY <1>1, CurrentForm
  <2> QED BY <2>1, NodeForm
<1>3. ASSUME NEW a, NEW b, <<a, b>> \in Crossing
      PROVE  \E c \in Current : a \in Current /\ b = Copy(c) /\ <<c, a>> \in Pairs(graph.memory)
  <2>1. PICK p \in Pairs(graph.memory) : <<a, b>> = <<p[2], Copy(p[1])>>
    BY <1>3 DEF Crossing
  <2>2. a = p[2] /\ b = Copy(p[1])
    BY <2>1, EqualPairs
  <2> QED BY <1>1, <2>2
<1>4. ASSUME NEW u, NEW v
      PROVE  /\ <<Now(u), Later(v)>> \in Crossing <=> <<v, u>> \in Dependences(graph.memory)
             /\ <<Now(u), Now(v)>> \notin Crossing
             /\ <<Later(u), Now(v)>> \notin Crossing
             /\ <<Later(u), Later(v)>> \notin Crossing
  <2>1. ASSUME <<Now(u), Later(v)>> \in Crossing
        PROVE  <<v, u>> \in Dependences(graph.memory)
    <3>1. PICK c \in Current : Later(v) = Copy(c) /\ <<c, Now(u)>> \in Pairs(graph.memory)
      BY <1>3, <2>1
    <3>2. c = Now(v)
      BY <3>1, CopyOfCurrent
    <3> QED BY <3>1, <3>2, PairsPushed
  <2>2. ASSUME <<v, u>> \in Dependences(graph.memory)
        PROVE  <<Now(u), Later(v)>> \in Crossing
    <3> DEFINE p == <<Now(v), Now(u)>>
    <3>1. p \in Pairs(graph.memory)
      BY <2>2, PairsPushed
    <3>2. p[1] = Now(v) /\ p[2] = Now(u)
      OBVIOUS
    <3>3. <<Now(u), Later(v)>> = <<p[2], Copy(p[1])>>
      BY <3>2, NodeParts
    <3> QED BY <3>1, <3>3 DEF Crossing
  <2>3. ASSUME NEW a, <<a, Now(v)>> \in Crossing
        PROVE  FALSE
    <3>1. PICK c \in Current : Now(v) = Copy(c)
      BY <1>3, <2>3
    <3> QED BY <3>1, CopyOfCurrent
  <2>4. <<Later(u), Later(v)>> \notin Crossing
    BY <1>3, CurrentForm
  <2> QED BY <2>1, <2>2, <2>3, <2>4
<1>5. Crossing \in SUBSET (Node \X Node)
  BY <1>2 DEF Crossing
<1> QED BY <1>4, <1>5

LEMMA CopiedForm ==
  ASSUME nodes \subseteq Node,
         \A x, y \in Payload : outEdges[<<Now(x), Now(y)>>] > 0 <=> <<x, y>> \in graph.edges
  PROVE  /\ Copied \subseteq Current \X Current
         /\ \A u, v : <<Now(u), Now(v)>> \in Copied <=> <<u, v>> \in Dependences(graph.edges)
<1>1. ASSUME NEW u, NEW v
      PROVE  <<Now(u), Now(v)>> \in Copied <=> <<u, v>> \in Dependences(graph.edges)
  <2>1. <<Now(u), Now(v)>> \in Copied
          <=> /\ Now(u) \in Current /\ Now(v) \in Current
              /\ outEdges[<<Now(u), Now(v)>>] > 0
    BY DEF Copied
  <2> QED BY <2>1, CurrentForm DEF Dependences
<1> QED BY <1>1 DEF Copied

\* The pairs of copies, and those of a copy and the original.
Within == {<<Copy(p[1]), Copy(p[2])>> : p \in Copied}
Back   == {<<Copy(p[2]), p[1]>> : p \in Copied}

LEMMA WithinPushed ==
  ASSUME nodes \subseteq Node,
         \A x, y \in Payload : outEdges[<<Now(x), Now(y)>>] > 0 <=> <<x, y>> \in graph.edges,
         NEW u, NEW v
  PROVE  /\ <<Later(u), Later(v)>> \in Within <=> <<u, v>> \in Dependences(graph.edges)
         /\ <<Now(u), Now(v)>> \notin Within
         /\ <<Now(u), Later(v)>> \notin Within
         /\ <<Later(u), Now(v)>> \notin Within
<1>1. ASSUME NEW a, NEW b, <<a, b>> \in Within
      PROVE  \E c, d \in Current : a = Copy(c) /\ b = Copy(d) /\ <<c, d>> \in Copied
  <2>1. PICK p \in Copied : <<a, b>> = <<Copy(p[1]), Copy(p[2])>>
    BY <1>1 DEF Within
  <2>2. a = Copy(p[1]) /\ b = Copy(p[2])
    BY <2>1, EqualPairs
  <2>3. p = <<p[1], p[2]>> /\ p[1] \in Current /\ p[2] \in Current
    BY <2>1, CopiedForm
  <2> QED BY <2>2, <2>3
<1>2. ASSUME <<Later(u), Later(v)>> \in Within
      PROVE  <<u, v>> \in Dependences(graph.edges)
  <2>1. PICK c, d \in Current : /\ Later(u) = Copy(c) /\ Later(v) = Copy(d)
                                /\ <<c, d>> \in Copied
    BY <1>1, <1>2
  <2>2. c = Now(u) /\ d = Now(v)
    BY <2>1, CopyOfCurrent
  <2> QED BY <2>1, <2>2, CopiedForm
<1>3. ASSUME <<u, v>> \in Dependences(graph.edges)
      PROVE  <<Later(u), Later(v)>> \in Within
  <2> DEFINE p == <<Now(u), Now(v)>>
  <2>1. p \in Copied
    BY <1>3, CopiedForm
  <2>2. <<Later(u), Later(v)>> = <<Copy(p[1]), Copy(p[2])>>
    BY NodeParts
  <2> QED BY <2>1, <2>2 DEF Within
<1>4. ASSUME NEW a, <<a, Now(v)>> \in Within
      PROVE  FALSE
  <2>1. PICK c, d \in Current : a = Copy(c) /\ Now(v) = Copy(d) /\ <<c, d>> \in Copied
    BY <1>1, <1>4, Zenon
  <2> QED BY <2>1, CopyOfCurrent
<1>5. ASSUME <<Now(u), Later(v)>> \in Within
      PROVE  FALSE
  <2>1. PICK c \in Current : Now(u) = Copy(c)
    BY <1>1, <1>5
  <2> QED BY <2>1, CopyOfCurrent
<1> QED BY <1>2, <1>3, <1>4, <1>5

LEMMA BackPushed ==
  ASSUME nodes \subseteq Node,
         \A x, y \in Payload : outEdges[<<Now(x), Now(y)>>] > 0 <=> <<x, y>> \in graph.edges,
         NEW u, NEW v
  PROVE  /\ <<Later(u), Now(v)>> \in Back <=> <<v, u>> \in Dependences(graph.edges)
         /\ <<Now(u), Now(v)>> \notin Back
         /\ <<Now(u), Later(v)>> \notin Back
         /\ <<Later(u), Later(v)>> \notin Back
<1>1. ASSUME NEW a, NEW b, <<a, b>> \in Back
      PROVE  \E c, d \in Current : a = Copy(d) /\ b = c /\ <<c, d>> \in Copied
  <2>1. PICK p \in Copied : <<a, b>> = <<Copy(p[2]), p[1]>>
    BY <1>1 DEF Back
  <2>2. a = Copy(p[2]) /\ b = p[1]
    BY <2>1, EqualPairs
  <2>3. p = <<p[1], p[2]>> /\ p[1] \in Current /\ p[2] \in Current
    BY <2>1, CopiedForm
  <2> QED BY <2>2, <2>3
<1>2. ASSUME <<Later(u), Now(v)>> \in Back
      PROVE  <<v, u>> \in Dependences(graph.edges)
  <2>1. PICK c, d \in Current : Later(u) = Copy(d) /\ Now(v) = c /\ <<c, d>> \in Copied
    BY <1>1, <1>2
  <2>2. d = Now(u)
    BY <2>1, CopyOfCurrent
  <2> QED BY <2>1, <2>2, CopiedForm
<1>3. ASSUME <<v, u>> \in Dependences(graph.edges)
      PROVE  <<Later(u), Now(v)>> \in Back
  <2> DEFINE p == <<Now(v), Now(u)>>
  <2>1. p \in Copied
    BY <1>3, CopiedForm
  <2>2. <<Later(u), Now(v)>> = <<Copy(p[2]), p[1]>>
    BY NodeParts
  <2> QED BY <2>1, <2>2 DEF Back
<1>4. ASSUME NEW b, <<Now(u), b>> \in Back
      PROVE  FALSE
  <2>1. PICK d \in Current : Now(u) = Copy(d)
    BY <1>1, <1>4
  <2> QED BY <2>1, CopyOfCurrent
<1>5. ASSUME <<Later(u), Later(v)>> \in Back
      PROVE  FALSE
  <2>1. PICK c, d \in Current : /\ Later(u) = Copy(d) /\ Later(v) = c
                                /\ <<c, d>> \in Copied
    BY <1>1, <1>5, Zenon
  <2> QED BY <2>1, CurrentForm
<1> QED BY <1>2, <1>3, <1>4, <1>5

-----------------------------------------------------------------------------
(* The invariant holds.                                                     *)

LEMMA NodesOfPayload ==
  ASSUME Inv
  PROVE  nodes \subseteq Node
BY DEF Inv, Payload, Node

\* Before there are edges the lists are empty.
NoEdges ==
  /\ outEdges \in [Node \X Node -> Nat]
  /\ inEdges \in [Node \X Node -> Nat]
  /\ \A e \in Node \X Node : outEdges[e] = 0 /\ inEdges[e] = 0

LEMMA PairOfNodes ==
  /\ \A u, v \in Unit : /\ <<Now(u), Now(v)>> \in Node \X Node
                        /\ <<Now(u), Later(v)>> \in Node \X Node
                        /\ <<Later(u), Now(v)>> \in Node \X Node
                        /\ <<Later(u), Later(v)>> \in Node \X Node
  /\ \A e \in Node \X Node : \E u, v \in Unit :
       \/ e = <<Now(u), Now(v)>> \/ e = <<Now(u), Later(v)>>
       \/ e = <<Later(u), Now(v)>> \/ e = <<Later(u), Later(v)>>
<1>1. ASSUME NEW e \in Node \X Node
      PROVE  \E u, v \in Unit :
               \/ e = <<Now(u), Now(v)>> \/ e = <<Now(u), Later(v)>>
               \/ e = <<Later(u), Now(v)>> \/ e = <<Later(u), Later(v)>>
  <2>1. e = <<e[1], e[2]>> /\ e[1] \in Node /\ e[2] \in Node
    OBVIOUS
  <2>2. PICK u \in Unit : e[1] = Now(u) \/ e[1] = Later(u)
    BY <2>1, NodeForm
  <2>3. PICK v \in Unit : e[2] = Now(v) \/ e[2] = Later(v)
    BY <2>1, NodeForm
  <2> QED BY <2>1, <2>2, <2>3
<1> QED BY <1>1, NodeForm

LEMMA NoEdgesYet ==
  ASSUME ~EdgesComputed
  PROVE  EdgeCounts <=> NoEdges
<1>1. ~NextEdgesComputed /\ ~CrossEdgesComputed
  BY DEF EdgesComputed, NextEdgesComputed, CrossEdgesComputed
<1>2. ASSUME EdgeCounts
      PROVE  NoEdges
  <2>1. ASSUME NEW e \in Node \X Node
        PROVE  outEdges[e] = 0 /\ inEdges[e] = 0
    <3>1. PICK u, v \in Unit :
            \/ e = <<Now(u), Now(v)>> \/ e = <<Now(u), Later(v)>>
            \/ e = <<Later(u), Now(v)>> \/ e = <<Later(u), Later(v)>>
      BY PairOfNodes
    <3>2. /\ outEdges[<<Now(u), Now(v)>>] = 0 /\ outEdges[<<Later(u), Later(v)>>] = 0
          /\ outEdges[<<Now(u), Later(v)>>] = 0 /\ outEdges[<<Later(u), Now(v)>>] = 0
      BY <1>1, <1>2 DEF EdgeCounts, Counts, Times
    <3>3. /\ inEdges[<<Now(u), Now(v)>>] = 0 /\ inEdges[<<Later(u), Later(v)>>] = 0
          /\ inEdges[<<Now(u), Later(v)>>] = 0 /\ inEdges[<<Later(u), Now(v)>>] = 0
      BY <1>1, <1>2 DEF EdgeCounts, Counts, Times
    <3> QED BY <3>1, <3>2, <3>3
  <2> QED BY <1>2, <2>1 DEF EdgeCounts, Counts, NoEdges
<1>3. ASSUME NoEdges
      PROVE  EdgeCounts
  BY <1>1, <1>3, PairOfNodes DEF EdgeCounts, Counts, Times, NoEdges
<1> QED BY <1>2, <1>3

LEMMA InitInv == ASSUME Init PROVE Inv
<1>1. ~EdgesComputed /\ ~NextNodesComputed
  BY DEF Init, EdgesComputed, NextNodesComputed
<1>2. NoEdges
  BY DEF Init, NoEdges
<1>3. Payload = {} /\ nodes = {}
  BY DEF Init, Payload
<1>4. WellFormed(graph)
  BY ShadowAssumption DEF Init
<1> QED BY <1>1, <1>2, <1>3, <1>4, NoEdgesYet DEF Init, Inv

LEMMA NodesInv ==
  ASSUME Inv, ComputeNodes
  PROVE  Inv'
<1>1. ~EdgesComputed /\ ~EdgesComputed' /\ ~NextNodesComputed /\ ~NextNodesComputed'
      /\ pc' = "computeNodes" /\ UNCHANGED <<graph, outEdges, inEdges>>
  BY DEF ComputeNodes, EdgesComputed, NextNodesComputed
<1>2. NoEdges
  BY <1>1, NoEdgesYet DEF Inv
<1>3. NoEdges'
  BY <1>1, <1>2 DEF NoEdges
<1>4. EdgeCounts'
  <2>1. (~EdgesComputed => (EdgeCounts <=> NoEdges))'
    BY NoEdgesYet, PTL
  <2> QED BY <1>1, <1>3, <2>1
<1>5. nodes' = Payload' \X {0}
  BY DEF ComputeNodes, Payload, Inv, WellFormed
<1> QED BY <1>1, <1>4, <1>5 DEF Inv

LEMMA NextNodesInv ==
  ASSUME Inv, ComputeNextIterationNodes
  PROVE  Inv'
<1>1. /\ pc = "computeEdges" /\ pc' = "computeNextIterationNodes"
      /\ nodes' = nodes \cup {Copy(n) : n \in nodes}
      /\ UNCHANGED <<graph, outEdges, inEdges>>
  BY DEF ComputeNextIterationNodes
<1>2. nodes = Payload \X {0}
  BY <1>1 DEF Inv, NextNodesComputed
<1>3. nodes' = Payload \X {0, 1}
  <2>1. \A n : n \in nodes' <=> n \in nodes \/ \E m \in nodes : n = <<m[1], 1>>
    BY <1>1 DEF Copy
  <2>2. ASSUME NEW u \in Payload
        PROVE  <<u, 0>> \in nodes /\ <<u, 1>> \in nodes'
    <3>1. <<u, 0>> \in nodes /\ <<u, 0>>[1] = u
      BY <1>2
    <3> QED BY <2>1, <3>1
  <2>3. \A n \in nodes' : n \in Payload \X {0, 1}
    BY <1>2, <2>1
  <2>4. ASSUME NEW n \in Payload \X {0, 1}
        PROVE  n \in nodes'
    <3>1. n[1] \in Payload /\ (n = <<n[1], 0>> \/ n = <<n[1], 1>>)
      OBVIOUS
    <3> QED BY <2>1, <2>2, <3>1
  <2> QED BY <2>3, <2>4
<1>4. Payload' = Payload
  BY <1>3 DEF Payload
<1>5. EdgeCounts'
  <2>1. /\ Dependences(graph.edges)' = Dependences(graph.edges)
        /\ Dependences(graph.memory)' = Dependences(graph.memory)
    BY <1>1, <1>4 DEF Dependences
  <2>2. /\ EdgesComputed' = EdgesComputed /\ NextEdgesComputed' = NextEdgesComputed
        /\ CrossEdgesComputed' = CrossEdgesComputed
    BY <1>1 DEF EdgesComputed, NextEdgesComputed, CrossEdgesComputed
  <2> QED BY <1>1, <2>1, <2>2 DEF Inv, EdgeCounts
<1> QED BY <1>1, <1>3, <1>4, <1>5 DEF Inv, EdgesComputed, NextNodesComputed

\* One list of counts after pairs are pushed.
LEMMA CountPushed ==
  ASSUME NEW edges \in [Node \X Node -> Nat], NEW pairs, NEW e \in Node \X Node
  PROVE  Pushed(edges, pairs)[e] = IF e \in pairs THEN edges[e] + 1 ELSE edges[e]
BY DEF Pushed

LEMMA SameDependences ==
  ASSUME UNCHANGED <<graph, nodes>>
  PROVE  /\ Payload' = Payload
         /\ Dependences(graph.edges)' = Dependences(graph.edges)
         /\ Dependences(graph.memory)' = Dependences(graph.memory)
BY DEF Dependences, Payload

LEMMA EdgesInv ==
  ASSUME Inv, ComputeEdges
  PROVE  Inv'
<1> DEFINE out == Pairs(graph.edges)
           in  == Turned(Pairs(graph.edges))
           edges == Dependences(graph.edges)
           memory == Dependences(graph.memory)
<1>1. /\ pc = "computeNodes" /\ pc' = "computeEdges"
      /\ UNCHANGED <<graph, nodes>>
      /\ outEdges' = Pushed(outEdges, out)
      /\ inEdges' = Pushed(inEdges, in)
  BY DEF ComputeEdges
<1>2. /\ ~EdgesComputed /\ ~NextNodesComputed
      /\ ~NextNodesComputed' /\ EdgesComputed' = TRUE
      /\ NextEdgesComputed' = FALSE /\ CrossEdgesComputed' = FALSE
  BY <1>1 DEF EdgesComputed, NextNodesComputed, NextEdgesComputed, CrossEdgesComputed
<1>3. NoEdges
  BY <1>2, NoEdgesYet DEF Inv
<1>4. Counts(outEdges', inEdges', edges, memory, TRUE, FALSE, FALSE)
  <2>1. outEdges' \in [Node \X Node -> Nat] /\ inEdges' \in [Node \X Node -> Nat]
    BY <1>1, <1>3, PushedPair DEF NoEdges
  <2>2. ASSUME NEW e \in Node \X Node
        PROVE  /\ outEdges'[e] = IF e \in out THEN 1 ELSE 0
               /\ inEdges'[e] = IF e \in in THEN 1 ELSE 0
    <3> HIDE DEF out, in
    <3>1. /\ outEdges'[e] = IF e \in out THEN outEdges[e] + 1 ELSE outEdges[e]
          /\ inEdges'[e] = IF e \in in THEN inEdges[e] + 1 ELSE inEdges[e]
      BY <1>1, <1>3, CountPushed DEF NoEdges
    <3> QED BY <1>3, <3>1 DEF NoEdges
  <2>3. ASSUME NEW x, NEW y
        PROVE  /\ <<Now(x), Now(y)>> \in out <=> <<x, y>> \in edges
               /\ <<Now(x), Later(y)>> \notin out
               /\ <<Later(x), Now(y)>> \notin out
               /\ <<Later(x), Later(y)>> \notin out
    BY NodesOfPayload, PairsPushed
  <2>4. ASSUME NEW x, NEW y
        PROVE  /\ <<Now(x), Now(y)>> \in in <=> <<y, x>> \in edges
               /\ <<Now(x), Later(y)>> \notin in
               /\ <<Later(x), Now(y)>> \notin in
               /\ <<Later(x), Later(y)>> \notin in
    <3>1. \A a, b : <<a, b>> \in in <=> <<b, a>> \in out
      BY NodesOfPayload, PairsPushed, TurnedPair
    <3> QED BY <2>3, <3>1
  <2> HIDE DEF out, in, edges, memory
  <2>5. ASSUME NEW u \in Unit, NEW v \in Unit
        PROVE  /\ outEdges'[<<Now(u), Now(v)>>] = Times(TRUE, edges, u, v)
               /\ outEdges'[<<Later(u), Later(v)>>] = 0
               /\ outEdges'[<<Now(u), Later(v)>>] = 0
               /\ outEdges'[<<Later(u), Now(v)>>] = 0
    BY <2>2, <2>3, PairOfNodes DEF Times
  <2>6. ASSUME NEW u \in Unit, NEW v \in Unit
        PROVE  /\ inEdges'[<<Now(u), Now(v)>>] = Times(TRUE, edges, v, u)
               /\ inEdges'[<<Later(u), Later(v)>>] = 0
               /\ inEdges'[<<Now(u), Later(v)>>] = 0
               /\ inEdges'[<<Later(u), Now(v)>>] = 0
    BY <2>2, <2>4, PairOfNodes DEF Times
  <2>7. ASSUME NEW u, NEW v
        PROVE  /\ Times(FALSE, edges, u, v) = 0 /\ Times(FALSE, memory, u, v) = 0
               /\ Times(FALSE, edges, u, v) + Times(FALSE, memory, u, v) = 0
    BY DEF Times
  <2> QED BY <2>1, <2>5, <2>6, <2>7 DEF Counts
<1>5. EdgeCounts'
  BY <1>1, <1>2, <1>4, SameDependences DEF EdgeCounts
<1> QED BY <1>1, <1>2, <1>5, SameDependences DEF Inv

LEMMA NextEdgesInv ==
  ASSUME Inv, ComputeNextIterationEdges
  PROVE  Inv'
<1> DEFINE edges == Dependences(graph.edges)
           memory == Dependences(graph.memory)
<1>1. /\ pc = "computeNextIterationNodes" /\ pc' = "computeNextIterationEdges"
      /\ UNCHANGED <<graph, nodes>>
      /\ outEdges' = Pushed(outEdges, Within)
      /\ inEdges' = Pushed(inEdges, Back)
  BY DEF ComputeNextIterationEdges, Within, Back
<1>2. /\ EdgesComputed = TRUE /\ NextEdgesComputed = FALSE /\ CrossEdgesComputed = FALSE
      /\ EdgesComputed' = TRUE /\ NextEdgesComputed' = TRUE /\ CrossEdgesComputed' = FALSE
      /\ NextNodesComputed = TRUE /\ NextNodesComputed' = TRUE
  BY <1>1 DEF EdgesComputed, NextNodesComputed, NextEdgesComputed, CrossEdgesComputed
<1>3. Counts(outEdges, inEdges, edges, memory, TRUE, FALSE, FALSE)
  BY <1>2 DEF Inv, EdgeCounts
<1>4. \A x, y \in Payload : outEdges[<<Now(x), Now(y)>>] > 0 <=> <<x, y>> \in graph.edges
  <2>1. ASSUME NEW x \in Payload, NEW y \in Payload
        PROVE  outEdges[<<Now(x), Now(y)>>] = Times(TRUE, edges, x, y)
    <3> HIDE DEF edges, memory
    <3>1. x \in Unit /\ y \in Unit
      BY DEF Payload
    <3> QED BY <1>3, <3>1 DEF Counts
  <2>2. ASSUME NEW x \in Payload, NEW y \in Payload
        PROVE  <<x, y>> \in edges <=> <<x, y>> \in graph.edges
    BY DEF Dependences
  <2>3. ASSUME NEW x, NEW y
        PROVE  Times(TRUE, edges, x, y) > 0 <=> <<x, y>> \in edges
    <3> HIDE DEF edges
    <3> QED BY DEF Times
  <2> QED BY <2>1, <2>2, <2>3
<1>5. Counts(outEdges', inEdges', edges, memory, TRUE, TRUE, FALSE)
  <2>1. /\ outEdges \in [Node \X Node -> Nat] /\ inEdges \in [Node \X Node -> Nat]
        /\ outEdges' \in [Node \X Node -> Nat] /\ inEdges' \in [Node \X Node -> Nat]
    BY <1>1, <1>3, PushedPair DEF Counts
  <2>2. ASSUME NEW e \in Node \X Node
        PROVE  /\ outEdges'[e] = IF e \in Within THEN outEdges[e] + 1 ELSE outEdges[e]
               /\ inEdges'[e] = IF e \in Back THEN inEdges[e] + 1 ELSE inEdges[e]
    <3>1. Pushed(outEdges, Within)[e] = IF e \in Within THEN outEdges[e] + 1 ELSE outEdges[e]
      BY DEF Pushed
    <3>2. Pushed(inEdges, Back)[e] = IF e \in Back THEN inEdges[e] + 1 ELSE inEdges[e]
      BY DEF Pushed
    <3> QED BY <1>1, <3>1, <3>2
  <2>3. ASSUME NEW x, NEW y
        PROVE  /\ <<Later(x), Later(y)>> \in Within <=> <<x, y>> \in edges
               /\ <<Now(x), Now(y)>> \notin Within
               /\ <<Now(x), Later(y)>> \notin Within
               /\ <<Later(x), Now(y)>> \notin Within
    BY <1>4, NodesOfPayload, WithinPushed
  <2>4. ASSUME NEW x, NEW y
        PROVE  /\ <<Later(x), Now(y)>> \in Back <=> <<y, x>> \in edges
               /\ <<Now(x), Now(y)>> \notin Back
               /\ <<Now(x), Later(y)>> \notin Back
               /\ <<Later(x), Later(y)>> \notin Back
    BY <1>4, NodesOfPayload, BackPushed
  <2> HIDE DEF edges, memory
  <2>5. ASSUME NEW u \in Unit, NEW v \in Unit
        PROVE  /\ outEdges'[<<Now(u), Now(v)>>] = Times(TRUE, edges, u, v)
               /\ outEdges'[<<Later(u), Later(v)>>] = Times(TRUE, edges, u, v)
               /\ outEdges'[<<Now(u), Later(v)>>] = Times(FALSE, memory, v, u)
               /\ outEdges'[<<Later(u), Now(v)>>] = 0
    <3>1. /\ outEdges[<<Now(u), Now(v)>>] = Times(TRUE, edges, u, v)
          /\ outEdges[<<Later(u), Later(v)>>] = Times(FALSE, edges, u, v)
          /\ outEdges[<<Now(u), Later(v)>>] = Times(FALSE, memory, v, u)
          /\ outEdges[<<Later(u), Now(v)>>] = 0
      BY <1>3 DEF Counts
    <3>2. /\ outEdges'[<<Now(u), Now(v)>>] = outEdges[<<Now(u), Now(v)>>]
          /\ outEdges'[<<Now(u), Later(v)>>] = outEdges[<<Now(u), Later(v)>>]
          /\ outEdges'[<<Later(u), Now(v)>>] = outEdges[<<Later(u), Now(v)>>]
      BY <2>2, <2>3, PairOfNodes
    <3>3. outEdges'[<<Later(u), Later(v)>>] = Times(TRUE, edges, u, v)
      BY <2>2, <2>3, <3>1, PairOfNodes DEF Times
    <3> QED BY <3>1, <3>2, <3>3
  <2>6. ASSUME NEW u \in Unit, NEW v \in Unit
        PROVE  /\ inEdges'[<<Now(u), Now(v)>>] = Times(TRUE, edges, v, u)
               /\ inEdges'[<<Later(u), Later(v)>>] = 0
               /\ inEdges'[<<Now(u), Later(v)>>] = 0
               /\ inEdges'[<<Later(u), Now(v)>>]
                    = Times(TRUE, edges, v, u) + Times(FALSE, memory, u, v)
    <3>1. /\ inEdges[<<Now(u), Now(v)>>] = Times(TRUE, edges, v, u)
          /\ inEdges[<<Later(u), Later(v)>>] = 0
          /\ inEdges[<<Now(u), Later(v)>>] = 0
          /\ inEdges[<<Later(u), Now(v)>>]
               = Times(FALSE, edges, v, u) + Times(FALSE, memory, u, v)
      BY <1>3 DEF Counts
    <3>2. /\ inEdges'[<<Now(u), Now(v)>>] = inEdges[<<Now(u), Now(v)>>]
          /\ inEdges'[<<Later(u), Later(v)>>] = inEdges[<<Later(u), Later(v)>>]
          /\ inEdges'[<<Now(u), Later(v)>>] = inEdges[<<Now(u), Later(v)>>]
      BY <2>2, <2>4, PairOfNodes
    <3>3. inEdges[<<Later(u), Now(v)>>] = 0
      BY <3>1 DEF Times
    <3>4. inEdges'[<<Later(u), Now(v)>>] = Times(TRUE, edges, v, u)
      <4>1. inEdges'[<<Later(u), Now(v)>>] = IF <<v, u>> \in edges THEN 0 + 1 ELSE 0
        BY <2>2, <2>4, <3>3, PairOfNodes
      <4> QED BY <4>1 DEF Times
    <3>5. Times(TRUE, edges, v, u) = Times(TRUE, edges, v, u) + Times(FALSE, memory, u, v)
      BY DEF Times
    <3> QED BY <3>1, <3>2, <3>4, <3>5
  <2> QED BY <2>1, <2>5, <2>6 DEF Counts
<1>6. EdgeCounts'
  BY <1>1, <1>2, <1>5, SameDependences DEF EdgeCounts
<1> QED BY <1>1, <1>2, <1>6, SameDependences DEF Inv

LEMMA CrossEdgesInv ==
  ASSUME Inv, ComputeCrossIterationEdges
  PROVE  Inv'
<1> DEFINE edges == Dependences(graph.edges)
           memory == Dependences(graph.memory)
<1>1. /\ pc = "computeNextIterationEdges" /\ pc' = "computeCrossIterationEdges"
      /\ UNCHANGED <<graph, nodes>>
      /\ outEdges' = Pushed(outEdges, Crossing)
      /\ inEdges' = Pushed(inEdges, Turned(Crossing))
  BY DEF ComputeCrossIterationEdges
<1>2. /\ EdgesComputed = TRUE /\ NextEdgesComputed = TRUE /\ CrossEdgesComputed = FALSE
      /\ EdgesComputed' = TRUE /\ NextEdgesComputed' = TRUE /\ CrossEdgesComputed' = TRUE
      /\ NextNodesComputed = TRUE /\ NextNodesComputed' = TRUE
  BY <1>1 DEF EdgesComputed, NextNodesComputed, NextEdgesComputed, CrossEdgesComputed
<1>3. Counts(outEdges, inEdges, edges, memory, TRUE, TRUE, FALSE)
  BY <1>2 DEF Inv, EdgeCounts
<1>4. Counts(outEdges', inEdges', edges, memory, TRUE, TRUE, TRUE)
  <2>1. /\ outEdges \in [Node \X Node -> Nat] /\ inEdges \in [Node \X Node -> Nat]
        /\ outEdges' \in [Node \X Node -> Nat] /\ inEdges' \in [Node \X Node -> Nat]
    BY <1>1, <1>3, PushedPair DEF Counts
  <2>2. ASSUME NEW e \in Node \X Node
        PROVE  /\ outEdges'[e] = IF e \in Crossing THEN outEdges[e] + 1 ELSE outEdges[e]
               /\ inEdges'[e] = IF e \in Turned(Crossing) THEN inEdges[e] + 1 ELSE inEdges[e]
    <3>1. Pushed(outEdges, Crossing)[e] = IF e \in Crossing THEN outEdges[e] + 1 ELSE outEdges[e]
      BY DEF Pushed
    <3>2. Pushed(inEdges, Turned(Crossing))[e] = IF e \in Turned(Crossing) THEN inEdges[e] + 1 ELSE inEdges[e]
      BY DEF Pushed
    <3> QED BY <1>1, <3>1, <3>2
  <2>3. ASSUME NEW x, NEW y
        PROVE  /\ <<Now(x), Later(y)>> \in Crossing <=> <<y, x>> \in memory
               /\ <<Now(x), Now(y)>> \notin Crossing
               /\ <<Later(x), Now(y)>> \notin Crossing
               /\ <<Later(x), Later(y)>> \notin Crossing
    BY NodesOfPayload, CrossingPushed
  <2>4. ASSUME NEW x, NEW y
        PROVE  /\ <<Later(x), Now(y)>> \in Turned(Crossing) <=> <<x, y>> \in memory
               /\ <<Now(x), Now(y)>> \notin Turned(Crossing)
               /\ <<Now(x), Later(y)>> \notin Turned(Crossing)
               /\ <<Later(x), Later(y)>> \notin Turned(Crossing)
    <3>1. \A a, b : <<a, b>> \in Turned(Crossing) <=> <<b, a>> \in Crossing
      BY NodesOfPayload, CrossingPushed, TurnedPair
    <3> QED BY <2>3, <3>1
  <2> HIDE DEF edges, memory
  <2>5. ASSUME NEW u \in Unit, NEW v \in Unit
        PROVE  /\ outEdges'[<<Now(u), Now(v)>>] = Times(TRUE, edges, u, v)
               /\ outEdges'[<<Later(u), Later(v)>>] = Times(TRUE, edges, u, v)
               /\ outEdges'[<<Now(u), Later(v)>>] = Times(TRUE, memory, v, u)
               /\ outEdges'[<<Later(u), Now(v)>>] = 0
    <3>1. /\ outEdges[<<Now(u), Now(v)>>] = Times(TRUE, edges, u, v)
          /\ outEdges[<<Later(u), Later(v)>>] = Times(TRUE, edges, u, v)
          /\ outEdges[<<Now(u), Later(v)>>] = Times(FALSE, memory, v, u)
          /\ outEdges[<<Later(u), Now(v)>>] = 0
      BY <1>3 DEF Counts
    <3>2. /\ outEdges'[<<Now(u), Now(v)>>] = outEdges[<<Now(u), Now(v)>>]
          /\ outEdges'[<<Later(u), Later(v)>>] = outEdges[<<Later(u), Later(v)>>]
          /\ outEdges'[<<Later(u), Now(v)>>] = outEdges[<<Later(u), Now(v)>>]
      BY <2>2, <2>3, PairOfNodes
    <3>3. outEdges'[<<Now(u), Later(v)>>] = Times(TRUE, memory, v, u)
      BY <2>2, <2>3, <3>1, PairOfNodes DEF Times
    <3> QED BY <3>1, <3>2, <3>3
  <2>6. ASSUME NEW u \in Unit, NEW v \in Unit
        PROVE  /\ inEdges'[<<Now(u), Now(v)>>] = Times(TRUE, edges, v, u)
               /\ inEdges'[<<Later(u), Later(v)>>] = 0
               /\ inEdges'[<<Now(u), Later(v)>>] = 0
               /\ inEdges'[<<Later(u), Now(v)>>]
                    = Times(TRUE, edges, v, u) + Times(TRUE, memory, u, v)
    <3>1. /\ inEdges[<<Now(u), Now(v)>>] = Times(TRUE, edges, v, u)
          /\ inEdges[<<Later(u), Later(v)>>] = 0
          /\ inEdges[<<Now(u), Later(v)>>] = 0
          /\ inEdges[<<Later(u), Now(v)>>]
               = Times(TRUE, edges, v, u) + Times(FALSE, memory, u, v)
      BY <1>3 DEF Counts
    <3>2. /\ inEdges'[<<Now(u), Now(v)>>] = inEdges[<<Now(u), Now(v)>>]
          /\ inEdges'[<<Later(u), Later(v)>>] = inEdges[<<Later(u), Later(v)>>]
          /\ inEdges'[<<Now(u), Later(v)>>] = inEdges[<<Now(u), Later(v)>>]
      BY <2>2, <2>4, PairOfNodes
    <3>3. inEdges[<<Later(u), Now(v)>>] = Times(TRUE, edges, v, u)
      BY <3>1 DEF Times
    <3>4. inEdges'[<<Later(u), Now(v)>>]
            = Times(TRUE, edges, v, u) + Times(TRUE, memory, u, v)
      <4> DEFINE before == Times(TRUE, edges, v, u)
      <4>1. inEdges'[<<Later(u), Now(v)>>]
              = IF <<u, v>> \in memory THEN before + 1 ELSE before
        BY <2>2, <2>4, <3>3, PairOfNodes
      <4>2. before \in Nat
        BY DEF Times
      <4>3. Times(TRUE, memory, u, v) = IF <<u, v>> \in memory THEN 1 ELSE 0
        BY DEF Times
      <4>4. inEdges'[<<Later(u), Now(v)>>] = before + Times(TRUE, memory, u, v)
        <5> HIDE DEF before
        <5>1. CASE <<u, v>> \in memory
          BY <4>1, <4>2, <4>3, <5>1
        <5>2. CASE <<u, v>> \notin memory
          <6>1. inEdges'[<<Later(u), Now(v)>>] = before
            BY <4>1, <5>2
          <6>2. Times(TRUE, memory, u, v) = 0
            BY <4>3, <5>2
          <6>3. before = before + 0
            BY <4>2
          <6> QED BY <6>1, <6>2, <6>3
        <5> QED BY <5>1, <5>2
      <4> QED BY <4>4
    <3> QED BY <3>1, <3>2, <3>4
  <2> QED BY <2>1, <2>5, <2>6 DEF Counts
<1>5. EdgeCounts'
  BY <1>1, <1>2, <1>4, SameDependences DEF EdgeCounts
<1> QED BY <1>1, <1>2, <1>5, SameDependences DEF Inv

\* IsIteratorDependent reads only.
LEMMA StillInv ==
  ASSUME Inv, UNCHANGED edgeVars
  PROVE  Inv'
<1>1. UNCHANGED <<graph, pc, nodes, outEdges, inEdges>>
  BY DEF edgeVars
<1>2. /\ Payload' = Payload
      /\ EdgesComputed' = EdgesComputed /\ NextNodesComputed' = NextNodesComputed
      /\ NextEdgesComputed' = NextEdgesComputed /\ CrossEdgesComputed' = CrossEdgesComputed
  BY <1>1 DEF Payload, EdgesComputed, NextNodesComputed, NextEdgesComputed,
              CrossEdgesComputed
<1>3. EdgeCounts'
  BY <1>1, <1>2, SameDependences DEF Inv, EdgeCounts
<1> QED BY <1>1, <1>2, <1>3 DEF Inv

\* Every method of SDependenceGraph keeps the lists as EdgeCounts has them.
THEOREM Invariance == Spec => []Inv
<1>1. Init => Inv
  BY InitInv
<1>2. Inv /\ [Next]_vars => Inv'
  <2>1. CallIsIteratorDependent \/ Walk \/ UNCHANGED vars => UNCHANGED edgeVars
    BY DEF CallIsIteratorDependent, Walk, Visit, vars
  <2> QED BY <2>1, NodesInv, EdgesInv, NextNodesInv, NextEdgesInv, CrossEdgesInv, StillInv
          DEF Next
<1> QED BY <1>1, <1>2, PTL DEF Spec

-----------------------------------------------------------------------------
(* What follows from the invariant.                                         *)

LEMMA NodesNow ==
  ASSUME Inv
  PROVE  /\ \A u \in Payload : u \in Unit /\ Now(u) \in nodes
         /\ NextNodesComputed => \A u \in Payload : Later(u) \in nodes
         /\ \A n \in Current : \E u \in Payload : n = Now(u)
<1>1. \A u \in Payload : u \in Unit /\ Now(u) \in nodes
  BY DEF Payload, Now
<1>2. NextNodesComputed => \A u \in Payload : Later(u) \in nodes
  BY DEF Inv, Later
<1>3. \A n \in Current : \E u \in Payload : n = Now(u)
  BY NodesOfPayload, CurrentForm
<1> QED BY <1>1, <1>2, <1>3

\* A list has a node once or twice, and only nodes of the graph.
LEMMA CountRange ==
  ASSUME Inv, NEW u \in Unit, NEW v \in Unit,
         NEW a \in {Now(u), Later(u)}, NEW b \in {Now(v), Later(v)}
  PROVE  /\ outEdges[<<a, b>>] \in 0..1
         /\ inEdges[<<a, b>>] \in 0..2
         /\ outEdges[<<a, b>>] + inEdges[<<a, b>>] > 0 => a \in nodes /\ b \in nodes
<1> DEFINE edges == Dependences(graph.edges)
           memory == Dependences(graph.memory)
           now == Times(EdgesComputed, edges, u, v)
           nowBack == Times(EdgesComputed, edges, v, u)
           next == Times(NextEdgesComputed, edges, u, v)
           nextBack == Times(NextEdgesComputed, edges, v, u)
           cross == Times(CrossEdgesComputed, memory, v, u)
           crossBack == Times(CrossEdgesComputed, memory, u, v)
<1>1. /\ outEdges[<<Now(u), Now(v)>>] = now
      /\ outEdges[<<Later(u), Later(v)>>] = next
      /\ outEdges[<<Now(u), Later(v)>>] = cross
      /\ outEdges[<<Later(u), Now(v)>>] = 0
  BY DEF Inv, EdgeCounts, Counts
<1>2. /\ inEdges[<<Now(u), Now(v)>>] = nowBack
      /\ inEdges[<<Later(u), Later(v)>>] = 0
      /\ inEdges[<<Now(u), Later(v)>>] = 0
      /\ inEdges[<<Later(u), Now(v)>>] = nextBack + crossBack
  BY DEF Inv, EdgeCounts, Counts
<1>3. now \in 0..1 /\ nowBack \in 0..1 /\ next \in 0..1 /\ nextBack \in 0..1
      /\ cross \in 0..1 /\ crossBack \in 0..1
  BY DEF Times
<1>4. /\ now # 0 \/ nowBack # 0 => u \in Payload /\ v \in Payload
      /\ \/ next # 0 \/ nextBack # 0 \/ cross # 0 \/ crossBack # 0
         => u \in Payload /\ v \in Payload /\ NextNodesComputed
  BY DEF Times, Dependences, NextEdgesComputed, CrossEdgesComputed, NextNodesComputed
<1> HIDE DEF now, nowBack, next, nextBack, cross, crossBack
<1>5. CASE a = Now(u) /\ b = Now(v)
  BY <1>1, <1>2, <1>3, <1>4, <1>5, NodesNow
<1>6. CASE a = Later(u) /\ b = Later(v)
  BY <1>1, <1>2, <1>3, <1>4, <1>6, NodesNow
<1>7. CASE a = Now(u) /\ b = Later(v)
  BY <1>1, <1>2, <1>3, <1>4, <1>7, NodesNow
<1>8. CASE a = Later(u) /\ b = Now(v)
  BY <1>1, <1>2, <1>3, <1>4, <1>8, NodesNow
<1> QED BY <1>5, <1>6, <1>7, <1>8

\* The walks over the operands.
Walking == asked \subseteq Node /\ workList \subseteq Unit

LEMMA Walks == Spec => []Walking
<1>1. Init => Walking
  BY DEF Init, Walking
<1>2. Inv /\ Walking /\ [Next]_vars => Walking'
  <2> SUFFICES ASSUME Inv, Walking, [Next]_vars PROVE Walking'
    OBVIOUS
  <2>1. CASE CallIsIteratorDependent
    <3>1. Sources \subseteq Current
      BY DEF Sources, Pairs
    <3>2. Current \subseteq Node /\ \A n \in Current : n[1] \in Unit
      BY NodesOfPayload, CurrentForm
    <3> QED BY <2>1, <3>1, <3>2 DEF CallIsIteratorDependent, Walking
  <2>2. CASE Walk
    BY <2>2 DEF Walk, Visit, Walking, Inv, WellFormed
  <2>3. CASE ComputeNodes \/ ComputeEdges \/ ComputeNextIterationNodes
             \/ ComputeNextIterationEdges \/ ComputeCrossIterationEdges \/ UNCHANGED vars
    BY <2>3 DEF ComputeNodes, ComputeEdges, ComputeNextIterationNodes,
                ComputeNextIterationEdges, ComputeCrossIterationEdges, vars, walk, Walking
  <2> QED BY <2>1, <2>2, <2>3 DEF Next
<1> QED BY Invariance, <1>1, <1>2, PTL DEF Spec

LEMMA InvTypeOK == ASSUME Inv, Walking PROVE TypeOK
<1>1. ASSUME NEW e \in Node \X Node
      PROVE  /\ outEdges[e] \in 0..1 /\ inEdges[e] \in 0..2
             /\ outEdges[e] + inEdges[e] > 0 => e \in nodes \X nodes
  <2>1. PICK u, v \in Unit :
          \/ e = <<Now(u), Now(v)>> \/ e = <<Now(u), Later(v)>>
          \/ e = <<Later(u), Now(v)>> \/ e = <<Later(u), Later(v)>>
    BY PairOfNodes
  <2>2. PICK a \in {Now(u), Later(u)}, b \in {Now(v), Later(v)} : e = <<a, b>>
    BY <2>1
  <2> QED BY <2>2, CountRange
<1>2. outEdges \in [Node \X Node -> Nat] /\ inEdges \in [Node \X Node -> Nat]
  BY DEF Inv, EdgeCounts, Counts
<1>3. outEdges \in [Node \X Node -> 0..1] /\ inEdges \in [Node \X Node -> 0..2]
  BY <1>1, <1>2
<1>4. pc \in {Methods[a] : a \in DOMAIN Methods}
  BY CalledMethods DEF Inv
<1> QED BY <1>1, <1>3, <1>4, NodesOfPayload DEF Inv, Walking, TypeOK

LEMMA InvShadows == ASSUME Inv PROVE ShadowsPayload
<1>1. Called("computeEdges") <=> EdgesComputed
  BY CalledMethods DEF Inv
<1>2. ASSUME EdgesComputed, NEW a \in Current, NEW b \in Current
      PROVE  LET edge == IF <<a[1], b[1]>> \in graph.edges THEN 1 ELSE 0
             IN  outEdges[<<a, b>>] = edge /\ inEdges[<<b, a>>] = edge
  <2>1. PICK u \in Payload : a = Now(u)
    BY NodesNow
  <2>2. PICK v \in Payload : b = Now(v)
    BY NodesNow
  <2>3. a[1] = u /\ b[1] = v /\ u \in Unit /\ v \in Unit
    BY <2>1, <2>2, NodeParts, NodesNow
  <2>4. /\ outEdges[<<Now(u), Now(v)>>]
             = Times(EdgesComputed, Dependences(graph.edges), u, v)
        /\ inEdges[<<Now(v), Now(u)>>]
             = Times(EdgesComputed, Dependences(graph.edges), u, v)
    BY <2>3 DEF Inv, EdgeCounts, Counts
  <2>5. Times(EdgesComputed, Dependences(graph.edges), u, v)
          = IF <<u, v>> \in graph.edges THEN 1 ELSE 0
    BY <1>2 DEF Times, Dependences
  <2> QED BY <2>1, <2>2, <2>3, <2>4, <2>5
<1> QED BY <1>1, <1>2 DEF ShadowsPayload

LEMMA InvAlike == ASSUME Inv PROVE IterationsAlike
<1>1. Called("computeNextIterationEdges") <=> NextEdgesComputed
  BY CalledMethods DEF Inv
<1>2. ASSUME NextEdgesComputed, NEW a \in Current, NEW b \in Current
      PROVE  outEdges[<<Copy(a), Copy(b)>>] = outEdges[<<a, b>>]
  <2>1. PICK u \in Payload : a = Now(u)
    BY NodesNow
  <2>2. PICK v \in Payload : b = Now(v)
    BY NodesNow
  <2>3. Copy(a) = Later(u) /\ Copy(b) = Later(v) /\ u \in Unit /\ v \in Unit
    BY <2>1, <2>2, NodeParts, NodesNow
  <2>4. /\ outEdges[<<Now(u), Now(v)>>]
             = Times(EdgesComputed, Dependences(graph.edges), u, v)
        /\ outEdges[<<Later(u), Later(v)>>]
             = Times(NextEdgesComputed, Dependences(graph.edges), u, v)
    BY <2>3 DEF Inv, EdgeCounts, Counts
  <2>5. EdgesComputed = TRUE /\ NextEdgesComputed = TRUE
    BY <1>2 DEF EdgesComputed, NextEdgesComputed
  <2> QED BY <2>1, <2>2, <2>3, <2>4, <2>5
<1> QED BY <1>1, <1>2 DEF IterationsAlike

LEMMA InvCarried == ASSUME Inv PROVE CarriedForward
<1>1. Called("computeCrossIterationEdges") <=> CrossEdgesComputed
  BY CalledMethods DEF Inv
<1>2. ASSUME NEW a \in Current, NEW b \in Current
      PROVE  /\ outEdges[<<Copy(a), b>>] = 0
             /\ CrossEdgesComputed =>
                  (outEdges[<<b, Copy(a)>>] = 1 <=> <<a[1], b[1]>> \in graph.memory)
  <2>1. PICK u \in Payload : a = Now(u)
    BY NodesNow
  <2>2. PICK v \in Payload : b = Now(v)
    BY NodesNow
  <2>3. /\ Copy(a) = Later(u) /\ u \in Unit /\ v \in Unit
        /\ a[1] = u /\ b[1] = v
    BY <2>1, <2>2, NodeParts, NodesNow
  <2>4. /\ outEdges[<<Later(u), Now(v)>>] = 0
        /\ outEdges[<<Now(v), Later(u)>>]
             = Times(CrossEdgesComputed, Dependences(graph.memory), u, v)
    BY <2>3 DEF Inv, EdgeCounts, Counts
  <2>5. CrossEdgesComputed =>
          Times(CrossEdgesComputed, Dependences(graph.memory), u, v)
            = IF <<u, v>> \in graph.memory THEN 1 ELSE 0
    BY DEF Times, Dependences
  <2> QED BY <2>1, <2>2, <2>3, <2>4, <2>5
<1> QED BY <1>1, <1>2 DEF CarriedForward

\* The types of the variables: an edge occurs once in the lists of the node it
\* leaves and at most twice in those of the node it enters, and both ends are
\* nodes of the graph.
THEOREM TypeCorrect == Spec => []TypeOK
BY Invariance, Walks, InvTypeOK, PTL

\* After computeEdges the edges of this iteration are the dependences within the
\* payload, in both directions, whatever the later methods add.
THEOREM Shadow == Spec => []ShadowsPayload
BY Invariance, InvShadows, PTL

\* The copies of two nodes have an edge just when the nodes have one.
THEOREM Alike == Spec => []IterationsAlike
BY Invariance, InvAlike, PTL

\* Nothing leads back from the next iteration, and what leads into it are the
\* dependences through memory.
THEOREM Forward == Spec => []CarriedForward
BY Invariance, InvCarried, PTL
=============================================================================
