------------------------ MODULE FunctionAnalysis_proofs ------------------------
(***************************************************************************)
(* Proofs about PayloadDependenceGraphAnalysis::run, for any function,     *)
(* loops, options and answers of the analyses it rests on: first about run *)
(* with the analyses of a loop in one step (PayloadPass), then with their  *)
(* own steps (FunctionAnalysis).                                           *)
(***************************************************************************)
EXTENDS FunctionAnalysis, FiniteSetTheorems, SequenceTheorems,
        WellFoundedInduction, TLAPS

\* What the edge of action a is in the graph after a.
After(g, a) ==
  CASE a.op = "noop"                 -> g[a.edge]
    [] a.op = "disconnect"           -> NoEdge
    [] a.op \in {"connect", "update"} -> a.info

-----------------------------------------------------------------------------
\* Facts about the actions of GraphUpdater.

\* Performing an action changes its own edge only.
LEMMA PerformAt ==
  ASSUME NEW g \in Graph, NEW a \in Action
  PROVE  /\ PerformUpdate(g, a) \in Graph
         /\ PerformUpdate(g, a)[a.edge] = After(g, a)
         /\ \A e \in Pair : e # a.edge => PerformUpdate(g, a)[e] = g[e]
<1>1. /\ a.op \in {"noop", "connect", "disconnect", "update"}
      /\ a.edge \in Pair /\ a.info \in Info
  BY DEF Action
<1>2. CASE a.op = "noop"
  BY <1>1, <1>2 DEF PerformUpdate, After, Graph
<1>3. CASE a.op = "connect"
  BY <1>1, <1>3 DEF PerformUpdate, After, AddDependentNode, Graph, Edge
<1>4. CASE a.op = "disconnect"
  BY <1>1, <1>4 DEF PerformUpdate, After, RemoveDependentNode, Graph, Edge
<1>5. CASE a.op = "update"
  BY <1>1, <1>5 DEF PerformUpdate, After, SetEdgeInfo, Graph, Edge
<1> QED BY <1>1, <1>2, <1>3, <1>4, <1>5

\* The relation of a pair is one of the three variances.
LEMMA RelationCases ==
  ASSUME NEW iv, NEW e
  PROVE  Relation(iv, e) \in Variance
BY DEF Relation, Variance

\* create answers nothing or two actions on the edge it was asked about.
LEMMA CreateType ==
  ASSUME NEW g \in Graph, NEW iv, NEW e \in Pair
  PROVE  \/ Create(g, iv, e) = NoActions
         \/ \E a, b \in Action :
              /\ Create(g, iv, e) = <<a, b>>
              /\ a.edge = e /\ b.edge = e
<1> USE GraphAssumption
<1>1. g[e] \in Edge
  BY DEF Graph
<1>2. CASE Relation(iv, e) = "Unknown"
  <2>1. Noop(e) \in Action /\ Noop(e).edge = e
    BY DEF Noop, Action, Info
  <2> QED BY <1>2, <2>1 DEF Create
<1>3. CASE Relation(iv, e) = "Variant"
  <2>1. CASE g[e] = NoEdge \/ g[e] \cap Memory = {}
    BY <1>3, <2>1 DEF Create, StripMemory
  <2>2. CASE g[e] # NoEdge /\ g[e] \cap Memory # {}
    <3>1. g[e] \in Info /\ g[e] \ Memory \in Info /\ g[e] \cap Memory \in Info
      BY <1>1, <2>2 DEF Edge, Info
    <3>2. CASE g[e] \ Memory # {}
      <4>1. /\ InfoUpdate(e, g[e] \ Memory) \in Action
            /\ InfoUpdate(e, g[e]) \in Action
            /\ InfoUpdate(e, g[e] \ Memory).edge = e
            /\ InfoUpdate(e, g[e]).edge = e
        BY <3>1 DEF InfoUpdate, Action
      <4> QED BY <1>3, <2>2, <3>2, <4>1 DEF Create, StripMemory
    <3>3. CASE g[e] \ Memory = {}
      <4>1. /\ Disconnect(e) \in Action /\ Disconnect(e).edge = e
            /\ Connect(e, g[e] \cap Memory) \in Action
            /\ Connect(e, g[e] \cap Memory).edge = e
        BY <3>1 DEF Disconnect, Connect, Action, Info
      <4> QED BY <1>3, <2>2, <3>3, <4>1 DEF Create, StripMemory
    <3> QED BY <3>2, <3>3
  <2> QED BY <2>1, <2>2
<1>4. CASE Relation(iv, e) = "Invariant"
  <2>1. /\ Connect(e, Hazard[e]) \in Action /\ Connect(e, Hazard[e]).edge = e
        /\ Disconnect(e) \in Action /\ Disconnect(e).edge = e
    BY DEF Connect, Disconnect, Action, Info
  <2> QED BY <1>4, <2>1 DEF Create, AddHazard
<1> QED BY <1>2, <1>3, <1>4, RelationCases DEF Variance

\* The two actions of a pair are inverse to each other, and each finds the
\* edge as it needs it: the first on the edge create saw, the second on the
\* edge the first left.
LEMMA CreateInverse ==
  ASSUME NEW g \in Graph, NEW h \in Graph, NEW iv, NEW e \in Pair,
         NEW a \in Action, NEW b \in Action,
         Create(g, iv, e) = <<a, b>>
  PROVE  /\ h[e] = g[e] => Applicable(h, a) /\ After(h, a) = After(g, a)
         /\ h[e] = After(g, a) => Applicable(h, b) /\ After(h, b) = g[e]
<1> USE GraphAssumption
<1>1. g[e] \in Edge /\ h[e] \in Edge
  BY DEF Graph
<1>2. CASE Relation(iv, e) = "Unknown"
  <2>1. a = Noop(e) /\ b = Noop(e)
    BY <1>2 DEF Create
  <2> QED BY <2>1 DEF Noop, Applicable, After
<1>3. CASE Relation(iv, e) = "Variant"
  <2>1. StripMemory(g, e) = <<a, b>>
    BY <1>3 DEF Create
  <2>2. g[e] # NoEdge /\ g[e] \cap Memory # {}
    BY <2>1 DEF StripMemory, NoActions
  <2>3. g[e] \in Info /\ g[e] \ Memory \in Info
    BY <1>1, <2>2 DEF Edge, Info
  <2>4. CASE g[e] \ Memory # {}
    <3>1. a = InfoUpdate(e, g[e] \ Memory) /\ b = InfoUpdate(e, g[e])
      BY <2>1, <2>2, <2>4 DEF StripMemory
    <3>2. g[e] \ Memory # NoEdge
      BY <2>3
    <3> QED BY <2>2, <3>1, <3>2 DEF InfoUpdate, Applicable, After
  <2>5. CASE g[e] \ Memory = {}
    <3>1. a = Disconnect(e) /\ b = Connect(e, g[e] \cap Memory)
      BY <2>1, <2>2, <2>5 DEF StripMemory
    <3>2. g[e] \cap Memory = g[e]
      BY <2>3, <2>5 DEF Info
    <3> QED BY <2>2, <3>1, <3>2 DEF Disconnect, Connect, Applicable, After
  <2> QED BY <2>4, <2>5
<1>4. CASE Relation(iv, e) = "Invariant"
  <2>1. AddHazard(g, e) = <<a, b>>
    BY <1>4 DEF Create
  <2>2. g[e] = NoEdge
    BY <2>1 DEF AddHazard, NoActions
  <2>3. a = Connect(e, Hazard[e]) /\ b = Disconnect(e)
    BY <2>1 DEF AddHazard, NoActions
  <2>4. Hazard[e] # NoEdge
    OBVIOUS
  <2> QED BY <2>2, <2>3, <2>4 DEF Disconnect, Connect, Applicable, After
<1> QED BY <1>2, <1>3, <1>4, RelationCases DEF Variance
-----------------------------------------------------------------------------
(***************************************************************************)
(* The inductive invariant.  Types and control locations:                  *)
(***************************************************************************)
Control ==
  /\ pc # "create" => todo = {}
  /\ pc \notin {"execute", "reverse"} => pos = 0
  /\ pc \in {"create", "export", "execute", "reverse"} => next \in Loop
  /\ deps \subseteq Pair

\* The two queues hold, position by position, what create answered on the
\* original graph for the dependences dealt with, each once; the others of
\* them needed no update.
Queues ==
  /\ Len(undos) = Len(dos)
  /\ \A k \in 1..Len(dos) :
       /\ dos[k].edge \in deps \ todo
       /\ Create(pdg0, variance, dos[k].edge) = <<dos[k], undos[k]>>
  /\ \A j, k \in 1..Len(dos) : dos[j].edge = dos[k].edge => j = k
  /\ \A e \in deps \ todo :
       \/ Create(pdg0, variance, e) = NoActions
       \/ \E k \in 1..Len(dos) : dos[k].edge = e

\* The graph is the original one with the first pos updates in effect.
InEffect ==
  /\ \A k \in 1..Len(dos) :
       pdg[dos[k].edge] =
         IF k <= pos THEN After(pdg0, dos[k]) ELSE pdg0[dos[k].edge]
  /\ \A e \in Pair :
       (\A k \in 1..Len(dos) : dos[k].edge # e) => pdg[e] = pdg0[e]

IInv == TypeOK /\ Control /\ Queues /\ InEffect

-----------------------------------------------------------------------------

\* While no update is in effect the graph is the original one.
LEMMA NothingInEffect ==
  ASSUME TypeOK, InEffect, pos = 0
  PROVE  pdg = pdg0
<1>1. pdg \in [Pair -> Edge] /\ pdg0 \in [Pair -> Edge]
  BY DEF TypeOK, Graph
<1>2. ASSUME NEW e \in Pair PROVE pdg[e] = pdg0[e]
  <2>1. CASE \E k \in 1..Len(dos) : dos[k].edge = e
    <3>1. PICK k \in 1..Len(dos) : dos[k].edge = e
      BY <2>1
    <3>2. ~(k <= pos)
      OBVIOUS
    <3> QED BY <3>1, <3>2 DEF InEffect
  <2>2. CASE ~\E k \in 1..Len(dos) : dos[k].edge = e
    BY <2>2 DEF InEffect
  <2> QED BY <2>1, <2>2
<1> QED BY <1>1, <1>2

LEMMA InitInvariant == Init => IInv
<1> SUFFICES ASSUME Init PROVE IInv
  OBVIOUS
<1> USE PassAssumption DEF Init
<1>1. TypeOK
  <2>1. variance \in [Inst -> Variance]
    BY DEF Unanalyzed, Variance
  <2>2. dos \in Seq(Action) /\ undos \in Seq(Action) /\ pos \in 0..Len(dos)
    OBVIOUS
  <2>3. next \in 0..NumLoops
    OBVIOUS
  <2>4. DOMAIN updateFiles = {}
    OBVIOUS
  <2> QED BY <2>1, <2>2, <2>3, <2>4 DEF TypeOK
<1>2. Control
  BY DEF Control
<1>3. Queues
  BY DEF Queues
<1>4. InEffect
  BY DEF InEffect
<1> QED BY <1>1, <1>2, <1>3, <1>4 DEF IInv

\* A step that leaves the queues and the graph alone preserves what the
\* invariant says of them.
LEMMA QueuesUntouched ==
  ASSUME Queues, InEffect, UNCHANGED <<locals, pdg, pdg0>>
  PROVE  Queues' /\ InEffect'
BY DEF Queues, InEffect, locals

\* Queuing the updates of one more dependence.
LEMMA CreateUpdatesStep ==
  ASSUME IInv, CreateUpdates
  PROVE  IInv'
<1> USE DEF IInv
<1>1. PICK e \in todo :
        /\ todo' = todo \ {e}
        /\ IF Create(pdg, variance, e) = NoActions
             THEN UNCHANGED <<dos, undos>>
             ELSE /\ dos'   = Append(dos, Create(pdg, variance, e)[1])
                  /\ undos' = Append(undos, Create(pdg, variance, e)[2])
  BY DEF CreateUpdates
<1>2. /\ UNCHANGED <<opts, pc, next, deps, variance, pos, pdg, loopCount, result,
                     files, pdg0>>
      /\ pc = "create" /\ pos = 0
  BY DEF CreateUpdates, Control
<1>3. pdg = pdg0 /\ pdg \in Graph /\ e \in Pair /\ e \in deps
  BY NothingInEffect, <1>2 DEF TypeOK
<1>4. Control'
  BY <1>1, <1>2 DEF Control
<1>5. /\ opts' \in Options
      /\ pc' \in {"start", "loops", "create", "export", "execute", "reverse",
                  "done", "fatal"}
      /\ next' \in 0..NumLoops
      /\ deps' \subseteq Pair /\ todo' \subseteq deps'
      /\ variance' \in [Inst -> Variance]
      /\ pdg' \in Graph /\ pdg0' \in Graph
      /\ loopCount' \in Nat
      /\ result' \in Seq([loop : Loop, shadow : SUBSET Pair])
      /\ resultFile' \in Seq([loop : Loop, shadow : SUBSET Pair])
      /\ DOMAIN updateFiles' \subseteq Nat
      /\ \A n \in DOMAIN updateFiles' :
           updateFiles'[n] \in [loop : Loop, updates : Seq(Action)]
  BY <1>1, <1>2 DEF TypeOK, files
<1>6. CASE Create(pdg, variance, e) = NoActions
  <2>1. UNCHANGED <<dos, undos>>
    BY <1>1, <1>6
  <2>2. TypeOK'
    BY <1>2, <1>5, <2>1 DEF TypeOK
  <2>3. Queues'
    BY <1>1, <1>2, <1>3, <1>6, <2>1 DEF Queues
  <2>4. InEffect'
    BY <1>2, <2>1 DEF InEffect
  <2> QED BY <1>4, <2>2, <2>3, <2>4
<1>7. CASE Create(pdg, variance, e) # NoActions
  <2>1. PICK a, b \in Action :
          Create(pdg, variance, e) = <<a, b>> /\ a.edge = e /\ b.edge = e
    BY <1>3, <1>7, CreateType
  <2>2. dos' = Append(dos, a) /\ undos' = Append(undos, b)
    BY <1>1, <1>7, <2>1
  <2>3. /\ dos' \in Seq(Action) /\ undos' \in Seq(Action)
        /\ Len(dos') = Len(dos) + 1 /\ Len(undos') = Len(undos) + 1
        /\ \A k \in 1..Len(dos) : dos'[k] = dos[k]
        /\ dos'[Len(dos) + 1] = a
        /\ \A k \in 1..Len(undos) : undos'[k] = undos[k]
        /\ undos'[Len(undos) + 1] = b
        /\ Len(dos) \in Nat
    BY <2>2 DEF TypeOK
  <2>4. TypeOK'
    BY <1>2, <1>5, <2>3 DEF TypeOK
  <2>5. \A k \in 1..Len(dos) : dos[k].edge # e
    BY DEF Queues
  <2>6. Queues'
    <3>1. Len(undos') = Len(dos')
      BY <2>3 DEF Queues
    <3>2. ASSUME NEW k \in 1..Len(dos')
          PROVE  /\ dos'[k].edge \in deps' \ todo'
                 /\ Create(pdg0', variance', dos'[k].edge)
                      = <<dos'[k], undos'[k]>>
      <4>1. CASE k = Len(dos) + 1
        BY <1>1, <1>2, <1>3, <2>1, <2>3, <4>1 DEF Queues
      <4>2. CASE k \in 1..Len(dos)
        BY <1>1, <1>2, <2>3, <4>2 DEF Queues
      <4> QED BY <2>3, <4>1, <4>2
    <3>3. ASSUME NEW j \in 1..Len(dos'), NEW k \in 1..Len(dos'),
                 dos'[j].edge = dos'[k].edge
          PROVE  j = k
      <4>1. CASE j \in 1..Len(dos) /\ k \in 1..Len(dos)
        BY <2>3, <3>3, <4>1 DEF Queues
      <4>2. CASE j = Len(dos) + 1 \/ k = Len(dos) + 1
        BY <2>1, <2>3, <2>5, <3>3, <4>2
      <4> QED BY <2>3, <4>1, <4>2
    <3>4. ASSUME NEW d \in deps' \ todo'
          PROVE  \/ Create(pdg0', variance', d) = NoActions
                 \/ \E k \in 1..Len(dos') : dos'[k].edge = d
      <4>1. CASE d = e
        <5>1. Len(dos) + 1 \in 1..Len(dos') /\ dos'[Len(dos) + 1].edge = d
          BY <2>1, <2>3, <4>1
        <5> QED BY <5>1
      <4>2. CASE d # e
        <5>1. d \in deps \ todo
          BY <1>1, <1>2, <4>2
        <5>2. CASE Create(pdg0, variance, d) = NoActions
          BY <1>2, <5>2
        <5>3. CASE \E k \in 1..Len(dos) : dos[k].edge = d
          <6>1. PICK k \in 1..Len(dos) : dos[k].edge = d
            BY <5>3
          <6>2. k \in 1..Len(dos') /\ dos'[k].edge = d
            BY <2>3, <6>1
          <6> QED BY <6>2
        <5> QED BY <5>1, <5>2, <5>3 DEF Queues
      <4> QED BY <4>1, <4>2
    <3> QED BY <3>1, <3>2, <3>3, <3>4 DEF Queues
  <2>7. InEffect'
    <3>1. ASSUME NEW k \in 1..Len(dos')
          PROVE  pdg'[dos'[k].edge] = pdg0'[dos'[k].edge] /\ ~(k <= pos')
      BY <1>2, <1>3, <2>3
    <3>2. ASSUME NEW d \in Pair PROVE pdg'[d] = pdg0'[d]
      BY <1>2, <1>3
    <3> QED BY <3>1, <3>2 DEF InEffect
  <2> QED BY <1>4, <2>4, <2>6, <2>7
<1> QED BY <1>6, <1>7

\* The k-th actions of the two queues, and the graph at their edge.
LEMMA QueuedActions ==
  ASSUME IInv, NEW k \in 1..Len(dos)
  PROVE  /\ dos[k] \in Action /\ undos[k] \in Action
         /\ dos[k].edge \in Pair /\ undos[k].edge = dos[k].edge
         /\ Create(pdg0, variance, dos[k].edge) = <<dos[k], undos[k]>>
<1>1. dos[k] \in Action /\ undos[k] \in Action
  BY DEF IInv, TypeOK, Queues
<1>2. dos[k].edge \in Pair
  BY DEF IInv, TypeOK, Queues
<1>3. Create(pdg0, variance, dos[k].edge) = <<dos[k], undos[k]>>
  BY DEF IInv, Queues
<1>4. PICK a, b \in Action :
        <<dos[k], undos[k]>> = <<a, b>> /\ a.edge = dos[k].edge
                                        /\ b.edge = dos[k].edge
  <2>1. pdg0 \in Graph
    BY DEF IInv, TypeOK
  <2>2. Create(pdg0, variance, dos[k].edge) # NoActions
    BY <1>3 DEF NoActions
  <2> QED BY <1>2, <1>3, <2>1, <2>2, CreateType
<1> QED BY <1>1, <1>2, <1>3, <1>4

\* An update finds its edge as create saw it.
LEMMA ExecuteApplicable ==
  ASSUME IInv, pos < Len(dos)
  PROVE  /\ Applicable(pdg, dos[pos + 1])
         /\ After(pdg, dos[pos + 1]) = After(pdg0, dos[pos + 1])
<1>1. pos + 1 \in 1..Len(dos) /\ ~(pos + 1 <= pos)
  BY DEF IInv, TypeOK
<1>2. pdg[dos[pos + 1].edge] = pdg0[dos[pos + 1].edge]
  BY <1>1 DEF IInv, InEffect
<1>3. pdg \in Graph /\ pdg0 \in Graph
  BY DEF IInv, TypeOK
<1> QED BY <1>1, <1>2, <1>3, QueuedActions, CreateInverse

\* A reversal finds its edge as the update left it, and restores it.
LEMMA ReverseApplicable ==
  ASSUME IInv, pos > 0
  PROVE  /\ Applicable(pdg, undos[pos])
         /\ After(pdg, undos[pos]) = pdg0[dos[pos].edge]
<1>1. pos \in 1..Len(dos)
  BY DEF IInv, TypeOK
<1>2. pdg[dos[pos].edge] = After(pdg0, dos[pos])
  BY <1>1 DEF IInv, InEffect
<1>3. pdg \in Graph /\ pdg0 \in Graph
  BY DEF IInv, TypeOK
<1> QED BY <1>1, <1>2, <1>3, QueuedActions, CreateInverse

LEMMA ExecuteUpdateStep ==
  ASSUME IInv, ExecuteUpdate
  PROVE  IInv'
<1> DEFINE k == pos + 1
<1> USE DEF IInv
<1>1. /\ k \in 1..Len(dos) /\ pos < Len(dos) /\ pos \in Nat
      /\ pc = "execute" /\ pdg' = PerformUpdate(pdg, dos[k]) /\ pos' = k
      /\ UNCHANGED <<opts, pc, next, deps, todo, variance, dos, undos, loopCount,
                     result, files, pdg0>>
  BY DEF ExecuteUpdate, TypeOK
<1>2. dos[k] \in Action /\ dos[k].edge \in Pair
  BY <1>1, QueuedActions
<1>3. /\ pdg' \in Graph
      /\ pdg'[dos[k].edge] = After(pdg0, dos[k])
      /\ \A e \in Pair : e # dos[k].edge => pdg'[e] = pdg[e]
  BY <1>1, <1>2, PerformAt, ExecuteApplicable DEF TypeOK
<1>4. TypeOK'
  BY <1>1, <1>3 DEF TypeOK, files
<1>5. Control' /\ Queues'
  BY <1>1 DEF Control, Queues
<1>6. InEffect'
  <2>1. ASSUME NEW j \in 1..Len(dos)
        PROVE  pdg'[dos[j].edge] =
                 IF j <= k THEN After(pdg0, dos[j]) ELSE pdg0[dos[j].edge]
    <3>1. CASE j = k
      BY <1>3, <3>1
    <3>2. CASE j # k
      <4>1. dos[j].edge \in Pair /\ dos[j].edge # dos[k].edge
        BY <1>1, <3>2, QueuedActions DEF Queues
      <4>2. pdg'[dos[j].edge] = pdg[dos[j].edge]
        BY <1>3, <4>1
      <4>3. j <= k <=> j <= pos
        BY <1>1, <3>2
      <4> QED BY <4>2, <4>3 DEF InEffect
    <3> QED BY <3>1, <3>2
  <2>2. ASSUME NEW e \in Pair, \A j \in 1..Len(dos) : dos[j].edge # e
        PROVE  pdg'[e] = pdg0[e]
    BY <1>1, <1>3, <2>2 DEF InEffect
  <2> QED BY <1>1, <2>1, <2>2 DEF InEffect
<1> QED BY <1>4, <1>5, <1>6

LEMMA ReverseUpdateStep ==
  ASSUME IInv, ReverseUpdate
  PROVE  IInv'
<1> USE DEF IInv
<1>1. /\ pos \in 1..Len(dos) /\ pos > 0
      /\ pc = "reverse" /\ pdg' = PerformUpdate(pdg, undos[pos])
      /\ pos' = pos - 1
      /\ UNCHANGED <<opts, pc, next, deps, todo, variance, dos, undos, loopCount,
                     result, files, pdg0>>
  BY DEF ReverseUpdate, TypeOK
<1>2. undos[pos] \in Action /\ undos[pos].edge = dos[pos].edge
  BY <1>1, QueuedActions
<1>3. /\ pdg' \in Graph
      /\ pdg'[dos[pos].edge] = pdg0[dos[pos].edge]
      /\ \A e \in Pair : e # dos[pos].edge => pdg'[e] = pdg[e]
  BY <1>1, <1>2, PerformAt, ReverseApplicable DEF TypeOK
<1>4. TypeOK'
  BY <1>1, <1>3 DEF TypeOK, files
<1>5. Control' /\ Queues'
  BY <1>1 DEF Control, Queues
<1>6. InEffect'
  <2>1. ASSUME NEW j \in 1..Len(dos)
        PROVE  pdg'[dos[j].edge] =
                 IF j <= pos - 1 THEN After(pdg0, dos[j]) ELSE pdg0[dos[j].edge]
    <3>1. CASE j = pos
      BY <1>1, <1>3, <3>1
    <3>2. CASE j # pos
      <4>1. dos[j].edge \in Pair /\ dos[j].edge # dos[pos].edge
        BY <1>1, <3>2, QueuedActions DEF Queues
      <4>2. pdg'[dos[j].edge] = pdg[dos[j].edge]
            /\ (j <= pos - 1 <=> j <= pos)
        BY <1>1, <1>3, <3>2, <4>1
      <4> QED BY <4>2 DEF InEffect
    <3> QED BY <3>1, <3>2
  <2>2. ASSUME NEW e \in Pair, \A j \in 1..Len(dos) : dos[j].edge # e
        PROVE  pdg'[e] = pdg0[e]
    BY <1>1, <1>3, <2>2 DEF InEffect
  <2> QED BY <1>1, <2>1, <2>2 DEF InEffect
<1> QED BY <1>4, <1>5, <1>6

\* Taking up a loop, and leaving it: the queues are empty.
LEMMA BeginLoopStep ==
  ASSUME IInv, BeginLoop
  PROVE  IInv'
<1> USE PassAssumption DEF IInv
<1>1. /\ pc = "loops" /\ next > 0 /\ next \in Loop /\ pos = 0
      /\ deps' \in SUBSET Candidates(next) /\ todo' = deps'
      /\ variance' \in Variances
      /\ dos' = <<>> /\ undos' = <<>> /\ pos' = 0
      /\ pc' = "create"
      /\ UNCHANGED <<opts, next, pdg, loopCount, result, files, pdg0>>
  BY DEF BeginLoop, TypeOK, Control, Loop
<1>2. pdg = pdg0
  BY <1>1, NothingInEffect
<1>3. deps' \subseteq Pair
  BY <1>1 DEF Candidates, Pair
<1>4. TypeOK'
  <2>1. dos' \in Seq(Action) /\ undos' \in Seq(Action) /\ pos' \in 0..Len(dos')
    BY <1>1
  <2> QED BY <1>1, <1>3, <2>1 DEF TypeOK, files
<1>5. Control'
  BY <1>1, <1>3 DEF Control
<1>6. Queues' /\ InEffect'
  BY <1>1, <1>2 DEF Queues, InEffect
<1> QED BY <1>4, <1>5, <1>6

LEMMA EndLoopStep ==
  ASSUME IInv, EndLoop
  PROVE  IInv'
<1> USE PassAssumption DEF IInv
<1>1. /\ pc = "reverse" /\ pos = 0 /\ next \in Loop /\ todo = {}
      /\ loopCount' = loopCount + 1 /\ next' = next - 1
      /\ deps' = {} /\ variance' = Unanalyzed
      /\ dos' = <<>> /\ undos' = <<>>
      /\ pc' = "loops"
      /\ UNCHANGED <<opts, todo, pos, pdg, result, files, pdg0>>
  BY DEF EndLoop, Control
<1>2. pdg = pdg0
  BY <1>1, NothingInEffect
<1>3. TypeOK'
  <2>1. dos' \in Seq(Action) /\ undos' \in Seq(Action) /\ pos' \in 0..Len(dos')
    BY <1>1
  <2>2. next' \in 0..NumLoops /\ loopCount' \in Nat
    BY <1>1 DEF TypeOK, Loop
  <2>3. variance' \in [Inst -> Variance]
    BY <1>1 DEF Unanalyzed, Variance
  <2> QED BY <1>1, <2>1, <2>2, <2>3 DEF TypeOK, files
<1>4. Control'
  BY <1>1 DEF Control
<1>5. Queues' /\ InEffect'
  BY <1>1, <1>2 DEF Queues, InEffect
<1> QED BY <1>3, <1>4, <1>5

\* The remaining steps do not touch the queues or the graph.
LEMMA OtherSteps ==
  ASSUME IInv,
         Start \/ SkipLoop \/ AllCreated \/ ExportUpdates \/ AnalyzeLoop \/ Finish
  PROVE  IInv'
<1> USE PassAssumption DEF IInv
<1>1. UNCHANGED <<locals, pdg, pdg0>>
  BY DEF Start, SkipLoop, AllCreated, ExportUpdates, AnalyzeLoop, Finish
<1>2. Queues' /\ InEffect'
  BY <1>1, QueuesUntouched
<1>3. Control'
  <2>1. CASE Start
    BY <1>1, <2>1 DEF Control, Start, CreateDirectory, locals
  <2>2. CASE SkipLoop
    BY <1>1, <2>2 DEF Control, SkipLoop, locals
  <2>3. CASE AllCreated
    BY <1>1, <2>3 DEF Control, AllCreated, locals
  <2>4. CASE ExportUpdates
    BY <1>1, <2>4 DEF Control, ExportUpdates, WriteJSONToFile, locals
  <2>5. CASE AnalyzeLoop
    BY <1>1, <2>5 DEF Control, AnalyzeLoop, locals
  <2>6. CASE Finish
    BY <1>1, <2>6 DEF Control, Finish, WriteJSONToFile, locals
  <2> QED BY <2>1, <2>2, <2>3, <2>4, <2>5, <2>6
<1>4. TypeOK'
  <2>1. CASE Start
    BY <1>1, <2>1 DEF TypeOK, Start, CreateDirectory, locals, files
  <2>2. CASE SkipLoop
    <3>1. next' \in 0..NumLoops
      BY <2>2 DEF SkipLoop, TypeOK
    <3> QED BY <1>1, <2>2, <3>1 DEF TypeOK, SkipLoop, locals, files
  <2>3. CASE AllCreated
    BY <1>1, <2>3 DEF TypeOK, AllCreated, locals, files
  <2>4. CASE ExportUpdates
    <3>0. PICK out \in WriteJSONToFile(
                         updateFiles,
                         [n \in DOMAIN updateFiles \cup {loopCount} |->
                            IF n = loopCount THEN [loop |-> next, updates |-> dos]
                                             ELSE updateFiles[n]],
                         "execute") :
            updateFiles' = out.kept /\ pc' = out.pc
      BY <2>4 DEF ExportUpdates, ConvertToJSON
    <3>1. next \in Loop /\ dos \in Seq(Action) /\ loopCount \in Nat
      BY <2>4 DEF ExportUpdates, Control, TypeOK
    <3>2. /\ DOMAIN updateFiles' \subseteq Nat
          /\ \A n \in DOMAIN updateFiles' :
               updateFiles'[n] \in [loop : Loop, updates : Seq(Action)]
      BY <3>0, <3>1 DEF WriteJSONToFile, TypeOK
    <3>3. pc' \in {"execute", "fatal"}
      BY <3>0 DEF WriteJSONToFile
    <3> QED BY <1>1, <2>4, <3>2, <3>3 DEF TypeOK, ExportUpdates, locals, files
  <2>5. CASE AnalyzeLoop
    <3>1. next \in Loop
      BY <2>5 DEF AnalyzeLoop, Control
    <3>2. ShadowEdges(pdg, Payload[next]) \in SUBSET Pair
      BY <3>1 DEF ShadowEdges, Pair
    <3>3. result' \in Seq([loop : Loop, shadow : SUBSET Pair])
      BY <2>5, <3>1, <3>2 DEF AnalyzeLoop, TypeOK
    <3> QED BY <1>1, <2>5, <3>3 DEF TypeOK, AnalyzeLoop, locals, files
  <2>6. CASE Finish
    <3>1. resultFile' \in {resultFile, result} /\ pc' \in {"done", "fatal"}
      BY <2>6 DEF Finish, WriteJSONToFile
    <3> QED BY <1>1, <2>6, <3>1 DEF TypeOK, Finish, locals, files
  <2> QED BY <2>1, <2>2, <2>3, <2>4, <2>5, <2>6
<1> QED BY <1>2, <1>3, <1>4

LEMMA NextInvariant == IInv /\ [Next]_vars => IInv'
<1> SUFFICES ASSUME IInv, [Next]_vars PROVE IInv'
  OBVIOUS
<1>1. CASE CreateUpdates
  BY <1>1, CreateUpdatesStep
<1>2. CASE ExecuteUpdate
  BY <1>2, ExecuteUpdateStep
<1>3. CASE ReverseUpdate
  BY <1>3, ReverseUpdateStep
<1>4. CASE BeginLoop
  BY <1>4, BeginLoopStep
<1>5. CASE EndLoop
  BY <1>5, EndLoopStep
<1>6. CASE Start \/ SkipLoop \/ AllCreated \/ ExportUpdates \/ AnalyzeLoop \/ Finish
  BY <1>6, OtherSteps
<1>7. CASE UNCHANGED vars
  <2>1. Queues' /\ InEffect'
    BY <1>7, QueuesUntouched DEF vars, IInv
  <2>2. Control' /\ TypeOK'
    BY <1>7 DEF vars, locals, files, IInv, Control, TypeOK
  <2> QED BY <2>1, <2>2 DEF IInv
<1> QED BY <1>1, <1>2, <1>3, <1>4, <1>5, <1>6, <1>7 DEF Next

LEMMA Invariance == Spec => []IInv
BY InitInvariant, NextInvariant, PTL DEF Spec

-----------------------------------------------------------------------------

\* run keeps its variables in their types.
THEOREM TypeCorrect == Spec => []TypeOK
<1>1. IInv => TypeOK
  BY DEF IInv
<1> QED BY <1>1, Invariance, PTL

\* Between loops and at the end the graph is the one run was given, whatever
\* the dependences of the loops and the failures of the exports.
THEOREM Restoration == Spec => []GraphRestored
<1>1. IInv => GraphRestored
  BY NothingInEffect DEF IInv, Control, GraphRestored
<1> QED BY <1>1, Invariance, PTL

\* No update and no reversal is ever applied to an edge that is not as the
\* graph's operations need it.
THEOREM Applicability == Spec => []UpdatesApplicable
<1>1. IInv => UpdatesApplicable
  BY ExecuteApplicable, ReverseApplicable DEF UpdatesApplicable
<1> QED BY <1>1, Invariance, PTL

\* What create answers for an edge of the original graph leads to the edge
\* UpdatedEdge says the loop is analysed with.
LEMMA CreateUpdated ==
  ASSUME pdg0 \in Graph, NEW e \in Pair
  PROVE  /\ Create(pdg0, variance, e) = NoActions => UpdatedEdge(e) = pdg0[e]
         /\ \A a, b \in Action :
              Create(pdg0, variance, e) = <<a, b>> /\ a.edge = e
                => UpdatedEdge(e) = After(pdg0, a)
<1> USE GraphAssumption
<1> DEFINE rel == Relation(variance, e)
<1>1. pdg0[e] \in Edge
  BY DEF Graph
<1>2. CASE rel = "Unknown"
  <2>1. UpdatedEdge(e) = pdg0[e]
    BY <1>2 DEF UpdatedEdge
  <2>2. Create(pdg0, variance, e) = <<Noop(e), Noop(e)>>
    BY <1>2 DEF Create
  <2>3. After(pdg0, Noop(e)) = pdg0[e]
    BY DEF After, Noop
  <2> QED BY <2>1, <2>2, <2>3
<1>3. CASE rel = "Variant"
  <2>1. Create(pdg0, variance, e) = StripMemory(pdg0, e)
    BY <1>3 DEF Create
  <2>2. CASE pdg0[e] = NoEdge \/ pdg0[e] \cap Memory = {}
    <3>1. UpdatedEdge(e) = pdg0[e]
      BY <1>3, <2>2 DEF UpdatedEdge
    <3> QED BY <2>1, <2>2, <3>1 DEF StripMemory, NoActions
  <2>3. CASE pdg0[e] # NoEdge /\ pdg0[e] \cap Memory # {}
    <3>1. pdg0[e] \in Info
      BY <1>1, <2>3 DEF Edge
    <3>2. CASE pdg0[e] \ Memory # {}
      <4>1. ~(pdg0[e] \subseteq Memory)
        BY <3>2
      <4>2. UpdatedEdge(e) = pdg0[e] \ Memory
        BY <1>3, <2>3, <4>1 DEF UpdatedEdge
      <4>3. Create(pdg0, variance, e) =
              <<InfoUpdate(e, pdg0[e] \ Memory), InfoUpdate(e, pdg0[e])>>
        BY <2>1, <2>3, <3>2 DEF StripMemory
      <4>4. After(pdg0, InfoUpdate(e, pdg0[e] \ Memory)) = pdg0[e] \ Memory
        BY DEF After, InfoUpdate
      <4> QED BY <4>2, <4>3, <4>4 DEF NoActions
    <3>3. CASE pdg0[e] \ Memory = {}
      <4>1. pdg0[e] \subseteq Memory
        BY <3>3
      <4>2. UpdatedEdge(e) = NoEdge
        BY <1>3, <2>3, <4>1 DEF UpdatedEdge
      <4>3. Create(pdg0, variance, e) =
              <<Disconnect(e), Connect(e, pdg0[e] \cap Memory)>>
        BY <2>1, <2>3, <3>3 DEF StripMemory
      <4>4. After(pdg0, Disconnect(e)) = NoEdge
        BY DEF After, Disconnect
      <4> QED BY <4>2, <4>3, <4>4 DEF NoActions
    <3> QED BY <3>2, <3>3
  <2> QED BY <2>2, <2>3
<1>4. CASE rel = "Invariant"
  <2>1. Create(pdg0, variance, e) = AddHazard(pdg0, e)
    BY <1>4 DEF Create
  <2>2. CASE pdg0[e] = NoEdge /\ Hazard[e] # {}
    <3>1. UpdatedEdge(e) = Hazard[e]
      BY <1>4, <2>2 DEF UpdatedEdge
    <3>2. Create(pdg0, variance, e) = <<Connect(e, Hazard[e]), Disconnect(e)>>
      BY <2>1, <2>2 DEF AddHazard
    <3>3. After(pdg0, Connect(e, Hazard[e])) = Hazard[e]
      BY DEF After, Connect
    <3> QED BY <3>1, <3>2, <3>3 DEF NoActions
  <2>3. CASE ~(pdg0[e] = NoEdge /\ Hazard[e] # {})
    <3>1. UpdatedEdge(e) = pdg0[e]
      BY <1>4, <2>3 DEF UpdatedEdge
    <3> QED BY <2>1, <2>3, <3>1 DEF AddHazard, NoActions
  <2> QED BY <2>2, <2>3
<1> QED BY <1>2, <1>3, <1>4, RelationCases DEF Variance

\* The edge of a queued update, before and after it is executed.
LEMMA QueuedEdge ==
  ASSUME IInv, NEW k \in 1..Len(dos)
  PROVE  /\ After(pdg0, dos[k]) = UpdatedEdge(dos[k].edge)
         /\ pdg[dos[k].edge] = IF k <= pos THEN UpdatedEdge(dos[k].edge)
                                           ELSE pdg0[dos[k].edge]
<1>1. pdg0 \in Graph
  BY DEF IInv, TypeOK
<1>2. After(pdg0, dos[k]) = UpdatedEdge(dos[k].edge)
  BY <1>1, QueuedActions, CreateUpdated
<1> QED BY <1>2 DEF IInv, InEffect

\* When all updates of a loop are in effect, each of its dependences has its
\* updated edge and every other pair the edge it had.
LEMMA AllInEffect == IInv => AnalyzedOnOwnUpdates
<1>1. ASSUME IInv, pc = "execute", pos = Len(dos), NEW e \in Pair
      PROVE  pdg[e] = IF e \in deps THEN UpdatedEdge(e) ELSE pdg0[e]
  <2>1. todo = {}
    BY <1>1 DEF IInv, Control
  <2>2. CASE \E k \in 1..Len(dos) : dos[k].edge = e
    <3>1. PICK k \in 1..Len(dos) : dos[k].edge = e
      BY <2>2
    <3>2. k <= pos /\ e \in deps
      BY <1>1, <3>1 DEF IInv, Queues
    <3> QED BY <1>1, <3>1, <3>2, QueuedEdge
  <2>3. CASE ~\E k \in 1..Len(dos) : dos[k].edge = e
    <3>1. pdg[e] = pdg0[e]
      BY <1>1, <2>3 DEF IInv, InEffect
    <3>2. ASSUME e \in deps PROVE Create(pdg0, variance, e) = NoActions
      BY <1>1, <2>1, <2>3, <3>2 DEF IInv, Queues
    <3>3. pdg0 \in Graph
      BY <1>1 DEF IInv, TypeOK
    <3> QED BY <3>1, <3>2, <3>3, CreateUpdated
  <2> QED BY <2>2, <2>3
<1> SUFFICES ASSUME IInv, pc = "execute", pos = Len(dos)
             PROVE  pdg = [e \in Pair |-> IF e \in deps THEN UpdatedEdge(e)
                                                        ELSE pdg0[e]]
  BY DEF AnalyzedOnOwnUpdates
<1>2. pdg \in [Pair -> Edge]
  BY DEF IInv, TypeOK, Graph
<1> QED BY <1>1, <1>2

\* A loop is analysed on the original graph with the updates of all its own
\* dependences, and of no other loop's.
THEOREM OwnUpdates == Spec => []AnalyzedOnOwnUpdates
BY AllInEffect, Invariance, PTL

\* Updates take from an edge its memory information only.
LEMMA KeepsOther == IInv => OtherInformationKept
<1>1. ASSUME IInv, NEW e \in Pair
      PROVE  pdg[e] = pdg0[e] \/ pdg[e] = UpdatedEdge(e)
  <2>1. CASE \E k \in 1..Len(dos) : dos[k].edge = e
    <3>1. PICK k \in 1..Len(dos) : dos[k].edge = e
      BY <2>1
    <3> QED BY <1>1, <3>1, QueuedEdge
  <2>2. CASE ~\E k \in 1..Len(dos) : dos[k].edge = e
    BY <1>1, <2>2 DEF IInv, InEffect
  <2> QED BY <2>1, <2>2
<1>2. ASSUME IInv, NEW e \in Pair, pdg0[e] # NoEdge, pdg0[e] \ Memory # {}
      PROVE  UpdatedEdge(e) # NoEdge /\ UpdatedEdge(e) \ Memory = pdg0[e] \ Memory
  <2>1. pdg0[e] \in Info /\ ~(pdg0[e] \subseteq Memory)
    BY <1>2 DEF IInv, TypeOK, Graph, Edge
  <2>2. pdg0[e] \ Memory \in Info
    BY <2>1 DEF Info
  <2>3. UpdatedEdge(e) \in {pdg0[e], pdg0[e] \ Memory}
    BY <1>2, <2>1 DEF UpdatedEdge
  <2>4. (pdg0[e] \ Memory) \ Memory = pdg0[e] \ Memory
    OBVIOUS
  <2> QED BY <1>2, <2>1, <2>2, <2>3, <2>4, GraphAssumption
<1> QED BY <1>1, <1>2 DEF OtherInformationKept

\* At every moment, half-way through the updates too, each edge has the
\* register and control information it had at the start.
THEOREM OtherInformation == Spec => []OtherInformationKept
BY KeepsOther, Invariance, PTL
-----------------------------------------------------------------------------
(***************************************************************************)
(* The files of updates and the results.  The number the next file gets is *)
(* the number of results, but for the moment between reporting a loop and  *)
(* the end of its body; and only the loop that is being analysed can have  *)
(* a file and no result yet.                                               *)
(***************************************************************************)
Numbering ==
  /\ loopCount = IF pc = "reverse" THEN Len(result) - 1 ELSE Len(result)
  /\ \A n \in DOMAIN updateFiles :
       /\ n <= loopCount
       /\ n = loopCount => /\ pc \in {"execute", "reverse", "fatal"}
                           /\ pc = "execute" => updateFiles[n].loop = next

FilesInv == Numbering /\ FilesMatchResults

\* Exporting the updates of the loop.
LEMMA ExportUpdatesFiles ==
  ASSUME IInv, FilesInv, ExportUpdates
  PROVE  FilesInv'
<1>1. PICK out \in WriteJSONToFile(
                     updateFiles,
                     [n \in DOMAIN updateFiles \cup {loopCount} |->
                        IF n = loopCount THEN [loop |-> next, updates |-> dos]
                                         ELSE updateFiles[n]],
                     "execute") :
        updateFiles' = out.kept /\ pc' = out.pc
  BY DEF ExportUpdates, ConvertToJSON
<1>2. /\ pc = "export" /\ pc' \in {"execute", "fatal"}
      /\ UNCHANGED <<next, loopCount, result>>
  BY <1>1 DEF ExportUpdates, WriteJSONToFile
<1>3. loopCount = Len(result) /\ Len(result) \in Nat
  BY <1>2 DEF IInv, TypeOK, FilesInv, Numbering
<1>4. CASE updateFiles' = updateFiles
  BY <1>2, <1>3, <1>4 DEF FilesInv, Numbering, FilesMatchResults
<1>5. CASE /\ updateFiles' = [n \in DOMAIN updateFiles \cup {loopCount} |->
                                IF n = loopCount THEN [loop |-> next, updates |-> dos]
                                                 ELSE updateFiles[n]]
           /\ pc' = "execute"
  <2>1. /\ DOMAIN updateFiles' = DOMAIN updateFiles \cup {loopCount}
        /\ updateFiles'[loopCount].loop = next
        /\ \A n \in DOMAIN updateFiles :
             n # loopCount => updateFiles'[n] = updateFiles[n]
    BY <1>5
  <2> QED BY <1>2, <1>3, <1>5, <2>1 DEF FilesInv, Numbering, FilesMatchResults
<1> QED BY <1>1, <1>4, <1>5 DEF WriteJSONToFile

\* Reporting the loop, and ending its body.
LEMMA AnalyzeLoopFiles ==
  ASSUME IInv, FilesInv, AnalyzeLoop
  PROVE  FilesInv'
<1> DEFINE r == [loop |-> next, shadow |-> ShadowEdges(pdg, Payload[next])]
<1>1. /\ pc = "execute" /\ pc' = "reverse"
      /\ result' = Append(result, r)
      /\ UNCHANGED <<next, loopCount, updateFiles>>
  BY DEF AnalyzeLoop, files
<1>2. result \in Seq([loop : Loop, shadow : SUBSET Pair])
  BY DEF IInv, TypeOK
<1>3. /\ Len(result') = Len(result) + 1 /\ Len(result) \in Nat
      /\ result'[Len(result) + 1] = r
      /\ \A k \in 1..Len(result) : result'[k] = result[k]
  BY <1>1, <1>2
<1>4. r.loop = next
  OBVIOUS
<1>5. DOMAIN updateFiles \subseteq Nat
  BY DEF IInv, TypeOK
<1> HIDE DEF r
<1>6. Numbering'
  BY <1>1, <1>3 DEF FilesInv, Numbering
<1>7. ASSUME NEW n \in DOMAIN updateFiles
      PROVE  /\ n <= Len(result')
             /\ n < Len(result') => updateFiles[n].loop = result'[n + 1].loop
  <2>1. n \in Nat /\ n <= Len(result) /\ loopCount = Len(result)
    BY <1>1, <1>5 DEF FilesInv, Numbering, FilesMatchResults
  <2>2. CASE n = Len(result)
    BY <1>1, <1>3, <1>4, <2>1, <2>2 DEF FilesInv, Numbering
  <2>3. CASE n < Len(result)
    <3>1. n + 1 \in 1..Len(result) /\ result'[n + 1] = result[n + 1]
      BY <1>3, <2>1, <2>3
    <3> QED BY <1>3, <2>1, <2>3, <3>1 DEF FilesInv, FilesMatchResults
  <2> QED BY <1>3, <2>1, <2>2, <2>3
<1> QED BY <1>1, <1>6, <1>7 DEF FilesInv, FilesMatchResults

LEMMA EndLoopFiles ==
  ASSUME IInv, FilesInv, EndLoop
  PROVE  FilesInv'
<1>1. /\ pc = "reverse" /\ pc' = "loops" /\ loopCount' = loopCount + 1
      /\ UNCHANGED <<result, updateFiles>>
  BY DEF EndLoop, files
<1>2. loopCount = Len(result) - 1 /\ Len(result) \in Nat /\ loopCount \in Nat
  BY <1>1 DEF IInv, TypeOK, FilesInv, Numbering
<1>3. ASSUME NEW n \in DOMAIN updateFiles PROVE n < loopCount'
  BY <1>1, <1>2 DEF IInv, TypeOK, FilesInv, Numbering
<1> QED BY <1>1, <1>2, <1>3 DEF FilesInv, Numbering, FilesMatchResults

LEMMA FilesInvariance == Spec => []FilesInv
<1>1. Init => FilesInv
  BY DEF Init, FilesInv, Numbering, FilesMatchResults
<1>2. IInv /\ FilesInv /\ [Next]_vars => FilesInv'
  <2> SUFFICES ASSUME IInv, FilesInv, [Next]_vars PROVE FilesInv'
    OBVIOUS
  <2>1. CASE ExportUpdates
    BY <2>1, ExportUpdatesFiles
  <2>2. CASE AnalyzeLoop
    BY <2>2, AnalyzeLoopFiles
  <2>3. CASE EndLoop
    BY <2>3, EndLoopFiles
  <2>4. CASE \/ Start \/ SkipLoop \/ BeginLoop \/ CreateUpdates \/ AllCreated
             \/ ExecuteUpdate \/ ReverseUpdate \/ Finish
    <3>1. UNCHANGED <<loopCount, result, updateFiles>>
      BY <2>4 DEF Start, SkipLoop, BeginLoop, CreateUpdates, AllCreated,
                  ExecuteUpdate, ReverseUpdate, Finish, files
    \* No file has the number of the loop before it is exported.
    <3>2. \/ pc' = pc /\ (pc = "execute" => next' = next)
          \/ pc # "reverse" /\ pc' # "reverse"
             /\ pc \in {"start", "loops", "create"}
      BY <2>4 DEF Start, SkipLoop, BeginLoop, CreateUpdates, AllCreated,
                  ExecuteUpdate, ReverseUpdate, Finish, CreateDirectory,
                  WriteJSONToFile
    <3> QED BY <3>1, <3>2 DEF FilesInv, Numbering, FilesMatchResults
  <2>5. CASE UNCHANGED vars
    BY <2>5 DEF vars, files, FilesInv, Numbering, FilesMatchResults
  <2> QED BY <2>1, <2>2, <2>3, <2>4, <2>5 DEF Next
<1> QED BY <1>1, <1>2, Invariance, PTL DEF Spec

\* The number of an exported file is the place of its loop in the results.
THEOREM FilesAndResults == Spec => []FilesMatchResults
<1>1. FilesInv => FilesMatchResults
  BY DEF FilesInv
<1> QED BY <1>1, FilesInvariance, PTL

-----------------------------------------------------------------------------
(***************************************************************************)
(* The refinement of LoopReports.  Beside the graph, it needs to know how  *)
(* far run has come: the loops reported are the analysed ones after the    *)
(* loop that is next, and that loop itself when its updates are being      *)
(* reversed.                                                               *)
(***************************************************************************)
Progress ==
  /\ pc \in {"loops", "create", "export", "execute", "reverse"} => opts.listed
  /\ pc = "done" /\ opts.listed => next = 0
  /\ pc \in {"create", "export", "execute", "reverse"} => Analyzed(next)
  /\ Reports!Reported =
       {l \in Loop : Analyzed(l) /\ (l > next \/ (l = next /\ pc = "reverse"))}

\* The reports before and after one more is made.
LEMMA ReportedAppend ==
  ASSUME NEW r, result \in Seq([loop : Loop, shadow : SUBSET Pair]),
         r \in [loop : Loop, shadow : SUBSET Pair],
         result' = Append(result, r)
  PROVE  Reports!Reported' = Reports!Reported \cup {r.loop}
<1> USE DEF Reports!Reported
<1>1. /\ Len(result) \in Nat /\ Len(result') = Len(result) + 1
      /\ \A k \in 1..Len(result) : result'[k] = result[k]
      /\ result'[Len(result) + 1] = r
  OBVIOUS
<1>2. ASSUME NEW x \in Reports!Reported' PROVE x \in Reports!Reported \cup {r.loop}
  <2>1. PICK k \in 1..Len(result') : x = result'[k].loop
    OBVIOUS
  <2>2. k \in 1..Len(result) \/ k = Len(result) + 1
    BY <1>1
  <2> QED BY <1>1, <2>1, <2>2
<1>3. ASSUME NEW x \in Reports!Reported \cup {r.loop} PROVE x \in Reports!Reported'
  <2>1. CASE x = r.loop
    <3>1. Len(result) + 1 \in 1..Len(result')
      BY <1>1
    <3> QED BY <1>1, <2>1, <3>1
  <2>2. CASE x \in Reports!Reported
    <3>1. PICK k \in 1..Len(result) : x = result[k].loop
      BY <2>2
    <3>2. k \in 1..Len(result') /\ x = result'[k].loop
      BY <1>1, <3>1
    <3> QED BY <3>2
  <2> QED BY <2>1, <2>2
<1> QED BY <1>2, <1>3

\* What is reported for a loop is of the type of a result.
LEMMA ReportType ==
  ASSUME NEW l \in Loop
  PROVE  [loop |-> l, shadow |-> ShadowEdges(pdg, Payload[l])]
           \in [loop : Loop, shadow : SUBSET Pair]
BY PassAssumption DEF ShadowEdges, Pair

LEMMA ProgressInvariance == Spec => []Progress
<1> USE PassAssumption
<1>1. Init => Progress
  <2> SUFFICES ASSUME Init PROVE Progress
    OBVIOUS
  <2>1. pc = "start" /\ next = NumLoops /\ result = <<>>
    BY DEF Init
  <2>2. Reports!Reported = {}
    BY <2>1 DEF Reports!Reported
  <2> QED BY <2>1, <2>2 DEF Progress, Loop
<1>2. IInv /\ Progress /\ [Next]_vars => Progress'
  <2> SUFFICES ASSUME IInv, Progress, [Next]_vars PROVE Progress'
    OBVIOUS
  <2>0. next \in 0..NumLoops /\ result \in Seq([loop : Loop, shadow : SUBSET Pair])
    BY DEF IInv, TypeOK
  <2>1. CASE Start
    <3>1. /\ pc = "start" /\ UNCHANGED <<opts, next, result>>
          /\ pc' \in {IF opts.listed THEN "loops" ELSE "done", "fatal"}
      BY <2>1 DEF Start, CreateDirectory
    <3>2. Reports!Reported' = Reports!Reported
      BY <3>1 DEF Reports!Reported
    <3> QED BY <3>1, <3>2 DEF Progress, Analyzed, DepthSelected
  <2>2. CASE SkipLoop
    <3>1. /\ pc = "loops" /\ pc' = "loops" /\ ~Analyzed(next) /\ next > 0
          /\ next' = next - 1 /\ UNCHANGED <<opts, result>>
      BY <2>2 DEF SkipLoop
    <3>2. Reports!Reported' = Reports!Reported
      BY <3>1 DEF Reports!Reported
    <3>3. ASSUME NEW l \in Loop, Analyzed(l) PROVE l > next <=> l > next'
      <4>1. l # next
        BY <3>1, <3>3
      <4>2. l \in Nat /\ next \in Nat
        BY <2>0 DEF Loop
      <4> QED BY <3>1, <4>1, <4>2
    <3> QED BY <3>1, <3>2, <3>3 DEF Progress, Analyzed, DepthSelected
  <2>3. CASE BeginLoop \/ CreateUpdates \/ AllCreated \/ ExportUpdates
             \/ ExecuteUpdate \/ ReverseUpdate \/ Finish
    <3>1. UNCHANGED <<opts, next, result>>
      BY <2>3 DEF BeginLoop, CreateUpdates, AllCreated, ExportUpdates,
                  ExecuteUpdate, ReverseUpdate, Finish
    <3>2. /\ pc' = "reverse" <=> pc = "reverse"
          /\ pc' \in {"loops", "create", "export", "execute", "reverse"}
               => pc \in {"loops", "create", "export", "execute", "reverse"}
          /\ pc' \in {"create", "export", "execute", "reverse"} =>
               pc \in {"create", "export", "execute", "reverse"} \/ Analyzed(next)
          /\ pc' = "done" => next = 0
      BY <2>3 DEF BeginLoop, CreateUpdates, AllCreated, ExportUpdates,
                  ExecuteUpdate, ReverseUpdate, Finish, WriteJSONToFile
    <3>3. Reports!Reported' = Reports!Reported
      BY <3>1 DEF Reports!Reported
    <3> QED BY <3>1, <3>2, <3>3 DEF Progress, Analyzed, DepthSelected
  <2>4. CASE AnalyzeLoop
    <3> DEFINE r == [loop |-> next, shadow |-> ShadowEdges(pdg, Payload[next])]
    <3>1. /\ pc = "execute" /\ pc' = "reverse"
          /\ UNCHANGED <<opts, next>> /\ result' = Append(result, r)
      BY <2>4 DEF AnalyzeLoop
    <3>2. next \in Loop /\ Analyzed(next)
      BY <3>1 DEF IInv, Control, Progress
    <3>3. r \in [loop : Loop, shadow : SUBSET Pair] /\ r.loop = next
      BY <3>2, ReportType
    <3> HIDE DEF r
    <3>4. Reports!Reported' = Reports!Reported \cup {next}
      BY <2>0, <3>1, <3>3, ReportedAppend
    <3>5. Reports!Reported = {l \in Loop : Analyzed(l) /\ l > next}
      BY <3>1 DEF Progress
    <3>6. Reports!Reported'
            = {l \in Loop : Analyzed(l) /\ (l > next \/ l = next)}
      BY <3>2, <3>4, <3>5
    <3> QED BY <3>1, <3>2, <3>6 DEF Progress, Analyzed, DepthSelected
  <2>5. CASE EndLoop
    <3>1. /\ pc = "reverse" /\ pc' = "loops" /\ next' = next - 1
          /\ UNCHANGED <<opts, result>>
      BY <2>5 DEF EndLoop
    <3>2. Reports!Reported' = Reports!Reported
      BY <3>1 DEF Reports!Reported
    <3>3. \A l \in Loop : (l > next \/ l = next) <=> l > next'
      BY <2>0, <3>1 DEF Loop
    <3> QED BY <3>1, <3>2, <3>3 DEF Progress, Analyzed, DepthSelected
  <2>6. CASE UNCHANGED vars
    <3>1. UNCHANGED <<opts, pc, next, result>>
      BY <2>6 DEF vars
    <3>2. Reports!Reported' = Reports!Reported
      BY <3>1 DEF Reports!Reported
    <3> QED BY <3>1, <3>2 DEF Progress, Analyzed, DepthSelected
  <2> QED BY <2>1, <2>2, <2>3, <2>4, <2>5, <2>6 DEF Next
<1> QED BY <1>1, <1>2, Invariance, PTL DEF Spec

\* What LoopReports takes for the graph is the graph run was given.
Unobserved == (IF pc \in {"execute", "reverse"} THEN pdg0 ELSE pdg) = pdg0

LEMMA ClientGraph == IInv => Unobserved
BY NothingInEffect DEF IInv, Control, Unobserved

\* The shadow graph a loop is analysed with is one LoopReports allows.
LEMMA ShadowAllowed ==
  ASSUME IInv, pc = "execute", pos = Len(dos)
  PROVE  ShadowEdges(pdg, Payload[next]) \in Reports!Shadows(next)
<1> DEFINE nodes  == Payload[next] \X Payload[next]
           shadow == ShadowEdges(pdg, Payload[next])
<1>1. nodes \subseteq Pair
  BY PassAssumption DEF IInv, Control, Pair
<1>2. shadow = {e \in nodes : pdg[e] # NoEdge}
  BY DEF ShadowEdges
<1>3. ASSUME NEW e \in nodes
      PROVE  pdg[e] = pdg0[e] \/ pdg[e] = UpdatedEdge(e)
  BY <1>1, AllInEffect DEF AnalyzedOnOwnUpdates
<1>4. ASSUME NEW e \in nodes, e \in shadow
      PROVE  pdg0[e] # NoEdge \/ Hazard[e] # {}
  <2>1. pdg[e] # NoEdge
    BY <1>2, <1>4
  <2>2. CASE pdg[e] = UpdatedEdge(e) /\ pdg0[e] = NoEdge
    <3>1. UpdatedEdge(e) # pdg0[e]
      BY <2>1, <2>2
    <3> QED BY <2>2, <3>1 DEF UpdatedEdge
  <2> QED BY <1>3, <2>1, <2>2
<1>5. ASSUME NEW e \in nodes, e \notin shadow, pdg0[e] # NoEdge
      PROVE  pdg0[e] # {} /\ pdg0[e] \subseteq Memory
  <2>1. pdg[e] = NoEdge /\ pdg[e] = UpdatedEdge(e)
    BY <1>2, <1>3, <1>5
  <2>2. pdg0[e] \in Info
    BY <1>1, <1>5 DEF IInv, TypeOK, Graph, Edge
  <2>3. pdg0[e] \ Memory # NoEdge
    BY <2>2, GraphAssumption DEF Info
  <2> QED BY <1>5, <2>1, <2>3 DEF UpdatedEdge
<1>6. Reports!Shadows(next) =
        {sh \in SUBSET nodes :
           \A e \in nodes :
             IF e \in sh
               THEN pdg0[e] # NoEdge \/ Hazard[e] # {}
               ELSE pdg0[e] # NoEdge => pdg0[e] # {} /\ pdg0[e] \subseteq Memory}
  BY ClientGraph DEF Reports!Shadows, Unobserved
<1>7. shadow \in SUBSET nodes
  BY <1>2
<1> HIDE DEF nodes, shadow
<1> QED BY <1>4, <1>5, <1>6, <1>7 DEF shadow

\* Every step is one of LoopReports, or one its client cannot see.
LEMMA StepImplements ==
  ASSUME IInv, Unobserved', Progress, [Next]_vars
  PROVE  [Reports!Next]_(Reports!vars)
<1> DEFINE graph == IF pc \in {"execute", "reverse"} THEN pdg0 ELSE pdg
           status == CASE pc = "done" -> "returned" [] pc = "fatal" -> "failed"
                       [] OTHER -> "running"
<1>1. graph' = graph
  <2>1. pdg0' = pdg0
    BY DEF Next, vars, Start, SkipLoop, BeginLoop, CreateUpdates, AllCreated,
           ExportUpdates, ExecuteUpdate, AnalyzeLoop, ReverseUpdate, EndLoop, Finish
  <2> QED BY <2>1, ClientGraph DEF Unobserved
<1>2. opts' = opts
  BY DEF Next, vars, Start, SkipLoop, BeginLoop, CreateUpdates, AllCreated,
         ExportUpdates, ExecuteUpdate, AnalyzeLoop, ReverseUpdate, EndLoop, Finish
<1>3. CASE AnalyzeLoop
  <2>1. /\ pc = "execute" /\ pos = Len(dos) /\ pc' = "reverse"
        /\ result' = Append(result, [loop   |-> next,
                                     shadow |-> ShadowEdges(pdg, Payload[next])])
    BY <1>3 DEF AnalyzeLoop
  <2>2. next \in {l \in Loop : Analyzed(l)} /\ opts.listed
    BY <2>1 DEF IInv, Control, Progress
  <2>3. Reports!Reported = {l \in Loop : Analyzed(l) /\ l > next}
    BY <2>1 DEF Progress
  <2>4. next \notin Reports!Reported
    BY <2>2, <2>3 DEF Loop
  <2>5. \A m \in {l \in Loop : Analyzed(l)} : m > next => m \in Reports!Reported
    BY <2>3
  <2>6. ShadowEdges(pdg, Payload[next]) \in Reports!Shadows(next)
    BY <2>1, ShadowAllowed
  <2>7. status = "running" /\ status' = "running"
    BY <2>1
  <2>8. Reports!Report(next)
    BY <1>1, <1>2, <2>1, <2>2, <2>4, <2>5, <2>6, <2>7 DEF Reports!Report
  <2> QED BY <2>2, <2>8 DEF Reports!Next
<1>4. CASE pc' # pc /\ pc' \in {"done", "fatal"}
  <2>1. /\ Start \/ ExportUpdates \/ Finish
        /\ result' = result
    BY <1>4 DEF Next, vars, Start, SkipLoop, BeginLoop, CreateUpdates, AllCreated,
         ExportUpdates, ExecuteUpdate, AnalyzeLoop, ReverseUpdate, EndLoop, Finish
  <2>2. pc \notin {"done", "fatal"}
    BY <2>1 DEF Start, ExportUpdates, Finish
  <2>3. status = "running"
    BY <2>2
  <2>4. CASE pc' = "fatal"
    <3>1. status' = "failed"
      BY <2>4
    <3>2. Reports!Fail
      BY <1>1, <1>2, <2>1, <2>3, <3>1 DEF Reports!Fail
    <3> QED BY <3>2 DEF Reports!Next
  <2>5. CASE pc' = "done"
    <3>1. status' = "returned"
      BY <2>5
    <3>2. opts.listed => pc = "loops" /\ next = 0
      BY <2>1, <2>5 DEF Start, CreateDirectory, ExportUpdates, WriteJSONToFile, Finish
    <3>3. opts.listed => Reports!Reported = {l \in Loop : Analyzed(l)}
      BY <3>2, PassAssumption DEF Progress, Loop
    <3>4. Reports!Return
      BY <1>1, <1>2, <2>1, <2>3, <3>1, <3>3 DEF Reports!Return
    <3> QED BY <3>4 DEF Reports!Next
  <2> QED BY <1>4, <2>4, <2>5
<1>5. CASE ~AnalyzeLoop /\ ~(pc' # pc /\ pc' \in {"done", "fatal"})
  <2>1. result' = result /\ (pc \in {"done", "fatal"} => pc' = pc)
    BY <1>5 DEF Next, vars, Start, SkipLoop, BeginLoop, CreateUpdates, AllCreated,
         ExportUpdates, ExecuteUpdate, AnalyzeLoop, ReverseUpdate, EndLoop, Finish
  <2>2. status' = status
    BY <1>5, <2>1
  <2> QED BY <1>1, <1>2, <2>1, <2>2 DEF Reports!vars
<1> QED BY <1>3, <1>4, <1>5

\* run implements the specification of what its clients see of it.
THEOREM Implementation == Spec => ImplementsReports
<1>1. Init => Reports!Init
  <2> SUFFICES ASSUME Init PROVE Reports!Init
    OBVIOUS
  <2>1. /\ pc = "start" /\ pdg \in Reports!Graph /\ result = <<>>
        /\ opts.listed \in BOOLEAN
    BY PassAssumption DEF Init, Options, Graph, Reports!Graph, Pair, Reports!Pair,
       Edge, Reports!Edge, Info, Reports!Info
  <2> QED BY <2>1 DEF Reports!Init
<1>2. Spec => []Unobserved
  BY ClientGraph, Invariance, PTL
<1>3. IInv /\ Unobserved' /\ Progress /\ [Next]_vars => [Reports!Next]_(Reports!vars)
  BY StepImplements
<1> QED BY <1>1, <1>2, <1>3, Invariance, ProgressInvariance, PTL
        DEF Spec, ImplementsReports, Reports!Spec

-----------------------------------------------------------------------------
(***************************************************************************)
(* run comes to its end: it always finds the dependence to take next, and  *)
(* each step brings it nearer.                                             *)
(***************************************************************************)

LEMMA SmallestNat ==
  ASSUME NEW T \in SUBSET Nat, T # {}
  PROVE  \E n \in T : \A m \in T : n <= m
<1> DEFINE R == OpToRel(<, Nat)
<1>1. IsWellFoundedOn(R, Nat)
  BY NatLessThanWellFounded, Zenon
<1> HIDE DEF R
<1>2. PICK n \in T : \A m \in T : ~(<<m, n>> \in R)
  BY <1>1, WFMin
<1>3. ASSUME NEW m \in T
      PROVE  n <= m
  <2>1. ~(<<m, n>> \in R)
    BY <1>2
  <2>2. ~(m < n)
    BY <2>1 DEF R, OpToRel
  <2> QED BY <2>2
<1> QED BY <1>3

\* Any dependences have a first one in the order of the cache.
LEMMA FirstDependence ==
  ASSUME NEW l \in Loop, NEW S \in SUBSET Pair, S # {}
  PROVE  \E e \in S : \A d \in S : Precedes(l, e, d)
<1> DEFINE place(i) == RPO[l][i]
           T == {place(d[1]) : d \in S}
<1>1. /\ \A i \in Inst : place(i) \in Nat
      /\ \A i, j \in Inst : place(i) = place(j) => i = j
  BY PassAssumption
<1>2. \A d \in S : d[1] \in Inst /\ d[2] \in Inst
  BY DEF Pair
<1>3. T \in SUBSET Nat /\ T # {}
  BY <1>1, <1>2
<1>4. PICK n \in T : \A m \in T : n <= m
  BY <1>3, SmallestNat
<1>5. PICK a \in S : place(a[1]) = n
  BY <1>4
<1> DEFINE U == {place(d[2]) : d \in {x \in S : x[1] = a[1]}}
<1>6. U \in SUBSET Nat /\ U # {}
  BY <1>1, <1>2, <1>5
<1>7. PICK k \in U : \A m \in U : k <= m
  BY <1>6, SmallestNat
<1>8. PICK e \in S : e[1] = a[1] /\ place(e[2]) = k
  BY <1>7
<1>9. ASSUME NEW d \in S PROVE Precedes(l, e, d)
  <2>1. CASE d[1] = e[1]
    <3>1. place(d[2]) \in U
      BY <1>8, <2>1
    <3> QED BY <1>7, <1>8, <2>1, <3>1 DEF Precedes
  <2>2. CASE d[1] # e[1]
    <3>1. n <= place(d[1]) /\ place(e[1]) = n
      BY <1>4, <1>5, <1>8
    <3>2. /\ place(d[1]) # place(e[1])
          /\ place(d[1]) \in Nat /\ place(e[1]) \in Nat
      BY <1>1, <1>2, <2>2
    <3>3. place(e[1]) < place(d[1])
      BY <3>1, <3>2
    <3> QED BY <3>3 DEF Precedes
  <2> QED BY <2>1, <2>2
<1> QED BY <1>9

\* Which dependence is the next to be updated.
NextUpdate ==
  pc = "create" /\ todo # {} => \E e \in todo : \A d \in todo : Precedes(next, e, d)

\* As long as there are dependences to update, the traversal gives the one that
\* is next: run is never stuck in the creation of updates.
THEOREM AlwaysNextUpdate == Spec => []NextUpdate
<1>1. IInv => NextUpdate
  <2> SUFFICES ASSUME IInv, pc = "create", todo # {}
               PROVE  \E e \in todo : \A d \in todo : Precedes(next, e, d)
    BY DEF NextUpdate
  <2>1. next \in Loop /\ todo \in SUBSET Pair
    BY DEF IInv, Control, TypeOK
  <2> QED BY <2>1, FirstDependence
<1> QED BY <1>1, Invariance, PTL

\* How far each statement is from the end of the loop body.
Place == [start |-> 6, loops |-> 5, create |-> 4, export |-> 3, execute |-> 2,
          reverse |-> 1, done |-> 0, fatal |-> 0]

\* A step goes on to another loop, or to a statement nearer to the end of the
\* body, or on in a loop of the body over dependences or updates.
RunDescends ==
  \/ next' < next
  \/ /\ next' = next
     /\ \/ Place[pc'] < Place[pc]
        \/ pc = "create" /\ pc' = pc /\ todo' \subseteq todo /\ todo' # todo
        \/ pc = "execute" /\ pc' = pc /\ dos' = dos /\ pos < pos' /\ pos' <= Len(dos)
        \/ pc = "reverse" /\ pc' = pc /\ 0 <= pos' /\ pos' < pos

LEMMA RunStepDescends ==
  ASSUME TypeOK, Next
  PROVE  RunDescends
<1> USE DEF RunDescends, Place
<1>1. next \in Nat /\ pos \in Nat /\ Len(dos) \in Nat
  BY PassAssumption DEF TypeOK
<1>2. CASE Start
  <2>1. next' = next /\ pc = "start" /\ pc' \in {"loops", "done", "fatal"}
    BY <1>2 DEF Start, CreateDirectory
  <2> QED BY <2>1
<1>3. CASE SkipLoop \/ EndLoop
  <2>1. next' = next - 1
    BY <1>3 DEF SkipLoop, EndLoop
  <2> QED BY <1>1, <2>1
<1>4. CASE BeginLoop
  BY <1>4 DEF BeginLoop
<1>5. CASE CreateUpdates
  <2>1. PICK e \in todo : todo' = todo \ {e} /\ pc = "create" /\ UNCHANGED <<pc, next>>
    BY <1>5 DEF CreateUpdates
  <2> QED BY <2>1
<1>6. CASE AllCreated
  <2>1. next' = next /\ pc = "create" /\ pc' \in {"export", "execute"}
    BY <1>6 DEF AllCreated
  <2> QED BY <2>1
<1>7. CASE ExportUpdates
  <2>1. next' = next /\ pc = "export" /\ pc' \in {"execute", "fatal"}
    BY <1>7 DEF ExportUpdates, WriteJSONToFile
  <2> QED BY <2>1
<1>8. CASE ExecuteUpdate
  BY <1>1, <1>8 DEF ExecuteUpdate
<1>9. CASE AnalyzeLoop
  BY <1>9 DEF AnalyzeLoop
<1>10. CASE ReverseUpdate
  BY <1>1, <1>10 DEF ReverseUpdate
<1>11. CASE Finish
  <2>1. next' = next /\ pc = "loops" /\ pc' \in {"done", "fatal"}
    BY <1>11 DEF Finish, WriteJSONToFile
  <2> QED BY <2>1
<1> QED BY <1>2, <1>3, <1>4, <1>5, <1>6, <1>7, <1>8, <1>9, <1>10, <1>11 DEF Next

\* run does not go on for ever, whatever fails and whatever the updates are: no
\* loop is taken up twice, no dependence created for twice, no update executed
\* or reversed twice.
THEOREM RunEnds == Spec => [][RunDescends]_vars
<1>1. TypeOK /\ [Next]_vars => [RunDescends]_vars
  BY RunStepDescends
<1> QED BY <1>1, TypeCorrect, PTL DEF Spec

-----------------------------------------------------------------------------
(***************************************************************************)
(* The analyses of the loops.  What is proved about one call of process    *)
(* and of analyze is taken from the proofs about them, for the loop that   *)
(* run is at.                                                              *)
(***************************************************************************)
MDP == INSTANCE MutationDetector_proofs WITH
         Programs <- {}, pc <- mdPc, program <- Program(code, next, pdg), dc <- deps

SCP == INSTANCE StaticCommutativity_proofs WITH
         Value <- Inst, Operation <- Inst, Inputs <- {}, pc <- scPc,
         iva <- variance, todo <- scTodo

\* To the rest of run the analyses of a loop are one step that reads the graph.
THEOREM RunWithAnalyses == FunctionSpec => Spec
<1>1. FunctionInit => Init
  BY DEF FunctionInit
<1>2. [FunctionNext]_functionVars => [Next]_vars
  BY DEF FunctionNext, functionVars, TakeUpLoop, PassStep, AnalysisStep, ReportLoop, Next
<1> QED BY <1>1, <1>2, PTL DEF FunctionSpec, Spec

-----------------------------------------------------------------------------
\* The references that LoopAnalysis takes from the detector are those its
\* proofs are about.

LEMMA SameReference ==
  ASSUME NEW p, NEW t
  PROVE  /\ LA!MD!Handled(p, t) = MDP!Handled(p, t)
         /\ LA!MD!CacheOf(p) = MDP!CacheOf(p)
         /\ \A i : LA!MD!IsSource(p, i) <=> MDP!IsSource(p, i)
         /\ \A i : LA!MD!IsOperation(p, i) <=> MDP!IsOperation(p, i)
         /\ \A deps1, i : LA!MD!GivesUp(p, deps1, i) <=> MDP!GivesUp(p, deps1, i)
BY DEF LA!MD!Handled, MDP!Handled, LA!MD!Slice, MDP!Slice, LA!MD!Closed, MDP!Closed,
       LA!MD!IsSource, MDP!IsSource, LA!MD!Followed, MDP!Followed,
       LA!MD!InverseEdgeUnits, MDP!InverseEdgeUnits,
       LA!MD!CacheOf, MDP!CacheOf, LA!MD!Dependences, MDP!Dependences,
       LA!MD!IsOperation, MDP!IsOperation, LA!MD!GivesUp, MDP!GivesUp,
       LA!MD!Contains, MDP!Contains,
       LA!MD!DistinctInstructions, MDP!DistinctInstructions

LEMMA SameActions ==
  ASSUME NEW i
  PROVE  /\ LA!MD!PassOver(i) => MDP!PassOver(i)
         /\ LA!MD!Process(i) => MDP!Process(i)
         /\ LA!MD!Finish => MDP!Finish
BY DEF LA!MD!PassOver, MDP!PassOver, LA!MD!Process, MDP!Process, LA!MD!Finish, MDP!Finish,
       LA!MD!Take, MDP!Take,
       LA!MD!IsSource, MDP!IsSource, LA!MD!Followed, MDP!Followed,
       LA!MD!InverseEdgeUnits, MDP!InverseEdgeUnits,
       LA!MD!IsOperation, MDP!IsOperation, LA!MD!GivesUp, MDP!GivesUp,
       LA!MD!Contains, MDP!Contains,
       LA!MD!DistinctInstructions, MDP!DistinctInstructions

LEMMA SameAnalyzer ==
  /\ LA!SC!Next => SCP!Next
  /\ \A v, e : LA!SC!ChainCommutes(v, e) <=> SCP!ChainCommutes(v, e)
BY DEF LA!SC!Next, SCP!Next, LA!SC!EnterChain, SCP!EnterChain,
       LA!SC!SourcesVisited, SCP!SourcesVisited, LA!SC!Return, SCP!Return,
       LA!SC!VisitSource, SCP!VisitSource, LA!SC!Accept, SCP!Accept,
       LA!SC!Reject, SCP!Reject, LA!SC!AllCommutative, SCP!AllCommutative,
       LA!SC!BothInvariant, SCP!BothInvariant, LA!SC!EitherVariant, SCP!EitherVariant,
       LA!SC!EmptySources, SCP!EmptySources, LA!SC!ByVariance, SCP!ByVariance,
       LA!SC!ByOperations, SCP!ByOperations, LA!SC!Operations, SCP!Operations,
       LA!SC!Unhandled, SCP!Unhandled, LA!SC!ChainCommutes, SCP!ChainCommutes

-----------------------------------------------------------------------------
\* The updates of a loop do not change its chains.

\* What is known of the function and the graph from the beginning.
Known ==
  /\ code \in Codes
  /\ \A i \in Inst : \A j \in code.operands[i] :
       code.kind[j] # "value" =>
         pdg0[<<j, i>>] # NoEdge /\ ~(pdg0[<<j, i>>] \subseteq Memory)

LEMMA KnownCode == Known => WellFormed(code)
BY FunctionAssumption DEF Known

LEMMA LoopWellFormed ==
  ASSUME NEW c, WellFormed(c), NEW l \in Loop, NEW g
  PROVE  MDP!WellFormed(Program(c, l, g))
<1>1. Payload[l] \subseteq Inst /\ RPO[l] \in [Inst -> Nat]
  BY PassAssumption
<1>2. ShadowEdges(g, Payload[l]) \subseteq Payload[l] \X Payload[l]
  BY DEF ShadowEdges
<1>3. MDP!Kind = LA!MD!Kind /\ MDP!ModRefInfo = LA!MD!ModRefInfo
  BY DEF MDP!Kind, LA!MD!Kind, MDP!ModRefInfo, LA!MD!ModRefInfo
<1> QED BY <1>1, <1>2, <1>3 DEF WellFormed, MDP!WellFormed, Program, Pair

\* An operand that is an instruction has an edge, before and after.
LEMMA SameFollowed ==
  ASSUME IInv, Known, NEW l \in Loop, NEW i \in Inst
  PROVE  MDP!Followed(Program(code, l, pdg), i) = MDP!Followed(Program(code, l, pdg0), i)
<1>1. WellFormed(code) /\ code.operands[i] \subseteq Inst
  BY KnownCode DEF WellFormed
<1>2. ASSUME NEW j \in code.operands[i]
      PROVE  <<j, i>> \in ShadowEdges(pdg, Payload[l])
               <=> <<j, i>> \in ShadowEdges(pdg0, Payload[l])
  <2>1. CASE ~(j \in Payload[l] /\ i \in Payload[l])
    BY <2>1 DEF ShadowEdges
  <2>2. CASE j \in Payload[l] /\ i \in Payload[l]
    <3>1. pdg0[<<j, i>>] # NoEdge /\ ~(pdg0[<<j, i>>] \subseteq Memory)
      BY <1>1, <1>2, <2>2 DEF Known, WellFormed
    <3>2. <<j, i>> \in Pair
      BY <1>1, <1>2 DEF Pair
    <3>3. pdg0[<<j, i>>] \ Memory # {}
      BY <3>1
    <3>4. pdg[<<j, i>>] # NoEdge
      BY <3>1, <3>2, <3>3, KeepsOther DEF OtherInformationKept
    <3> QED BY <2>2, <3>1, <3>4 DEF ShadowEdges
  <2> QED BY <2>1, <2>2
<1> QED BY <1>1, <1>2 DEF MDP!Followed, MDP!InverseEdgeUnits, Program

LEMMA SameChains ==
  ASSUME IInv, Known, NEW l \in Loop, NEW t
  PROVE  MDP!Handled(Program(code, l, pdg), t) = MDP!Handled(Program(code, l, pdg0), t)
<1> DEFINE p == Program(code, l, pdg)
           q == Program(code, l, pdg0)
<1>1. /\ p.nodes = q.nodes /\ p.kind = q.kind
      /\ \A i : MDP!IsSource(p, i) <=> MDP!IsSource(q, i)
  BY DEF Program, MDP!IsSource
<1>2. \A i \in Inst : MDP!Followed(p, i) = MDP!Followed(q, i)
  BY SameFollowed
<1> HIDE DEF p, q
<1>3. \A S \in SUBSET Inst : MDP!Closed(p, t, S) <=> MDP!Closed(q, t, S)
  BY <1>1, <1>2 DEF MDP!Closed
<1>4. MDP!Slice(p, t) = MDP!Slice(q, t)
  BY <1>3 DEF MDP!Slice
<1>5. MDP!Handled(p, t) = MDP!Handled(q, t)
  BY <1>1, <1>4 DEF MDP!Handled
<1> QED BY <1>5 DEF p, q

\* What process has found when it returns, in terms of the graph that run was
\* given.
Found ==
  /\ LA!Incomplete(Program(code, next, pdg0), target) <=> ~wasProcessed
  /\ wasProcessed =>
       LA!Chain(Program(code, next, pdg0), target)
         = [target |-> target, sources |-> sources, operations |-> operations]
  /\ wasProcessed => message = <<>>
  /\ ~wasProcessed =>
       \E i \in LA!Unhandled(Program(code, next, pdg0), target) : message = <<i>>

LEMMA ReturnedChain ==
  ASSUME IInv, Known, next \in Loop, deps = DependenceCacheOf(next),
         MDP!SearchInvariant, mdPc = "done"
  PROVE  Found
<1> DEFINE p == Program(code, next, pdg)
           q == Program(code, next, pdg0)
<1>1. /\ MDP!Handled(p, target) = MDP!Handled(q, target)
      /\ LA!MD!Handled(q, target) = MDP!Handled(q, target)
  BY SameChains, SameReference
<1>2. /\ wasProcessed => sources = {i \in MDP!Handled(p, target) : MDP!IsSource(p, i)}
      /\ wasProcessed => operations = {i \in MDP!Handled(p, target) : MDP!IsOperation(p, i)}
                                        \ {target}
      /\ wasProcessed <=> ~\E i \in MDP!Handled(p, target) : MDP!GivesUp(p, deps, i)
  BY MDP!SearchResult DEF MDP!SliceComplete, MDP!FailsOnUnhandled
<1>3. /\ \A i : MDP!IsSource(p, i) <=> LA!MD!IsSource(q, i)
      /\ \A i : MDP!IsOperation(p, i) <=> LA!MD!IsOperation(q, i)
      /\ \A i : MDP!GivesUp(p, deps, i) <=> LA!MD!GivesUp(q, deps, i)
      /\ deps = LA!MD!CacheOf(q)
  BY DEF Program, MDP!IsSource, LA!MD!IsSource, MDP!IsOperation, LA!MD!IsOperation,
         MDP!GivesUp, LA!MD!GivesUp, MDP!Contains, LA!MD!Contains,
         MDP!DistinctInstructions, LA!MD!DistinctInstructions, DependenceCacheOf
<1>4. /\ wasProcessed => message = <<>>
      /\ ~wasProcessed => \E i \in MDP!Handled(p, target) :
                            MDP!GivesUp(p, deps, i) /\ message = <<i>>
  BY MDP!MessageNames
<1> HIDE DEF p, q
<1>5. LA!Unhandled(q, target) = {i \in MDP!Handled(p, target) : MDP!GivesUp(p, deps, i)}
  BY <1>1, <1>3 DEF LA!Unhandled
<1>6. LA!Incomplete(q, target) <=> ~wasProcessed
  BY <1>2, <1>5 DEF LA!Incomplete
<1>7. /\ wasProcessed => message = <<>>
      /\ ~wasProcessed => \E i \in LA!Unhandled(q, target) : message = <<i>>
  BY <1>5, <1>4
<1>8. ASSUME wasProcessed
      PROVE  LA!Chain(q, target)
               = [target |-> target, sources |-> sources, operations |-> operations]
  BY <1>1, <1>2, <1>3, <1>8 DEF LA!Chain
<1> QED BY <1>6, <1>7, <1>8 DEF q, Found

-----------------------------------------------------------------------------
\* The chains of a loop.

\* Sequence f has the members of S and no others.
Lists(f, S) ==
  /\ f \in Seq(S)
  /\ \A s : s \in S <=> \E k \in 1..Len(f) : f[k] = s

LEMMA Listing ==
  ASSUME NEW S, IsFiniteSet(S), NEW f \in LA!SetToSeqs(S)
  PROVE  Lists(f, S)
<1> DEFINE D == 1..Cardinality(S)
<1>1. Cardinality(S) \in Nat
  BY FS_CardinalityType
<1>2. f \in [D -> S] /\ \A i, j \in D : i # j => f[i] # f[j]
  <2>1. LA!Cardinality(S) = Cardinality(S)
    BY DEF LA!Cardinality, Cardinality
  <2> QED BY <2>1 DEF LA!SetToSeqs
<1>3. IsFiniteSet(D) /\ Cardinality(D) = Cardinality(S)
  BY <1>1, FS_CountingElements, FS_Interval
<1>4. f \in Injection(D, S)
  BY <1>2 DEF Injection, IsInjective
<1>5. f \in Surjection(D, S)
  BY <1>3, <1>4, FS_Injection
<1>6. \A s \in S : \E k \in D : f[k] = s
  BY <1>5 DEF Surjection
<1>7. f \in Seq(S) /\ Len(f) = Cardinality(S)
  BY <1>1, <1>2
<1> QED BY <1>2, <1>6, <1>7 DEF Lists

\* What loop l of function c is judged by, on graph g.
JudgedOf(c, g, l) == LA!Judged(Program(c, l, g), c.liveOut[l])

LEMMA JudgedInPayload ==
  ASSUME NEW c, WellFormed(c), NEW l \in Loop, NEW g
  PROVE  /\ LA!Judged(Program(c, l, g), c.liveOut[l]) \subseteq Payload[l]
         /\ LA!Judged(Program(c, l, g), c.liveOut[l])
              = c.liveOut[l] \cup {d[2] : d \in LA!MD!CacheOf(Program(c, l, g))}
<1> DEFINE p == Program(c, l, g)
           J == LA!Judged(p, c.liveOut[l])
           D == LA!MD!CacheOf(p)
<1>1. /\ c.liveOut[l] \subseteq Payload[l]
      /\ p.memory \subseteq Payload[l]
  BY DEF WellFormed, Program
<1> HIDE DEF p
<1>2. J \subseteq Payload[l]
  BY <1>1 DEF LA!Judged
<1>3. ASSUME NEW j \in J
      PROVE  j \in c.liveOut[l] \cup {d[2] : d \in D}
  <2>1. CASE j \in c.liveOut[l]
    BY <2>1
  <2>2. CASE j \notin c.liveOut[l]
    <3>1. j \in p.memory
      BY <1>3, <2>2 DEF LA!Judged
    <3>2. PICK i \in p.memory :
            /\ p.order[i] < p.order[j]
            /\ "Mod" \in p.modRef[<<j, i>>] /\ p.modRef[<<i, j>>] # {}
      BY <1>3, <2>2 DEF LA!Judged
    <3>3. <<i, j>> \in D
      BY <3>1, <3>2 DEF LA!MD!CacheOf, LA!MD!Dependences
    <3> QED BY <3>3
  <2> QED BY <2>1, <2>2
<1>4. ASSUME NEW d \in D
      PROVE  d[2] \in J
  <2>1. /\ d[1] \in p.memory /\ d[2] \in p.memory
        /\ p.order[d[1]] < p.order[d[2]]
        /\ "Mod" \in p.modRef[<<d[2], d[1]>>] /\ p.modRef[d] # {}
        /\ d = <<d[1], d[2]>>
    BY DEF LA!MD!CacheOf, LA!MD!Dependences
  <2> QED BY <2>1 DEF LA!Judged
<1>5. c.liveOut[l] \subseteq J
  BY DEF LA!Judged
<1> QED BY <1>2, <1>3, <1>4, <1>5 DEF p

LEMMA Concatenation ==
  ASSUME NEW A, NEW B, NEW first, Lists(first, A), NEW second, Lists(second, B)
  PROVE  Lists(first \o second, A \cup B)
<1> DEFINE targets == first \o second
<1>1. first \in Seq(A) /\ \A s \in A : \E k \in 1..Len(first) : first[k] = s
  BY DEF Lists
<1>2. second \in Seq(B) /\ \A s \in B : \E k \in 1..Len(second) : second[k] = s
  BY DEF Lists
<1>3. first \in Seq(A \cup B) /\ second \in Seq(A \cup B)
  BY <1>1, <1>2
<1>4. /\ targets \in Seq(A \cup B)
      /\ Len(targets) = Len(first) + Len(second)
      /\ \A i \in 1..Len(first) + Len(second) :
           targets[i] = IF i <= Len(first) THEN first[i] ELSE second[i - Len(first)]
  BY <1>3, ConcatProperties
<1> HIDE DEF targets
<1>5. Len(first) \in Nat /\ Len(second) \in Nat
  BY <1>3
<1>6. ASSUME NEW t \in A
      PROVE  \E k \in 1..Len(targets) : targets[k] = t
  <2>1. PICK k \in 1..Len(first) : first[k] = t
    BY <1>1
  <2>2. k \in 1..Len(targets) /\ targets[k] = t
    BY <1>4, <1>5, <2>1
  <2> QED BY <2>2
<1>7. ASSUME NEW t \in B
      PROVE  \E k \in 1..Len(targets) : targets[k] = t
  <2>1. PICK k \in 1..Len(second) : second[k] = t
    BY <1>2
  <2>2. /\ Len(first) + k \in 1..Len(first) + Len(second)
        /\ ~(Len(first) + k <= Len(first)) /\ (Len(first) + k) - Len(first) = k
    BY <1>5, <2>1
  <2>3. targets[Len(first) + k] = t
    BY <1>4, <2>1, <2>2
  <2> QED BY <1>4, <2>2, <2>3
<1>8. \A k \in 1..Len(targets) : targets[k] \in A \cup B
  BY <1>4
<1>9. Lists(targets, A \cup B)
  BY <1>4, <1>6, <1>7, <1>8 DEF Lists
<1> QED BY <1>9 DEF targets

-----------------------------------------------------------------------------
(***************************************************************************)
(* The invariant.  Between the analyses of two loops nothing of the last   *)
(* is left (Idle).  During one, the chains are those of the values the     *)
(* loop is judged by on the graph that run was given; those processed so   *)
(* far are whole, or the remark has a message of theirs (Gathered); the    *)
(* detector and the analyzer are within their own invariants (Searching,   *)
(* Judging).                                                               *)
(***************************************************************************)
Fresh ==
  /\ at = 1 /\ scTodo = {} /\ usedMessages = {}
  /\ hasCommutativeOps = FALSE /\ stopProcessing = FALSE

Idle ==
  /\ lms = <<>> /\ current = 0
  /\ mdPc = "done" /\ workList = {} /\ mdRemark = <<>>
  /\ Fresh

\* The number of chains for which process has returned.
Processed == IF mdPc = "search" THEN current - 1 ELSE current

\* Chain e is whole, in loop p.
Whole(p, e) == e = LA!Chain(p, e.target)

\* The chains up to the k-th that cannot be followed to their end, in loop p.
Failed(p, chains, k) == {j \in 1..k : LA!Incomplete(p, chains[j].target)}

\* The remark has one message for each such chain of the first n and names an
\* instruction that is in its way.
Remarked(p, remark, chains, n) ==
  /\ remark \in Seq(Inst)
  /\ Len(remark) = Cardinality(Failed(p, chains, n))
  /\ \A k \in Failed(p, chains, n) :
       remark[Cardinality(Failed(p, chains, k))] \in LA!Unhandled(p, chains[k].target)

Gathered ==
  /\ lms \in Seq(SCP!LoadModifyStore)
  /\ \A t : t \in JudgedOf(code, pdg0, next) <=> \E k \in 1..Len(lms) : lms[k].target = t
  /\ current \in 0..Len(lms)
  /\ \A k \in 1..Processed :
       \/ LA!Incomplete(Program(code, next, pdg0), lms[k].target)
       \/ Whole(Program(code, next, pdg0), lms[k])
  /\ Remarked(Program(code, next, pdg0), mdRemark, lms, Processed)

Searching ==
  /\ mdPc \in {"search", "done"}
  /\ mdPc = "search" =>
       /\ scPc = "waiting"
       /\ current > 0 /\ target = lms[current].target
       /\ MDP!SearchInvariant

Judging ==
  /\ scPc \in {"waiting", "chains", "sources", "done"}
  /\ scPc = "waiting" => Fresh
  /\ scPc # "waiting" => mdPc = "done" /\ current = Len(lms) /\ SCP!IInv

\* Verdict v on loop l of function c is that of the whole chains, unless a remark
\* says otherwise.
Right(c, g, l, v) ==
  v.remark = <<>> =>
       (v.commutative <=> LA!LoopCommutes(Program(c, l, g), c.liveOut[l], v.variance))

Report == [commutative : BOOLEAN, remark : Seq(Inst), variance : [Inst -> Variance]]

Reported ==
  /\ verdicts \in Seq(Report)
  /\ Len(verdicts) = Len(result)
  /\ \A k \in 1..Len(verdicts) : Right(code, pdg0, result[k].loop, verdicts[k])

\* What has nothing to do with the state of an analysis.
Around ==
  /\ Known
  /\ pc \in {"create", "export", "execute"} =>
       next \in Loop /\ deps = DependenceCacheOf(next)
  /\ Reported

Analyses ==
  /\ Around
  /\ scPc = "idle" => Idle
  /\ scPc # "idle" => /\ pc = "execute" /\ pos = Len(dos)
                      /\ Gathered /\ Searching /\ Judging

LEMMA FailedCount ==
  ASSUME NEW p, NEW chains, NEW k \in Nat
  PROVE  /\ IsFiniteSet(Failed(p, chains, k))
         /\ Cardinality(Failed(p, chains, k)) \in Nat
         /\ Cardinality(Failed(p, chains, k)) = 0 <=> Failed(p, chains, k) = {}
         /\ \A j \in Failed(p, chains, k) :
              Cardinality(Failed(p, chains, j)) \in 1..Cardinality(Failed(p, chains, k))
<1> DEFINE F(n) == Failed(p, chains, n)
<1>1. ASSUME NEW n \in Nat
      PROVE  /\ IsFiniteSet(F(n)) /\ Cardinality(F(n)) \in Nat
             /\ Cardinality(F(n)) = 0 <=> F(n) = {}
  <2>1. F(n) \subseteq 1..n /\ IsFiniteSet(1..n)
    BY FS_Interval DEF Failed
  <2>2. IsFiniteSet(F(n))
    BY <2>1, FS_Subset
  <2> QED BY <2>2, FS_CardinalityType, FS_EmptySet
<1>2. ASSUME NEW j \in F(k)
      PROVE  Cardinality(F(j)) \in 1..Cardinality(F(k))
  <2>1. j \in Nat /\ j \in F(j) /\ F(j) \subseteq F(k)
    BY DEF Failed
  <2>2. Cardinality(F(j)) <= Cardinality(F(k))
    BY <1>1, <2>1, FS_Subset
  <2>3. Cardinality(F(j)) \in Nat /\ Cardinality(F(j)) # 0
    BY <1>1, <2>1
  <2> QED BY <1>1, <2>2, <2>3
<1> QED BY <1>1, <1>2

\* With the next chain there is one more, or none.
LEMMA FailedNext ==
  ASSUME NEW p, NEW chains, NEW k \in Nat
  PROVE  /\ LA!Incomplete(p, chains[k + 1].target) =>
              Cardinality(Failed(p, chains, k + 1)) = Cardinality(Failed(p, chains, k)) + 1
         /\ ~LA!Incomplete(p, chains[k + 1].target) =>
              Failed(p, chains, k + 1) = Failed(p, chains, k)
<1>1. k + 1 \notin 1..k /\ 1..k + 1 = 1..k \cup {k + 1}
  OBVIOUS
<1>2. k + 1 \notin Failed(p, chains, k)
  BY <1>1 DEF Failed
<1>3. ASSUME LA!Incomplete(p, chains[k + 1].target)
      PROVE  Failed(p, chains, k + 1) = Failed(p, chains, k) \cup {k + 1}
  BY <1>1, <1>3 DEF Failed
<1>4. ASSUME ~LA!Incomplete(p, chains[k + 1].target)
      PROVE  Failed(p, chains, k + 1) = Failed(p, chains, k)
  BY <1>1, <1>4 DEF Failed
<1>5. IsFiniteSet(Failed(p, chains, k))
  BY FailedCount
<1> QED BY <1>2, <1>3, <1>4, <1>5, FS_AddElement

LEMMA InitAnalyses == FunctionInit => Analyses
<1> SUFFICES ASSUME FunctionInit PROVE Analyses
  OBVIOUS
<1>1. Known
  <2>1. WellFormed(code) /\ code \in Codes /\ pdg0 = pdg
    BY FunctionAssumption DEF FunctionInit, Init
  <2> QED BY <2>1 DEF FunctionInit, UsesAreEdges, Known
<1>2. Reported
  <2>1. verdicts = <<>> /\ result = <<>>
    BY DEF FunctionInit, Init
  <2> QED BY <2>1 DEF Reported
<1>3. Idle /\ scPc = "idle" /\ pc = "start"
  BY DEF FunctionInit, Init, LA!Init, Idle, Fresh
<1> QED BY <1>1, <1>2, <1>3 DEF Analyses, Around

\* The loops and their dependences are as they were, as long as run is in the
\* body of a loop.
LEMMA Surroundings ==
  ASSUME Around, UNCHANGED <<code, pdg0, verdicts, result>>,
         pc' \in {"create", "export", "execute"} =>
           pc \in {"create", "export", "execute"} /\ next' = next /\ deps' = deps
  PROVE  Around'
<1>1. Known'
  BY DEF Around, Known
<1>2. Reported'
  BY DEF Around, Reported
<1>3. pc' \in {"create", "export", "execute"} =>
        next' \in Loop /\ deps' = DependenceCacheOf(next)'
  BY DEF Around, DependenceCacheOf
<1> QED BY <1>1, <1>2, <1>3 DEF Around

\* What run does between the analyses.
LEMMA PassAnalyses ==
  ASSUME IInv, Analyses, TakeUpLoop \/ PassStep
  PROVE  Analyses'
<1>1. scPc = "idle"
  <2>1. pc = "execute" => pos < Len(dos)
    BY DEF TakeUpLoop, PassStep, BeginLoop, Start, SkipLoop, CreateUpdates, AllCreated,
           ExportUpdates, ExecuteUpdate, ReverseUpdate, EndLoop, Finish
  <2>2. pos \in 0..Len(dos) /\ Len(dos) \in Nat
    BY DEF IInv, TypeOK
  <2> QED BY <2>1, <2>2 DEF Analyses
<1>2. UNCHANGED <<code, pdg0, verdicts, result>> /\ UNCHANGED analysis
  BY DEF TakeUpLoop, PassStep, BeginLoop, Start, SkipLoop, CreateUpdates, AllCreated,
         ExportUpdates, ExecuteUpdate, ReverseUpdate, EndLoop, Finish
<1>3. scPc' = "idle" /\ Idle'
  BY <1>1, <1>2 DEF Analyses, analysis, Idle, Fresh
<1>4. CASE PassStep
  <2>1. pc' \in {"create", "export", "execute"} =>
          pc \in {"create", "export", "execute"} /\ next' = next /\ deps' = deps
    BY <1>4 DEF PassStep, Start, SkipLoop, CreateUpdates, AllCreated, ExportUpdates,
           ExecuteUpdate, ReverseUpdate, EndLoop, Finish, locals, CreateDirectory,
           WriteJSONToFile
  <2>2. Around'
    BY <1>2, <2>1, Surroundings DEF Analyses
  <2> QED BY <1>3, <2>2 DEF Analyses
<1>5. CASE TakeUpLoop
  <2>1. next' \in Loop /\ deps' = DependenceCacheOf(next)'
    <3>1. next' = next /\ Analyzed(next) /\ deps' = DependenceCacheOf(next)
      BY <1>5 DEF TakeUpLoop, BeginLoop
    <3>2. next \in Loop
      BY <3>1, PassAssumption DEF Analyzed
    <3> QED BY <1>2, <3>1, <3>2 DEF DependenceCacheOf
  <2>2. Known' /\ Reported'
    BY <1>2 DEF Analyses, Around, Known, Reported
  <2> QED BY <1>3, <2>1, <2>2 DEF Analyses, Around
<1> QED BY <1>4, <1>5

-----------------------------------------------------------------------------
\* The steps of the analyses.

LEMMA AnalysisAround ==
  ASSUME Analyses, UNCHANGED <<vars, code, verdicts>>
  PROVE  Around' /\ UNCHANGED <<code, next, pdg, pdg0, deps, variance, pc, pos, dos>>
<1>1. UNCHANGED <<code, pdg0, verdicts, result, pc, next, deps, pdg, variance, pos, dos>>
  BY DEF vars, locals, files
<1> QED BY <1>1, Surroundings DEF Analyses

\* The chains are gathered.
LEMMA BeginAnalyses ==
  ASSUME IInv, Analyses, pc = "execute", pos = Len(dos),
         UNCHANGED <<vars, code, verdicts>>, LA!Begin
  PROVE  Analyses'
<1>1. Around' /\ UNCHANGED <<code, next, pdg, pdg0, deps, variance, pc, pos, dos>>
  BY AnalysisAround
<1>2. /\ Known /\ next \in Loop /\ deps = DependenceCacheOf(next)
      /\ WellFormed(code)
  BY KnownCode DEF Analyses, Around
<1>3. PICK live : live = code.liveOut[next]
  OBVIOUS
<1>4. PICK later : later = {d[2] : d \in deps}
  OBVIOUS
<1>5. PICK first \in LA!SetToSeqs(live), second \in LA!SetToSeqs(later) :
        lms' = [k \in DOMAIN (first \o second) |->
                  [target |-> (first \o second)[k], sources |-> {}, operations |-> {}]]
  BY <1>3, <1>4 DEF LA!Begin
<1>6. /\ JudgedOf(code, pdg0, next) = live \cup later
      /\ live \cup later \subseteq Payload[next]
      /\ IsFiniteSet(live) /\ IsFiniteSet(later)
  <2>1. /\ JudgedOf(code, pdg0, next) = live \cup later
        /\ live \cup later \subseteq Payload[next]
    BY <1>2, <1>3, <1>4, JudgedInPayload DEF JudgedOf, DependenceCacheOf
  <2> QED BY <1>2, <2>1, FS_Subset DEF WellFormed
<1>7. PICK targets : targets = first \o second
  OBVIOUS
<1>8. Lists(targets, JudgedOf(code, pdg0, next))
  <2>1. Lists(first, live) /\ Lists(second, later)
    BY <1>6, <1>5, Listing
  <2> QED BY <1>6, <1>7, <2>1, Concatenation
<1>9. /\ targets \in Seq(Payload[next])
      /\ \A t : t \in JudgedOf(code, pdg0, next) <=> \E k \in 1..Len(targets) : targets[k] = t
  BY <1>6, <1>8 DEF Lists
<1>10. lms' = [k \in DOMAIN targets |->
                [target |-> targets[k], sources |-> {}, operations |-> {}]]
  BY <1>5, <1>7
<1>11. /\ scPc = "idle" /\ scPc' = "waiting" /\ Idle
      /\ UNCHANGED <<current, mdPc, mdRemark>> /\ Fresh'
  BY DEF LA!Begin, LA!detector, Analyses, Idle, Fresh
<1>12. /\ DOMAIN targets = 1..Len(targets) /\ Len(targets) \in Nat
      /\ \A k \in 1..Len(targets) : targets[k] \in Inst
  BY <1>2, <1>9, PassAssumption
<1>13. lms' \in Seq(SCP!LoadModifyStore) /\ Len(lms') = Len(targets)
  <2>1. lms' \in [1..Len(targets) -> SCP!LoadModifyStore]
    BY <1>10, <1>12 DEF SCP!LoadModifyStore
  <2> QED BY <1>12, <2>1
<1>14. \A k \in 1..Len(targets) : lms'[k].target = targets[k]
  BY <1>10, <1>12
<1>15. mdPc' = "done" /\ current' = 0 /\ mdRemark' = <<>>
  BY <1>11 DEF Idle
<1>16. Gathered'
  <2>1. Processed' = 0
    BY <1>15 DEF Processed
  <2>2. \A t : t \in JudgedOf(code, pdg0, next)'
                 <=> \E k \in 1..Len(lms') : lms'[k].target = t
    BY <1>1, <1>9, <1>13, <1>14
  <2>3. current' \in 0..Len(lms')
    BY <1>12, <1>13, <1>15
  <2>4. Remarked(Program(code, next, pdg0), mdRemark, lms, Processed)'
    <3>1. Failed(Program(code, next, pdg0)', lms', 0) = {}
      BY DEF Failed
    <3>2. Cardinality(Failed(Program(code, next, pdg0)', lms', 0)) = 0
      BY <3>1, FailedCount
    <3> QED BY <1>15, <2>1, <3>1, <3>2 DEF Remarked
  <2> QED BY <1>13, <1>15, <2>1, <2>2, <2>3, <2>4 DEF Gathered
<1>17. Searching' /\ Judging'
  BY <1>11, <1>15 DEF Searching, Judging
<1> QED BY <1>1, <1>11, <1>16, <1>17 DEF Analyses

\* process is called for a chain.
Called ==
  /\ MDP!WellFormed(Program(code, next, pdg))
  /\ target \in MDP!Instructions(Program(code, next, pdg), Inst)
  /\ mdPc = "search" /\ workList = {target} /\ visited = {}
  /\ sources = {} /\ operations = {} /\ wasProcessed = TRUE /\ message = <<>>

LEMMA CalledSearch == Called => MDP!SearchInvariant
BY MDP!CallSearch DEF Called

LEMMA CallProcessAnalyses ==
  ASSUME IInv, Analyses, pc = "execute", pos = Len(dos),
         UNCHANGED <<vars, code, verdicts>>, LA!CallProcess
  PROVE  Analyses'
<1>1. Around' /\ UNCHANGED <<code, next, pdg, pdg0, deps, variance, pc, pos, dos>>
  BY AnalysisAround
<1>2. /\ mdPc = "done" /\ current < Len(lms)
      /\ current' = current + 1
      /\ mdPc' = "search" /\ target' = lms[current + 1].target
      /\ workList' = {target'} /\ visited' = {}
      /\ sources' = {} /\ operations' = {} /\ wasProcessed' = TRUE /\ message' = <<>>
      /\ UNCHANGED <<lms, mdRemark, scPc, at, scTodo, hasCommutativeOps, stopProcessing,
                     usedMessages>>
  BY DEF LA!CallProcess, LA!Enter, LA!analyzer
<1>3. scPc # "idle"
  <2>1. Idle => current = 0 /\ Len(lms) = 0
    BY DEF Idle
  <2> QED BY <1>2, <2>1 DEF Analyses
<1>4. Gathered /\ Searching /\ Judging
  BY <1>3 DEF Analyses
<1>5. current \in Nat /\ Len(lms) \in Nat /\ current + 1 \in 1..Len(lms)
  BY <1>2, <1>4 DEF Gathered
<1>6. scPc = "waiting" /\ Fresh
  BY <1>2, <1>4, <1>5 DEF Judging
<1>7. target' \in Payload[next] /\ next \in Loop /\ WellFormed(code)
  <2>1. lms[current + 1].target \in JudgedOf(code, pdg0, next)
    BY <1>4, <1>5 DEF Gathered
  <2>2. next \in Loop /\ WellFormed(code)
    BY KnownCode DEF Analyses, Around
  <2>3. JudgedOf(code, pdg0, next) \subseteq Payload[next]
    BY <2>2, JudgedInPayload DEF JudgedOf
  <2> QED BY <1>2, <2>1, <2>2, <2>3
<1>8. MDP!SearchInvariant'
  <2>1. MDP!WellFormed(Program(code, next, pdg))
    BY <1>7, LoopWellFormed
  <2>2. target' \in Inst /\ code.kind[target'] # "value"
    BY <1>7, PassAssumption DEF WellFormed
  <2>3. target' \in MDP!Instructions(Program(code, next, pdg), Inst)
    BY <2>2 DEF MDP!Instructions, Program
  <2>4. Called'
    BY <1>1, <1>2, <2>1, <2>3 DEF Called
  <2>5. Called' => MDP!SearchInvariant'
    BY CalledSearch, PTL
  <2> QED BY <2>4, <2>5
<1>9. Processed' = Processed
  BY <1>2, <1>5 DEF Processed
<1>10. Gathered'
  BY <1>1, <1>2, <1>4, <1>5, <1>9 DEF Gathered, Remarked
<1>11. Searching' /\ Judging'
  BY <1>2, <1>5, <1>6, <1>8 DEF Searching, Judging, Fresh
<1> QED BY <1>1, <1>2, <1>3, <1>10, <1>11 DEF Analyses

\* One turn of the search.
LEMMA DetectAnalyses ==
  ASSUME IInv, Analyses, pc = "execute", pos = Len(dos),
         UNCHANGED <<vars, code, verdicts>>, LA!Detect
  PROVE  Analyses'
<1>1. Around' /\ UNCHANGED <<code, next, pdg, pdg0, deps, variance, pc, pos, dos>>
  BY AnalysisAround
<1>2. PICK i \in workList : LA!MD!PassOver(i) \/ LA!MD!Process(i)
  BY DEF LA!Detect
<1>3. MDP!PassOver(i) \/ MDP!Process(i)
  BY <1>2, SameActions
<1>4. /\ UNCHANGED <<lms, current, mdRemark, scPc, at, scTodo, hasCommutativeOps,
                     stopProcessing, usedMessages>>
      /\ UNCHANGED <<mdPc, target>> /\ mdPc = "search"
  BY <1>2 DEF LA!Detect, LA!analyzer, LA!MD!PassOver, LA!MD!Process
<1>5. scPc # "idle" /\ Gathered /\ Searching /\ Judging
  BY <1>4 DEF Analyses, Idle
<1>6. MDP!SearchInvariant'
  BY <1>3, <1>4, <1>5, MDP!PassOverSearch, MDP!ProcessSearch DEF Searching
<1>7. Processed' = Processed
  BY <1>4 DEF Processed
<1>8. Gathered'
  BY <1>1, <1>4, <1>5, <1>7 DEF Gathered, Remarked
<1>9. Searching' /\ Judging'
  BY <1>4, <1>5, <1>6 DEF Searching, Judging, Fresh
<1> QED BY <1>1, <1>4, <1>5, <1>8, <1>9 DEF Analyses

\* process returns and its chain is whole, or the remark gets its message.
LEMMA ProcessReturnsAnalyses ==
  ASSUME IInv, IInv', Analyses, pc = "execute", pos = Len(dos),
         UNCHANGED <<vars, code, verdicts>>, LA!ProcessReturns
  PROVE  Analyses'
<1> DEFINE p == Program(code, next, pdg0)
           chain == [target |-> target, sources |-> sources, operations |-> operations']
<1>1. Around' /\ UNCHANGED <<code, next, pdg, pdg0, deps, variance, pc, pos, dos>>
  BY AnalysisAround
<1>2. /\ LA!MD!Finish
      /\ mdPc = "search" /\ mdPc' = "done"
      /\ UNCHANGED <<target, sources, wasProcessed, message>>
      /\ lms' = [lms EXCEPT ![current] = chain]
      /\ mdRemark' = IF wasProcessed THEN mdRemark ELSE mdRemark \o message
      /\ UNCHANGED <<current, scPc, at, scTodo, hasCommutativeOps, stopProcessing,
                     usedMessages>>
  BY DEF LA!ProcessReturns, LA!Keep, LA!MD!Finish, LA!analyzer
<1>3. scPc # "idle" /\ Gathered /\ Searching /\ Judging
  BY <1>2 DEF Analyses, Idle
<1>4. /\ scPc = "waiting" /\ Fresh
      /\ current \in 1..Len(lms) /\ target = lms[current].target /\ Len(lms) \in Nat
      /\ lms \in Seq(SCP!LoadModifyStore)
  BY <1>2, <1>3 DEF Searching, Judging, Gathered
<1>5. MDP!SearchInvariant'
  BY <1>2, <1>3, SameActions, MDP!FinishSearch DEF Searching
<1>6. Found'
  <2>1. (IInv /\ Known /\ next \in Loop /\ deps = DependenceCacheOf(next)
           /\ MDP!SearchInvariant /\ mdPc = "done")' => Found'
    BY ReturnedChain, PTL
  <2>2. Known' /\ (next \in Loop)' /\ (deps = DependenceCacheOf(next))'
    BY <1>1 DEF Around
  <2> QED BY <1>2, <1>5, <2>1, <2>2
<1>7. /\ LA!Incomplete(p, target) <=> ~wasProcessed
      /\ wasProcessed => LA!Chain(p, target) = chain
      /\ ~wasProcessed => \E i \in LA!Unhandled(p, target) : message = <<i>>
  BY <1>1, <1>2, <1>6 DEF Found
<1>8. chain \in SCP!LoadModifyStore
  <2>1. target \in Inst
    <3>1. lms[current] \in SCP!LoadModifyStore
      BY <1>4
    <3> QED BY <1>4, <3>1 DEF SCP!LoadModifyStore
  <2>2. MDP!Found'
    BY <1>5 DEF MDP!SearchInvariant
  <2>3. sources' \subseteq Inst /\ operations' \subseteq Inst
    BY <2>2 DEF MDP!Found, MDP!Slice
  <2> QED BY <1>2, <2>1, <2>3 DEF SCP!LoadModifyStore
<1>9. /\ lms' \in Seq(SCP!LoadModifyStore) /\ Len(lms') = Len(lms)
      /\ lms'[current] = chain
      /\ \A k \in 1..Len(lms) : k # current => lms'[k] = lms[k]
  BY <1>2, <1>4, <1>8
<1>10. /\ chain.target = target
       /\ \A k \in 1..Len(lms) : lms'[k].target = lms[k].target
  BY <1>4, <1>9
<1>11. Processed = current - 1 /\ Processed' = current
  BY <1>2 DEF Processed
<1> HIDE DEF chain, p
<1>12. ASSUME NEW k \in 1..current
       PROVE  LA!Incomplete(p, lms'[k].target) \/ Whole(p, lms'[k])
  <2>1. CASE k = current
    BY <1>4, <1>7, <1>9, <1>10, <2>1 DEF Whole
  <2>2. CASE k # current
    <3>1. k \in 1..Processed /\ lms'[k] = lms[k]
      BY <1>4, <1>9, <1>11, <2>2
    <3> QED BY <1>3, <3>1 DEF Gathered, p
  <2> QED BY <2>1, <2>2
<1>13. /\ current - 1 \in Nat /\ (current - 1) + 1 = current
       /\ \A k \in 1..current : Failed(p, lms', k) = Failed(p, lms, k)
       /\ Failed(p, lms', current - 1) = Failed(p, lms, current - 1)
  BY <1>4, <1>10 DEF Failed
<1>14. Remarked(p, mdRemark, lms, current - 1)
  BY <1>3, <1>11 DEF Gathered, p
<1>15. Remarked(p, mdRemark', lms', current)
  <2> DEFINE F(k) == Failed(p, lms, k)
             n == Cardinality(F(current - 1))
  <2>1. /\ mdRemark \in Seq(Inst) /\ Len(mdRemark) = n /\ n \in Nat
        /\ \A k \in F(current - 1) :
             /\ Cardinality(F(k)) \in 1..n
             /\ mdRemark[Cardinality(F(k))] \in LA!Unhandled(p, lms[k].target)
    BY <1>13, <1>14, FailedCount DEF Remarked
  <2>2. \A k \in F(current) : k \in 1..current /\ k \in 1..Len(lms)
    BY <1>4 DEF Failed
  <2>3. CASE wasProcessed
    <3>1. F(current) = F(current - 1)
      BY <1>4, <1>7, <1>13, <2>3, FailedNext
    <3>2. mdRemark' = mdRemark
      BY <1>2, <2>3
    <3> QED BY <1>4, <1>10, <1>13, <2>1, <2>2, <3>1, <3>2 DEF Remarked
  <2>4. CASE ~wasProcessed
    <3>1. PICK i \in LA!Unhandled(p, target) : message = <<i>>
      BY <1>7, <2>4
    <3>2. Cardinality(F(current)) = n + 1
      BY <1>4, <1>7, <1>13, <2>4, FailedNext
    <3>3. i \in Inst
      BY <3>1 DEF LA!Unhandled, LA!MD!Handled, LA!MD!Slice
    <3>4. mdRemark' = mdRemark \o <<i>> /\ <<i>> \in Seq(Inst) /\ Len(<<i>>) = 1
      BY <1>2, <2>4, <3>1, <3>3
    <3>5. /\ mdRemark' \in Seq(Inst) /\ Len(mdRemark') = n + 1
          /\ \A m \in 1..n : mdRemark'[m] = mdRemark[m]
          /\ mdRemark'[n + 1] = i
      BY <2>1, <3>4, ConcatProperties
    <3>6. ASSUME NEW k \in F(current)
          PROVE  mdRemark'[Cardinality(F(k))] \in LA!Unhandled(p, lms[k].target)
      <4>1. CASE k = current
        BY <1>4, <3>1, <3>2, <3>5, <4>1
      <4>2. CASE k # current
        <5>1. k \in F(current - 1)
          BY <1>4, <4>2 DEF Failed
        <5> QED BY <2>1, <3>5, <5>1
      <4> QED BY <4>1, <4>2
    <3> QED BY <1>4, <1>10, <1>13, <2>2, <3>2, <3>5, <3>6 DEF Remarked
  <2> QED BY <2>3, <2>4
<1>16. Gathered'
  <2>1. \A t : t \in JudgedOf(code, pdg0, next)'
                 <=> \E k \in 1..Len(lms') : lms'[k].target = t
    BY <1>1, <1>3, <1>9, <1>10 DEF Gathered
  <2>2. current' \in 0..Len(lms')
    BY <1>2, <1>4, <1>9
  <2>3. p' = p
    BY <1>1 DEF p
  <2> QED BY <1>2, <1>9, <1>11, <1>12, <1>15, <2>1, <2>2, <2>3 DEF Gathered, p
<1>17. Searching' /\ Judging'
  BY <1>2, <1>3, <1>4 DEF Searching, Judging, Fresh
<1> QED BY <1>1, <1>2, <1>3, <1>16, <1>17 DEF Analyses
-----------------------------------------------------------------------------
\* The verdict on a loop.

\* What the proofs about the analyzer assume.
LEMMA AnalyzerAssumption == SCP!CommutativityAssumption
BY FunctionAssumption DEF SCP!CommutativityAssumption

\* analyze is called with the chains.
CalledAnalyzer ==
  /\ lms \in Seq(SCP!LoadModifyStore) /\ variance \in [Inst -> SCP!Variance]
  /\ scPc = "chains" /\ Fresh

LEMMA CalledAnalyze == CalledAnalyzer => SCP!IInv
BY SCP!CallInvariant, AnalyzerAssumption DEF CalledAnalyzer, Fresh

LEMMA CallAnalyzeAnalyses ==
  ASSUME IInv, Analyses, pc = "execute", pos = Len(dos),
         UNCHANGED <<vars, code, verdicts>>, LA!CallAnalyze
  PROVE  Analyses'
<1>1. Around' /\ UNCHANGED <<code, next, pdg, pdg0, deps, variance, pc, pos, dos>>
  BY AnalysisAround
<1>2. /\ mdPc = "done" /\ current = Len(lms) /\ scPc = "waiting" /\ scPc' = "chains"
      /\ UNCHANGED <<lms, current, mdPc, target, mdRemark, at, scTodo,
                     hasCommutativeOps, stopProcessing, usedMessages>>
  BY DEF LA!CallAnalyze, LA!detector
<1>3. Gathered /\ Searching /\ Judging /\ Fresh
  BY <1>2 DEF Analyses, Judging
<1>4. SCP!IInv'
  <2>1. variance \in [Inst -> SCP!Variance]
    BY DEF IInv, TypeOK, Variance, SCP!Variance
  <2>2. lms \in Seq(SCP!LoadModifyStore) /\ Fresh'
    BY <1>2, <1>3 DEF Gathered, Fresh
  <2>3. CalledAnalyzer'
    BY <1>1, <1>2, <2>1, <2>2 DEF CalledAnalyzer, Fresh
  <2>4. CalledAnalyzer' => SCP!IInv'
    BY CalledAnalyze, PTL
  <2> QED BY <2>3, <2>4
<1>5. Processed' = Processed
  BY <1>2 DEF Processed
<1>6. Gathered'
  BY <1>1, <1>2, <1>3, <1>5 DEF Gathered, Remarked
<1>7. Searching' /\ Judging'
  BY <1>2, <1>3, <1>4 DEF Searching, Judging
<1> QED BY <1>1, <1>2, <1>6, <1>7 DEF Analyses

\* One turn of analyze.
LEMMA AnalyzeAnalyses ==
  ASSUME IInv, Analyses, pc = "execute", pos = Len(dos),
         UNCHANGED <<vars, code, verdicts>>, LA!Analyze
  PROVE  Analyses'
<1>1. Around' /\ UNCHANGED <<code, next, pdg, pdg0, deps, variance, pc, pos, dos>>
  BY AnalysisAround
<1>2. /\ SCP!Next /\ UNCHANGED <<current, mdPc, target, mdRemark>>
  BY SameAnalyzer DEF LA!Analyze, LA!detector
<1>3. lms' = lms /\ scPc \in {"chains", "sources"}
  BY <1>2 DEF SCP!Next, SCP!EnterChain, SCP!SourcesVisited, SCP!Return, SCP!VisitSource,
              SCP!Accept, SCP!Reject
<1>4. Gathered /\ Searching /\ Judging
  BY <1>3 DEF Analyses
<1>5. SCP!IInv'
  BY <1>2, <1>3, <1>4, AnalyzerAssumption, SCP!InvariantStep DEF Judging
<1>6. scPc' \in {"chains", "sources", "done"}
  BY <1>5 DEF SCP!IInv, SCP!TypeOK
<1>7. Processed' = Processed
  BY <1>2 DEF Processed
<1>8. Gathered'
  BY <1>1, <1>2, <1>3, <1>4, <1>7 DEF Gathered, Remarked
<1>9. Searching' /\ Judging'
  BY <1>2, <1>3, <1>4, <1>5, <1>6 DEF Searching, Judging
<1> QED BY <1>1, <1>6, <1>8, <1>9 DEF Analyses

\* The verdict that analyze returns, on chains that are whole.
LEMMA VerdictRight ==
  ASSUME Analyses, scPc = "done"
  PROVE  Right(code, pdg0, next, [commutative |-> hasCommutativeOps,
                                  remark |-> mdRemark, variance |-> variance])
<1> DEFINE p == Program(code, next, pdg0)
           J == JudgedOf(code, pdg0, next)
           v == [commutative |-> hasCommutativeOps, remark |-> mdRemark,
                 variance |-> variance]
<1>1. Gathered /\ Judging /\ mdPc = "done" /\ current = Len(lms) /\ SCP!IInv
  BY DEF Analyses, Judging
<1>2. Processed = Len(lms) /\ Len(lms) \in Nat
  BY <1>1 DEF Processed, Gathered
<1>3. \A t : t \in J <=> \E k \in 1..Len(lms) : lms[k].target = t
  BY <1>1 DEF Gathered
<1>4. ASSUME mdRemark = <<>>
      PROVE  \A k \in 1..Len(lms) : ~LA!Incomplete(p, lms[k].target)
  <2>1. Cardinality(Failed(p, lms, Len(lms))) = 0
    BY <1>1, <1>2, <1>4 DEF Gathered, Remarked
  <2>2. Failed(p, lms, Len(lms)) = {}
    BY <1>2, <2>1, FailedCount
  <2> QED BY <2>2 DEF Failed
<1>5. hasCommutativeOps <=>
        lms # <<>> /\ \A k \in 1..Len(lms) : SCP!ChainCommutes(variance, lms[k])
  BY <1>1 DEF SCP!IInv, SCP!Progress, SCP!Verdict
<1>6. ASSUME mdRemark = <<>>
      PROVE  hasCommutativeOps <=> LA!LoopCommutes(p, code.liveOut[next], variance)
  <2>1. \A k \in 1..Len(lms) : lms[k] = LA!Chain(p, lms[k].target)
    BY <1>1, <1>2, <1>4, <1>6 DEF Gathered, Whole
  <2>2. lms # <<>> <=> J # {}
    <3>1. lms # <<>> <=> Len(lms) > 0
      BY <1>1 DEF Gathered
    <3>2. Len(lms) > 0 <=> \E k \in 1..Len(lms) : TRUE
      BY <1>2
    <3> QED BY <1>3, <3>1, <3>2
  <2>3. (\A k \in 1..Len(lms) : SCP!ChainCommutes(variance, lms[k]))
          <=> \A t \in J : LA!SC!ChainCommutes(variance, LA!Chain(p, t))
    <3>1. \A k \in 1..Len(lms) :
            SCP!ChainCommutes(variance, lms[k])
              <=> LA!SC!ChainCommutes(variance, LA!Chain(p, lms[k].target))
      BY <2>1, SameAnalyzer
    <3> QED BY <1>3, <3>1
  <2> QED BY <1>5, <2>2, <2>3 DEF LA!LoopCommutes, JudgedOf
<1> QED BY <1>6 DEF Right

LEMMA ReportAnalyses ==
  ASSUME IInv, IInv', Analyses, ReportLoop
  PROVE  Analyses'
<1> DEFINE v == [commutative |-> hasCommutativeOps, remark |-> mdRemark,
                 variance |-> variance]
           r == [loop |-> next, shadow |-> ShadowEdges(pdg, Payload[next])]
<1>1. /\ scPc = "done" /\ scPc' = "idle" /\ Idle' /\ pc = "execute" /\ pc' = "reverse"
      /\ UNCHANGED <<code, pdg0>>
      /\ verdicts' = Append(verdicts, v) /\ result' = Append(result, r)
  BY DEF ReportLoop, LA!End, AnalyzeLoop, Analyses, Judging, Searching, Idle, Fresh
<1>2. Around /\ SCP!IInv /\ next \in Loop /\ Known
  BY <1>1 DEF Analyses, Judging, Around
<1>3. v \in Report
  <2>1. Gathered
    BY <1>1 DEF Analyses
  <2>2. mdRemark \in Seq(Inst)
    BY <2>1 DEF Gathered, Remarked
  <2>3. hasCommutativeOps \in BOOLEAN /\ variance \in [Inst -> Variance]
    BY <1>2 DEF SCP!IInv, SCP!TypeOK, IInv, TypeOK
  <2> QED BY <2>2, <2>3 DEF Report
<1>4. Right(code, pdg0, r.loop, v)
  BY <1>1, VerdictRight
<1> HIDE DEF v, r
<1>5. /\ verdicts \in Seq(Report) /\ Len(verdicts) = Len(result)
      /\ result \in Seq([loop : Loop, shadow : SUBSET Pair])
      /\ \A k \in 1..Len(verdicts) : Right(code, pdg0, result[k].loop, verdicts[k])
  BY <1>2 DEF Around, Reported, IInv, TypeOK
<1>6. /\ verdicts' \in Seq(Report) /\ Len(verdicts') = Len(verdicts) + 1
      /\ Len(verdicts) \in Nat /\ Len(result') = Len(result) + 1
      /\ verdicts'[Len(verdicts) + 1] = v /\ result'[Len(verdicts) + 1] = r
      /\ \A k \in 1..Len(verdicts) : verdicts'[k] = verdicts[k] /\ result'[k] = result[k]
  BY <1>1, <1>3, <1>5
<1>7. ASSUME NEW k \in 1..Len(verdicts')
      PROVE  Right(code, pdg0, result'[k].loop, verdicts'[k])
  <2>1. CASE k = Len(verdicts) + 1
    BY <1>4, <1>6, <2>1
  <2>2. CASE k # Len(verdicts) + 1
    <3>1. k \in 1..Len(verdicts)
      BY <1>6, <2>2
    <3> QED BY <1>5, <1>6, <3>1
  <2> QED BY <2>1, <2>2
<1>8. Reported'
  BY <1>1, <1>5, <1>6, <1>7 DEF Reported
<1>9. Known'
  BY <1>1, <1>2 DEF Known
<1> QED BY <1>1, <1>8, <1>9 DEF Analyses, Around

-----------------------------------------------------------------------------

LEMMA AnalysesStep ==
  ASSUME IInv, IInv', Analyses, [FunctionNext]_functionVars
  PROVE  Analyses'
<1>1. CASE TakeUpLoop \/ PassStep
  BY <1>1, PassAnalyses
<1>2. CASE AnalysisStep
  BY <1>2, BeginAnalyses, CallProcessAnalyses, DetectAnalyses, ProcessReturnsAnalyses,
     CallAnalyzeAnalyses, AnalyzeAnalyses DEF AnalysisStep, LA!Next
<1>3. CASE ReportLoop
  BY <1>3, ReportAnalyses
<1>4. CASE UNCHANGED functionVars
  <2>1. UNCHANGED <<vars, code, verdicts>> /\ UNCHANGED analysis
    BY <1>4 DEF functionVars
  <2>2. Around' /\ UNCHANGED <<code, next, pdg, pdg0, deps, variance, pc, pos, dos>>
    BY <2>1, AnalysisAround
  <2>3. UNCHANGED <<lms, current, mdPc, target, workList, visited, sources, operations,
                    wasProcessed, message, mdRemark, scPc, at, scTodo,
                    hasCommutativeOps, stopProcessing, usedMessages>>
    BY <2>1 DEF analysis
  <2>4. Idle => Idle'
    BY <2>3 DEF Idle, Fresh
  <2>5. Gathered => Gathered'
    BY <2>2, <2>3 DEF Gathered, Remarked, Processed
  <2>6. MDP!SearchInvariant => MDP!SearchInvariant'
    BY <2>2, <2>3 DEF MDP!SearchInvariant, MDP!Found, MDP!Pending
  <2>7. SCP!IInv => SCP!IInv'
    <3>1. UNCHANGED SCP!vars
      BY <2>2, <2>3 DEF SCP!vars
    <3> QED BY <3>1, AnalyzerAssumption, SCP!InvariantStep
  <2> QED BY <2>2, <2>3, <2>4, <2>5, <2>6, <2>7 DEF Analyses, Searching, Judging, Fresh
<1> QED BY <1>1, <1>2, <1>3, <1>4 DEF FunctionNext

LEMMA AnalysesInvariance == FunctionSpec => [](IInv /\ Analyses)
<1>1. FunctionSpec => []IInv
  BY RunWithAnalyses, Invariance, PTL
<1>2. IInv /\ IInv' /\ Analyses /\ [FunctionNext]_functionVars => Analyses'
  BY AnalysesStep
<1> QED BY <1>1, <1>2, InitAnalyses, PTL DEF FunctionSpec

\* For every function, graph, loop and order of searching and judging: when no
\* remark says that a chain is incomplete, the verdict of the pass on a loop is
\* that of its whole chains in the graph run was given.
THEOREM VerdictsRight == FunctionSpec => []VerdictOfWholeChains
<1>1. IInv /\ Analyses => VerdictOfWholeChains
  <2> SUFFICES ASSUME Analyses, NEW k \in DOMAIN verdicts, verdicts[k].remark = <<>>
               PROVE  verdicts[k].commutative <=>
                        LA!LoopCommutes(Program(code, result[k].loop, pdg0),
                                        code.liveOut[result[k].loop], verdicts[k].variance)
    BY DEF VerdictOfWholeChains
  <2>1. Right(code, pdg0, result[k].loop, verdicts[k])
    BY DEF Analyses, Around, Reported
  <2> QED BY <2>1 DEF Right
<1> QED BY <1>1, AnalysesInvariance, PTL

\* For every function: the remark of the detector has a message for each chain
\* that cannot be followed to its end and names what is in its way, an instruction
\* of that very chain; all other chains are whole.
THEOREM RemarksRight == FunctionSpec => []RemarkNamesUnhandled
<1>1. IInv /\ Analyses => RemarkNamesUnhandled
  <2> DEFINE p == Program(code, next, pdg0)
  <2> SUFFICES ASSUME Analyses, scPc = "done"
               PROVE  /\ Len(mdRemark) = Cardinality(Failed(p, lms, Len(lms)))
                      /\ \A k \in DOMAIN lms :
                           IF k \in Failed(p, lms, k)
                             THEN mdRemark[Cardinality(Failed(p, lms, k))]
                                    \in LA!Unhandled(p, lms[k].target)
                             ELSE lms[k] = LA!Chain(p, lms[k].target)
    BY DEF RemarkNamesUnhandled, Failed
  <2>1. Gathered /\ Judging /\ mdPc = "done" /\ current = Len(lms)
    BY DEF Analyses, Judging
  <2>2. Processed = Len(lms) /\ Len(lms) \in Nat /\ DOMAIN lms = 1..Len(lms)
    BY <2>1 DEF Processed, Gathered
  <2>3. Remarked(p, mdRemark, lms, Len(lms))
    BY <2>1, <2>2 DEF Gathered
  <2>4. ASSUME NEW k \in DOMAIN lms, k \in Failed(p, lms, k)
        PROVE  mdRemark[Cardinality(Failed(p, lms, k))] \in LA!Unhandled(p, lms[k].target)
    <3>1. k \in Failed(p, lms, Len(lms))
      BY <2>2, <2>4 DEF Failed
    <3> QED BY <2>3, <3>1 DEF Remarked
  <2>5. ASSUME NEW k \in DOMAIN lms, k \notin Failed(p, lms, k)
        PROVE  lms[k] = LA!Chain(p, lms[k].target)
    <3>1. ~LA!Incomplete(p, lms[k].target)
      BY <2>2, <2>5 DEF Failed
    <3> QED BY <2>1, <2>2, <3>1 DEF Gathered, Whole
  <2> QED BY <2>3, <2>4, <2>5 DEF Remarked
<1> QED BY <1>1, AnalysesInvariance, PTL

-----------------------------------------------------------------------------
(***************************************************************************)
(* run with its analyses comes to its end as well.                         *)
(***************************************************************************)

\* How far the analysis of a loop is from its end: the chains are gathered, each
\* is searched, and then they are judged.
AnalysisDescends ==
  \/ scPc = "idle" /\ scPc' = "waiting"
  \/ /\ scPc = "waiting" /\ scPc' = "waiting" /\ Len(lms') = Len(lms)
     /\ \/ current < current' /\ current' <= Len(lms)
        \/ current' = current /\ MDP!SearchDescends
  \/ scPc = "waiting" /\ scPc' = "chains"
  \/ scPc \in {"chains", "sources"} /\ SCP!AnalyzeDescends

FunctionDescends ==
  \/ RunDescends
  \/ UNCHANGED vars /\ AnalysisDescends

LEMMA AnalysisStepDescends ==
  ASSUME Analyses, AnalysisStep
  PROVE  AnalysisDescends
<1> USE DEF AnalysisDescends
<1>1. CASE LA!Begin
  BY <1>1 DEF LA!Begin
<1>2. CASE LA!CallAnalyze
  BY <1>2 DEF LA!CallAnalyze
<1>3. ASSUME scPc = "idle"
      PROVE  /\ ~LA!CallProcess /\ ~LA!Detect /\ ~LA!ProcessReturns /\ ~LA!Analyze
  <2>1. lms = <<>> /\ current = 0 /\ mdPc = "done" /\ Len(lms) = 0
    BY <1>3 DEF Analyses, Idle
  <2>2. ~LA!CallProcess
    BY <2>1 DEF LA!CallProcess, LA!Enter
  <2>3. ~LA!Detect /\ ~LA!ProcessReturns
    BY <2>1 DEF LA!Detect, LA!ProcessReturns, LA!Keep, LA!MD!PassOver, LA!MD!Process, LA!MD!Finish
  <2>4. ~LA!Analyze
    BY <1>3 DEF LA!Analyze, LA!SC!Next, LA!SC!EnterChain, LA!SC!SourcesVisited,
                LA!SC!Return, LA!SC!VisitSource
  <2> QED BY <2>2, <2>3, <2>4
<1>4. CASE LA!CallProcess
  <2>1. Gathered /\ Judging
    BY <1>3, <1>4 DEF Analyses
  <2>2. /\ current < Len(lms) /\ current' = current + 1
        /\ UNCHANGED <<lms, scPc>>
    BY <1>4 DEF LA!CallProcess, LA!Enter, LA!analyzer
  <2>3. current \in Nat /\ Len(lms) \in Nat
    BY <2>1 DEF Gathered
  <2>4. scPc = "waiting"
    BY <2>1, <2>2, <2>3 DEF Judging
  <2> QED BY <2>2, <2>3, <2>4
<1>5. CASE LA!Detect
  <2>1. PICK i \in workList : LA!MD!PassOver(i) \/ LA!MD!Process(i)
    BY <1>5 DEF LA!Detect
  <2>2. MDP!Next
    BY <2>1, SameActions DEF MDP!Next
  <2>3. UNCHANGED <<lms, current, scPc>> /\ mdPc = "search"
    BY <1>5, <2>1 DEF LA!Detect, LA!analyzer, LA!MD!PassOver, LA!MD!Process
  <2>4. scPc = "waiting"
    BY <1>3, <1>5, <2>3 DEF Analyses, Searching
  <2> QED BY <2>2, <2>3, <2>4, MDP!StepDescends
<1>6. CASE LA!ProcessReturns
  <2>1. MDP!Next
    BY <1>6, SameActions DEF LA!ProcessReturns, LA!Keep, MDP!Next
  <2>2. UNCHANGED <<current, scPc>> /\ mdPc = "search"
    BY <1>6 DEF LA!ProcessReturns, LA!Keep, LA!analyzer, LA!MD!Finish
  <2>3. scPc = "waiting" /\ lms \in Seq(SCP!LoadModifyStore)
    BY <1>3, <1>6, <2>2 DEF Analyses, Searching, Gathered
  <2>4. Len(lms') = Len(lms)
    BY <1>6, <2>3 DEF LA!ProcessReturns, LA!Keep
  <2> QED BY <2>1, <2>2, <2>3, <2>4, MDP!StepDescends
<1>7. CASE LA!Analyze
  <2>1. SCP!Next
    BY <1>7, SameAnalyzer DEF LA!Analyze
  <2>2. scPc \in {"chains", "sources"}
    BY <2>1 DEF SCP!Next, SCP!EnterChain, SCP!SourcesVisited, SCP!Return, SCP!VisitSource
  <2>3. SCP!TypeOK
    BY <1>3, <1>7, <2>2 DEF Analyses, Judging, SCP!IInv
  <2>4. SCP!AnalyzeDescends
    BY <2>1, <2>3, AnalyzerAssumption, SCP!AnalyzeStepDescends
  <2> QED BY <2>2, <2>4
<1> QED BY <1>1, <1>2, <1>4, <1>5, <1>6, <1>7 DEF AnalysisStep, LA!Next

\* Whatever cycles the payloads have, run with its analyses does not go on for
\* ever: each step of an analysis brings its loop nearer to the verdict, each
\* other step brings run nearer to its end.
THEOREM FunctionEnds == FunctionSpec => [][FunctionDescends]_functionVars
<1>1. IInv /\ Analyses /\ [FunctionNext]_functionVars
      => [FunctionDescends]_functionVars
  <2> SUFFICES ASSUME IInv, Analyses, FunctionNext PROVE FunctionDescends
    OBVIOUS
  <2>1. CASE AnalysisStep
    BY <2>1, AnalysisStepDescends DEF AnalysisStep, FunctionDescends
  <2>2. CASE TakeUpLoop \/ PassStep \/ ReportLoop
    <3>1. Next
      BY <2>2 DEF TakeUpLoop, PassStep, ReportLoop, Next
    <3> QED BY <3>1, RunStepDescends DEF IInv, FunctionDescends
  <2> QED BY <2>1, <2>2 DEF FunctionNext
<1> QED BY <1>1, AnalysesInvariance, PTL DEF FunctionSpec
=============================================================================
