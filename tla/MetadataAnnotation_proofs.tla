---------------------- MODULE MetadataAnnotation_proofs ----------------------
(***************************************************************************)
(* Proofs about MetadataAnnotation, for any loops, any iterators and any   *)
(* number of runs.                                                         *)
(***************************************************************************)
EXTENDS MetadataAnnotation, TLAPS

Operand(n) == 1..n \cup {LoopKey, Unroll}

\* Metadata nodes: operands exist, a node with the key names itself and no
\* other node with the key.
Nodes ==
  /\ nodes \in Seq(SUBSET (Nat \cup {LoopKey, Unroll}))
  /\ \A id \in 1..Len(nodes) : nodes[id] \subseteq Operand(Len(nodes))
  /\ \A id \in 1..Len(nodes) : id \in nodes[id]
  /\ \A id, n \in 1..Len(nodes) : n \in nodes[id] /\ LoopKey \in nodes[n] => n = id

\* A node with the key is the ID of one loop.
Owners ==
  /\ loopID \in [Loop -> 0..Len(nodes)]
  /\ \A id \in 1..Len(nodes) : LoopKey \in nodes[id] => \E l \in Loop : loopID[l] = id
  /\ \A l, m \in Loop : HasKey(l) /\ loopID[m] = loopID[l] => m = l

\* Instructions name what is in nodes, and a loop in their iterator metadata
\* just when they are of its iterator.
Naming ==
  /\ data \in [Inst -> [Key -> SUBSET Operand(Len(nodes))]]
  /\ \A l \in Loop : HasKey(l) =>
       \A i \in Inst : loopID[l] \in data[i]["iterator"] <=> i \in function.iterator[l]

Control ==
  /\ WellFormed(function)
  /\ pc \in {"idle", "loop", "payload"}
  /\ at \in 1..Len(Order) + 1
  /\ pc = "payload" => at <= Len(Order) /\ HasKey(Order[at])
  /\ payload \subseteq Inst
  /\ options \in Options
  /\ hasChanged \in BOOLEAN
  /\ runs \in 0..MaxRuns
  /\ ~hasChanged => before = <<loopID, data>>

IInv == Nodes /\ Owners /\ Naming /\ Control

LEMMA OrderLoops ==
  /\ Len(Order) \in Nat
  /\ \A n \in 1..Len(Order) : Order[n] \in Loop
BY AnnotationAssumption

LEMMA InitInvariant == Init => IInv
<1> SUFFICES ASSUME Init
             PROVE  IInv
  OBVIOUS
<1>1. /\ nodes = <<{1, Unroll}>> /\ Len(nodes) = 1 /\ nodes[1] = {1, Unroll}
      /\ LoopKey \notin nodes[1]
  BY AnnotationAssumption DEF Init
<1>2. Nodes
  BY <1>1 DEF Nodes, Operand
<1>3. \A l \in Loop : ~HasKey(l)
  BY <1>1 DEF Init, HasKey, NoID
<1>4. loopID \in [Loop -> 0..Len(nodes)]
  BY <1>1 DEF Init, NoID
<1>5. Owners
  BY <1>1, <1>3, <1>4 DEF Owners
<1>6. Naming
  BY <1>3 DEF Init, Naming
<1>7. Control
  <2>1. options \in Options /\ hasChanged \in BOOLEAN
    <3>1. FALSE \in BOOLEAN /\ 1 \in 1..2
      OBVIOUS
    <3> QED BY <3>1, Zenon DEF Init, Options
  <2>2. WellFormed(function) /\ runs \in 0..MaxRuns
    BY AnnotationAssumption DEF Init
  <2>3. at \in 1..Len(Order) + 1
    BY OrderLoops DEF Init
  <2> QED BY <2>1, <2>2, <2>3 DEF Init, Control
<1> QED BY <1>2, <1>5, <1>6, <1>7 DEF IInv

\* What annotateLoop does: l has an ID with the key, which names no other loop,
\* and the other loops have what they had.
LEMMA Annotated ==
  ASSUME Nodes, Owners, NEW l \in Loop, AnnotateLoop(l)
  PROVE  /\ Nodes' /\ Owners'
         /\ Len(nodes) <= Len(nodes')
         /\ HasKey(l)'
         /\ nodes'[loopID'[l]] \subseteq Operand(Len(nodes'))
         /\ loopID'[l] \in nodes'[loopID'[l]]
         /\ \A m \in Loop \ {l} :
              /\ loopID'[m] = loopID[m]
              /\ HasKey(m)' <=> HasKey(m)
              /\ HasKey(m) => loopID[m] \notin nodes'[loopID'[l]]
         /\ HasKey(l) => UNCHANGED <<nodes, loopID>>
         /\ ~HasKey(l) => loopID'[l] = Len(nodes) + 1
<1>1. CASE HasKey(l)
  <2>1. UNCHANGED <<nodes, loopID>>
    BY <1>1 DEF AnnotateLoop
  <2>2. Nodes' /\ Owners' /\ \A m \in Loop : HasKey(m)' <=> HasKey(m)
    BY <2>1 DEF Nodes, Owners, HasKey, Operand
  <2>3. loopID[l] \in 1..Len(nodes)
    BY <1>1 DEF Owners, HasKey, NoID, Nodes
  <2>4. ASSUME NEW m \in Loop \ {l}, HasKey(m)
        PROVE  loopID[m] \notin nodes[loopID[l]]
    <3>1. loopID[m] \in 1..Len(nodes) /\ LoopKey \in nodes[loopID[m]]
      BY <2>4 DEF Owners, HasKey, NoID, Nodes
    <3>2. loopID[m] # loopID[l]
      BY <1>1 DEF Owners
    <3> QED BY <2>3, <3>1, <3>2 DEF Nodes
  <2>5. Len(nodes) \in Nat
    BY DEF Nodes
  <2> QED BY <1>1, <2>1, <2>2, <2>3, <2>4, <2>5 DEF Nodes
<1>2. CASE ~HasKey(l)
  <2> DEFINE N == Len(nodes) + 1
  <2>1. nodes' = Append(nodes, NewID(l)) /\ loopID' = [loopID EXCEPT ![l] = N]
    BY <1>2 DEF AnnotateLoop
  <2>2. Len(nodes) \in Nat /\ LoopKey \notin Nat /\ Unroll \notin Nat
    BY AnnotationAssumption DEF Nodes
  <2>3. /\ NewID(l) \subseteq Operand(N)
        /\ N \in NewID(l) /\ LoopKey \in NewID(l)
        /\ \A n \in 1..Len(nodes) : n \in NewID(l) => LoopKey \notin nodes[n]
    <3>1. CASE loopID[l] = NoID
      BY <2>2, <3>1 DEF NewID, Operand
    <3>2. CASE loopID[l] # NoID
      <4>1. loopID[l] \in 1..Len(nodes) /\ LoopKey \notin nodes[loopID[l]]
        BY <1>2, <3>2 DEF Owners, HasKey, NoID
      <4>2. NewID(l) = {N, LoopKey} \cup nodes[loopID[l]]
        BY <3>2 DEF NewID
      <4>3. nodes[loopID[l]] \subseteq Operand(Len(nodes))
        BY <4>1 DEF Nodes
      <4>4. NewID(l) \subseteq Operand(N)
        BY <2>2, <4>2, <4>3 DEF Operand
      <4>5. ASSUME NEW n \in 1..Len(nodes), n \in NewID(l)
            PROVE  LoopKey \notin nodes[n]
        <5>1. n \in nodes[loopID[l]]
          BY <2>2, <4>2, <4>5
        <5> QED BY <4>1, <5>1 DEF Nodes
      <4> QED BY <4>2, <4>4, <4>5
    <3> QED BY <3>1, <3>2
  <2>4. /\ Len(nodes') = N
        /\ nodes'[N] = NewID(l)
        /\ \A n \in 1..Len(nodes) : nodes'[n] = nodes[n]
        /\ nodes' \in Seq(SUBSET (Nat \cup {LoopKey, Unroll}))
    <3>1. NewID(l) \in SUBSET (Nat \cup {LoopKey, Unroll})
      BY <2>2, <2>3 DEF Operand
    <3> QED BY <2>1, <3>1 DEF Nodes
  <2>5. 1..N = 1..Len(nodes) \cup {N}
    BY <2>2
  <2>6. /\ loopID' \in [Loop -> 0..N]
        /\ loopID'[l] = N
        /\ \A m \in Loop \ {l} : loopID'[m] = loopID[m] /\ loopID[m] \in 0..Len(nodes)
    BY <2>1, <2>2 DEF Owners
  <2>7. HasKey(l)' /\ \A m \in Loop \ {l} : HasKey(m)' <=> HasKey(m)
    BY <2>2, <2>3, <2>4, <2>6 DEF HasKey, NoID
  <2>8. Nodes'
    <3>1. \A id \in 1..N : nodes'[id] \subseteq Operand(N) /\ id \in nodes'[id]
      BY <2>2, <2>3, <2>4, <2>5 DEF Nodes, Operand
    <3>2. ASSUME NEW id \in 1..N, NEW n \in 1..N,
                 n \in nodes'[id], LoopKey \in nodes'[n]
          PROVE  n = id
      <4>1. CASE id = N
        BY <2>3, <2>4, <2>5, <3>2, <4>1
      <4>2. CASE id # N
        <5>1. id \in 1..Len(nodes) /\ n \in nodes[id]
          BY <2>4, <2>5, <3>2, <4>2
        <5>2. n \in 1..Len(nodes)
          BY <2>2, <5>1 DEF Nodes, Operand
        <5> QED BY <2>4, <3>2, <5>1, <5>2 DEF Nodes
      <4> QED BY <4>1, <4>2
    <3> QED BY <2>4, <3>1, <3>2 DEF Nodes
  <2>9. Owners'
    <3>1. ASSUME NEW id \in 1..N, LoopKey \in nodes'[id]
          PROVE  \E m \in Loop : loopID'[m] = id
      <4>1. CASE id = N
        BY <2>6, <4>1
      <4>2. CASE id # N
        <5>1. id \in 1..Len(nodes) /\ LoopKey \in nodes[id]
          BY <2>4, <2>5, <3>1, <4>2
        <5>2. PICK m \in Loop : loopID[m] = id
          BY <5>1 DEF Owners
        <5>3. m # l
          BY <1>2, <2>2, <5>1, <5>2 DEF HasKey, NoID
        <5> QED BY <2>6, <5>2, <5>3
      <4> QED BY <4>1, <4>2
    <3>2. ASSUME NEW k \in Loop, NEW m \in Loop, HasKey(k)', loopID'[m] = loopID'[k]
          PROVE  m = k
      BY <2>2, <2>6, <2>7, <3>2 DEF Owners
    <3> QED BY <2>4, <2>6, <3>1, <3>2 DEF Owners
  <2>10. ASSUME NEW m \in Loop \ {l}, HasKey(m)
         PROVE  loopID[m] \notin nodes'[loopID'[l]]
    BY <2>2, <2>3, <2>4, <2>6, <2>10 DEF HasKey, NoID, Owners
  <2>11. Len(nodes) <= Len(nodes')
    BY <2>2, <2>4
  <2> QED BY <1>2, <2>3, <2>4, <2>6, <2>7, <2>8, <2>9, <2>10, <2>11
<1> QED BY <1>1, <1>2

\* One action at a time.
LEMMA StepInvariant == IInv /\ [Next]_vars => IInv'
<1> SUFFICES ASSUME IInv, [Next]_vars
             PROVE  IInv'
  OBVIOUS
<1> USE DEF IInv
<1>1. Len(Order) \in Nat /\ \A n \in 1..Len(Order) : Order[n] \in Loop
  BY OrderLoops
<1>2. ASSUME UNCHANGED <<function, metadata>>
      PROVE  Nodes' /\ Owners' /\ Naming' /\ \A l : HasKey(l)' <=> HasKey(l)
  BY <1>2 DEF metadata, Nodes, Owners, Naming, HasKey, Operand
<1>3. CASE Run
  <2>1. UNCHANGED <<function, metadata, payload>>
    BY <1>3 DEF Run
  <2>2. at' \in 1..Len(Order) + 1 /\ runs' \in 0..MaxRuns
    BY <1>1, <1>3, AnnotationAssumption DEF Run, Control
  <2>3. Control'
    BY <1>3, <2>1, <2>2 DEF Run, Control, metadata, WellFormed
  <2> QED BY <1>2, <2>1, <2>3
<1>4. CASE SkipLoop
  <2>1. at' \in 1..Len(Order) + 1
    BY <1>1, <1>4 DEF SkipLoop, Control
  <2>2. Control'
    BY <1>4, <2>1 DEF SkipLoop, Control, metadata, WellFormed
  <2> QED BY <1>2, <1>4, <2>2 DEF SkipLoop
<1>5. CASE AnnotateIterator
  <2>0. PICK l \in Loop : l = Order[at]
    BY <1>1, <1>5 DEF AnnotateIterator, Control
  <2>1. l \in Loop /\ AnnotateLoop(l)
        /\ AppendTo(function.iterator[l], "iterator", l) /\ UNCHANGED function
    BY <1>5, <2>0 DEF AnnotateIterator
  <2>2. Nodes' /\ Owners' /\ Len(nodes) <= Len(nodes') /\ HasKey(l)'
    BY <2>1, Annotated
  <2>3. /\ nodes'[loopID'[l]] \subseteq Operand(Len(nodes'))
        /\ loopID'[l] \in nodes'[loopID'[l]]
    BY <2>1, Annotated
  <2>4. Len(nodes) \in Nat /\ Len(nodes') \in Nat
    BY <2>2 DEF Nodes
  <2>5. Operand(Len(nodes)) \subseteq Operand(Len(nodes'))
    BY <2>2, <2>4 DEF Operand
  <2>6. data' = [i \in Inst |->
                   IF i \in function.iterator[l]
                   THEN [data[i] EXCEPT !["iterator"] = @ \cup nodes'[loopID'[l]]]
                   ELSE data[i]]
    BY <2>1 DEF AppendTo
  <2>7. data' \in [Inst -> [Key -> SUBSET Operand(Len(nodes'))]]
    <3>1. ASSUME NEW i \in Inst
          PROVE  data[i] \in [Key -> SUBSET Operand(Len(nodes'))]
      <4>1. data[i] \in [Key -> SUBSET Operand(Len(nodes))]
        BY DEF Naming
      <4> QED BY <2>5, <4>1
    <3>2. ASSUME NEW i \in Inst
          PROVE  [data[i] EXCEPT !["iterator"] = @ \cup nodes'[loopID'[l]]]
                   \in [Key -> SUBSET Operand(Len(nodes'))]
      BY <2>3, <3>1 DEF Key
    <3> QED BY <2>6, <3>1, <3>2
  <2>8. ASSUME NEW i \in Inst
        PROVE  data'[i]["iterator"] =
                 IF i \in function.iterator[l]
                 THEN data[i]["iterator"] \cup nodes'[loopID'[l]]
                 ELSE data[i]["iterator"]
    BY <2>6 DEF Naming, Key
  <2>9. ASSUME NEW m \in Loop, HasKey(m)', NEW i \in Inst
        PROVE  loopID'[m] \in data'[i]["iterator"] <=> i \in function.iterator[m]
    <3>1. CASE m # l
      <4>1. /\ loopID'[m] = loopID[m] /\ HasKey(m)
            /\ loopID[m] \notin nodes'[loopID'[l]]
        BY <2>1, <2>9, <3>1, Annotated
      <4> QED BY <2>8, <4>1 DEF Naming
    <3>2. CASE m = l /\ HasKey(l)
      <4>1. loopID'[l] = loopID[l]
        BY <2>1, <3>2, Annotated
      <4> QED BY <2>3, <2>8, <3>2, <4>1 DEF Naming
    <3>3. CASE m = l /\ ~HasKey(l)
      <4>1. loopID'[l] = Len(nodes) + 1
        BY <2>1, <3>3, Annotated
      <4>2. data[i]["iterator"] \subseteq Operand(Len(nodes))
        BY DEF Naming, Key
      <4>3. loopID'[l] \notin Operand(Len(nodes))
        BY <2>4, <4>1, AnnotationAssumption DEF Operand
      <4> QED BY <2>3, <2>8, <3>3, <4>2, <4>3
    <3> QED BY <3>1, <3>2, <3>3
  <2>10. Naming'
    BY <2>1, <2>7, <2>9 DEF Naming
  <2>11. hasChanged'
    BY <1>5, <2>0 DEF AnnotateIterator, Control, WellFormed
  <2>12. payload' \subseteq Inst
    BY <1>5, <2>0 DEF AnnotateIterator, Control, WellFormed
  <2>13. pc' = "payload" /\ at <= Len(Order)
         /\ UNCHANGED <<function, at, options, runs>>
    BY <1>5 DEF AnnotateIterator
  <2>14. HasKey(Order[at])'
    BY <2>0, <2>2, <2>13 DEF HasKey
  <2>15. Control'
    BY <2>11, <2>12, <2>13, <2>14 DEF Control, WellFormed
  <2> QED BY <2>2, <2>10, <2>15
<1>6. CASE AnnotatePayload
  <2>1. PICK i \in payload :
          /\ payload' = payload \ {i}
          /\ IF i \in function.iterator[Order[at]]
             THEN UNCHANGED <<metadata, hasChanged>>
             ELSE /\ AnnotateLoop(Order[at]) /\ AppendTo({i}, "payload", Order[at])
                  /\ hasChanged' = TRUE
    BY <1>6 DEF AnnotatePayload
  <2>2. pc = "payload" /\ UNCHANGED <<function, pc, at, options, runs, before>>
    BY <1>6 DEF AnnotatePayload
  <2>3. HasKey(Order[at]) /\ Order[at] \in Loop
    BY <1>1, <2>2 DEF Control
  <2>4. CASE UNCHANGED <<metadata, hasChanged>>
    <3>1. Control'
      BY <1>2, <2>1, <2>2, <2>4 DEF Control, WellFormed, metadata
    <3> QED BY <1>2, <2>2, <2>4, <3>1
  <2>5. CASE /\ AnnotateLoop(Order[at]) /\ AppendTo({i}, "payload", Order[at])
             /\ hasChanged' = TRUE
    <3>1. UNCHANGED <<nodes, loopID>>
      BY <2>3, <2>5 DEF AnnotateLoop
    <3>2. Nodes' /\ Owners' /\ \A l : HasKey(l)' <=> HasKey(l)
      BY <3>1 DEF Nodes, Owners, HasKey, Operand
    <3>3. nodes[loopID[Order[at]]] \subseteq Operand(Len(nodes))
      BY <2>3 DEF Nodes, Owners, HasKey, NoID
    <3>4. data' = [k \in Inst |->
                     IF k \in {i}
                     THEN [data[k] EXCEPT !["payload"] = @ \cup nodes[loopID[Order[at]]]]
                     ELSE data[k]]
      BY <2>2, <2>5, <3>1 DEF AppendTo
    <3>5. data' \in [Inst -> [Key -> SUBSET Operand(Len(nodes))]]
      BY <3>3, <3>4 DEF Naming
    <3>6. \A k \in Inst : data'[k]["iterator"] = data[k]["iterator"]
      BY <3>4 DEF Naming, Key
    <3>7. Naming'
      BY <2>2, <3>1, <3>2, <3>5, <3>6 DEF Naming, Operand
    <3>8. Control'
      BY <2>1, <2>2, <2>5, <3>2 DEF Control, WellFormed
    <3> QED BY <3>2, <3>7, <3>8
  <2> QED BY <2>1, <2>4, <2>5
<1>7. CASE NextLoop
  <2>1. at' \in 1..Len(Order) + 1
    BY <1>1, <1>7 DEF NextLoop, Control
  <2>2. Control'
    BY <1>7, <2>1 DEF NextLoop, Control, metadata, WellFormed
  <2> QED BY <1>2, <1>7, <2>2 DEF NextLoop
<1>8. CASE Return
  <2>1. Control'
    BY <1>8 DEF Return, Control, metadata, WellFormed
  <2> QED BY <1>2, <1>8, <2>1 DEF Return
<1>9. CASE UNCHANGED vars
  <2>1. Control'
    BY <1>2, <1>9 DEF vars, Control, metadata, WellFormed
  <2> QED BY <1>2, <1>9, <2>1 DEF vars
<1> QED BY <1>3, <1>4, <1>5, <1>6, <1>7, <1>8, <1>9 DEF Next

THEOREM Invariance == Spec => []IInv
BY InitInvariant, StepInvariant, PTL DEF Spec

-----------------------------------------------------------------------------

\* The types of the variables.
THEOREM TypeCorrect == Spec => []TypeOK
<1>1. IInv => TypeOK
  <2> SUFFICES ASSUME IInv
               PROVE  TypeOK
    OBVIOUS
  <2>1. nodes \in Seq(SUBSET (1..Len(nodes) \cup {LoopKey, Unroll}))
    BY DEF IInv, Nodes, Operand
  <2> QED BY <2>1 DEF IInv, Owners, Naming, Control, Operand, TypeOK
<1> QED BY <1>1, Invariance, PTL

\* However often and with whatever options the pass runs, the iterator
\* metadata of an instruction names just the loops that it should.
THEOREM IteratorNaming == Spec => []IteratorsNamed
<1>1. IInv => IteratorsNamed
  BY DEF IInv, Control, WellFormed, Naming, IteratorsNamed, Named
<1> QED BY <1>1, Invariance, PTL

\* No instruction names an ID with the key that is not the ID of a loop.
THEOREM NamesCurrent == Spec => []NoStaleID
<1>1. IInv => NoStaleID
  BY DEF IInv, Owners, NoStaleID
<1> QED BY <1>1, Invariance, PTL

\* The returned flag may only be false if nothing has changed.
THEOREM ChangesReported == Spec => []ChangeReported
<1>1. IInv => ChangeReported
  BY DEF IInv, Control, ChangeReported
<1> QED BY <1>1, Invariance, PTL

-----------------------------------------------------------------------------
(***************************************************************************)
(* The payload metadata.  All of the payload of a loop names it, or none   *)
(* of it, but for the loop whose payload is being annotated: there the     *)
(* instructions the payload loop has reached do.                           *)
(***************************************************************************)
PayloadOf(l) == function.instructions[l] \ function.iterator[l]

PayloadNaming ==
  /\ \A l \in Loop : Named("payload", l) \subseteq PayloadOf(l)
  /\ \A l \in Loop :
       ~(pc = "payload" /\ options.annotatePayload /\ l = Order[at])
         => Named("payload", l) \in {{}, PayloadOf(l)}
  /\ pc = "payload" =>
       /\ payload \subseteq function.instructions[Order[at]]
       /\ ~options.annotatePayload => payload = {}
       /\ options.annotatePayload =>
            PayloadOf(Order[at]) \subseteq Named("payload", Order[at]) \cup payload

\* The iterator metadata is of no concern to that of the payload, and a loop
\* that gets an ID is not named yet.
LEMMA PayloadUnnamed ==
  ASSUME IInv, NEW l \in Loop, AnnotateLoop(l),
         AppendTo(function.iterator[l], "iterator", l), NEW m \in Loop
  PROVE  Named("payload", m)' = Named("payload", m)
<1> USE DEF IInv
<1>1. \A i \in Inst : data'[i]["payload"] = data[i]["payload"]
  BY DEF AppendTo, Naming, Key
<1>2. CASE m # l \/ HasKey(l)
  <2>1. loopID'[m] = loopID[m] /\ (HasKey(m)' <=> HasKey(m))
    BY <1>2, Annotated
  <2> QED BY <1>1, <2>1 DEF Named
<1>3. CASE m = l /\ ~HasKey(l)
  <2>1. loopID'[l] = Len(nodes) + 1
    BY <1>3, Annotated
  <2>2. Len(nodes) + 1 \notin Operand(Len(nodes))
    BY AnnotationAssumption DEF Nodes, Operand
  <2>3. \A i \in Inst : data[i]["payload"] \subseteq Operand(Len(nodes))
    BY DEF Naming, Key
  <2> QED BY <1>1, <1>3, <2>1, <2>2, <2>3 DEF Named
<1> QED BY <1>2, <1>3

\* One more instruction of the payload of l is given its ID.
LEMMA PayloadAppended ==
  ASSUME IInv, NEW l \in Loop, HasKey(l), NEW i \in Inst,
         AnnotateLoop(l), AppendTo({i}, "payload", l), NEW m \in Loop
  PROVE  Named("payload", m)' =
           IF m = l THEN Named("payload", m) \cup {i} ELSE Named("payload", m)
<1> USE DEF IInv
<1>1. UNCHANGED <<nodes, loopID>> /\ loopID[l] \in nodes[loopID[l]]
  BY Annotated
<1>2. \A k \in Inst : data'[k]["payload"] =
        IF k = i THEN data[k]["payload"] \cup nodes[loopID[l]]
                 ELSE data[k]["payload"]
  BY <1>1 DEF AppendTo, Naming, Key
<1>3. HasKey(m)' <=> HasKey(m)
  BY <1>1 DEF HasKey
<1>4. m # l /\ HasKey(m) => loopID[m] \notin nodes[loopID[l]]
  BY <1>1, Annotated
<1> QED BY <1>1, <1>2, <1>3, <1>4 DEF Named

LEMMA PayloadNamingStep ==
  ASSUME IInv, PayloadNaming, [Next]_vars
  PROVE  PayloadNaming'
<1> USE DEF IInv
<1>0. function' = function /\ \A l : PayloadOf(l)' = PayloadOf(l)
  <2>1. function' = function
    BY DEF Next, vars, Run, SkipLoop, AnnotateIterator, AnnotatePayload, NextLoop,
           Return
  <2> QED BY <2>1 DEF PayloadOf
<1>1. ASSUME UNCHANGED metadata, NEW m
      PROVE  Named("payload", m)' = Named("payload", m)
  BY <1>1 DEF metadata, Named, HasKey
<1>2. CASE AnnotateIterator
  <2>1. PICK l \in Loop : l = Order[at]
    BY <1>2, OrderLoops DEF AnnotateIterator, Control
  <2>2. /\ AnnotateLoop(l) /\ AppendTo(function.iterator[l], "iterator", l)
        /\ pc = "loop" /\ pc' = "payload" /\ UNCHANGED <<at, options>>
        /\ payload' = IF options.annotatePayload THEN function.instructions[l]
                                                 ELSE {}
    BY <1>2, <2>1 DEF AnnotateIterator
  <2>3. \A m \in Loop : Named("payload", m)' = Named("payload", m)
    BY <2>2, PayloadUnnamed
  <2>4. \A m \in Loop : /\ Named("payload", m)' \subseteq PayloadOf(m)'
                        /\ Named("payload", m)' \in {{}, PayloadOf(m)'}
    BY <1>0, <2>2, <2>3 DEF PayloadNaming
  <2>5. payload' \subseteq function'.instructions[Order[at']]
    BY <1>0, <2>1, <2>2
  <2>6. options'.annotatePayload => PayloadOf(Order[at])' \subseteq payload'
    BY <1>0, <2>1, <2>2 DEF PayloadOf
  <2> QED BY <2>2, <2>4, <2>5, <2>6 DEF PayloadNaming
<1>3. CASE AnnotatePayload
  <2> DEFINE l == Order[at]
  <2>1. PICK i \in payload :
          /\ payload' = payload \ {i}
          /\ IF i \in function.iterator[l]
             THEN UNCHANGED metadata
             ELSE AnnotateLoop(l) /\ AppendTo({i}, "payload", l)
    BY <1>3 DEF AnnotatePayload
  <2>2. /\ pc = "payload" /\ pc' = "payload" /\ UNCHANGED <<at, options>>
        /\ l \in Loop /\ HasKey(l)
    BY <1>3, OrderLoops DEF AnnotatePayload, Control
  <2>3. i \in Inst /\ i \in function.instructions[l]
    BY <2>2 DEF Control, PayloadNaming
  <2>4. CASE i \in function.iterator[l]
    <3>1. \A m \in Loop : Named("payload", m)' = Named("payload", m)
      BY <1>1, <2>1, <2>4
    <3>2. i \notin PayloadOf(l)
      BY <2>4 DEF PayloadOf
    <3> QED BY <1>0, <2>1, <2>2, <3>1, <3>2 DEF PayloadNaming
  <2>5. CASE i \notin function.iterator[l]
    <3>1. \A m \in Loop : Named("payload", m)' =
            IF m = l THEN Named("payload", m) \cup {i} ELSE Named("payload", m)
      BY <2>1, <2>2, <2>3, <2>5, PayloadAppended
    <3>2. i \in PayloadOf(l)
      BY <2>3, <2>5 DEF PayloadOf
    <3>3. \A m \in Loop : Named("payload", m)' \subseteq PayloadOf(m)'
      BY <1>0, <3>1, <3>2 DEF PayloadNaming
    <3>4. ASSUME NEW m \in Loop,
                 ~(options.annotatePayload /\ m = l)
          PROVE  Named("payload", m)' \in {{}, PayloadOf(m)'}
      <4>1. options.annotatePayload
        BY <2>2 DEF PayloadNaming
      <4>2. Named("payload", m) \in {{}, PayloadOf(m)}
        BY <2>2, <3>4 DEF PayloadNaming
      <4> QED BY <1>0, <3>1, <3>4, <4>1, <4>2
    <3> QED BY <1>0, <2>1, <2>2, <3>1, <3>3, <3>4 DEF PayloadNaming
  <2> QED BY <2>4, <2>5
<1>4. CASE NextLoop
  <2> DEFINE l == Order[at]
  <2>1. /\ pc = "payload" /\ payload = {} /\ pc' = "loop"
        /\ UNCHANGED <<metadata, options>>
        /\ l \in Loop
    BY <1>4, OrderLoops DEF NextLoop, Control
  <2>2. ASSUME NEW m \in Loop PROVE Named("payload", m) \in {{}, PayloadOf(m)}
    <3>1. CASE options.annotatePayload /\ m = l
      BY <2>1, <3>1 DEF PayloadNaming
    <3>2. CASE ~(options.annotatePayload /\ m = l)
      BY <2>1, <3>2 DEF PayloadNaming
    <3> QED BY <3>1, <3>2
  <2>3. \A m \in Loop : Named("payload", m)' = Named("payload", m)
    BY <1>1, <2>1
  <2> QED BY <1>0, <2>1, <2>2, <2>3 DEF PayloadNaming
<1>5. CASE Run \/ SkipLoop \/ Return
  <2>1. pc # "payload" /\ pc' # "payload" /\ UNCHANGED metadata
    BY <1>5 DEF Run, SkipLoop, Return
  <2>2. ASSUME NEW m \in Loop
        PROVE  /\ Named("payload", m)' \subseteq PayloadOf(m)'
               /\ Named("payload", m)' \in {{}, PayloadOf(m)'}
    BY <1>0, <1>1, <2>1 DEF PayloadNaming
  <2> QED BY <2>1, <2>2 DEF PayloadNaming
<1>6. CASE UNCHANGED vars
  <2>1. UNCHANGED <<metadata, pc, at, payload, options>>
    BY <1>6 DEF vars
  <2>2. \A m : Named("payload", m)' = Named("payload", m)
    BY <1>1, <2>1
  <2> QED BY <1>0, <2>1, <2>2 DEF PayloadNaming
<1> QED BY <1>2, <1>3, <1>4, <1>5, <1>6 DEF Next

\* Between runs the payload of a loop names it as a whole or not at all, and
\* never an instruction of its iterator.
THEOREM PayloadNamedCorrectly == Spec => []PayloadNamed
<1>1. Init => PayloadNaming
  <2> SUFFICES ASSUME Init PROVE PayloadNaming
    OBVIOUS
  <2>1. pc = "idle" /\ data = [i \in Inst |-> [key \in Key |-> {}]]
    BY DEF Init
  <2>2. \A l \in Loop : Named("payload", l) = {}
    BY <2>1 DEF Named, Key
  <2> QED BY <2>1, <2>2 DEF PayloadNaming
<1>2. IInv /\ PayloadNaming /\ [Next]_vars => PayloadNaming'
  BY PayloadNamingStep
<1>3. PayloadNaming => PayloadNamed
  BY DEF PayloadNaming, PayloadNamed, PayloadOf
<1> QED BY <1>1, <1>2, <1>3, Invariance, PTL DEF Spec

\* A new ID holds what the ID before it held, and the pass changes no ID of a
\* loop otherwise.
THEOREM ExistingIDsKept == Spec => ExistingKept
<1>1. ASSUME IInv, [Next]_vars, NEW l \in Loop, loopID[l] # NoID
      PROVE  nodes[loopID[l]] \subseteq nodes'[loopID'[l]]
  <2> USE DEF IInv
  <2>1. CASE UNCHANGED <<nodes, loopID>>
    BY <2>1
  <2>2. CASE \E m \in Loop : AnnotateLoop(m) /\ ~HasKey(m)
    <3>1. PICK m \in Loop : AnnotateLoop(m) /\ ~HasKey(m)
      BY <2>2
    <3>2. /\ nodes' = Append(nodes, NewID(m))
          /\ loopID' = [loopID EXCEPT ![m] = Len(nodes) + 1]
      BY <3>1 DEF AnnotateLoop
    <3>3. /\ nodes'[Len(nodes) + 1] = NewID(m)
          /\ \A n \in 1..Len(nodes) : nodes'[n] = nodes[n]
      BY <1>1, <3>2 DEF Nodes
    <3>4. loopID[l] \in 1..Len(nodes)
      BY <1>1 DEF Owners, NoID
    <3>5. CASE l = m
      <4>1. nodes[loopID[l]] \subseteq NewID(l)
        BY <1>1 DEF NewID
      <4>2. loopID'[l] = Len(nodes) + 1
        BY <1>1, <3>2, <3>5 DEF Owners
      <4> QED BY <3>3, <3>5, <4>1, <4>2
    <3>6. CASE l # m
      <4>1. loopID'[l] = loopID[l]
        BY <1>1, <3>2, <3>6 DEF Owners
      <4> QED BY <3>3, <3>4, <4>1
    <3> QED BY <3>5, <3>6
  <2>3. CASE AnnotateIterator \/ AnnotatePayload
    <3>1. \/ UNCHANGED <<nodes, loopID>>
          \/ AnnotateLoop(Order[at])
      BY <2>3 DEF AnnotateIterator, AnnotatePayload, metadata
    <3>2. Order[at] \in Loop
      <4>1. at <= Len(Order) /\ at \in 1..Len(Order) + 1
        <5>1. Control
          BY <1>1
        <5>2. pc = "payload" \/ at <= Len(Order)
          BY <2>3 DEF AnnotateIterator, AnnotatePayload
        <5> QED BY <5>1, <5>2 DEF Control
      <4> QED BY <4>1, OrderLoops
    <3> QED BY <2>1, <2>2, <3>1, <3>2 DEF AnnotateLoop
  <2>4. CASE Run \/ SkipLoop \/ NextLoop \/ Return \/ UNCHANGED vars
    BY <2>1, <2>4 DEF Run, SkipLoop, NextLoop, Return, vars, metadata
  <2> QED BY <1>1, <2>3, <2>4 DEF Next
<1>2. IInv /\ [Next]_vars =>
        [\A l \in Loop : loopID[l] # NoID
           => nodes[loopID[l]] \subseteq nodes'[loopID'[l]]]_vars
  BY <1>1
<1> QED BY <1>2, Invariance, PTL DEF Spec, ExistingKept
=============================================================================
