------------------------- MODULE MetadataAnnotation -------------------------
(***************************************************************************)
(* AnnotatorPass marks each instruction of the iterator of a loop, and of  *)
(* its payload if asked to, with the ID of the loop, which it first gives  *)
(* to the loop.  MetadataAnnotationWriter keeps what metadata there is.    *)
(* The pass may be run again on a function it annotated, with other        *)
(* options.                                                                *)
(*                                                                         *)
(* Metadata nodes are numbered as they are made; a node is the set of its  *)
(* operands, itself included for a loop ID.  LLVM keeps the ID of a loop   *)
(* on the terminators of its latches: loops are taken to have different    *)
(* ones, as in the simplified form.                                        *)
(***************************************************************************)
EXTENDS Integers, Sequences, FiniteSets

CONSTANTS
  Inst, Loop,
  Order,        \* the loops in the order of their iterator infos
  Depth,        \* the depth of each loop
  Functions,    \* instructions and iterator of each loop
  LoopKey,      \* the string in the ID of an annotated loop
  Unroll,       \* an operand of loop IDs from elsewhere
  MaxRuns       \* bound on the runs of the pass

Key == {"iterator", "payload"}
NoID == 0

WellFormed(f) ==
  /\ f.instructions \in [Loop -> SUBSET Inst]
  /\ f.iterator \in [Loop -> SUBSET Inst]
  /\ \A l \in Loop : f.iterator[l] # {}

ASSUME AnnotationAssumption ==
  /\ Order \in Seq(Loop)
  /\ \A l \in Loop : \E n \in DOMAIN Order : Order[n] = l
  /\ \A m, n \in DOMAIN Order : Order[m] = Order[n] => m = n
  /\ Depth \in [Loop -> Nat]
  /\ LoopKey # Unroll
  /\ LoopKey \notin Nat /\ Unroll \notin Nat
  /\ MaxRuns \in Nat
  /\ \A f \in Functions : WellFormed(f)

VARIABLES
  function,
  nodes,       \* the operands of each metadata node
  loopID,      \* the node on the latches of each loop, or NoID
  data,        \* the operands of the metadata of each instruction for each key
  pc,          \* "idle", "loop" (at the next loop) or "payload"
  at,          \* position in Order
  payload,     \* instructions of the loop that the payload loop has not reached
  options,     \* annotatePayload and the limits of the depth
  hasChanged,
  runs, before \* the runs so far; what the last run found, for the properties

metadata == <<nodes, loopID, data>>
vars == <<function, metadata, pc, at, payload, options, hasChanged, runs, before>>

Options ==
  [annotatePayload : BOOLEAN, depthMin : 1..2, depthMax : 1..2]

-----------------------------------------------------------------------------

HasKey(l) == loopID[l] # NoID /\ LoopKey \in nodes[loopID[l]]

\* Fault: the metadata there is gets lost.
NewIDAlone(l) == {Len(nodes) + 1, LoopKey}

\* The operands of the ID that annotateLoop makes for l: itself, those of the
\* ID the loop has, and the key.
NewID(l) ==
  {Len(nodes) + 1, LoopKey} \cup (IF loopID[l] = NoID THEN {} ELSE nodes[loopID[l]])

\* Fault: a new ID for every call.
AnnotateLoopAlways(l) ==
  /\ nodes' = Append(nodes, NewID(l))
  /\ loopID' = [loopID EXCEPT ![l] = Len(nodes) + 1]

\* annotateLoop, which leaves a loop alone that has the key.
AnnotateLoop(l) ==
  IF HasKey(l) THEN UNCHANGED <<nodes, loopID>>
  ELSE /\ nodes' = Append(nodes, NewID(l))
       /\ loopID' = [loopID EXCEPT ![l] = Len(nodes) + 1]

\* Fault: the operands of the ID take the place of those that are there.
AppendToReplacing(insts, key, l) ==
  data' = [i \in Inst |->
             IF i \in insts THEN [data[i] EXCEPT ![key] = nodes'[loopID'[l]]]
                            ELSE data[i]]

\* append: the operands of the ID of the loop join those that are there.
AppendTo(insts, key, l) ==
  data' = [i \in Inst |->
             IF i \in insts THEN [data[i] EXCEPT ![key] = @ \cup nodes'[loopID'[l]]]
                            ELSE data[i]]

\* Before the pass loops may have IDs from elsewhere, which copies of a loop
\* share.
Init ==
  /\ function \in Functions
  /\ nodes = <<{1, Unroll}>>
  /\ loopID \in [Loop -> {NoID, 1}]
  /\ data = [i \in Inst |-> [key \in Key |-> {}]]
  /\ pc = "idle" /\ at = 1 /\ payload = {}
  /\ options = [annotatePayload |-> FALSE, depthMin |-> 1, depthMax |-> 1]
  /\ hasChanged = FALSE
  /\ runs = 0 /\ before = <<loopID, data>>

\* run is called, with the options its constructor has read.
Run ==
  /\ pc = "idle" /\ runs < MaxRuns
  /\ options' \in Options
  /\ pc' = "loop" /\ at' = 1 /\ hasChanged' = FALSE
  /\ runs' = runs + 1 /\ before' = <<loopID, data>>
  /\ UNCHANGED <<function, metadata, payload>>

Selected(l) == Depth[l] <= options.depthMax /\ Depth[l] >= options.depthMin

\* A loop that is too deep or not deep enough.
SkipLoop ==
  /\ pc = "loop" /\ at <= Len(Order) /\ ~Selected(Order[at])
  /\ at' = at + 1
  /\ UNCHANGED <<function, metadata, pc, payload, options, hasChanged, runs, before>>

\* Fault: the change is that of the loop ID, which is never reported.
AnnotateIteratorUnreported ==
  /\ pc = "loop" /\ at <= Len(Order) /\ Selected(Order[at])
  /\ AnnotateLoop(Order[at])
  /\ AppendTo(function.iterator[Order[at]], "iterator", Order[at])
  /\ pc' = "payload"
  /\ payload' = IF options.annotatePayload THEN function.instructions[Order[at]] ELSE {}
  /\ UNCHANGED <<function, at, options, hasChanged, runs, before>>

\* The iterator of a loop; append reports a change for each instruction.
AnnotateIterator ==
  /\ pc = "loop" /\ at <= Len(Order) /\ Selected(Order[at])
  /\ AnnotateLoop(Order[at])
  /\ AppendTo(function.iterator[Order[at]], "iterator", Order[at])
  /\ hasChanged' = (hasChanged \/ function.iterator[Order[at]] # {})
  /\ pc' = "payload"
  /\ payload' = IF options.annotatePayload THEN function.instructions[Order[at]] ELSE {}
  /\ UNCHANGED <<function, at, options, runs, before>>

\* Fault: the instructions of the iterator as well.
AnnotateAllOfLoop ==
  \E i \in payload :
    /\ pc = "payload"
    /\ payload' = payload \ {i}
    /\ AnnotateLoop(Order[at]) /\ AppendTo({i}, "payload", Order[at])
    /\ hasChanged' = TRUE
    /\ UNCHANGED <<function, pc, at, options, runs, before>>

\* One turn of the loop over the instructions of a loop.
AnnotatePayload ==
  \E i \in payload :
    /\ pc = "payload"
    /\ payload' = payload \ {i}
    /\ IF i \in function.iterator[Order[at]]
       THEN UNCHANGED <<metadata, hasChanged>>
       ELSE /\ AnnotateLoop(Order[at]) /\ AppendTo({i}, "payload", Order[at])
            /\ hasChanged' = TRUE
    /\ UNCHANGED <<function, pc, at, options, runs, before>>

\* All instructions are seen.
NextLoop ==
  /\ pc = "payload" /\ payload = {}
  /\ pc' = "loop" /\ at' = at + 1
  /\ UNCHANGED <<function, metadata, payload, options, hasChanged, runs, before>>

\* run returns hasChanged.
Return ==
  /\ pc = "loop" /\ at > Len(Order)
  /\ pc' = "idle"
  /\ UNCHANGED <<function, metadata, at, payload, options, hasChanged, runs, before>>

Next ==
  \/ Run \/ SkipLoop \/ AnnotateIterator \/ AnnotatePayload \/ NextLoop \/ Return

Spec == Init /\ [][Next]_vars

-----------------------------------------------------------------------------

\* The types of the variables; no node has an operand that was not there.
TypeOK ==
  /\ WellFormed(function)
  /\ nodes \in Seq(SUBSET (1..Len(nodes) \cup {LoopKey, Unroll}))
  /\ loopID \in [Loop -> 0..Len(nodes)]
  /\ data \in [Inst -> [Key -> SUBSET (1..Len(nodes) \cup {LoopKey, Unroll})]]
  /\ pc \in {"idle", "loop", "payload"}
  /\ at \in 1..Len(Order) + 1
  /\ pc = "payload" => at <= Len(Order)
  /\ payload \subseteq Inst
  /\ options \in Options
  /\ hasChanged \in BOOLEAN
  /\ runs \in 0..MaxRuns

\* The instructions that name l.  The ID that a loop had from elsewhere is an
\* operand of its new ID and so of what instructions name; it counts for none.
Named(key, l) == {i \in Inst : HasKey(l) /\ loopID[l] \in data[i][key]}

\* After any number of runs the iterator metadata of an instruction names
\* exactly the annotated loops whose iterators it is in; nested loops and
\* repeated runs add to the metadata of one instruction.
IteratorsNamed ==
  pc = "idle" =>
    \A l \in Loop : Named("iterator", l) = IF HasKey(l) THEN function.iterator[l] ELSE {}

\* The payload metadata names all of the payload of a loop or none of it, and
\* never an instruction of the iterator of that loop.
PayloadNamed ==
  pc = "idle" =>
    \A l \in Loop :
      Named("payload", l) \in {{}, function.instructions[l] \ function.iterator[l]}

\* The annotated loop IDs that instructions name are IDs that loops have: the
\* pass never gives a loop another ID than the one instructions were given.
NoStaleID ==
  \A i \in Inst : \A key \in Key :
    \A id \in data[i][key] \cap (1..Len(nodes)) :
      LoopKey \in nodes[id] => \E l \in Loop : loopID[l] = id

\* What a loop ID held before the pass gave the loop its own is in the new ID.
ExistingKept ==
  [][\A l \in Loop :
       loopID[l] # NoID => nodes[loopID[l]] \subseteq nodes'[loopID'[l]]]_vars

\* A run that returns that nothing has changed has changed nothing: a loop that
\* got an ID, which annotateLoop does not report, has an iterator.
ChangeReported ==
  pc = "idle" /\ ~hasChanged => before = <<loopID, data>>
=============================================================================
