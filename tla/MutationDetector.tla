--------------------------- MODULE MutationDetector ---------------------------
(***************************************************************************)
(* MutationDetector::process for one LoadModifyStore: from its target      *)
(* backwards over the operands that the shadow graph has an edge from, it  *)
(* collects the loads (and header phis) the value comes from and the       *)
(* operations on the way, and gives up at an instruction it cannot handle. *)
(* The worklist, a SetVector used as a stack, is a set here.  It is a      *)
(* member of the detector: a break leaves in it what it has not taken up.  *)
(***************************************************************************)
EXTENDS DependenceCache

CONSTANTS
  Inst,       \* the instructions and other operand values
  Programs    \* the loops considered

(***************************************************************************)
(* The classes process tells apart.  compute: binary operators, compares,  *)
(* address computations and casts; merge: a phi without an incoming value  *)
(* from the loop's header; header: a phi with one; value: an operand that  *)
(* is no instruction; other: every other instruction, atomicrmw, cmpxchg,  *)
(* fences and invokes among them.                                          *)
(***************************************************************************)
Kind == {"store", "load", "compute", "select", "merge", "header", "call",
         "value", "other"}

(***************************************************************************)
(* A loop: the kind of each instruction; the operands process may follow   *)
(* (the stored value, the choices of a select, the arguments of a call,    *)
(* all operands otherwise); the nodes and edges of the shadow graph; the   *)
(* memory instructions of the payload, their place in reverse post order   *)
(* and what alias analysis says of them; the instructions with side        *)
(* effects.                                                                *)
(***************************************************************************)
WellFormed(p) ==
  /\ p.kind \in [Inst -> Kind]
  /\ p.operands \in [Inst -> SUBSET Inst]
  /\ p.nodes \subseteq Inst
  /\ p.edges \subseteq p.nodes \X p.nodes
  /\ p.memory \subseteq p.nodes
  /\ p.order \in [Inst -> Nat]
  /\ p.modRef \in [Inst \X Inst -> ModRefInfo]

ASSUME DetectorAssumption ==
  \A p \in Programs : WellFormed(p) /\ p.sideEffects \subseteq Inst

VARIABLES
  program,
  dc,           \* the pairs of the DependenceCache
  pc,           \* "search" or "done"
  target,       \* LMS.Target
  workList, visited,
  sources, operations,   \* LMS.Sources, LMS.Operations
  wasProcessed,
  message       \* empty, or the instruction the message names

vars == <<program, dc, pc, target, workList, visited, sources, operations,
          wasProcessed, message>>

-----------------------------------------------------------------------------

\* The pairs of the dependence cache of p.
CacheOf(p) == Dependences(p.memory, p.order, p.modRef)

\* The instructions with an edge of the shadow graph to i.
InverseEdgeUnits(p, i) == {j \in Inst : <<j, i>> \in p.edges}

\* The operands process goes on to from i.  The arguments of a call are not
\* filtered.
Followed(p, i) ==
  IF p.kind[i] = "call" THEN p.operands[i]
  ELSE p.operands[i] \cap InverseEdgeUnits(p, i)

\* An instruction process gives up on: a call that is in the dependence cache
\* or an instruction of a kind it does not know.
GivesUp(p, deps, i) ==
  \/ p.kind[i] = "other"
  \/ p.kind[i] = "call" /\ Contains(deps, i)

IsSource(p, i)    == p.kind[i] \in {"load", "header"}
IsOperation(p, i) == p.kind[i] \in {"compute", "merge"}

\* The targets run asks about: a value that lives on behind the loop, or the
\* writing end of a memory dependence.
Targets ==
  {i \in program.nodes :
     /\ program.kind[i] # "value"
     /\ program.kind[i] = "store" => \E d \in dc : d[2] = i}

Init ==
  /\ program \in Programs
  /\ dc = CacheOf(program)
  /\ target \in Targets
  /\ pc = "search"
  /\ workList = {target} /\ visited = {}
  /\ sources = {} /\ operations = {}
  /\ wasProcessed = TRUE /\ message = <<>>

\* A value that is no instruction, was visited before or has no node in the
\* shadow graph is passed over.
PassOver(i) ==
  /\ pc = "search" /\ wasProcessed
  /\ \/ program.kind[i] = "value" /\ UNCHANGED visited
     \/ program.kind[i] # "value" /\ i \in visited /\ UNCHANGED visited
     \/ /\ program.kind[i] # "value" /\ i \notin visited /\ i \notin program.nodes
        /\ visited' = visited \cup {i}
  /\ workList' = workList \ {i}
  /\ UNCHANGED <<program, dc, pc, target, sources, operations, wasProcessed, message>>

\* What is done with i: process gives up, or i is a source, an operation or
\* neither, and process goes on to its operands unless it is a source.
Take(i) ==
  IF GivesUp(program, dc, i)
    THEN /\ wasProcessed' = FALSE
         /\ message' = <<i>>
         /\ workList' = workList \ {i}
         /\ UNCHANGED <<sources, operations>>
    ELSE /\ sources' = sources \cup {s \in {i} : IsSource(program, s)}
         /\ operations' = operations \cup {o \in {i} : IsOperation(program, o)}
         /\ workList' = (workList \ {i})
                        \cup (IF IsSource(program, i) THEN {} ELSE Followed(program, i))
         /\ UNCHANGED <<wasProcessed, message>>

\* Fault: giving up on one instruction does not end the search and is
\* forgotten when the next call is processed.
ProcessForgetting(i) ==
  /\ pc = "search"
  /\ program.kind[i] # "value" /\ i \notin visited /\ i \in program.nodes
  /\ visited' = visited \cup {i}
  /\ wasProcessed' = ~GivesUp(program, dc, i)
  /\ message' = IF wasProcessed' THEN message ELSE <<i>>
  /\ sources' = sources \cup {s \in {i} : IsSource(program, s)}
  /\ operations' = operations \cup {o \in {i} : IsOperation(program, o)}
  /\ workList' = (workList \ {i})
                 \cup (IF IsSource(program, i) THEN {} ELSE Followed(program, i))
  /\ UNCHANGED <<program, dc, pc, target>>

\* Fault: no check for a missing node.
ProcessUnchecked(i) ==
  /\ pc = "search" /\ wasProcessed
  /\ program.kind[i] # "value" /\ i \notin visited
  /\ visited' = visited \cup {i}
  /\ Take(i)
  /\ UNCHANGED <<program, dc, pc, target>>

\* Fault: the search stops at the first source.
ProcessFirstSource(i) ==
  /\ pc = "search" /\ wasProcessed
  /\ program.kind[i] # "value" /\ i \notin visited /\ i \in program.nodes
  /\ visited' = visited \cup {i}
  /\ wasProcessed' = ~GivesUp(program, dc, i)
  /\ message' = IF wasProcessed' THEN message ELSE <<i>>
  /\ sources' = sources \cup {s \in {i} : IsSource(program, s)}
  /\ operations' = operations \cup {o \in {i} : IsOperation(program, o)}
  /\ workList' = IF IsSource(program, i) THEN {}
                 ELSE (workList \ {i}) \cup Followed(program, i)
  /\ UNCHANGED <<program, dc, pc, target>>

\* Fault: nothing is kept of what was visited.
ProcessAgain(i) ==
  /\ pc = "search" /\ wasProcessed
  /\ program.kind[i] # "value" /\ i \in program.nodes
  /\ Take(i)
  /\ UNCHANGED <<program, dc, pc, target, visited>>

\* An instruction of the payload is taken up for the first time.
Process(i) ==
  /\ pc = "search" /\ wasProcessed
  /\ program.kind[i] # "value" /\ i \notin visited /\ i \in program.nodes
  /\ visited' = visited \cup {i}
  /\ Take(i)
  /\ UNCHANGED <<program, dc, pc, target>>

\* The worklist is empty, or was left by a break; the target is no operation.
Finish ==
  /\ pc = "search"
  /\ workList = {} \/ ~wasProcessed
  /\ operations' = operations \ {target}
  /\ pc' = "done"
  /\ UNCHANGED <<program, dc, target, workList, visited, sources, wasProcessed, message>>

Next == Finish \/ \E i \in workList : PassOver(i) \/ Process(i)

Spec == Init /\ [][Next]_vars

-----------------------------------------------------------------------------

\* The types of the variables, and the instructions they are about.
TypeOK ==
  /\ WellFormed(program)
  /\ dc \subseteq Inst \X Inst
  /\ pc \in {"search", "done"}
  /\ target \in program.nodes
  /\ workList \subseteq Inst
  /\ visited \subseteq Inst
  /\ sources \cup operations \subseteq visited \cap program.nodes
  /\ sources \cap operations = {}
  /\ wasProcessed \in BOOLEAN
  /\ message \in {<<>>} \cup {<<i>> : i \in Inst}

\* What t's value is computed from inside the payload of p, through the edges
\* of the shadow graph and the arguments of calls: nothing lies behind a
\* source or a value that has no node.
Closed(p, t, S) ==
  /\ t \in S
  /\ \A i \in S \cap p.nodes :
       p.kind[i] # "value" /\ ~IsSource(p, i) => Followed(p, i) \subseteq S

Slice(p, t) == {i \in Inst : \A S \in SUBSET Inst : Closed(p, t, S) => i \in S}

Handled(p, t) == {i \in Slice(p, t) \cap p.nodes : p.kind[i] # "value"}

\* When process succeeds it has found the whole slice, in whatever order it
\* searched: every source and every operation, and nothing else.
SliceComplete ==
  pc = "done" /\ wasProcessed =>
    /\ sources = {i \in Handled(program, target) : IsSource(program, i)}
    /\ operations = {i \in Handled(program, target) : IsOperation(program, i)} \ {target}

\* process fails exactly when it cannot handle something in the slice; what
\* it has found by then belongs to the slice.
FailsOnUnhandled ==
  pc = "done" =>
    /\ wasProcessed <=> ~\E i \in Handled(program, target) : GivesUp(program, dc, i)
    /\ sources \cup operations \subseteq Handled(program, target)

\* A call that process goes past, as its comment says, has no side effects.
NoSideEffectsCall ==
  pc = "done" /\ wasProcessed =>
    \A i \in visited \cap program.nodes :
      program.kind[i] = "call" => i \notin program.sideEffects

=============================================================================
