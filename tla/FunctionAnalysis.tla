--------------------------- MODULE FunctionAnalysis ---------------------------
(***************************************************************************)
(* PayloadDependenceGraphAnalysis::run with the analyses of each loop:     *)
(* PayloadPass, which edits the dependence graph for a loop and repairs it *)
(* afterwards, composed with LoopAnalysis, which runs on the edited graph  *)
(* between the updates and their reversal.  The DependenceCache of a loop  *)
(* is no longer chosen but computed.                                       *)
(***************************************************************************)
EXTENDS PayloadPass, FiniteSets

CONSTANTS
  Commutative,   \* the instructions isCommutative accepts
  Codes          \* the functions considered

VARIABLES
  code,          \* the function
  verdicts,      \* verdicts[k]: what is reported for the loop of result[k]
  lms, current, mdPc, target, workList, visited, sources, operations,
  wasProcessed, message, mdRemark,
  scPc, at, scTodo, hasCommutativeOps, stopProcessing, usedMessages

\* Loop l of function c as the mutation detector sees it, on the shadow graph of
\* graph g.  The cache is made of the payload instructions that may read or write
\* memory.
Program(c, l, g) ==
  [kind |-> c.kind, operands |-> c.operands,
   nodes |-> Payload[l], edges |-> ShadowEdges(g, Payload[l]),
   memory |-> Payload[l] \cap c.memory,
   order |-> RPO[l], modRef |-> c.modRef]

\* The analysis of the loop that run is at.
LA == INSTANCE LoopAnalysis WITH
        program <- Program(code, next, pdg), dc <- deps,
        liveOut <- code.liveOut[next], iva <- variance, todo <- scTodo

\* The DependenceCache of loop l: its pairs do not depend on the graph.
DependenceCacheOf(l) == LA!MD!CacheOf(Program(code, l, pdg0))

analysis == <<lms, current, mdPc, target, workList, visited, sources, operations,
              wasProcessed, message, mdRemark, scPc, at, scTodo, hasCommutativeOps,
              stopProcessing, usedMessages>>
functionVars == <<vars, code, verdicts, analysis>>

-----------------------------------------------------------------------------

(***************************************************************************)
(* A function: the kind and the operands of each instruction, those that   *)
(* may read or write memory, what alias analysis says of two, and the      *)
(* live-out values of each loop.  Loads and stores access memory, a call   *)
(* or an instruction of another kind (an invoke, an atomicrmw, a           *)
(* fence) may.  A payload has finitely many members, all instructions.     *)
(***************************************************************************)
WellFormed(c) ==
  /\ c.kind \in [Inst -> LA!MD!Kind]
  /\ c.operands \in [Inst -> SUBSET Inst]
  /\ c.memory \subseteq Inst
  /\ \A i \in Inst :
       /\ c.kind[i] \in {"load", "store"} => i \in c.memory
       /\ i \in c.memory => c.kind[i] \in {"load", "store", "call", "other"}
  /\ c.modRef \in [Pair -> LA!MD!ModRefInfo]
  /\ c.liveOut \in [Loop -> SUBSET Inst]
  /\ \A l \in Loop :
       /\ IsFiniteSet(Payload[l])
       /\ c.liveOut[l] \subseteq Payload[l]
       /\ \A i \in Payload[l] : c.kind[i] # "value"

ASSUME FunctionAssumption ==
  /\ Commutative \subseteq Inst
  /\ \A c \in Codes : WellFormed(c)

\* In the dependence graph the operands of an instruction have an edge to it
\* that is not about memory alone.
UsesAreEdges ==
  \A i \in Inst : \A j \in code.operands[i] :
    code.kind[j] # "value" =>
      pdg[<<j, i>>] # NoEdge /\ ~(pdg[<<j, i>>] \subseteq Memory)

FunctionInit ==
  /\ Init
  /\ code \in Codes
  /\ UsesAreEdges
  /\ verdicts = <<>>
  /\ LA!Init

\* A loop is taken up, with the dependences alias analysis tells.
TakeUpLoop ==
  /\ BeginLoop
  /\ deps' = DependenceCacheOf(next)
  /\ UNCHANGED <<code, verdicts, analysis>>

\* What run does without the analyses of the loop.
PassStep ==
  /\ \/ Start \/ SkipLoop \/ CreateUpdates \/ AllCreated \/ ExportUpdates
     \/ ExecuteUpdate \/ ReverseUpdate \/ EndLoop \/ Finish
  /\ UNCHANGED <<code, verdicts, analysis>>

\* Steps 3 and 4, on the updated graph.
AnalysisStep ==
  /\ pc = "execute" /\ pos = Len(dos)
  /\ UNCHANGED <<vars, code, verdicts>>
  /\ LA!Next

\* The verdict is reported with the remark of the detector.
ReportLoop ==
  /\ LA!End
  /\ verdicts' = Append(verdicts, [commutative |-> hasCommutativeOps,
                                   remark |-> mdRemark, variance |-> variance])
  /\ AnalyzeLoop
  /\ UNCHANGED code

FunctionNext == TakeUpLoop \/ PassStep \/ AnalysisStep \/ ReportLoop

\* run is sequential code that nothing blocks.
FunctionSpec ==
  FunctionInit /\ [][FunctionNext]_functionVars /\ WF_functionVars(FunctionNext)

-----------------------------------------------------------------------------

\* When no remark of the detector says otherwise, the verdict on a loop is
\* that of the whole chains of all live-out values and of all instructions
\* that write what an earlier one accesses, in the graph run was given: no
\* chain is cut or extended by the updates of the loop or of another one, and
\* nothing is lost or kept between the searches, which share one detector.
VerdictOfWholeChains ==
  pc = "done" =>
    \A k \in DOMAIN verdicts :
      verdicts[k].remark = <<>> =>
        (verdicts[k].commutative <=>
           LA!LoopCommutes(Program(code, result[k].loop, pdg0),
                           code.liveOut[result[k].loop], verdicts[k].variance))

\* When a loop is judged, the remark has one message for each chain that cannot
\* be followed to its end in the graph run was given, in the order of the
\* chains, and names an instruction of that chain that is in the way; every
\* other chain was found whole.  A search that was left early hands nothing on.
RemarkNamesUnhandled ==
  scPc = "done" =>
    LET graph == Program(code, next, pdg0)
        Failed(k) == {j \in 1..k : LA!Incomplete(graph, lms[j].target)}
    IN  /\ Len(mdRemark) = Cardinality(Failed(Len(lms)))
        /\ \A k \in DOMAIN lms :
             IF k \in Failed(k)
               THEN mdRemark[Cardinality(Failed(k))]
                      \in LA!Unhandled(graph, lms[k].target)
               ELSE lms[k] = LA!Chain(graph, lms[k].target)

\* Whatever cycles the payload has, all chains of all loops are processed and
\* judged and run returns, or the program has stopped with a fatal error.
FunctionTerminates == <>(pc \in {"done", "fatal"})
=============================================================================
