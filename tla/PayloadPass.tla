----------------------------- MODULE PayloadPass -----------------------------
(***************************************************************************)
(* PayloadDependenceGraphAnalysis::run for one function: the loops are     *)
(* visited innermost first; for each analysed loop the updates of its      *)
(* memory dependences are created, exported and executed on the program    *)
(* dependence graph that all loops (and later passes) share, the loop is   *)
(* analysed on the updated graph, and the updates are reversed.            *)
(*                                                                         *)
(* What the analyses before this one computed is given by constants: the   *)
(* loops, the payload of each, the order of its instructions.  What alias  *)
(* analysis and the variance of the operands answer is chosen anew for     *)
(* each loop.                                                              *)
(***************************************************************************)

EXTENDS GraphUpdater, Integers, Sequences

CONSTANTS
  NumLoops,       \* loops are named by their place in getLoopsInPreorder
  Depth,          \* Depth[l]: nesting depth of loop l, 1 for a top-level loop
  LoopDepthMin,   \* the option itr-loop-depth-min
  LoopDepthMax,   \* the option itr-loop-depth-max
  Recognized,     \* the loops IteratorRecognitionInfo has iterator info for
  Payload,        \* Payload[l]: the payload instructions of loop l
  RPO,            \* RPO[l][i]: place of instruction i in the traversal of l
  Graphs,         \* the dependence graphs the function may start with
  Variances,      \* the variances an IteratorVarianceAnalyzer may compute
  Settings        \* the settings of the pass options considered

Loop == 1..NumLoops

\* The options ExportGraphUpdates and ExportResults, and whether the function
\* is on the white list or there is none.
Options == [exportUpdates : BOOLEAN, exportResults : BOOLEAN, listed : BOOLEAN]

ASSUME PassAssumption ==
  /\ NumLoops \in Nat
  /\ Depth \in [Loop -> Nat]
  /\ LoopDepthMin \in Nat /\ LoopDepthMax \in Nat
  /\ Recognized \subseteq Loop
  /\ Payload \in [Loop -> SUBSET Inst]
  /\ RPO \in [Loop -> [Inst -> Nat]]
  /\ \A l \in Loop : \A i, j \in Inst : RPO[l][i] = RPO[l][j] => i = j
  /\ Graphs \subseteq Graph
  /\ Variances \subseteq [Inst -> Variance]
  /\ Settings \subseteq Options

VARIABLES
  opts,        \* the settings of the options
  pc,          \* the statement run is at
  next,        \* the loop to look at next, 0 after the last
  deps,        \* the dependences in the loop's DependenceCache
  todo,        \* those of them no update has been created for yet
  variance,    \* what the loop's IteratorVarianceAnalyzer answers
  dos, undos,  \* the two action queues
  pos,         \* number of actions of dos in effect on the graph
  pdg,         \* the program dependence graph
  loopCount,   \* number the next exported update file gets
  result,      \* the properties reported so far
  updateFiles, \* updateFiles[n]: content of "itr.graph_updates.F.loop.n"
  resultFile,  \* content of "sca.F", empty when there is no such file
  pdg0         \* history: the graph as run was given it

locals == <<deps, todo, variance, dos, undos, pos>>
files  == <<updateFiles, resultFile>>
vars   == <<opts, pc, next, locals, pdg, loopCount, result, files, pdg0>>

-----------------------------------------------------------------------------

Unanalyzed == [i \in Inst |-> "Unknown"]

\* The pairs DependenceCache compares: two payload instructions of the loop,
\* the first of them earlier in reverse post order.
Candidates(l) ==
  {e \in Payload[l] \X Payload[l] : RPO[l][e[1]] < RPO[l][e[2]]}

\* The iteration order of DependenceCache: that of insertion.
Precedes(l, d, e) ==
  \/ RPO[l][d[1]] < RPO[l][e[1]]
  \/ d[1] = e[1] /\ RPO[l][d[2]] <= RPO[l][e[2]]

\* The loops whose properties run reports.
DepthSelected(l) == Depth[l] <= LoopDepthMax /\ Depth[l] >= LoopDepthMin
Analyzed(l) == DepthSelected(l) /\ l \in Recognized /\ Payload[l] # {}

\* Nodes and edges of the shadow graph: the part of the graph on the payload.
ShadowEdges(g, nodes) == {e \in nodes \X nodes : g[e] # NoEdge}

-----------------------------------------------------------------------------

Init ==
  /\ opts \in Settings
  /\ pdg \in Graphs
  /\ pdg0 = pdg
  /\ pc = "start"
  /\ next = NumLoops
  /\ deps = {} /\ todo = {} /\ variance = Unanalyzed
  /\ dos = <<>> /\ undos = <<>> /\ pos = 0
  /\ loopCount = 0
  /\ result = <<>>
  /\ updateFiles = <<>>
  /\ resultFile = <<>>

\* What a file of updates tells: the loop, and the updates in their order.
ConvertToJSON(l, actions) == [loop |-> l, updates |-> actions]

\* CreateDirectory makes the directory or says that it cannot, which is fatal:
\* the statements run may go on with.
CreateDirectory(statement) == {statement, "fatal"}

(***************************************************************************)
(* WriteJSONToFile either writes the file, replacing one of the same name, *)
(* or fails.  A failure is not reported to the caller: the file is missing *)
(* and run goes on, unless the stream the failure is left on ends the      *)
(* program.  The results are the files there are and the next statement.   *)
(***************************************************************************)
WriteJSONToFile(present, written, statement) ==
  {[kept |-> written, pc |-> statement]}
    \cup [kept : {present}, pc : {statement, "fatal"}]

\* The reports directory is created when something is to be exported.  A
\* function that is not on the white list is left alone.
Start ==
  /\ pc = "start"
  /\ LET statement == IF opts.listed THEN "loops" ELSE "done"
     IN  pc' \in IF opts.exportUpdates \/ opts.exportResults
                  THEN CreateDirectory(statement) ELSE {statement}
  /\ UNCHANGED <<opts, next, locals, pdg, loopCount, result, files, pdg0>>

\* Fault: break in the place of continue.
SkipAllLoops ==
  /\ pc = "loops" /\ next > 0
  /\ ~Analyzed(next)
  /\ next' = 0
  /\ UNCHANGED <<opts, pc, locals, pdg, loopCount, result, files, pdg0>>

\* Fault: skipped loops are counted too.
SkipCountedLoop ==
  /\ pc = "loops" /\ next > 0
  /\ ~Analyzed(next)
  /\ next' = next - 1
  /\ loopCount' = loopCount + 1
  /\ UNCHANGED <<opts, pc, locals, pdg, result, files, pdg0>>

\* A loop outside the depth limits, without iterator info or without payload.
SkipLoop ==
  /\ pc = "loops" /\ next > 0
  /\ ~Analyzed(next)
  /\ next' = next - 1
  /\ UNCHANGED <<opts, pc, locals, pdg, loopCount, result, files, pdg0>>

\* A loop is taken up: its DependenceCache is filled and its queues are empty.
BeginLoop ==
  /\ pc = "loops" /\ next > 0
  /\ Analyzed(next)
  /\ deps' \in SUBSET Candidates(next)
  /\ todo' = deps'
  /\ variance' \in Variances
  /\ dos' = <<>> /\ undos' = <<>> /\ pos' = 0
  /\ pc' = "create"
  /\ UNCHANGED <<opts, next, pdg, loopCount, result, files, pdg0>>

\* The updates of one dependence are queued, unless there are none.
CreateUpdates ==
  /\ pc = "create"
  /\ \E e \in todo :
       LET actions == Create(pdg, variance, e)
       IN  /\ \A d \in todo : Precedes(next, e, d)
           /\ todo' = todo \ {e}
           /\ IF actions = NoActions
                THEN UNCHANGED <<dos, undos>>
                ELSE /\ dos'   = Append(dos, actions[1])
                     /\ undos' = Append(undos, actions[2])
  /\ UNCHANGED <<opts, pc, next, deps, variance, pos, pdg, loopCount, result,
                 files, pdg0>>

\* Every dependence has been looked at.
AllCreated ==
  /\ pc = "create" /\ todo = {}
  /\ pc' = IF opts.exportUpdates THEN "export" ELSE "execute"
  /\ UNCHANGED <<opts, next, locals, pdg, loopCount, result, files, pdg0>>

\* The updates are exported to the file with the number of the loop.
ExportUpdates ==
  /\ pc = "export"
  /\ \E out \in WriteJSONToFile(
               updateFiles,
               [n \in DOMAIN updateFiles \cup {loopCount} |->
                  IF n = loopCount THEN ConvertToJSON(next, dos)
                                   ELSE updateFiles[n]],
               "execute") :
       updateFiles' = out.kept /\ pc' = out.pc
  /\ UNCHANGED <<opts, next, locals, pdg, loopCount, result, resultFile, pdg0>>

\* The updates run from the first to the last.
ExecuteUpdate ==
  /\ pc = "execute" /\ pos < Len(dos)
  /\ pdg' = PerformUpdate(pdg, dos[pos + 1])
  /\ pos' = pos + 1
  /\ UNCHANGED <<opts, pc, next, deps, todo, variance, dos, undos, loopCount,
                 result, files, pdg0>>

\* Steps 2 to 4 of run: the shadow graph is built from the updated graph, and
\* what is found on it is reported for the loop.
AnalyzeLoop ==
  /\ pc = "execute" /\ pos = Len(dos)
  /\ result' = Append(result, [loop   |-> next,
                               shadow |-> ShadowEdges(pdg, Payload[next])])
  /\ pc' = "reverse"
  /\ UNCHANGED <<opts, next, locals, pdg, loopCount, files, pdg0>>

\* Fault: the last action is reversed for ever.
ReverseUpdateForever ==
  /\ pc = "reverse" /\ pos > 0
  /\ pdg' = PerformUpdate(pdg, undos[pos])
  /\ UNCHANGED <<opts, pc, next, deps, todo, variance, dos, undos, pos, loopCount,
                 result, files, pdg0>>

\* The reversals run from the last to the first.
ReverseUpdate ==
  /\ pc = "reverse" /\ pos > 0
  /\ pdg' = PerformUpdate(pdg, undos[pos])
  /\ pos' = pos - 1
  /\ UNCHANGED <<opts, pc, next, deps, todo, variance, dos, undos, loopCount,
                 result, files, pdg0>>

\* Fault: the updates stay in the graph.
EndLoopUnreversed ==
  /\ pc = "reverse"
  /\ loopCount' = loopCount + 1
  /\ next' = next - 1
  /\ deps' = {} /\ variance' = Unanalyzed
  /\ dos' = <<>> /\ undos' = <<>> /\ pos' = 0
  /\ pc' = "loops"
  /\ UNCHANGED <<opts, todo, pdg, result, files, pdg0>>

\* The locals of the loop body end with it.
EndLoop ==
  /\ pc = "reverse" /\ pos = 0
  /\ loopCount' = loopCount + 1
  /\ next' = next - 1
  /\ deps' = {} /\ variance' = Unanalyzed
  /\ dos' = <<>> /\ undos' = <<>>
  /\ pc' = "loops"
  /\ UNCHANGED <<opts, todo, pos, pdg, result, files, pdg0>>

\* The results are exported when that is asked for.
Finish ==
  /\ pc = "loops" /\ next = 0
  /\ IF opts.exportResults
     THEN \E out \in WriteJSONToFile(resultFile, result, "done") :
            resultFile' = out.kept /\ pc' = out.pc
     ELSE resultFile' = resultFile /\ pc' = "done"
  /\ UNCHANGED <<opts, next, locals, pdg, loopCount, result, updateFiles, pdg0>>

Next ==
  \/ Start \/ SkipLoop \/ BeginLoop
  \/ CreateUpdates \/ AllCreated \/ ExportUpdates
  \/ ExecuteUpdate \/ AnalyzeLoop \/ ReverseUpdate
  \/ EndLoop \/ Finish

Spec == Init /\ [][Next]_vars

\* run is sequential code that nothing blocks, and runOnFunction calls it to
\* its end: it takes its next step.
FairSpec == Spec /\ WF_vars(Next)

-----------------------------------------------------------------------------

\* The types of the variables, and what a loop's locals are between loops.
TypeOK ==
  /\ opts \in Options
  /\ pc \in {"start", "loops", "create", "export", "execute", "reverse",
             "done", "fatal"}
  /\ next \in 0..NumLoops
  /\ deps \subseteq Pair /\ todo \subseteq deps
  /\ variance \in [Inst -> Variance]
  /\ dos \in Seq(Action) /\ undos \in Seq(Action)
  /\ pos \in 0..Len(dos)
  /\ pdg \in Graph /\ pdg0 \in Graph
  /\ loopCount \in Nat
  /\ result \in Seq([loop : Loop, shadow : SUBSET Pair])
  /\ resultFile \in Seq([loop : Loop, shadow : SUBSET Pair])
  /\ DOMAIN updateFiles \subseteq Nat
  /\ \A n \in DOMAIN updateFiles :
       updateFiles[n] \in [loop : Loop, updates : Seq(Action)]

\* What run borrowed it gives back: between loops, and when it returns, the
\* graph is the one it was given, edge for edge and flag for flag (the
\* comment "step 5 reverse graph updates").
GraphRestored == pc \in {"loops", "done"} => pdg = pdg0

\* The order of the updates and of their reversal never adds an edge that is
\* there nor removes or relabels one that is not.
UpdatesApplicable ==
  /\ pc = "execute" /\ pos < Len(dos) => Applicable(pdg, dos[pos + 1])
  /\ pc = "reverse" /\ pos > 0        => Applicable(pdg, undos[pos])

\* The edge a dependence has while its loop is analysed, told from the edge
\* it had when run was called.
UpdatedEdge(e) ==
  LET rel == Relation(variance, e)
  IN  IF rel = "Invariant" /\ pdg0[e] = NoEdge /\ Hazard[e] # {}
        THEN Hazard[e]
      ELSE IF rel = "Variant" /\ pdg0[e] # NoEdge /\ pdg0[e] \cap Memory # {}
        THEN IF pdg0[e] \subseteq Memory THEN NoEdge ELSE pdg0[e] \ Memory
      ELSE pdg0[e]

\* Each loop is analysed on the graph run was given with exactly the updates
\* of that loop's own dependences: nothing an earlier loop did is left in it.
AnalyzedOnOwnUpdates ==
  pc = "execute" /\ pos = Len(dos) =>
    pdg = [e \in Pair |-> IF e \in deps THEN UpdatedEdge(e) ELSE pdg0[e]]

\* Every edge keeps its non-memory information at every moment, also half-way
\* through the updates: a register or control dependence is never lost.
OtherInformationKept ==
  \A e \in Pair :
    pdg0[e] # NoEdge /\ pdg0[e] \ Memory # {} =>
      pdg[e] # NoEdge /\ pdg[e] \ Memory = pdg0[e] \ Memory

\* The number in the name of an exported file is the place of its loop in the
\* results, also when loops were skipped or other exports failed.
FilesMatchResults ==
  \A n \in DOMAIN updateFiles :
    /\ n <= Len(result)
    /\ n < Len(result) => updateFiles[n].loop = result[n + 1].loop

\* run returns, or the program has stopped with a fatal error.
Terminates == <>(pc \in {"done", "fatal"})

-----------------------------------------------------------------------------

\* While the updates of a loop are in effect, a client cannot look.
Reports == INSTANCE LoopReports WITH
  Selected <- {l \in Loop : Analyzed(l)},
  graph    <- IF pc \in {"execute", "reverse"} THEN pdg0 ELSE pdg,
  reports  <- result,
  status   <- CASE pc = "done" -> "returned" [] pc = "fatal" -> "failed"
                [] OTHER -> "running",
  listed   <- opts.listed

\* run implements the specification of its reports: to a client, each loop is
\* analysed in one step on a graph that never changes.
ImplementsReports == Reports!Spec

=============================================================================
