# IteratorRecognition in TLA+

IteratorRecognition is a set of LLVM passes. It splits each loop of a function
into its *iterator* (the instructions that drive the loop) and its *payload*
(the rest), and decides for each loop whether its iterations commute. This
directory holds TLA+ models of the analyses, TLC configurations that check
them on small instances and TLAPS proofs of the properties that matter most.

Paths are relative to the repository; `include/` stands for
`include/IteratorRecognition/`.

## The system

| part | state it keeps | operations | what can go wrong |
|---|---|---|---|
| Condensation graph, `include/Support/CondensationGraph.hpp` | components, out and in edges, entry node | constructor, `computeEdges`, `find` | two traversals that disagree; edges inside a component |
| Iterator recognition, `lib/Analysis/IteratorRecognition.cpp` | map from components to loops, one `IteratorInfo` per loop, statistics | constructor; block and subloop queries | components that spread over several loops |
| Value classification, `lib/Analysis/ValueClassification.cpp` | none | iterator, payload and live values | sets filled in the order of pointer sets |
| Dependence cache, `include/Analysis/DependenceCache.hpp` | pairs of conflicting instructions | `calculate`, `contains` | which of two instructions must write |
| Iterator variance, `include/Analysis/IteratorValueTracking.hpp` | cache of answers | `getVariance`, `getOrInsertVariance`, `mergeIn` | cycles, early exits, a wrong answer that stays cached |
| Graph updates, `include/Analysis/GraphUpdater.hpp` | none (actions on the dependence graph) | `create`, four kinds of `performUpdate` | an update and its reversal that do not fit |
| Shadow graph, `include/Support/ShadowDependenceGraph.hpp` | nodes and edges of the payload, next-iteration copies | `computeNodes`, `computeEdges`, `removeNodeFor`, cross-iteration edges | edges that lead back in time, a walk without end |
| Mutation detector, `include/Analysis/DetectOperations.hpp` | worklist, sources and operations of a chain | `process`, `processCall` | a slice that depends on the order of the search |
| Static commutativity, `include/Analysis/StaticCommutativityAnalyzer.hpp` | flags and messages of one call | `analyze` | a flag that later chains overwrite |
| Payload dependence graph pass, `lib/Analysis/Passes/PayloadDependenceGraphPass.cpp` | the shared graph, the results, the files | `run` | a graph that is not as it was; loops and files that do not match |
| Disposition tracker, `lib/Analysis/DispositionTracker.cpp` | infos of one loop nest | `getDisposition` | infos of another nest |
| Annotator, `lib/Transforms/Passes/AnnotatorPass.cpp`, `include/Exchange/MetadataAnnotation.hpp` | metadata in the program | `append` | metadata of nested loops, a second run |
| Exports, `lib/Exchange/`, `lib/Support/FileSystem.cpp` | files | `WriteJSONToFile`, `CreateDirectory` | a file that cannot be written |
| Options and registration, `lib/Passes/` | the option registry | constructors of the passes | a constructor that wipes options |

The parts call each other directly; nothing runs concurrently. The pass
manager runs iterator recognition on the dependence graph of a function
(pedigree builds it, outside the repository). `run` of the payload pass then
takes the loops innermost first. For each it fills a dependence cache, asks the
variance analyzer about the ends of each dependence, queues graph updates and
their reversals, executes the updates on the dependence graph *that all loops
and later passes share*, builds the shadow graph, lets the mutation detector
find the load-modify-store chains in it and the commutativity analyzer judge
them, appends the result and reverses the updates. What is hard is therefore
not concurrency but state that is shared and edited in place, searches with
early exits over sets whose order changes between runs (sets of pointers),
answers that are cached, flags that are overwritten, and files that cannot be
written half-way. `PROJECT.json` lists these hazards, each at its line.

## The modules

| module | models | kind |
|---|---|---|
| `GraphUpdater` | the update actions and the generator of updates | operators |
| `PayloadPass` | `run` of the payload pass, for all loops of a function | state machine |
| `LoopReports` | what a client of `run` sees | abstract specification |
| `DependenceCache` | the pairs of a dependence cache | operators |
| `IteratorVariance` | the variance analyzer, over any number of queries | state machine |
| `MutationDetector` | `process` for one chain | state machine |
| `StaticCommutativity` | `analyze` for the chains of one loop | state machine |
| `LoopAnalysis` | steps 3 and 4 of `run` for one loop | composes the last two |
| `FunctionAnalysis` | `run` with the analyses of its loops | composes `PayloadPass`, `DependenceCache` and `LoopAnalysis` |
| `IteratorRecognition` | the constructor of `IteratorRecognitionInfo` | state machine |
| `ValueClassification`, `PayloadBlocks` | the queries about what it has found | operators, extend it |
| `RecognitionExport` | the reports of `JSONExporterPass` on it | operators, extends it |
| `ShadowDependenceGraph` | building the shadow graph and its next iteration | state machine |
| `DispositionTracker` | the tracker, over any number of queries about the iterators found | state machine, extends `IteratorRecognition` through `ValueClassification` |
| `MetadataAnnotation` | the annotator, over any number of runs | state machine |
| `PassOptions` | the options of the program while a pipeline is built and run | state machine |

`PayloadPass` is the core. It models `run` statement by statement, with one
action per statement or loop turn, and `pc` for the statement it is at:

| action | code (`PayloadDependenceGraphPass.cpp`) |
|---|---|
| `Start` | the reports directory (`CreateDirectory`), the white list (162-181) |
| `SkipLoop`, `BeginLoop` | depth limits, no iterator info, no payload; cache and queues (196-260) |
| `CreateUpdates`, `AllCreated` | the loop over the dependence cache (262-268) |
| `ExportUpdates` | the file of updates (`WriteJSONToFile`), which may fail (270-278) |
| `ExecuteUpdate` | one turn of the loop over `dos` (280-283) |
| `AnalyzeLoop` | shadow graph, detection and verdict (285-331) |
| `ReverseUpdate` | one turn of the loop over `undos`, backwards (335-338) |
| `EndLoop`, `Finish` | the counter; the file of results (340-348) |

It extends `GraphUpdater`. A graph is a function from pairs of instructions to
a set of flags or `NoEdge`; an edge with no flags may exist and is not the same
as no edge. The answers of alias analysis and the variances are chosen anew for
each loop. `LoopReports` is the abstract specification of the pass: it reports
on the selected loops one by one and its graph never changes. `PayloadPass`
implements it under the mapping `Reports`, which hides the graph while updates
are in effect.

`AnalyzeLoop` is one step there because the analyses of a loop only read the
graph. `LoopAnalysis` opens it: it gathers the chains from the live-out values
and the dependence cache, runs `MutationDetector` on one after the other
(`CallProcess`, `Detect`, `ProcessReturns`) and `StaticCommutativity` on what is
then in `lms` (`CallAnalyze`, `Analyze`), both by `INSTANCE` over its own
variables, so that what one search leaves behind is there for the next: the
worklist, a member of the detector, keeps what a search that gave up has not
taken from it until `CallProcess` clears it (`DetectOperations.hpp:81`).
`mdRemark` is the sequence of the messages of the detector, each for the
instruction it names, which is the one the search gave up on and not the one it
started from (`DetectOperations.hpp:172`, `180`). `FunctionAnalysis` extends
`PayloadPass` and puts `LoopAnalysis` in the place of that step, by an
`INSTANCE` whose loop is an expression: the program the detector sees is the
shadow graph of the graph *as the updates have left it*, and the dependence
cache is no longer chosen but computed by `DependenceCache` from the traversal
of the payload. Which instructions may read or write memory
(`mayReadOrWriteMemory`, 239) is part of the function: loads and stores do,
calls and the instructions the detector does not know (atomicrmw, cmpxchg,
fences, invokes) may. Its reference is the graph `run` was given: `LoopAnalysis`
has operators for the chain of a value (`Chain`), for what stands in its way
(`Unhandled`, `Incomplete`), for what a loop is judged by (`Judged`) and for the
verdict (`LoopCommutes`), each on a program, and the properties apply them to
`Program(code, l, pdg0)`.

`StaticCommutativity` models `analyze`: the loop over chains (`EnterChain`,
`Return`), the loop over the sources of a chain in any order (`VisitSource`,
with `Accept` for `continue` and `Reject` for `break`), the flags and the set of
messages. `MutationDetector` models `process` for one target: `PassOver` for the
three ways an item is skipped, `Process` for the cases by class of instruction
(`Take`), with giving up as the break it is, which leaves the rest of the
worklist in place, `Finish` for the removal of the target. It uses the pairs of
`DependenceCache`.

`IteratorVariance`: `Query` is a cache miss, `Visit` one turn of the search
with its early exits, `Insert` the caching of the answer. Which operands the
search follows from an instruction is data of the program (`operands`).

`IteratorRecognition`: `Condense`, `ComputeEdges`, `MapCondensationToLoops`,
`RecognizeIterator` once per loop, `UpdateStatistics`. The components come from
LLVM's `scc_iterator` and are defined by reachability. `ValueClassification`
adds users, phi nodes and dominance to a function and has an operator for each
set the code fills; `PayloadBlocks` adds blocks, headers and latches;
`RecognitionExport` has an operator for each conversion of the two reports,
with instructions and loops for their descriptions.

`PassOptions` keeps for every option where its value comes from, how often it
counts as seen and whether it has a position on some command line. The texts
of options do not matter to what is checked and are left out. `Construct` is
the constructor of a pass while the pipeline is built, `RunPass` one pass on
one function, `EndFunction` the step to the next function. The wrappers of the
legacy pass manager construct the analysis or the annotator anew for each
function, so options are reset between functions; the new pass manager
constructs all passes before the first runs. LLVM's registry is external:
`ResetAllOptionOccurrences` clears how often options were seen, never their
positions nor the bits of a selection, and which values it restores differs
between versions (`restored`, an input). Only options seen twice since the last
reset are an error.

`ShadowDependenceGraph` keeps how often a node occurs in the edge vectors of
another; one action per method, in the order of the class.
`computeCrossIterationEdges` calls `IsIteratorDependent` for each dependence
through memory, whatever the build (line 453): `CallIsIteratorDependent` begins
such a walk over operands, `Walk` is one turn of it, and the edges are added when
all have returned. The walk begins once for each source, as it is the same for each
of its edges; what it answers is only printed.

`DispositionTracker` goes on where `IteratorRecognition` ends. It adds the users
of arguments and the address computations with their indices to a function;
queries (`Ask`, which is `init`) are made when the iterators are complete, and
the payload they ask about is that of `ValueClassification`. It keeps the infos
of the nest of the last query. `isIterator` is the operator `IsIterator`, the
actions of `Step` are the branches and the search of `getDisposition`.

`MetadataAnnotation` numbers metadata nodes as they are made and models
`append` and `annotateLoop` with the loops of `run` around them. It gives each loop
an ID of its own: two nested loops that share a latch would share the terminator
that holds the ID, and its properties say nothing of them.

Worklists are sets in the models where the code has a stack or a `SetVector`:
what is checked then holds in every order. Operators whose comment begins with
"Fault:" are not used by any specification; each is a plausible error in the
definition below it, and put in its place makes a property fail.

## What is checked

| run | instance | shows |
|---|---|---|
| `payload_pass` | six loops: nested, too deep, without payload, without info, a sibling; 15 graphs of three instructions; two kinds of edge information; all option settings; exports and the directory may fail | updates and reversals always fit the graph (`UpdatesApplicable`), each loop is analysed on its own updates (`AnalyzedOnOwnUpdates`), other information is never lost (`OtherInformationKept`), `GraphRestored`, `FilesMatchResults`, the refinement of `LoopReports`, `run` returns (`Terminates`) |
| `static_commutativity` | up to three chains, two values | the verdict is that of all chains (`Verdict`), the remark fits it |
| `iterator_variance` | every program of three values | every cached answer is the reference answer (`CacheCorrect`), queries return |
| `mutation_detector` | four instructions, all mixes of kinds, missing nodes and edges | success means the whole slice (`SliceComplete`), failure means something in the slice (`FailsOnUnhandled`) |
| `function_analysis` | two nested loops that are analysed and a third that is not, chains through a cycle, 3 graphs, all mixes of kinds of the accesses, with one the detector does not know | the verdict on each loop is that of the whole chains of the unedited graph, unless there is a remark (`VerdictOfWholeChains`); the remark has a message for each chain that could not be followed and names what is in its way (`RemarkNamesUnhandled`); `run` returns with all loops judged (`FunctionTerminates`) |
| `iterator_recognition` | every dependence graph of four instructions in five nests; every pattern of uses, a phi node and dependences through memory in three | `EdgesMirrored`, `AcyclicFromEntry`, `IteratorSelfContained`; from the iterator the dependences lead to all of the loop (`IteratorDrivesLoop`); the live values are live where the split says (`LiveOutLeavesLoop`, `LiveInIsConsumed`, `IteratorValuesAreLive`); what the block queries return (`PayloadByInstructions`); the two reports agree and tell iterators as whole condensations (`ReportsTellIterators`) |
| `shadow_graph` | every dependence graph of three instructions | the graph is that of the payload in both directions (`ShadowsPayload`), the copy is like it (`IterationsAlike`), time goes one way (`CarriedForward`); the walk over operands returns if the iterator cuts all cycles (`WalkReturns`) |
| `disposition_tracker` | three loops in two nests, five instructions whose uses decide the iterators that are found, indices computed in cycles and from iterators of any of the loops, any queries | each query is answered as if it were the first (`AnswerCorrect`), and is answered (`QueryReturns`) |
| `pass_options` | two pipelines of either pass manager on two functions, options in any mix on the command line and in the variables of the passes, resets that restore nothing, scalars or scalars and lists | no option is rejected for being seen twice (`NeverRejected`); a pass sees what the variable in effect gives and nothing stale (`OwnVariableInEffect`); the exporter keeps its selection (`SelectionKept`), a query is asked for every function (`QueryNotForgotten`) |
| `metadata_annotation` | three loops that share instructions, IDs from elsewhere, two runs with any options | `IteratorsNamed`, `PayloadNamed`, `NoStaleID`, `ExistingKept`, `ChangeReported` |

The bounds. Three instructions give dependences that share an end, so that
updates of one could disturb another, and the back edge of a loop; two kinds of
flag tell memory from other information. Six loops give each kind of skipped
loop before, between and after analysed ones, and loops that share
instructions. In `payload_pass` the variances of two instructions are equal:
in the proofs they differ in every way. With three
chains a rejected chain has a successor that is entered and one that is not;
with two sources the order matters. Three values form every cycle of length up
to three with an exit. Four instructions in two loops give components within a
loop, across the two and across the border of the outer. Two runs of the
annotator (`MaxRuns`) give one that meets the metadata of another; what the
second leaves is like what it met. In `function_analysis` the two accesses stand
at either end of the payload, so that either may be the later end of a
dependence, be updated and be followed through the same cycle; the inner loop
goes first and lacks one value of the cycle, so that what it leaves would show
in the outer. The variance of the last instruction differs from that of the
others: the updates of a pair depend on both ends. Two functions are one whose
options were never reset and one whose were; in the pipelines of `pass_options`
the exporter and the query stand before, behind and between the passes that
reset. Queries of the trackers are unbounded. `CHECK_DEADLOCK
FALSE` is set where the model ends because the code returns.

Two runs are expected to fail, each because the code does not do what a text
beside it says:

* `static_commutativity_remark`: the remark "non-commutativity due to empty
  sources" is made for a chain with sources when an earlier chain was rejected.
* `mutation_detector_calls`: a call the comment takes for free of side effects
  is one that conflicts with no other instruction; it may have side effects.

Fairness. All of this is sequential code that nothing blocks, so weak fairness
of the next step is what executing it means: of `Next` in `PayloadPass` and of
`FunctionNext` in `FunctionAnalysis`, of `Step` in `IteratorVariance` and
`DispositionTracker`, whose next-state relations also have the queries, and of
`Walk` in `ShadowDependenceGraph`, whose other actions are calls a client makes
or not. That a query or a call is ever made is not assumed, nor that recognition
ends.

## Observations

What modelling showed and no property calls wrong:

* A chain for which `process` failed is judged by `analyze` all the same, with
  the sources and operations found before the failure; a positive verdict is
  possible and only `mdRemark` tells. Its message names the instruction given up
  on, not the value the chain starts from, so it does not tell which chain is
  meant (`RemarkNamesUnhandled` says what it does tell).
* The updates of a loop never change its verdict: the detector follows
  operands, whose edges are not about memory alone, and asks the dependence
  cache about calls, which comes from alias analysis. `VerdictOfWholeChains`
  compares with the graph without updates and holds.
* A store that conflicts only with accesses that come later in the traversal is
  the later end of no dependence; unless it is live out it is not judged.
* A value that is live out and also the later end of a dependence has two
  chains.
* A dependence with an unknown and a variant end is left alone by the graph
  updates but counts as variant in `analyze`. A pair is in the dependence cache
  only if its *later* instruction may write.
* `IteratorVariance::mergeIn` reports whether it changed the wrong way round
  (`IteratorValueTracking.hpp:96`); nobody uses the report.
* `GetMixedBlocks` returns blocks with no instruction of the iterator: it skips
  what is *not* among the payload-only blocks (`IteratorRecognition.cpp:148`).
  `PayloadByInstructions` states what it returns.
* The subloop queries look at the subloops of the loop of the info and the
  blocks of the loop asked about; unless the two are the same they return
  nothing (`PayloadByInstructions`).
* The copies of the shadow graph have mirrored out edges but their in edges
  name the original as the source (`ShadowDependenceGraph.hpp:423`).
* `IsIteratorDependent` keeps no set of what it visited: it returns if every cycle
  of operands goes through an iterator value (`WalkReturns`) and may go round for
  ever on a cycle in the payload. `computeCrossIterationEdges` calls it in every
  build (line 453), but no pass calls `computeCrossIterationEdges`.
* `removeNodeFor` leaves the edges of other nodes to the removed node behind; it
  has no caller.
* The new ID `annotateLoop` makes has the old one as an operand, so what an
  instruction names includes it; `IteratorsNamed` counts IDs with the key.
* The statistic of inseparable *top-level* loops
  (`lib/Analysis/IteratorRecognition.cpp:42`) counts inner loops as well (241).
* A loop is exported by the terminator of its one latch
  (`lib/Exchange/JSONTransfer.cpp:58`); a loop with several has none, and no
  pass asks for simplified loops.
* With the new pass manager the variable of the pass constructed last rules the
  runs of all; a value of another pass or of the command line stays in an option
  that a reset does not restore (`OwnVariableInEffect`).
* Whether there is a disposition query is told from the position of the option,
  which outlives resets; its name may be restored to the empty one, and a name
  that is not found ends in a cast of null (`ValueClassificationPass.cpp:164`).
  The depth limits in that branch skip nothing: the loop around them ends before
  the query begins.
* `AnnotatorPass::run` tells whether it changed the function; under the new pass
  manager the answer is dropped and all analyses are said to be preserved.
* The answers to a disposition query are computed inside debug output only.
* `WriteJSONToFile` goes on after a failed open and prints "done".
* `IteratorRecognitionInfo` keeps references to the loops and the graph it was
  made from and says nothing about when it is invalid; a pipeline outside this
  repository could use it after they changed.

## What is proved

Each theorem is about every value of the constants, under the assumptions named
in the modules: sets of instructions of any size, any loops, any graph, any
answers of the analyses. A proof module has for each theorem the inductive
invariant, one lemma per action that can disturb it, and the facts about the
operators these need.

* `FunctionAnalysis_proofs`, first part (`PayloadPass`): `TypeCorrect`,
  `Restoration` (`GraphRestored`), `Applicability`, `OwnUpdates`,
  `OtherInformation`. The invariant is the conjunction of `TypeOK`, `Control`
  (which locals are empty at which statement), `Queues` (the k-th entries of
  `dos` and `undos` are the pair `Create` makes for the k-th dependence on the
  *original* graph, and no dependence occurs twice) and `InEffect` (each edge is
  as the executed part of the queue leaves it). `GraphRestored` alone is not
  inductive: it says nothing while updates are in effect. The step that matters
  is that the pair made for an edge, executed and reversed, restores it, and
  that two entries are about two edges, so they commute. `FilesAndResults`
  (`FilesMatchResults`) adds `Numbering`: the counter is the number of results,
  but for the moment between reporting a loop and the end of its body, and only
  the loop under analysis can have a file and no result. `Implementation`
  (`ImplementsReports`) is the refinement of `LoopReports`: `AnalyzeLoop` is a
  report, every other action a stutter. It needs that the graph behind the
  mapping is the one `run` was given (`Unobserved`, from `InEffect`) and that
  the loops reported are the analysed ones passed by (`Progress`).
* `FunctionAnalysis_proofs`, second part: `RunWithAnalyses` says that `run` with
  the analyses of its loops is `run` as the first part has it (`FunctionSpec`
  implies `Spec`, an analysis step being a stutter), so that all its theorems
  hold of the composition. `VerdictsRight` (`VerdictOfWholeChains`) and
  `RemarksRight` (`RemarkNamesUnhandled`) are about the results. The invariant
  `Analyses` says where the analyses of the loop are: nothing is left over
  outside them (`Idle`), the targets gathered are those the loop is judged by,
  each chain already searched is whole or cannot be followed, and the remark has
  one message for each of these (`Gathered`, with `Remarked`, which counts them), a
  search satisfies the invariant of `MutationDetector` (`Searching`), a judgement
  satisfies that of `StaticCommutativity` (`Judging`), and what was reported of
  earlier loops is right (`Reported`). The proofs of the two analyses are used
  as they stand, by `INSTANCE` on the updated graph of the loop `run` is at. That
  their results are those of the *original* graph is `SameChains`: the detector
  follows edges from operands, these are not about memory alone
  (`UsesAreEdges`, part of `FunctionInit`: pedigree connects each definition to
  its uses) and `OtherInformationKept` keeps them, so an operand in the payload is
  followed on either graph (`SameFollowed`). A function is
  assumed to be well formed (`FunctionAssumption`): a payload is a finite set of
  instructions, live-out values among them.
* `StaticCommutativity_proofs`: `TypeCorrect`, `VerdictCorrect`, `RemarkCorrect`
  (`RemarkMatchesVerdict`). `Progress` relates the flags to the chains and
  sources visited so far; `Remarks` says that all messages are positive until a
  source is rejected and that from then on one is negative.
* `MutationDetector_proofs`: `TypeCorrect`, `Complete` (`SliceComplete`),
  `FailsRightly` (`FailsOnUnhandled`). Neither property is inductive, both are
  about the end of the search. `Found` says that nothing outside the slice was
  met and that sources and operations are those among the visited instructions;
  `Pending` says that what is followed from a visited instruction is visited or
  waiting, unless the search gave up, in which case a visited instruction made
  it, the one the message names (`MessageNames`). With an empty worklist the
  visited instructions are closed, and the slice is the least closed set.
* `IteratorVariance_proofs`: `TypeCorrect`, `CacheIsCorrect`. The invariant
  `Searching` says that the visited values and the worklist together are within
  what the query reaches, that visited walked values have their operands in
  them, and that the status is the summary of the visited ones; when the
  worklist is empty the visited values are closed and so are all that is
  reached, and when the search ends early the status is already Variant.
* `IteratorRecognition_proofs`, first part: `TypeCorrect`, `Mirrored`,
  `SelfContained`, `Acyclic`, `Drives` (`IteratorDrivesLoop`). The invariant
  `Phases` says what each phase computed. The first three follow because
  components are disjoint and each instruction is in its own. The others
  descend: an edge to another component leads to strictly fewer nodes (`Below`)
  and from strictly more (`Above`), so of finitely many components one has the
  fewest and has no successor among them (`SinkAndSource`). For `Drives` that is
  said of the components of a loop that a set closed under dependences leaves
  out: one of them has no predecessor among them, none outside either, and is
  therefore of the iterator. This is why `RecognitionAssumption` says that a
  function has finitely many instructions.
  On top of them are the modules that read what was recognised: the values of a
  loop (`LiveInConsumed`, `LiveOutLeaves`, `IteratorValuesLive`, which rest on
  `SelfContained`: a use is a dependence, so an instruction of the loop that the
  iterator uses is of the iterator), the block queries (`PayloadQueries`) and
  the two reports (`ReportsAgree`, `ReportsTellIterators`).
* `IteratorRecognition_proofs`, second part (`DispositionTracker`):
  `TrackerTypeCorrect` and `Answers` (`AnswerCorrect`). A behaviour of the
  tracker is one of recognition (`TrackerKeepsRecognition`), so all of the first
  part holds of the iterators it is asked about. `Held` says that the infos held
  are those of the nest of the last query, whatever was asked before; with them
  `isIterator` tells the iterators of the loops of the query
  (`IteratorsOfQuery`). That rests on every loop being in a top-level loop
  (`TopLevel`: preorder numbers the parent of a loop lower, so the least loop
  around it has no parent). `Tracing` says that what was met is computed from the
  indices of the query, that nothing of that is lost and that what was visited
  is no iterator; an empty worklist then means that no iterator is computed from.
* `ShadowDependenceGraph_proofs`: `TypeCorrect`, `Shadow` (`ShadowsPayload`),
  `Alike` (`IterationsAlike`), `Forward` (`CarriedForward`). The invariant
  `EdgeCounts` gives the number of occurrences in both lists for each pair of
  iterations, from the methods that have been called; the properties read it.
  It is also what shows that no edge is listed twice at its source. The walks of
  `IsIteratorDependent` leave the edges alone (`Walks`).
* `MetadataAnnotation_proofs`: `TypeCorrect`, `IteratorNaming`, `NamesCurrent`,
  `ChangesReported`, `PayloadNamedCorrectly` (`PayloadNamed`) and, of every
  step, `ExistingIDsKept` (`ExistingKept`). The invariant is `Nodes` (what a
  node with the key may hold), `Owners` (a node with the key is the ID of
  exactly one loop), `Naming` (which loops an instruction names, with the types
  of all metadata) and `Control` (as long as no change is noted, the metadata is
  as it was when the run began). `PayloadNaming` is about the loop the payload
  pass of the annotator is in the middle of: what it has reached names the loop,
  of every other loop all of the payload does or none.
* `PassOptions_proofs`: `TypeCorrect`, `NoOptionRejected`, `SelectionStays`,
  `VariableInEffect` (`OwnVariableInEffect`), `QueryKept` (`QueryNotForgotten`),
  for any pipelines of either manager and whatever a reset restores. The first
  invariant, `SeenOnce`, is that every option was seen at most once since the
  last reset. For the exporter it is `Chosen` (a component is selected as soon
  as the exporter is constructed) with `Growing` (no run saw more than there is
  now, nor more than a later one): bits are added and never reset. For the
  variables it is `LastInEffect` (with the new manager the constructor that ran
  last decides, with the legacy one each pass decides for its own run), for the
  query `QueryTraced` (a name other than that of the command line is due to a
  run that gave or restored it).

That the loops and searches come to an end is proved as far as it is about
steps. `RunEnds`, `FunctionEnds`, `AnalyzeEnds`, `SearchEnds`, `SearchesEnd` and
`QueriesEnd` say of every step that it goes down an order: a search visits an
item for the first time or shortens its worklist, `analyze` goes on to another
chain or source, `run` to another loop, statement, dependence or update. No
infinite sequence of steps goes down these orders for a function of finitely
many instructions. `AlwaysNextUpdate` says that the one step of `run` that needs
something to exist, the dependence that is next, always finds it.

Only model-checked: `Terminates`, `FunctionTerminates`, `WalkReturns` and the two
`QueryReturns`. They say that the end is reached, which needs fairness and
`ENABLED`, both out of the prover's reach. Every safety property of a passing run
is proved.

Only proved: the type invariants (`TypeOK`, in `DispositionTracker`
`TrackerTypeOK`). They follow from the invariants of the proofs and are in no run.

## What is not modelled

`FindMemPayloadLiveValues`, `FindDirectUsesOfIn` and `removeNodeFor` of the
shadow graph have no caller that is compiled. `ValueClassificationPass` prints
the views of its option and answers one query in debug output; what it decides
(white list, query, selection) is in `PassOptions`, what it prints is
formatting. Pass names and the parsing of pipeline texts are dispatch on
strings. Phi demotion has no state and no caller. Of `Support/Utils`,
`unique_inplace` is the set it produces; `is_subset_of` (`Extras.hpp`) returns
after it has looked at one element, but has no caller. JSON layout, string
conversion, debug information of loops, debug output, the report scripts and the
build files are formatting and tooling. pedigree (the dependence graph and
`DetermineHazard`) and LLVM (alias analysis, loops, dominance, `scc_iterator`,
metadata, the option registry) are external and modelled by how the code uses
them.

## Plan

Done: the core (`GraphUpdater`, `PayloadPass`, `LoopReports`), the analyses of
one loop, their composition with the core (`FunctionAnalysis`), the option
registry (`PassOptions`), iterator recognition with its queries and reports, the
shadow graph, the tracker and the annotator, each with its run; the proofs
above, of all safety properties that the runs check and of the refinement.

The tracker is joined to recognition, the analyses of a loop to the core. What is
left apart is `PayloadPass`, which is given the payload of each loop and takes it
for any set of instructions; that it is what `IteratorRecognition` finds is said
in no theorem and not needed by one.
