----------------------------- MODULE PassOptions -----------------------------
(***************************************************************************)
(* The command line options of the passes while a pass manager builds a    *)
(* pipeline and runs it on the functions of a module.  The options are     *)
(* global variables of the program.  The constructors of three passes      *)
(* reset all of them and then parse an environment variable of their own.  *)
(* The legacy wrappers of two of these passes construct them anew for each *)
(* function; the new pass manager constructs each once, before any runs.   *)
(*                                                                         *)
(* The text of an option is left out: what counts is where it was given.   *)
(* Replacing ReportsDir by the absolute path of the same directory is no   *)
(* change here.                                                            *)
(***************************************************************************)
EXTENDS Naturals, Sequences, FiniteSets

CONSTANTS
  NumFunctions,
  Setups      \* the ways to call the program that are considered

\* cl::opt: a value is given once and replaces the one before.
Scalars ==
  {"ReportsDir", "LoopDepthMin", "LoopDepthMax", "ExportGraphUpdates",
   "ExportResults", "AnnotatePayload", "DispositionQuery"}

\* cl::list and cl::bits: what is given is added.
Lists == {"FunctionWhiteList"}
Bits  == {"ReportComponentOption", "ViewSelectionOption"}
Option == Scalars \cup Lists \cup Bits

\* The passes whose constructor resets the options and parses a variable.
SelfParsing == {"recognize", "payload", "annotate"}
Pass == SelfParsing \cup {"export", "classify"}

\* Where an option may have its value from.
Origin == SelfParsing \cup {"command line", "constructor"}

(***************************************************************************)
(* A call of the program: its pass manager and pipeline, the options given *)
(* on the command line and in the variables of the passes, and what a      *)
(* reset restores, which depends on the version of LLVM: options without   *)
(* an initial value, and lists, were left as they are by some; bits are by *)
(* all.  Only the legacy manager has the passes export and classify.       *)
(***************************************************************************)
Setup ==
  [manager : {"legacy", "new"}, pipeline : Seq(Pass),
   given : [SelfParsing \cup {"command line"} -> SUBSET Option],
   restored : SUBSET (Scalars \cup Lists)]

ASSUME OptionsAssumption ==
  /\ NumFunctions \in Nat \ {0}
  /\ Setups \subseteq Setup
  /\ \A s \in Setups :
       s.manager = "new" => \A k \in DOMAIN s.pipeline : s.pipeline[k] \in SelfParsing

VARIABLES
  setup,
  value,        \* value[o]: where the value of o is from, nowhere for the default
  occurrences,  \* occurrences[o]: how often o counts as seen
  position,     \* the options with a position on some command line
  pc,           \* "construct", "run", "done", "rejected" or "fatal"
  at,           \* the pass that is constructed or run next
  fn,           \* the function it runs on
  runs          \* history: the runs of passes, with the options they saw

options == <<value, occurrences, position>>
vars == <<setup, options, pc, at, fn, runs>>

\* The constructors that run before any pass does: with the new manager those
\* of the two analyses, then one for each annotate that the pipeline names.
Constructors ==
  IF setup.manager = "new"
    THEN LET named == {k \in DOMAIN setup.pipeline : setup.pipeline[k] = "annotate"}
         IN  <<"recognize", "payload">> \o [k \in 1..Cardinality(named) |-> "annotate"]
    ELSE setup.pipeline

-----------------------------------------------------------------------------

NoOccurrences == [o \in Option |-> 0]

\* The options p is given are parsed on top of these values and occurrences.
Parse(p, values, counts) ==
  LET given == setup.given[p]
  IN  /\ value' = [o \in Option |->
                     IF o \notin given THEN values[o]
                     ELSE IF o \in Scalars THEN {p} ELSE values[o] \cup {p}]
      /\ position' = position \cup given
      /\ occurrences' = [o \in Option |-> counts[o] + IF o \in given THEN 1 ELSE 0]

\* ResetAllOptionOccurrences: the values that are left.
ResetValues ==
  [o \in Option |-> IF o \in setup.restored THEN {} ELSE value[o]]

\* Fault: no reset.
ParseOnly(p) == Parse(p, value, occurrences)

\* Fault: the variable is parsed for the first function only.
ParseOnce(p) ==
  IF fn = 1 THEN Parse(p, ResetValues, NoOccurrences) ELSE UNCHANGED options

\* The constructor of a self-parsing pass: the options and their occurrences
\* are reset, positions are not, and the variable of the pass is parsed.
ResetAndParse(p) == Parse(p, ResetValues, NoOccurrences)

\* An option that may be given once is seen a second time, which is an error
\* that ends the program.
Rejected == \E o \in Scalars : occurrences'[o] > 1

\* A value the constructor of a pass gives an option.
AddValue(o) ==
  /\ value' = [value EXCEPT ![o] = @ \cup {"constructor"}]
  /\ UNCHANGED <<position, occurrences>>

\* Fault: the selection is left to the command line.
SelectNothing == UNCHANGED options

\* checkAndSetCmdLineOptions of the pass export: a component is selected if
\* there is none.
SelectComponent ==
  IF value["ReportComponentOption"] = {}
    THEN AddValue("ReportComponentOption") ELSE UNCHANGED options

\* checkAndSetCmdLineOptions of the pass classify: every selection of views is
\* completed, unless there is a query.
SelectViews ==
  IF "DispositionQuery" \in position THEN UNCHANGED options
  ELSE AddValue("ViewSelectionOption")

\* The command line is parsed; the program is called correctly.
Init ==
  /\ setup \in Setups
  /\ LET given == setup.given["command line"]
     IN  /\ value = [o \in Option |-> IF o \in given THEN {"command line"} ELSE {}]
         /\ occurrences = [o \in Option |-> IF o \in given THEN 1 ELSE 0]
         /\ position = given
  /\ pc = "construct" /\ at = 1 /\ fn = 1
  /\ runs = <<>>

\* The next constructor runs.  The legacy wrappers of the self-parsing passes
\* do nothing when they are constructed.
Construct ==
  /\ pc = "construct" /\ at <= Len(Constructors)
  /\ LET p == Constructors[at]
     IN  \/ /\ p \in SelfParsing /\ setup.manager = "new"
            /\ ResetAndParse(p)
            /\ pc' = IF Rejected THEN "rejected" ELSE pc
         \/ /\ p \in SelfParsing /\ setup.manager = "legacy"
            /\ UNCHANGED <<options, pc>>
         \/ p = "export" /\ SelectComponent /\ UNCHANGED pc
         \/ p = "classify" /\ SelectViews /\ UNCHANGED pc
  /\ at' = at + 1
  /\ UNCHANGED <<setup, fn, runs>>

Constructed ==
  /\ pc = "construct" /\ at > Len(Constructors)
  /\ pc' = "run" /\ at' = 1
  /\ UNCHANGED <<setup, options, fn, runs>>

\* Fault: a query counts as asked only as long as the option counts as seen.
AsksIfSeen(p) == p = "classify" /\ occurrences'["DispositionQuery"] > 0

\* Whether the pass looks up the name of a query, told from the position.
Asks(p) == p = "classify" /\ "DispositionQuery" \in position'

\* Whether the pass writes reports, and needs a directory for them.
Writes(p) ==
  \/ p = "export"
  \/ p = "payload" /\ \E o \in {"ExportGraphUpdates", "ExportResults"} : value'[o] # {}

\* A function may be left alone only by a pass that has a white list.
MayPass(p) ==
  p \in {"payload", "classify"} /\ value'["FunctionWhiteList"] # {}

\* The next pass runs on the function, or cannot make its reports directory.
\* The legacy wrappers of payload and annotate construct the pass first.
RunPass ==
  /\ pc = "run" /\ at <= Len(setup.pipeline)
  /\ LET p == setup.pipeline[at]
     IN  /\ IF setup.manager = "legacy" /\ p \in {"payload", "annotate"}
              THEN ResetAndParse(p) ELSE UNCHANGED options
         /\ IF Rejected THEN pc' = "rejected" /\ UNCHANGED runs
            ELSE \/ Writes(p) /\ pc' = "fatal" /\ UNCHANGED runs
                 \/ \E passed \in BOOLEAN :
                      /\ passed => MayPass(p)
                      /\ runs' = Append(runs,
                           [place |-> at, pass |-> p, fn |-> fn, sees |-> value',
                            passed |-> passed, asks |-> ~passed /\ Asks(p)])
                      /\ UNCHANGED pc
  /\ at' = at + 1
  /\ UNCHANGED <<setup, fn>>

\* The pipeline is through with the function.
EndFunction ==
  /\ pc = "run" /\ at > Len(setup.pipeline)
  /\ IF fn < NumFunctions THEN at' = 1 /\ fn' = fn + 1 /\ UNCHANGED pc
                          ELSE pc' = "done" /\ UNCHANGED <<at, fn>>
  /\ UNCHANGED <<setup, options, runs>>

Next == Construct \/ Constructed \/ RunPass \/ EndFunction

Spec == Init /\ [][Next]_vars

-----------------------------------------------------------------------------

\* The types of the variables.
TypeOK ==
  /\ setup \in Setups
  /\ value \in [Option -> SUBSET Origin]
  /\ \A o \in Scalars : \A s, u \in value[o] : s = u
  /\ occurrences \in [Option -> Nat]
  /\ position \subseteq Option
  /\ pc \in {"construct", "run", "done", "rejected", "fatal"}
  /\ at \in Nat \ {0} /\ fn \in 1..NumFunctions
  /\ runs \in Seq([place : Nat, pass : Pass, fn : 1..NumFunctions,
                   sees : [Option -> SUBSET Origin],
                   passed : BOOLEAN, asks : BOOLEAN])

\* A variable may be parsed any number of times, also when it gives an option
\* that the command line or another pass gave: the program is never ended by
\* an option that is seen twice.
NeverRejected == pc # "rejected"

\* The pass whose variable is in effect when a self-parsing pass runs: its own
\* with the legacy manager, with the new one that of the last constructor.
InEffect(p) ==
  IF setup.manager = "legacy" THEN p ELSE Constructors[Len(Constructors)]

\* For every function, payload and annotate see what the variable in effect
\* gives; of the other options those that a reset restores have their initial
\* value, whatever the command line and the other passes gave.
OwnVariableInEffect ==
  \A k \in 1..Len(runs) :
    LET p == runs[k].pass
        sees == runs[k].sees
    IN  p \in {"payload", "annotate"} =>
          \A o \in Option :
            IF o \in setup.given[InEffect(p)]
              THEN /\ InEffect(p) \in sees[o]
                   /\ o \in Scalars => sees[o] = {InEffect(p)}
              ELSE o \in setup.restored => sees[o] = {}

\* The exporter always has a component to export, whatever the resets between
\* its construction and its runs do, and what it exports for a function it
\* exports for every later one.
SelectionKept ==
  \A k \in 1..Len(runs) : runs[k].pass = "export" =>
    /\ runs[k].sees["ReportComponentOption"] # {}
    /\ \A j \in 1..k : runs[j].pass = "export" =>
         runs[j].sees["ReportComponentOption"] \subseteq runs[k].sees["ReportComponentOption"]

\* A query given on the command line is asked for every function the white
\* list does not exclude, also after other passes have reset the options; its
\* name is the one that was given unless a pass has given another one or a
\* reset of a pass that ran before has restored the option, when it is empty.
QueryNotForgotten ==
  "DispositionQuery" \in setup.given["command line"] =>
    \A k \in 1..Len(runs) : runs[k].pass = "classify" /\ ~runs[k].passed =>
      /\ runs[k].asks
      /\ runs[k].sees["DispositionQuery"] # {"command line"} =>
           \E j \in 1..(k - 1) :
             /\ runs[j].pass \in {"payload", "annotate"}
             /\ \/ runs[k].sees["DispositionQuery"] = {runs[j].pass}
                \/ /\ runs[k].sees["DispositionQuery"] = {}
                   /\ "DispositionQuery" \in setup.restored
=============================================================================
