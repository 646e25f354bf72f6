-------------------------- MODULE PassOptions_proofs --------------------------
(***************************************************************************)
(* For any pipelines, options and versions of LLVM: no option is ever seen *)
(* twice, every pass has the value the last giver of an option gave it,    *)
(* and a query given on the command line is asked unless an earlier run    *)
(* has replaced it.                                                        *)
(***************************************************************************)
EXTENDS PassOptions, FiniteSetTheorems, TLAPS

(***************************************************************************)
(* The invariant: since the last reset, or since the command line was      *)
(* parsed, each option was seen at most once.  That the program was not    *)
(* ended is not inductive: it says nothing of what the next pass meets.    *)
(***************************************************************************)
SeenOnce ==
  /\ occurrences \in [Option -> {0, 1}]
  /\ pc # "rejected"

\* The command line gives each option at most once.
LEMMA InitSeenOnce == Init => SeenOnce
BY DEF Init, SeenOnce

\* Parsing what a pass is given on occurrences that were just reset leaves
\* every option seen at most once.
LEMMA ParseAfterReset ==
  ASSUME NEW p, ResetAndParse(p)
  PROVE  occurrences' \in [Option -> {0, 1}]
<1>1. occurrences' =
        [o \in Option |-> NoOccurrences[o] + IF o \in setup.given[p] THEN 1 ELSE 0]
  BY DEF ResetAndParse, Parse
<1>2. \A o \in Option : NoOccurrences[o] = 0
  BY DEF NoOccurrences
<1> QED BY <1>1, <1>2

\* Then nothing is rejected.
LEMMA SeenOnceNotRejected ==
  ASSUME occurrences' \in [Option -> {0, 1}]
  PROVE  ~Rejected
BY DEF Rejected, Option

\* Selecting a component or the views is not seeing an option.
LEMMA SelectionUnseen ==
  ASSUME SelectComponent \/ SelectViews
  PROVE  occurrences' = occurrences
BY DEF SelectComponent, SelectViews, AddValue, options

LEMMA NextSeenOnce ==
  ASSUME SeenOnce, [Next]_vars
  PROVE  SeenOnce'
<1>1. CASE Construct
  <2> DEFINE p == Constructors[at]
  <2>1. occurrences' \in [Option -> {0, 1}]
    <3>1. CASE ResetAndParse(p)
      BY <3>1, ParseAfterReset
    <3>2. CASE UNCHANGED options \/ SelectComponent \/ SelectViews
      BY <3>2, SelectionUnseen DEF options, SeenOnce
    <3> QED BY <1>1, <3>1, <3>2 DEF Construct
  <2>2. ~Rejected
    BY <2>1, SeenOnceNotRejected
  <2>3. pc' = pc
    BY <1>1, <2>2 DEF Construct
  <2> QED BY <2>1, <2>3 DEF SeenOnce
<1>2. CASE Constructed
  BY <1>2 DEF Constructed, SeenOnce, options
<1>3. CASE RunPass
  <2> DEFINE p == setup.pipeline[at]
  <2>1. occurrences' \in [Option -> {0, 1}]
    <3>1. CASE ResetAndParse(p)
      BY <3>1, ParseAfterReset
    <3>2. CASE UNCHANGED options
      BY <3>2 DEF options, SeenOnce
    <3> QED BY <1>3, <3>1, <3>2 DEF RunPass
  <2>2. ~Rejected
    BY <2>1, SeenOnceNotRejected
  <2>3. pc' \in {pc, "fatal"}
    BY <1>3, <2>2 DEF RunPass
  <2> QED BY <2>1, <2>3 DEF SeenOnce
<1>4. CASE EndFunction
  BY <1>4 DEF EndFunction, SeenOnce, options
<1>5. CASE UNCHANGED vars
  BY <1>5 DEF vars, SeenOnce, options
<1> QED BY <1>1, <1>2, <1>3, <1>4, <1>5 DEF Next

\* However often the constructors of the passes reset the options and parse
\* their variables, and whatever these give, the program is never ended by an
\* option that is seen twice.
THEOREM NoOptionRejected == Spec => []NeverRejected
<1>1. SeenOnce => NeverRejected
  BY DEF SeenOnce, NeverRejected
<1>2. SeenOnce /\ [Next]_vars => SeenOnce'
  BY NextSeenOnce
<1> QED BY InitSeenOnce, <1>1, <1>2, PTL DEF Spec

-----------------------------------------------------------------------------

\* The options stay what they are, with or without values of their own.
Values(val) ==
  /\ val \in [Option -> SUBSET Origin]
  /\ \A o \in Scalars : \A s, u \in val[o] : s = u

\* What a setup is made of.
LEMMA SetupType ==
  ASSUME setup \in Setups
  PROVE  /\ setup.manager \in {"legacy", "new"}
         /\ setup.pipeline \in Seq(Pass)
         /\ setup.given \in [SelfParsing \cup {"command line"} -> SUBSET Option]
         /\ setup.restored \subseteq Scalars \cup Lists
BY OptionsAssumption DEF Setup

\* A constructor that resets the options and parses a variable.
LEMMA ResetType ==
  ASSUME TypeOK, NEW p \in SelfParsing, ResetAndParse(p)
  PROVE  /\ Values(value')
         /\ position' \subseteq Option
         /\ value["ReportComponentOption"] \subseteq value'["ReportComponentOption"]
<1> DEFINE given == setup.given[p]
<1>1. given \subseteq Option /\ setup.restored \subseteq Scalars \cup Lists
  BY SetupType DEF TypeOK
<1>2. p \in Origin
  BY DEF Origin
<1>3. /\ ResetValues \in [Option -> SUBSET Origin]
      /\ \A o \in Option : ResetValues[o] \in {{}, value[o]}
  BY DEF ResetValues, TypeOK
<1>4. value' = [o \in Option |->
                  IF o \notin given THEN ResetValues[o]
                  ELSE IF o \in Scalars THEN {p} ELSE ResetValues[o] \cup {p}]
  BY DEF ResetAndParse, Parse
<1>5. value' \in [Option -> SUBSET Origin]
  BY <1>2, <1>3, <1>4
<1>6. \A o \in Scalars : \A s, u \in value'[o] : s = u
  <2> SUFFICES ASSUME NEW o \in Scalars
               PROVE  \A s, u \in value'[o] : s = u
    OBVIOUS
  <2>1. o \in Option
    BY DEF Option
  <2>2. value'[o] \in {{}, value[o], {p}}
    BY <1>3, <1>4, <2>1
  <2> QED BY <2>2 DEF TypeOK
<1>7. value["ReportComponentOption"] \subseteq value'["ReportComponentOption"]
  <2>1. /\ "ReportComponentOption" \in Option
        /\ "ReportComponentOption" \notin Scalars
        /\ "ReportComponentOption" \notin setup.restored
    BY <1>1 DEF Option, Bits, Scalars, Lists
  <2>2. ResetValues["ReportComponentOption"] = value["ReportComponentOption"]
    BY <2>1 DEF ResetValues
  <2> QED BY <1>4, <2>1, <2>2
<1>8. position' \subseteq Option
  BY <1>1 DEF ResetAndParse, Parse, TypeOK
<1> QED BY <1>5, <1>6, <1>7, <1>8 DEF Values

\* A constructor that completes a selection.
LEMMA SelectType ==
  ASSUME TypeOK, SelectComponent \/ SelectViews
  PROVE  /\ Values(value')
         /\ position' \subseteq Option
         /\ value["ReportComponentOption"] \subseteq value'["ReportComponentOption"]
<1>1. Bits \subseteq Option /\ Bits \cap Scalars = {}
  BY DEF Option, Bits, Scalars
<1>2. CASE UNCHANGED options
  BY <1>2 DEF options, TypeOK, Values
<1>3. ASSUME NEW b \in Bits, AddValue(b)
      PROVE  Values(value') /\ position' = position
             /\ value["ReportComponentOption"] \subseteq value'["ReportComponentOption"]
  <2>1. value' = [value EXCEPT ![b] = @ \cup {"constructor"}] /\ position' = position
    BY <1>3 DEF AddValue
  <2>2. value' \in [Option -> SUBSET Origin]
    BY <1>1, <2>1 DEF TypeOK, Origin
  <2>3. \A o \in Scalars : value'[o] = value[o]
    BY <1>1, <2>1 DEF TypeOK, Option
  <2>4. \A o \in Option : value[o] \subseteq value'[o]
    BY <1>1, <2>1 DEF TypeOK
  <2>5. "ReportComponentOption" \in Option
    BY DEF Option, Bits
  <2> QED BY <2>1, <2>2, <2>3, <2>4, <2>5 DEF TypeOK, Values
<1> QED BY <1>2, <1>3 DEF SelectComponent, SelectViews, Bits, TypeOK

-----------------------------------------------------------------------------

\* Everything about the state except the runs, whose entries see the options.
Run == [place : Nat, pass : Pass, fn : 1..NumFunctions,
        sees : [Option -> SUBSET Origin], passed : BOOLEAN, asks : BOOLEAN]

LEMMA InitType == Init => TypeOK
<1> SUFFICES ASSUME Init PROVE TypeOK
  OBVIOUS
<1>1. setup.given["command line"] \subseteq Option
  BY SetupType DEF Init
<1>2. /\ value \in [Option -> SUBSET Origin]
      /\ \A o \in Scalars : \A s, u \in value[o] : s = u
  BY DEF Init, Origin, Option
<1>3. runs = <<>> /\ fn = 1 /\ at = 1
  BY DEF Init
<1>4. NumFunctions \in Nat \ {0}
  BY OptionsAssumption
<1>5. runs \in Seq(Run)
  BY <1>3
<1>6. fn \in 1..NumFunctions /\ at \in Nat \ {0}
  BY <1>3, <1>4
<1>7. occurrences \in [Option -> Nat] /\ position \subseteq Option
  BY <1>1 DEF Init
<1> QED BY <1>2, <1>5, <1>6, <1>7 DEF Init, TypeOK, Run

\* The passes that are constructed while a pipeline with the exporter is built
\* are those of the pipeline.
LEMMA ExporterConstructed ==
  ASSUME setup \in Setups, NEW k \in DOMAIN setup.pipeline,
         setup.pipeline[k] = "export"
  PROVE  Constructors = setup.pipeline
<1>1. setup.manager \in {"legacy", "new"}
  BY SetupType
<1>2. setup.manager # "new"
  BY OptionsAssumption DEF SelfParsing
<1> QED BY <1>1, <1>2 DEF Constructors

\* What a step does to the options, whatever its other effects.
OptionsKept ==
  /\ Values(value')
  /\ position' \subseteq Option
  /\ value["ReportComponentOption"] \subseteq value'["ReportComponentOption"]

LEMMA UnchangedOptions ==
  ASSUME TypeOK, UNCHANGED options
  PROVE  OptionsKept
BY DEF TypeOK, Values, options, OptionsKept

LEMMA ConstructOptions ==
  ASSUME TypeOK, Construct
  PROVE  OptionsKept
<1> DEFINE p == Constructors[at]
<1>1. CASE p \in SelfParsing /\ ResetAndParse(p)
  BY <1>1, ResetType DEF OptionsKept
<1>2. CASE SelectComponent \/ SelectViews
  BY <1>2, SelectType DEF OptionsKept
<1>3. CASE UNCHANGED options
  BY <1>3, UnchangedOptions
<1> QED BY <1>1, <1>2, <1>3 DEF Construct

LEMMA RunPassOptions ==
  ASSUME TypeOK, RunPass
  PROVE  OptionsKept
<1> DEFINE p == setup.pipeline[at]
<1>1. CASE p \in SelfParsing /\ ResetAndParse(p)
  BY <1>1, ResetType DEF OptionsKept
<1>2. CASE UNCHANGED options
  BY <1>2, UnchangedOptions
<1> QED BY <1>1, <1>2 DEF RunPass, SelfParsing

\* A run that is added to the history sees the options as they are.
LEMMA RunPassRuns ==
  ASSUME TypeOK, RunPass
  PROVE  \/ runs' = runs
         \/ /\ pc' = pc
            /\ \E r \in Run : /\ runs' = Append(runs, r)
                              /\ r.sees = value' /\ r.pass = setup.pipeline[at]
<1> DEFINE p == setup.pipeline[at]
<1>1. p \in Pass
  <2>1. setup.pipeline \in Seq(Pass)
    BY SetupType DEF TypeOK
  <2>2. at \in 1..Len(setup.pipeline)
    BY <2>1 DEF RunPass, TypeOK
  <2> QED BY <2>1, <2>2
<1>2. value' \in [Option -> SUBSET Origin]
  BY RunPassOptions DEF OptionsKept, Values
<1>3. SUFFICES ASSUME NEW passed \in BOOLEAN,
                      runs' = Append(runs,
                        [place |-> at, pass |-> p, fn |-> fn, sees |-> value',
                         passed |-> passed, asks |-> ~passed /\ Asks(p)]),
                      pc' = pc
               PROVE  \E r \in Run : runs' = Append(runs, r)
                                     /\ r.sees = value' /\ r.pass = p
  BY DEF RunPass
<1> DEFINE r == [place |-> at, pass |-> p, fn |-> fn, sees |-> value',
                 passed |-> passed, asks |-> ~passed /\ Asks(p)]
<1>4. r \in Run
  BY <1>1, <1>2 DEF Run, TypeOK, Asks
<1> QED BY <1>3, <1>4

LEMMA NextType ==
  ASSUME TypeOK, SeenOnce, SeenOnce', [Next]_vars
  PROVE  TypeOK'
<1>1. occurrences' \in [Option -> Nat]
  BY DEF SeenOnce
<1>2. CASE Construct
  <2>1. pc' \in {pc, "rejected"}
    BY <1>2 DEF Construct
  <2> QED BY <1>1, <1>2, <2>1, ConstructOptions
          DEF Construct, OptionsKept, Values, TypeOK
<1>3. CASE Constructed
  BY <1>1, <1>3 DEF Constructed, TypeOK, options
<1>4. CASE RunPass
  <2>1. runs' \in Seq(Run)
    <3>1. runs \in Seq(Run)
      BY DEF TypeOK, Run
    <3> QED BY <1>4, <3>1, RunPassRuns
  <2>2. pc' \in {pc, "rejected", "fatal"}
    BY <1>4 DEF RunPass
  <2>3. setup' = setup /\ fn' = fn /\ at' = at + 1
    BY <1>4 DEF RunPass
  <2> QED BY <1>1, <1>4, <2>1, <2>2, <2>3, RunPassOptions
          DEF OptionsKept, Values, TypeOK, Run
<1>5. CASE EndFunction
  BY <1>1, <1>5, OptionsAssumption DEF EndFunction, TypeOK, options
<1>6. CASE UNCHANGED vars
  BY <1>6 DEF vars, options, TypeOK
<1> QED BY <1>2, <1>3, <1>4, <1>5, <1>6 DEF Next

\* The types of the options and of the state of the pass manager.
THEOREM TypeCorrect == Spec => []TypeOK
<1>1. SeenOnce /\ [Next]_vars => SeenOnce'
  BY NextSeenOnce
<1>2. TypeOK /\ SeenOnce /\ SeenOnce' /\ [Next]_vars => TypeOK'
  BY NextType
<1> QED BY InitSeenOnce, InitType, <1>1, <1>2, PTL DEF Spec

-----------------------------------------------------------------------------

Components == "ReportComponentOption"

(***************************************************************************)
(* The invariant of the selection of components: there is one as soon as   *)
(* the exporter is constructed, it is no smaller than any run has seen it, *)
(* and no run saw less than an earlier one.                                *)
(***************************************************************************)
Chosen ==
  \A k \in DOMAIN setup.pipeline :
    setup.pipeline[k] = "export" /\ (pc = "construct" => k < at)
      => value[Components] # {}

Growing ==
  /\ \A k \in 1..Len(runs) :
       /\ runs[k].sees[Components] \subseteq value[Components]
       /\ runs[k].pass = "export" => runs[k].sees[Components] # {}
  /\ \A k \in 1..Len(runs) : \A j \in 1..k :
       runs[j].sees[Components] \subseteq runs[k].sees[Components]

LEMMA InitSelection == Init => Chosen /\ Growing
<1> SUFFICES ASSUME Init PROVE Chosen /\ Growing
  OBVIOUS
<1>1. setup.pipeline \in Seq(Pass) /\ runs = <<>> /\ pc = "construct" /\ at = 1
  BY SetupType DEF Init
<1>2. Chosen
  BY <1>1 DEF Chosen
<1>3. Growing
  BY <1>1 DEF Growing
<1> QED BY <1>2, <1>3

\* The constructor of the exporter leaves a component selected.
LEMMA ExporterSelects ==
  ASSUME TypeOK, Construct, Constructors[at] = "export"
  PROVE  value'[Components] # {}
<1>1. SelectComponent
  BY DEF Construct, SelfParsing
<1>2. Components \in Option
  BY DEF Components, Option, Bits
<1>3. CASE value[Components] = {}
  BY <1>1, <1>2, <1>3 DEF SelectComponent, AddValue, TypeOK, Components
<1>4. CASE value[Components] # {}
  BY <1>1, <1>4 DEF SelectComponent, options, Components
<1> QED BY <1>3, <1>4

\* A selection that is there stays.
LEMMA ChosenStays ==
  ASSUME TypeOK, Chosen, SeenOnce', [Next]_vars
  PROVE  Chosen'
<1> SUFFICES ASSUME NEW k \in DOMAIN setup'.pipeline, setup'.pipeline[k] = "export",
                    pc' = "construct" => k < at'
             PROVE  value'[Components] # {}
  BY DEF Chosen
<1>1. setup' = setup
  BY DEF Next, Construct, Constructed, RunPass, EndFunction, vars
<1>2. setup.pipeline \in Seq(Pass) /\ at \in Nat
  BY SetupType DEF TypeOK
<1>3. Constructors = setup.pipeline /\ k \in 1..Len(setup.pipeline)
  BY <1>1, <1>2, ExporterConstructed DEF TypeOK
<1>4. CASE Construct
  <2>1. pc' = "construct" /\ pc = "construct" /\ at' = at + 1
    BY <1>4 DEF Construct, SeenOnce
  <2>2. CASE k = at
    BY <1>1, <1>3, <1>4, <2>2, ExporterSelects
  <2>3. CASE k < at
    BY <1>1, <1>4, <2>3, ConstructOptions DEF Chosen, OptionsKept, Components
  <2> QED BY <1>2, <1>3, <2>1, <2>2, <2>3
<1>5. CASE Constructed
  BY <1>1, <1>2, <1>3, <1>5 DEF Constructed, Chosen, options
<1>6. CASE RunPass
  BY <1>1, <1>6, RunPassOptions DEF RunPass, Chosen, OptionsKept, Components
<1>7. CASE EndFunction
  BY <1>1, <1>7 DEF EndFunction, Chosen, options
<1>8. CASE UNCHANGED vars
  BY <1>8 DEF vars, options, Chosen
<1> QED BY <1>4, <1>5, <1>6, <1>7, <1>8 DEF Next

LEMMA GrowingStays ==
  ASSUME TypeOK, Chosen, Growing, [Next]_vars
  PROVE  Growing'
<1>1. CASE RunPass
  <2>1. value[Components] \subseteq value'[Components]
    BY <1>1, RunPassOptions DEF OptionsKept, Components
  <2>2. CASE runs' = runs
    BY <2>1, <2>2 DEF Growing
  <2>3. CASE pc' = pc /\ \E r \in Run : /\ runs' = Append(runs, r)
                                        /\ r.sees = value'
                                        /\ r.pass = setup.pipeline[at]
    <3>1. PICK r \in Run : /\ runs' = Append(runs, r)
                           /\ r.sees = value' /\ r.pass = setup.pipeline[at]
      BY <2>3
    <3>2. runs \in Seq(Run)
      BY DEF TypeOK, Run
    <3>3. /\ Len(runs') = Len(runs) + 1 /\ Len(runs) \in Nat
          /\ runs'[Len(runs) + 1] = r
          /\ \A k \in 1..Len(runs) : runs'[k] = runs[k]
      BY <3>1, <3>2
    <3>4. r.pass = "export" => value'[Components] # {}
      <4>1. setup.pipeline \in Seq(Pass) /\ at \in Nat \ {0}
        BY SetupType DEF TypeOK
      <4>2. at \in DOMAIN setup.pipeline /\ pc = "run"
        BY <1>1, <4>1 DEF RunPass
      <4> QED BY <2>1, <3>1, <4>2 DEF Chosen
    <3>5. \A k \in 1..Len(runs') : \/ k \in 1..Len(runs) /\ runs'[k] = runs[k]
                                   \/ k = Len(runs) + 1 /\ runs'[k] = r
      BY <3>3
    <3>6. \A k \in 1..Len(runs') :
            /\ runs'[k].sees[Components] \subseteq value'[Components]
            /\ runs'[k].pass = "export" => runs'[k].sees[Components] # {}
      BY <2>1, <3>1, <3>4, <3>5 DEF Growing
    <3>7. ASSUME NEW k \in 1..Len(runs'), NEW j \in 1..k
          PROVE  runs'[j].sees[Components] \subseteq runs'[k].sees[Components]
      <4>1. CASE k \in 1..Len(runs)
        BY <3>3, <4>1 DEF Growing
      <4>2. CASE k = Len(runs) + 1
        <5>1. runs'[k].sees = value'
          BY <3>1, <3>3, <4>2
        <5>2. j \in 1..Len(runs')
          BY <3>3, <4>2
        <5> QED BY <3>6, <5>1, <5>2
      <4> QED BY <3>3, <4>1, <4>2
    <3> QED BY <3>6, <3>7 DEF Growing
  <2> QED BY <1>1, <2>2, <2>3, RunPassRuns
<1>2. CASE Construct
  <2>1. value[Components] \subseteq value'[Components] /\ runs' = runs
    BY <1>2, ConstructOptions DEF Construct, OptionsKept, Components
  <2> QED BY <2>1 DEF Growing
<1>3. CASE Constructed \/ EndFunction \/ UNCHANGED vars
  BY <1>3 DEF Constructed, EndFunction, vars, options, Growing
<1> QED BY <1>1, <1>2, <1>3 DEF Next

\* Wherever the exporter stands in a pipeline, and however other passes reset
\* the options, each of its runs has a component to export and exports no less
\* than the runs before it.
THEOREM SelectionStays == Spec => []SelectionKept
<1>1. Growing => SelectionKept
  BY DEF Growing, SelectionKept, Components
<1>2. SeenOnce /\ [Next]_vars => SeenOnce'
  BY NextSeenOnce
<1>3. TypeOK /\ Chosen /\ SeenOnce' /\ [Next]_vars => Chosen'
  BY ChosenStays
<1>4. TypeOK /\ Chosen /\ Growing /\ [Next]_vars => Growing'
  BY GrowingStays
<1> QED BY InitSeenOnce, InitSelection, TypeCorrect, <1>1, <1>2, <1>3, <1>4, PTL
        DEF Spec

-----------------------------------------------------------------------------
(***************************************************************************)
(* Which variable is in effect.                                            *)
(***************************************************************************)

\* The values are those that the variable of p gives, on a reset.
Effective(s, p, values) ==
  \A o \in Option :
    IF o \in s.given[p]
      THEN p \in values[o] /\ (o \in Scalars => values[o] = {p})
      ELSE o \in s.restored => values[o] = {}

LEMMA ParsedEffective ==
  ASSUME TypeOK, NEW p \in SelfParsing, ResetAndParse(p)
  PROVE  Effective(setup, p, value')
<1>1. /\ value' = [o \in Option |->
                     IF o \notin setup.given[p] THEN ResetValues[o]
                     ELSE IF o \in Scalars THEN {p} ELSE ResetValues[o] \cup {p}]
      /\ \A o \in Option : o \in setup.restored => ResetValues[o] = {}
  BY DEF ResetAndParse, Parse, ResetValues
<1> QED BY <1>1 DEF Effective

\* With the new manager the constructors are those of passes that parse a
\* variable, and there are at least the two of the analyses.
LEMMA NewConstructors ==
  ASSUME setup \in Setups, setup.manager = "new"
  PROVE  Constructors \in Seq(SelfParsing) /\ Len(Constructors) \in Nat \ {0, 1}
<1> DEFINE named == {k \in DOMAIN setup.pipeline : setup.pipeline[k] = "annotate"}
           more  == [k \in 1..Cardinality(named) |-> "annotate"]
<1>1. Cardinality(named) \in Nat
  <2>0. setup.pipeline \in Seq(Pass)
    BY SetupType
  <2>1. Len(setup.pipeline) \in Nat
    BY <2>0
  <2>2. named \subseteq 1..Len(setup.pipeline)
    BY <2>0
  <2>3. IsFiniteSet(1..Len(setup.pipeline))
    BY <2>1, FS_Interval
  <2> QED BY <2>2, <2>3, FS_Subset, FS_CardinalityType
<1>2. more \in Seq(SelfParsing)
  BY <1>1 DEF SelfParsing
<1>3. <<"recognize", "payload">> \in Seq(SelfParsing)
  BY DEF SelfParsing
<1>4. Constructors = <<"recognize", "payload">> \o more
  BY DEF Constructors
<1> HIDE DEF more
<1>5. Len(<<"recognize", "payload">>) = 2
  OBVIOUS
<1> QED BY <1>2, <1>3, <1>4, <1>5

\* With the new manager the last of the constructors that have run is in
\* effect, and no pass that runs later changes that.
LastInEffect ==
  setup.manager = "new" =>
    /\ pc = "construct" =>
         /\ at <= Len(Constructors) + 1
         /\ at > 1 => Effective(setup, Constructors[at - 1], value)
    /\ pc # "construct" => Effective(setup, Constructors[Len(Constructors)], value)

LEMMA LastInEffectStep ==
  ASSUME TypeOK, LastInEffect, SeenOnce', [Next]_vars
  PROVE  LastInEffect'
<1> SUFFICES ASSUME setup.manager = "new"
             PROVE  LastInEffect'
  BY DEF LastInEffect, Next, Construct, Constructed, RunPass, EndFunction, vars
<1>1. setup' = setup /\ Constructors' = Constructors
  BY DEF Next, Construct, Constructed, RunPass, EndFunction, vars, Constructors
<1>2. Constructors \in Seq(SelfParsing) /\ Len(Constructors) \in Nat \ {0, 1}
  BY NewConstructors DEF TypeOK
<1>3. at \in Nat \ {0}
  BY DEF TypeOK
<1>4. CASE Construct
  <2>1. /\ pc = "construct" /\ pc' = "construct" /\ at' = at + 1
        /\ at \in 1..Len(Constructors)
    BY <1>2, <1>3, <1>4 DEF Construct, SeenOnce
  <2>2. Constructors[at] \in SelfParsing
    BY <1>2, <2>1
  <2>3. ResetAndParse(Constructors[at])
    BY <1>4, <2>2 DEF Construct, SelfParsing
  <2>4. Effective(setup, Constructors[at], value')
    BY <2>2, <2>3, ParsedEffective
  <2>5. at' - 1 = at /\ at' <= Len(Constructors) + 1
    BY <1>2, <2>1
  <2> QED BY <1>1, <2>1, <2>4, <2>5 DEF LastInEffect
<1>5. CASE Constructed
  <2>1. /\ pc = "construct" /\ at > Len(Constructors) /\ pc' = "run"
        /\ value' = value
    BY <1>5 DEF Constructed, options
  <2>2. at - 1 = Len(Constructors) /\ at > 1
    BY <1>2, <1>3, <2>1 DEF LastInEffect
  <2> QED BY <1>1, <2>1, <2>2 DEF LastInEffect
<1>6. CASE RunPass
  <2>1. pc = "run" /\ pc' # "construct" /\ value' = value
    BY <1>6 DEF RunPass, options
  <2> QED BY <1>1, <2>1 DEF LastInEffect
<1>7. CASE EndFunction
  <2>1. pc = "run" /\ pc' # "construct" /\ value' = value
    BY <1>7 DEF EndFunction, options
  <2> QED BY <1>1, <2>1 DEF LastInEffect
<1>8. CASE UNCHANGED vars
  BY <1>1, <1>8 DEF vars, options, LastInEffect
<1> QED BY <1>4, <1>5, <1>6, <1>7, <1>8 DEF Next

\* A run of payload or annotate sees the values of the variable in effect.
RunsInEffect ==
  \A k \in 1..Len(runs) :
    runs[k].pass \in {"payload", "annotate"} =>
      Effective(setup, InEffect(runs[k].pass), runs[k].sees)

LEMMA RunsInEffectStep ==
  ASSUME TypeOK, LastInEffect, RunsInEffect, [Next]_vars
  PROVE  RunsInEffect'
<1>1. setup' = setup /\ \A p : InEffect(p)' = InEffect(p)
  BY DEF Next, Construct, Constructed, RunPass, EndFunction, vars, InEffect,
         Constructors
<1>2. CASE runs' = runs
  BY <1>1, <1>2 DEF RunsInEffect
<1>3. CASE runs' # runs
  <2>1. RunPass
    BY <1>3 DEF Next, Construct, Constructed, EndFunction, vars
  <2> DEFINE p == setup.pipeline[at]
  <2>2. PICK r \in Run : runs' = Append(runs, r) /\ r.sees = value' /\ r.pass = p
    BY <1>3, <2>1, RunPassRuns
  <2>3. ASSUME p \in {"payload", "annotate"}
        PROVE  Effective(setup, InEffect(p), value')
    <3>1. CASE setup.manager = "legacy"
      <4>1. ResetAndParse(p) /\ p \in SelfParsing
        BY <2>1, <2>3, <3>1 DEF RunPass, SelfParsing
      <4>2. InEffect(p) = p
        BY <3>1 DEF InEffect
      <4> QED BY <4>1, <4>2, ParsedEffective
    <3>2. CASE setup.manager # "legacy"
      <4>1. value' = value /\ pc = "run"
        BY <2>1, <3>2 DEF RunPass, options
      <4>2. setup.manager = "new"
        BY <3>2, SetupType DEF TypeOK
      <4>3. InEffect(p) = Constructors[Len(Constructors)]
        BY <3>2 DEF InEffect
      <4> QED BY <4>1, <4>2, <4>3 DEF LastInEffect
    <3> QED BY <3>1, <3>2
  <2>4. runs \in Seq(Run)
    BY DEF TypeOK, Run
  <2>5. \A k \in 1..Len(runs') : \/ k \in 1..Len(runs) /\ runs'[k] = runs[k]
                                 \/ runs'[k] = r
    BY <2>2, <2>4
  <2> HIDE DEF p
  <2>6. ASSUME NEW k \in 1..Len(runs'), runs'[k].pass \in {"payload", "annotate"}
        PROVE  Effective(setup, InEffect(runs'[k].pass), runs'[k].sees)
    <3>1. CASE k \in 1..Len(runs) /\ runs'[k] = runs[k]
      BY <2>6, <3>1 DEF RunsInEffect
    <3>2. CASE runs'[k] = r
      BY <2>2, <2>3, <2>6, <3>2
    <3> QED BY <2>5, <3>1, <3>2
  <2> QED BY <1>1, <2>6 DEF RunsInEffect
<1> QED BY <1>2, <1>3

\* With either manager and for any pipeline, every run of payload or annotate
\* sees what the variable in effect gives and nothing that was reset.
THEOREM VariableInEffect == Spec => []OwnVariableInEffect
<1>1. Init => LastInEffect /\ RunsInEffect
  <2> SUFFICES ASSUME Init PROVE LastInEffect /\ RunsInEffect
    OBVIOUS
  <2>1. pc = "construct" /\ at = 1 /\ runs = <<>> /\ setup \in Setups
    BY DEF Init
  <2>2. setup.manager = "new" => Len(Constructors) \in Nat
    BY <2>1, NewConstructors
  <2> QED BY <2>1, <2>2 DEF LastInEffect, RunsInEffect
<1>2. SeenOnce /\ [Next]_vars => SeenOnce'
  BY NextSeenOnce
<1>3. TypeOK /\ LastInEffect /\ SeenOnce' /\ [Next]_vars => LastInEffect'
  BY LastInEffectStep
<1>4. TypeOK /\ LastInEffect /\ RunsInEffect /\ [Next]_vars => RunsInEffect'
  BY RunsInEffectStep
<1>5. RunsInEffect => OwnVariableInEffect
  BY DEF RunsInEffect, OwnVariableInEffect, Effective
<1> QED BY InitSeenOnce, TypeCorrect, <1>1, <1>2, <1>3, <1>4, <1>5, PTL DEF Spec

-----------------------------------------------------------------------------
(***************************************************************************)
(* The query.  Once it was given on the command line the option has a      *)
(* position for ever; its value is the one given there until a pass that   *)
(* runs gives it another or restores it.                                   *)
(***************************************************************************)
Query == "DispositionQuery"

\* A value of the query other than that of the command line is due to run r,
\* whose pass gave it, or restored the option.
DueTo(r, val) ==
  /\ r.pass \in {"payload", "annotate"}
  /\ \/ val = {r.pass}
     \/ val = {} /\ Query \in setup.restored

QueryGiven == Query \in setup.given["command line"]

QueryTraced ==
  /\ QueryGiven => Query \in position
  /\ QueryGiven /\ setup.manager = "legacy" /\ pc \in {"construct", "run"} =>
       \/ value[Query] = {"command line"}
       \/ \E j \in 1..Len(runs) : DueTo(runs[j], value[Query])
  /\ \A k \in 1..Len(runs) : runs[k].pass = "classify" => setup.manager = "legacy"
  /\ QueryNotForgotten

LEMMA QueryOption == Query \in Option /\ Query \in Scalars /\ Query \notin Bits
BY DEF Query, Option, Scalars, Bits

\* The position stays, with every constructor.
LEMMA PositionStays ==
  ASSUME TypeOK, [Next]_vars
  PROVE  position \subseteq position' /\ setup' = setup
BY DEF Next, Construct, Constructed, RunPass, EndFunction, vars, options,
       ResetAndParse, Parse, SelectComponent, SelectViews, AddValue

\* Completing a selection is no concern of the query.
LEMMA SelectionAside ==
  ASSUME TypeOK, SelectComponent \/ SelectViews \/ UNCHANGED options
  PROVE  value'[Query] = value[Query]
<1>1. ASSUME NEW b \in Bits, AddValue(b) PROVE value'[Query] = value[Query]
  BY <1>1, QueryOption DEF AddValue, TypeOK
<1> QED BY <1>1 DEF SelectComponent, SelectViews, options, Bits

\* What a run adds to the history is traced to that run itself.
LEMMA QueryReset ==
  ASSUME TypeOK, NEW p \in {"payload", "annotate"}, ResetAndParse(p)
  PROVE  \/ value'[Query] = {p}
         \/ value'[Query] = {} /\ Query \in setup.restored
         \/ value'[Query] = value[Query]
BY QueryOption DEF ResetAndParse, Parse, ResetValues

LEMMA QueryTracedRun ==
  ASSUME TypeOK, QueryTraced, SeenOnce', RunPass
  PROVE  QueryTraced'
<1> DEFINE p == setup.pipeline[at]
<1>1. /\ setup' = setup /\ pc = "run"
      /\ position \subseteq position'
  BY PositionStays DEF RunPass, Next
<1>2. \/ p \in {"payload", "annotate"} /\ ResetAndParse(p)
         /\ setup.manager = "legacy"
      \/ UNCHANGED options
  BY DEF RunPass
<1>3. CASE runs' = runs
  <2>1. pc' \notin {"construct", "run"}
    <3>1. runs \in Seq(Run)
      BY DEF TypeOK, Run
    <3>2. ASSUME NEW r, runs' = Append(runs, r) PROVE FALSE
      <4>1. Len(Append(runs, r)) = Len(runs) + 1 /\ Len(runs) \in Nat
        BY <3>1
      <4> QED BY <1>3, <3>2, <4>1
    <3>3. ~Rejected
      BY SeenOnceNotRejected DEF SeenOnce
    <3> QED BY <3>2, <3>3 DEF RunPass
  <2> QED BY <1>1, <1>3, <2>1 DEF QueryTraced, QueryGiven, QueryNotForgotten
<1>4. CASE runs' # runs
  <2>1. PICK passed \in BOOLEAN :
          runs' = Append(runs,
            [place |-> at, pass |-> p, fn |-> fn, sees |-> value',
             passed |-> passed, asks |-> ~passed /\ Asks(p)])
    BY <1>4 DEF RunPass
  <2> DEFINE r == [place |-> at, pass |-> p, fn |-> fn, sees |-> value',
                   passed |-> passed, asks |-> ~passed /\ Asks(p)]
             n == Len(runs) + 1
  <2>2. /\ Len(runs') = n /\ n \in 1..Len(runs') /\ Len(runs) \in Nat
        /\ runs'[n] = r
        /\ \A k \in 1..Len(runs) : runs'[k] = runs[k]
    <3>1. runs \in Seq(Run)
      BY DEF TypeOK, Run
    <3> QED BY <2>1, <3>1
  <2>3. /\ r.pass = p /\ r.sees = value' /\ r.passed = passed
        /\ r.asks = (~passed /\ Asks(p))
    OBVIOUS
  <2>4. p \in Pass /\ (setup.manager = "new" => p \in SelfParsing)
    <3>1. setup.pipeline \in Seq(Pass) /\ at \in Nat \ {0} /\ at <= Len(setup.pipeline)
      BY SetupType DEF TypeOK, RunPass
    <3>2. at \in DOMAIN setup.pipeline
      BY <3>1
    <3>3. p \in Pass
      BY <3>1, <3>2
    <3> QED BY <3>2, <3>3, OptionsAssumption DEF TypeOK
  <2> HIDE DEF p, r, n
  <2>5. ASSUME QueryGiven PROVE Query \in position'
    BY <1>1, <2>5 DEF QueryTraced
  <2>6. \A j \in 1..Len(runs) : j \in 1..Len(runs') /\ runs'[j] = runs[j]
    BY <2>2 DEF n
  <2>7. ASSUME QueryGiven, setup.manager = "legacy"
        PROVE  \/ value'[Query] = {"command line"}
               \/ \E j \in 1..Len(runs') : DueTo(runs'[j], value'[Query])
    <3>1. CASE value'[Query] = value[Query]
      <4>1. \/ value[Query] = {"command line"}
            \/ \E j \in 1..Len(runs) : DueTo(runs[j], value[Query])
        BY <1>1, <2>7 DEF QueryTraced
      <4>2. ASSUME NEW j \in 1..Len(runs), DueTo(runs[j], value[Query])
            PROVE  j \in 1..Len(runs') /\ DueTo(runs'[j], value'[Query])
        BY <2>6, <3>1, <4>2
      <4> QED BY <3>1, <4>1, <4>2
    <3>2. CASE value'[Query] # value[Query]
      <4>1. p \in {"payload", "annotate"} /\ ResetAndParse(p)
        BY <1>2, <3>2 DEF options
      <4>2. \/ value'[Query] = {p}
            \/ value'[Query] = {} /\ Query \in setup.restored
        BY <3>2, <4>1, QueryReset
      <4>3. DueTo(runs'[n], value'[Query])
        BY <1>1, <2>2, <2>3, <4>1, <4>2 DEF DueTo
      <4> QED BY <2>2, <4>3
    <3> QED BY <3>1, <3>2
  <2>8. \A k \in 1..Len(runs') : k \in 1..Len(runs) \/ k = n
    BY <2>2 DEF n
  <2>9. ASSUME NEW k \in 1..Len(runs'), runs'[k].pass = "classify"
        PROVE  setup.manager = "legacy"
    <3>1. CASE k \in 1..Len(runs)
      BY <2>2, <2>9, <3>1 DEF QueryTraced
    <3>2. CASE k = n
      <4>1. p \notin SelfParsing
        BY <2>2, <2>3, <2>9, <3>2 DEF SelfParsing
      <4> QED BY <2>4, <4>1, SetupType DEF TypeOK
    <3> QED BY <2>8, <3>1, <3>2
  <2>10. ASSUME QueryGiven, p = "classify", ~passed
         PROVE  /\ r.asks
                /\ r.sees[Query] # {"command line"} =>
                     \E j \in 1..Len(runs) : DueTo(runs[j], r.sees[Query])
    <3>1. r.asks
      BY <2>3, <2>5, <2>10 DEF Asks, Query
    <3>2. setup.manager = "legacy"
      BY <2>2, <2>3, <2>9, <2>10
    <3>3. value' = value
      BY <1>2, <2>10 DEF options
    <3> QED BY <1>1, <2>3, <2>10, <3>1, <3>2, <3>3 DEF QueryTraced
  <2>11. QueryNotForgotten'
    <3> SUFFICES ASSUME QueryGiven, NEW k \in 1..Len(runs'),
                        runs'[k].pass = "classify", ~runs'[k].passed
                 PROVE  /\ runs'[k].asks
                        /\ runs'[k].sees[Query] # {"command line"} =>
                             \E j \in 1..(k - 1) : DueTo(runs'[j], runs'[k].sees[Query])
      BY <1>1 DEF QueryNotForgotten, QueryGiven, DueTo, Query
    <3>1. CASE k \in 1..Len(runs)
      <4>1. /\ runs[k].asks
            /\ runs[k].sees[Query] # {"command line"} =>
                 \E j \in 1..(k - 1) : DueTo(runs[j], runs[k].sees[Query])
        BY <2>2, <3>1 DEF QueryTraced, QueryNotForgotten, QueryGiven, DueTo, Query
      <4>2. \A j \in 1..(k - 1) : j \in 1..Len(runs)
        BY <2>2, <3>1
      <4>3. \A j \in 1..(k - 1) :
              DueTo(runs[j], runs[k].sees[Query]) => DueTo(runs'[j], runs'[k].sees[Query])
        BY <2>6, <3>1, <4>2
      <4> QED BY <2>2, <3>1, <4>1, <4>3
    <3>2. CASE k = n
      <4>1. k - 1 = Len(runs)
        BY <2>2, <3>2 DEF n
      <4>2. runs'[k] = r
        BY <2>2, <3>2
      <4>3. /\ r.asks
            /\ r.sees[Query] # {"command line"} =>
                 \E j \in 1..Len(runs) : DueTo(runs[j], r.sees[Query])
        BY <2>3, <2>10, <4>2
      <4>4. \A j \in 1..Len(runs) :
              DueTo(runs[j], r.sees[Query]) => DueTo(runs'[j], runs'[k].sees[Query])
        BY <2>6, <4>2
      <4> QED BY <4>1, <4>2, <4>3, <4>4
    <3> QED BY <2>8, <3>1, <3>2
  <2> QED BY <1>1, <2>5, <2>7, <2>9, <2>11 DEF QueryTraced, QueryGiven, DueTo
<1> QED BY <1>3, <1>4

LEMMA QueryTracedStep ==
  ASSUME TypeOK, QueryTraced, SeenOnce', [Next]_vars
  PROVE  QueryTraced'
<1>1. position \subseteq position' /\ setup' = setup
  BY PositionStays
<1>2. CASE RunPass
  BY <1>2, QueryTracedRun
<1>3. CASE ~RunPass
  <2>1. runs' = runs
    BY <1>3 DEF Next, Construct, Constructed, EndFunction, vars
  <2>2. setup.manager = "legacy" => value'[Query] = value[Query]
    <3>1. CASE Construct
      <4>1. setup.manager = "legacy" =>
              UNCHANGED options \/ SelectComponent \/ SelectViews
        BY <3>1 DEF Construct
      <4> QED BY <4>1, SelectionAside
    <3>2. CASE ~Construct
      BY <1>3, <3>2 DEF Next, Constructed, EndFunction, vars, options
    <3> QED BY <3>1, <3>2
  <2>3. pc' \in {"construct", "run"} => pc \in {"construct", "run"}
    BY <1>3 DEF Next, Construct, Constructed, EndFunction, vars
  <2> QED BY <1>1, <2>1, <2>2, <2>3
          DEF QueryTraced, QueryGiven, QueryNotForgotten, DueTo
<1> QED BY <1>2, <1>3

\* A query given on the command line is asked for every function that is not
\* passed over, and if its name is another one, an earlier run has changed it.
THEOREM QueryKept == Spec => []QueryNotForgotten
<1>1. Init => QueryTraced
  <2> SUFFICES ASSUME Init PROVE QueryTraced
    OBVIOUS
  <2>1. /\ runs = <<>> /\ position = setup.given["command line"]
        /\ value = [o \in Option |-> IF o \in setup.given["command line"]
                                       THEN {"command line"} ELSE {}]
    BY DEF Init
  <2>2. QueryGiven => value[Query] = {"command line"}
    BY <2>1, QueryOption DEF QueryGiven
  <2>0. runs = <<>>
    BY DEF Init
  <2>3. Len(runs) = 0
    BY <2>0
  <2>4. QueryNotForgotten
    <3>1. ASSUME NEW k \in 1..Len(runs) PROVE FALSE
      BY <2>3
    <3> QED BY <3>1, Zenon DEF QueryNotForgotten
  <2>5. QueryGiven => Query \in position
    BY <2>1 DEF QueryGiven
  <2>6. \A k \in 1..Len(runs) : runs[k].pass = "classify" => setup.manager = "legacy"
    BY <2>3
  <2> QED BY <2>2, <2>4, <2>5, <2>6 DEF QueryTraced
<1>2. SeenOnce /\ [Next]_vars => SeenOnce'
  BY NextSeenOnce
<1>3. TypeOK /\ QueryTraced /\ SeenOnce' /\ [Next]_vars => QueryTraced'
  BY QueryTracedStep
<1>4. QueryTraced => QueryNotForgotten
  BY DEF QueryTraced
<1> QED BY InitSeenOnce, TypeCorrect, <1>1, <1>2, <1>3, <1>4, PTL DEF Spec
=============================================================================
