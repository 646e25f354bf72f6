------------------------- MODULE StaticCommutativity -------------------------
(***************************************************************************)
(* StaticCommutativityAnalyzer::analyze: the verdict on a loop, from the   *)
(* load-modify-store chains the mutation detector found in its payload and *)
(* the variance of their ends.  The chains and the variances are inputs;   *)
(* the sources of a chain, a set of pointers, are visited in any order.    *)
(***************************************************************************)
EXTENDS Integers, Sequences

CONSTANTS
  Value,        \* the instructions that may be a target or a source
  Operation,    \* the instructions that may be an operation of a chain
  Commutative,  \* those isCommutative accepts: binary and unary operators
  Inputs        \* the arguments of analyze considered

Variance == {"Unknown", "Invariant", "Variant"}

LoadModifyStore ==
  [target : Value, sources : SUBSET Value, operations : SUBSET Operation]

ASSUME CommutativityAssumption ==
  /\ Commutative \subseteq Operation
  /\ Inputs \subseteq [lms : Seq(LoadModifyStore), iva : [Value -> Variance]]

VARIABLES
  lms,      \* the chains
  iva,      \* the variances the IteratorVarianceAnalyzer answers
  pc,       \* "chains", "sources" or "done"
  at,       \* place of the chain the loop over lms is at
  todo,     \* sources of that chain not visited yet
  hasCommutativeOps, stopProcessing,
  usedMessages

vars == <<lms, iva, pc, at, todo, hasCommutativeOps, stopProcessing, usedMessages>>

EmptySources == "non-commutativity due to empty sources"
ByVariance   == "assuming commutativity due to iterator variance"
ByOperations == "commutativity due to operations"
Operations   == "non-commutativity due to operations"
Unhandled    == "non-commutativity due to unhandled case"

Positive == {ByVariance, ByOperations}
Negative == {EmptySources, Operations, Unhandled}

-----------------------------------------------------------------------------

\* What the code tells apart for the target and a source of chain e, with the
\* variances v.
BothInvariant(v, e, src) == v[e.target] = "Invariant" /\ v[src] = "Invariant"
EitherVariant(v, e, src) == v[e.target] = "Variant" \/ v[src] = "Variant"

\* Fault: any_of in the place of all_of.
AnyCommutative(e) == e.operations = {} \/ e.operations \cap Commutative # {}

\* The operations between the sources and the target all commute.
AllCommutative(e) == e.operations \subseteq Commutative

Init ==
  /\ \E input \in Inputs : lms = input.lms /\ iva = input.iva
  /\ pc = "chains" /\ at = 1 /\ todo = {}
  /\ hasCommutativeOps = FALSE /\ stopProcessing = FALSE
  /\ usedMessages = {}

\* Fault: the flag that stops the analysis is not looked at.
EnterUnlessEmpty ==
  /\ pc = "chains" /\ at <= Len(lms)
  /\ IF lms[at].sources = {}
       THEN /\ hasCommutativeOps' = FALSE
            /\ usedMessages' = usedMessages \cup {EmptySources}
            /\ pc' = "done"
            /\ UNCHANGED todo
       ELSE /\ todo' = lms[at].sources
            /\ pc' = "sources"
            /\ UNCHANGED <<hasCommutativeOps, usedMessages>>
  /\ UNCHANGED <<lms, iva, at, stopProcessing>>

\* The head of the loop over the chains.  A chain after a rejected one is
\* taken for one without sources.
EnterChain ==
  /\ pc = "chains" /\ at <= Len(lms)
  /\ IF stopProcessing \/ lms[at].sources = {}
       THEN /\ hasCommutativeOps' = FALSE
            /\ usedMessages' = usedMessages \cup {EmptySources}
            /\ pc' = "done"
            /\ UNCHANGED todo
       ELSE /\ todo' = lms[at].sources
            /\ pc' = "sources"
            /\ UNCHANGED <<hasCommutativeOps, usedMessages>>
  /\ UNCHANGED <<lms, iva, at, stopProcessing>>

\* A source that speaks for commutativity; the loop goes on to the next.
Accept(src, msg) ==
  /\ hasCommutativeOps' = TRUE
  /\ usedMessages' = usedMessages \cup {msg}
  /\ todo' = todo \ {src}
  /\ UNCHANGED <<lms, iva, pc, at, stopProcessing>>

\* One that speaks against it; the loop over the sources ends.
Reject(msg) ==
  /\ hasCommutativeOps' = FALSE
  /\ stopProcessing' = TRUE
  /\ usedMessages' = usedMessages \cup {msg}
  /\ todo' = {}
  /\ pc' = "chains" /\ at' = at + 1
  /\ UNCHANGED <<lms, iva>>

\* The three cases of a source.
VisitSource(src) ==
  /\ pc = "sources"
  /\ \/ BothInvariant(iva, lms[at], src) /\ Accept(src, ByVariance)
     \/ /\ EitherVariant(iva, lms[at], src)
        /\ IF AllCommutative(lms[at]) THEN Accept(src, ByOperations)
                                      ELSE Reject(Operations)
     \/ /\ ~BothInvariant(iva, lms[at], src) /\ ~EitherVariant(iva, lms[at], src)
        /\ Reject(Unhandled)

\* The loop over the sources is over.
SourcesVisited ==
  /\ pc = "sources" /\ todo = {}
  /\ pc' = "chains" /\ at' = at + 1
  /\ UNCHANGED <<lms, iva, todo, hasCommutativeOps, stopProcessing, usedMessages>>

\* All chains have been looked at.
Return ==
  /\ pc = "chains" /\ at > Len(lms)
  /\ pc' = "done"
  /\ UNCHANGED <<lms, iva, at, todo, hasCommutativeOps, stopProcessing,
                 usedMessages>>

Next ==
  \/ EnterChain \/ SourcesVisited \/ Return
  \/ \E src \in todo : VisitSource(src)

Spec == Init /\ [][Next]_vars

-----------------------------------------------------------------------------

\* The types of the variables.
TypeOK ==
  /\ lms \in Seq(LoadModifyStore)
  /\ iva \in [Value -> Variance]
  /\ pc \in {"chains", "sources", "done"}
  /\ at \in 1..Len(lms) + 1
  /\ todo \subseteq Value
  /\ pc = "sources" => at <= Len(lms) /\ todo \subseteq lms[at].sources
  /\ hasCommutativeOps \in BOOLEAN /\ stopProcessing \in BOOLEAN
  /\ usedMessages \subseteq Positive \cup Negative

\* A chain counts as commutative when it has a source, and all its sources
\* are either as invariant as the target or variant (one of the two ends is)
\* with nothing but commutative operations in between.
ChainCommutes(v, e) ==
  /\ e.sources # {}
  /\ \A src \in e.sources :
       \/ BothInvariant(v, e, src)
       \/ EitherVariant(v, e, src) /\ e.operations \subseteq Commutative

\* The verdict is positive exactly when there is a chain and every chain
\* commutes: neither the early exits, nor the flag a later chain overwrites,
\* nor the order of the sources (pointers in a hash set) decide it.
Verdict ==
  pc = "done" =>
    (hasCommutativeOps <=>
       lms # <<>> /\ \A k \in 1..Len(lms) : ChainCommutes(iva, lms[k]))

\* The remark and the verdict agree: a positive verdict comes with no reason
\* against it, a negative one with such a reason unless there was no chain.
RemarkMatchesVerdict ==
  pc = "done" =>
    /\ hasCommutativeOps => usedMessages # {} /\ usedMessages \subseteq Positive
    /\ ~hasCommutativeOps /\ lms # <<>> => usedMessages \cap Negative # {}

\* What the remark says of empty sources is true of some chain.
EmptySourcesRemark ==
  EmptySources \in usedMessages => \E k \in 1..Len(lms) : lms[k].sources = {}

=============================================================================
