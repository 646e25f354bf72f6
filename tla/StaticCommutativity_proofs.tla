---------------------- MODULE StaticCommutativity_proofs ----------------------
(***************************************************************************)
(* The verdict of StaticCommutativityAnalyzer::analyze is what             *)
(* ChainCommutes says of its chains, for any chains and variances.         *)
(***************************************************************************)
EXTENDS StaticCommutativity, TLAPS

\* A source of chain e that analyze accepts.
Passes(v, e, src) ==
  \/ BothInvariant(v, e, src)
  \/ EitherVariant(v, e, src) /\ e.operations \subseteq Commutative

\* How far the loops are: while nothing was rejected the chains before the
\* current one commute, as do the visited sources of the current one; once a
\* source was rejected its chain does not commute.
Progress ==
  /\ pc = "chains" /\ ~stopProcessing =>
       /\ \A k \in 1..at - 1 : ChainCommutes(iva, lms[k])
       /\ hasCommutativeOps <=> at > 1
  /\ pc = "sources" =>
       /\ ~stopProcessing
       /\ \A k \in 1..at - 1 : ChainCommutes(iva, lms[k])
       /\ lms[at].sources # {}
       /\ \A src \in lms[at].sources \ todo : Passes(iva, lms[at], src)
       /\ hasCommutativeOps <=> at > 1 \/ todo # lms[at].sources
  /\ pc = "chains" /\ stopProcessing =>
       /\ ~hasCommutativeOps
       /\ at > 1 /\ ~ChainCommutes(iva, lms[at - 1])
  /\ Verdict

IInv == TypeOK /\ Progress

-----------------------------------------------------------------------------

\* analyze is called.
LEMMA CallInvariant ==
  ASSUME lms \in Seq(LoadModifyStore), iva \in [Value -> Variance],
         pc = "chains", at = 1, todo = {}, usedMessages = {},
         hasCommutativeOps = FALSE, stopProcessing = FALSE
  PROVE  IInv
<1>1. at \in 1..Len(lms) + 1
  <2>1. Len(lms) \in Nat
    OBVIOUS
  <2> QED BY <2>1
<1>2. TypeOK
  BY <1>1 DEF TypeOK
<1>3. Progress
  BY DEF Progress, Verdict
<1> QED BY <1>2, <1>3 DEF IInv

LEMMA InitInvariant == Init => IInv
<1> SUFFICES ASSUME Init PROVE IInv
  OBVIOUS
<1>1. PICK input \in Inputs : lms = input.lms /\ iva = input.iva
  BY DEF Init
<1>2. lms \in Seq(LoadModifyStore) /\ iva \in [Value -> Variance]
  BY <1>1, CommutativityAssumption
<1> QED BY <1>2, CallInvariant DEF Init

LEMMA EnterChainStep ==
  ASSUME IInv, EnterChain
  PROVE  IInv'
<1> USE DEF IInv
<1>1. /\ pc = "chains" /\ at \in 1..Len(lms) /\ lms[at] \in LoadModifyStore
      /\ UNCHANGED <<lms, iva, at, stopProcessing>>
  BY DEF EnterChain, TypeOK
<1>2. CASE stopProcessing \/ lms[at].sources = {}
  <2>1. /\ hasCommutativeOps' = FALSE /\ pc' = "done" /\ UNCHANGED todo
        /\ usedMessages' = usedMessages \cup {EmptySources}
    BY <1>2 DEF EnterChain
  <2>2. TypeOK'
    BY <1>1, <2>1 DEF TypeOK, Negative
  <2>3. \E k \in 1..Len(lms) : ~ChainCommutes(iva, lms[k])
    <3>1. CASE lms[at].sources = {}
      BY <1>1, <3>1 DEF ChainCommutes
    <3>2. CASE stopProcessing
      <4>1. at - 1 \in 1..Len(lms) /\ ~ChainCommutes(iva, lms[at - 1])
        BY <1>1, <3>2 DEF Progress
      <4> QED BY <4>1
    <3> QED BY <1>2, <3>1, <3>2
  <2>4. Verdict'
    BY <1>1, <2>1, <2>3 DEF Verdict, ChainCommutes, BothInvariant, EitherVariant
  <2> QED BY <2>1, <2>2, <2>4 DEF Progress
<1>3. CASE ~(stopProcessing \/ lms[at].sources = {})
  <2>1. /\ todo' = lms[at].sources /\ pc' = "sources"
        /\ UNCHANGED <<hasCommutativeOps, usedMessages>>
    BY <1>3 DEF EnterChain
  <2>2. TypeOK'
    BY <1>1, <2>1 DEF TypeOK, LoadModifyStore
  <2>3. /\ ~stopProcessing /\ \A k \in 1..at - 1 : ChainCommutes(iva, lms[k])
        /\ hasCommutativeOps <=> at > 1
    BY <1>1, <1>3 DEF Progress
  <2>4. \A k \in 1..at' - 1 : ChainCommutes(iva, lms[k])'
    BY <1>1, <2>3 DEF ChainCommutes, BothInvariant, EitherVariant
  <2> QED BY <1>1, <1>3, <2>1, <2>2, <2>3, <2>4 DEF Progress, Verdict
<1> QED BY <1>2, <1>3

LEMMA VisitSourceStep ==
  ASSUME IInv, NEW src \in todo, VisitSource(src)
  PROVE  IInv'
<1> USE DEF IInv
<1> DEFINE e == lms[at]
<1>1. /\ pc = "sources" /\ at \in 1..Len(lms) /\ src \in e.sources
      /\ ~stopProcessing
      /\ todo \subseteq e.sources
  BY DEF VisitSource, TypeOK, Progress
<1>2. CASE \E msg \in Positive : Accept(src, msg) /\ Passes(iva, e, src)
  <2>1. PICK msg \in Positive : Accept(src, msg) /\ Passes(iva, e, src)
    BY <1>2
  <2>2. /\ hasCommutativeOps' = TRUE
        /\ usedMessages' = usedMessages \cup {msg}
        /\ todo' = todo \ {src}
        /\ UNCHANGED <<lms, iva, pc, at, stopProcessing>>
    BY <2>1 DEF Accept
  <2>3. TypeOK'
    BY <2>2 DEF TypeOK
  <2>4. \A s \in e.sources \ todo' : Passes(iva, e, s)
    BY <1>1, <2>1, <2>2 DEF Progress
  <2>5. \A s \in lms'[at'].sources \ todo' : Passes(iva, lms[at], s)'
    BY <2>2, <2>4 DEF Passes, BothInvariant, EitherVariant
  <2>6. \A k \in 1..at' - 1 : ChainCommutes(iva, lms[k])'
    BY <1>1, <2>2 DEF Progress, ChainCommutes, BothInvariant, EitherVariant
  <2>7. todo' # e.sources
    BY <1>1, <2>2
  <2> QED BY <1>1, <2>2, <2>3, <2>5, <2>6, <2>7 DEF Progress, Verdict
<1>3. CASE \E msg \in Negative : Reject(msg) /\ ~Passes(iva, e, src)
  <2>1. PICK msg \in Negative : Reject(msg) /\ ~Passes(iva, e, src)
    BY <1>3
  <2>2. /\ hasCommutativeOps' = FALSE /\ stopProcessing' = TRUE
        /\ usedMessages' = usedMessages \cup {msg}
        /\ todo' = {} /\ pc' = "chains" /\ at' = at + 1
        /\ UNCHANGED <<lms, iva>>
    BY <2>1 DEF Reject
  <2>3. TypeOK'
    <3>1. at' \in 1..Len(lms') + 1
      BY <1>1, <2>2 DEF TypeOK
    <3>2. usedMessages' \subseteq Positive \cup Negative
      BY <2>2 DEF TypeOK
    <3> QED BY <2>2, <3>1, <3>2 DEF TypeOK
  <2>4. ~ChainCommutes(iva, e)
    BY <1>1, <2>1 DEF ChainCommutes, Passes
  <2>5. at' - 1 = at
    BY <1>1, <2>2
  <2>6. ~ChainCommutes(iva, lms[at - 1])'
    BY <2>2, <2>4, <2>5 DEF ChainCommutes, BothInvariant, EitherVariant
  <2> QED BY <1>1, <2>2, <2>3, <2>6 DEF Progress, Verdict
<1>4. \/ \E msg \in Positive : Accept(src, msg) /\ Passes(iva, e, src)
      \/ \E msg \in Negative : Reject(msg) /\ ~Passes(iva, e, src)
  <2>1. CASE BothInvariant(iva, e, src) /\ Accept(src, ByVariance)
    BY <2>1 DEF Passes, Positive
  <2>2. CASE EitherVariant(iva, e, src)
    <3>1. ~BothInvariant(iva, e, src)
      BY <2>2 DEF BothInvariant, EitherVariant
    <3>2. IF AllCommutative(e) THEN Accept(src, ByOperations)
                               ELSE Reject(Operations)
      BY <2>2, <3>1 DEF VisitSource
    <3> QED
      BY <2>2, <3>1, <3>2 DEF Passes, Positive, Negative, AllCommutative
  <2>3. CASE /\ ~BothInvariant(iva, e, src) /\ ~EitherVariant(iva, e, src)
             /\ Reject(Unhandled)
    BY <2>3 DEF Passes, Negative
  <2> QED BY <2>1, <2>2, <2>3 DEF VisitSource
<1> QED BY <1>2, <1>3, <1>4

LEMMA SourcesVisitedStep ==
  ASSUME IInv, SourcesVisited
  PROVE  IInv'
<1> USE DEF IInv
<1>1. /\ pc = "sources" /\ todo = {} /\ pc' = "chains" /\ at' = at + 1
      /\ at \in 1..Len(lms)
      /\ UNCHANGED <<lms, iva, todo, hasCommutativeOps, stopProcessing,
                     usedMessages>>
  BY DEF SourcesVisited, TypeOK
<1>2. TypeOK'
  BY <1>1 DEF TypeOK
<1>3. ChainCommutes(iva, lms[at])
  BY <1>1 DEF Progress, ChainCommutes, Passes
<1>4. \A k \in 1..at' - 1 : ChainCommutes(iva, lms[k])
  BY <1>1, <1>3 DEF Progress
<1>5. \A k \in 1..at' - 1 : ChainCommutes(iva, lms[k])'
  BY <1>1, <1>4 DEF ChainCommutes, BothInvariant, EitherVariant
<1>6. ~stopProcessing' /\ hasCommutativeOps'
  BY <1>1 DEF Progress
<1> QED BY <1>1, <1>2, <1>5, <1>6 DEF Progress, Verdict

LEMMA ReturnStep ==
  ASSUME IInv, Return
  PROVE  IInv'
<1> USE DEF IInv
<1>1. /\ pc = "chains" /\ at = Len(lms) + 1 /\ pc' = "done" /\ Len(lms) \in Nat
      /\ UNCHANGED <<lms, iva, at, todo, hasCommutativeOps, stopProcessing,
                     usedMessages>>
  BY DEF Return, TypeOK
<1>2. TypeOK'
  BY <1>1 DEF TypeOK
<1>3. lms # <<>> <=> Len(lms) > 0
  BY DEF TypeOK
<1>4. hasCommutativeOps <=>
        lms # <<>> /\ \A k \in 1..Len(lms) : ChainCommutes(iva, lms[k])
  <2>1. CASE stopProcessing
    <3>1. at - 1 \in 1..Len(lms) /\ ~ChainCommutes(iva, lms[at - 1])
      BY <1>1, <2>1 DEF Progress
    <3> QED BY <1>1, <2>1, <3>1 DEF Progress
  <2>2. CASE ~stopProcessing
    <3>1. at - 1 = Len(lms)
      BY <1>1
    <3> QED BY <1>1, <1>3, <2>2, <3>1 DEF Progress
  <2> QED BY <2>1, <2>2
<1>5. Verdict'
  BY <1>1, <1>4 DEF Verdict, ChainCommutes, BothInvariant, EitherVariant
<1> QED BY <1>1, <1>2, <1>5 DEF Progress

LEMMA InvariantStep ==
  ASSUME IInv, [Next]_vars
  PROVE  IInv'
<1>1. CASE EnterChain
  BY <1>1, EnterChainStep
<1>2. CASE \E src \in todo : VisitSource(src)
  BY <1>2, VisitSourceStep
<1>3. CASE SourcesVisited
  BY <1>3, SourcesVisitedStep
<1>4. CASE Return
  BY <1>4, ReturnStep
<1>5. CASE UNCHANGED vars
  BY <1>5 DEF vars, IInv, TypeOK, Progress, Verdict, ChainCommutes, Passes,
              BothInvariant, EitherVariant
<1> QED BY <1>1, <1>2, <1>3, <1>4, <1>5 DEF Next

LEMMA Invariance == Spec => []IInv
BY InitInvariant, InvariantStep, PTL DEF Spec

\* The variables keep their types.
THEOREM TypeCorrect == Spec => []TypeOK
<1>1. IInv => TypeOK
  BY DEF IInv
<1> QED BY <1>1, Invariance, PTL

\* The verdict is positive exactly when there is a chain and all commute, for
\* any number of chains and in whatever order their sources are visited.
THEOREM VerdictCorrect == Spec => []Verdict
<1>1. IInv => Verdict
  BY DEF IInv, Progress
<1> QED BY <1>1, Invariance, PTL

(***************************************************************************)
(* The remark.  Until a source is rejected every message used speaks for   *)
(* commutativity; from then on one speaks against it.                      *)
(***************************************************************************)
Remarks ==
  /\ pc # "done" /\ ~stopProcessing => usedMessages \subseteq Positive
  /\ stopProcessing => usedMessages \cap Negative # {}
  /\ hasCommutativeOps => usedMessages # {}
  /\ RemarkMatchesVerdict

LEMMA RemarksStep ==
  ASSUME IInv, Remarks, [Next]_vars
  PROVE  Remarks'
<1> USE DEF IInv
<1>1. CASE EnterChain
  <2>1. CASE stopProcessing \/ lms[at].sources = {}
    <3>1. /\ hasCommutativeOps' = FALSE /\ pc' = "done"
          /\ usedMessages' = usedMessages \cup {EmptySources}
          /\ UNCHANGED stopProcessing
      BY <1>1, <2>1 DEF EnterChain
    <3>2. usedMessages' \cap Negative # {}
      BY <3>1 DEF Negative
    <3> QED BY <3>1, <3>2 DEF Remarks, RemarkMatchesVerdict
  <2>2. CASE ~(stopProcessing \/ lms[at].sources = {})
    BY <1>1, <2>2 DEF EnterChain, Remarks, RemarkMatchesVerdict
  <2> QED BY <2>1, <2>2
<1>2. CASE \E src \in todo : VisitSource(src)
  <2>1. pc = "sources" /\ ~stopProcessing
    BY <1>2 DEF VisitSource, Progress
  <2>2. PICK src \in todo : \/ \E msg \in Positive : Accept(src, msg)
                            \/ \E msg \in Negative : Reject(msg)
    BY <1>2 DEF VisitSource, Positive, Negative
  <2>3. CASE \E msg \in Positive : Accept(src, msg)
    <3>1. PICK msg \in Positive : Accept(src, msg)
      BY <2>3
    <3>2. /\ usedMessages' = usedMessages \cup {msg}
          /\ UNCHANGED <<pc, stopProcessing>>
      BY <3>1 DEF Accept
    <3>3. usedMessages' \subseteq Positive /\ usedMessages' # {}
      BY <2>1, <3>2 DEF Remarks
    <3> QED BY <2>1, <3>2, <3>3 DEF Remarks, RemarkMatchesVerdict
  <2>4. CASE \E msg \in Negative : Reject(msg)
    <3>1. PICK msg \in Negative : Reject(msg)
      BY <2>4
    <3>2. /\ usedMessages' = usedMessages \cup {msg}
          /\ hasCommutativeOps' = FALSE /\ stopProcessing' = TRUE
          /\ pc' = "chains"
      BY <3>1 DEF Reject
    <3>3. usedMessages' \cap Negative # {}
      BY <3>2
    <3> QED BY <3>2, <3>3 DEF Remarks, RemarkMatchesVerdict
  <2> QED BY <2>2, <2>3, <2>4
<1>3. CASE SourcesVisited
  BY <1>3 DEF SourcesVisited, Remarks, RemarkMatchesVerdict
<1>4. CASE Return
  <2>1. /\ pc = "chains" /\ pc' = "done" /\ at = Len(lms) + 1
        /\ UNCHANGED <<lms, hasCommutativeOps, stopProcessing, usedMessages>>
    BY <1>4 DEF Return, TypeOK
  <2>2. CASE stopProcessing
    BY <2>1, <2>2 DEF Progress, Remarks, RemarkMatchesVerdict
  <2>3. CASE ~stopProcessing
    <3>1. ~hasCommutativeOps => lms = <<>>
      <4>1. ~hasCommutativeOps => Len(lms) = 0
        BY <2>1, <2>3 DEF Progress, TypeOK
      <4> QED BY <4>1 DEF TypeOK
    <3> QED BY <2>1, <2>3, <3>1 DEF Remarks, RemarkMatchesVerdict
  <2> QED BY <2>2, <2>3
<1>5. CASE UNCHANGED vars
  BY <1>5 DEF vars, Remarks, RemarkMatchesVerdict
<1> QED BY <1>1, <1>2, <1>3, <1>4, <1>5 DEF Next

\* The remark gives reasons for a positive verdict only, and against a
\* negative one whenever there was a chain.
THEOREM RemarkCorrect == Spec => []RemarkMatchesVerdict
<1>1. Init => Remarks
  BY DEF Init, Remarks, RemarkMatchesVerdict
<1>2. IInv /\ Remarks /\ [Next]_vars => Remarks'
  BY RemarksStep
<1>3. Remarks => RemarkMatchesVerdict
  BY DEF Remarks
<1> QED BY <1>1, <1>2, <1>3, Invariance, PTL DEF Spec

-----------------------------------------------------------------------------

\* A step of analyze goes on to the next chain, enters the one it is at, visits
\* one of its sources or returns; the chains stay the same.
AnalyzeDescends ==
  /\ lms' = lms /\ pc # "done"
  /\ \/ pc' = "done"
     \/ at < at' /\ at' <= Len(lms) + 1
     \/ /\ at' = at
        /\ \/ pc = "chains" /\ pc' = "sources"
           \/ /\ pc = "sources" /\ pc' = "sources"
              /\ todo' \subseteq todo /\ todo' # todo

LEMMA AnalyzeStepDescends ==
  ASSUME TypeOK, Next
  PROVE  AnalyzeDescends
<1> USE DEF AnalyzeDescends
<1>1. at \in Nat /\ Len(lms) \in Nat /\ (pc = "sources" => at <= Len(lms))
  BY DEF TypeOK
<1>2. CASE EnterChain
  BY <1>2 DEF EnterChain
<1>3. CASE SourcesVisited
  BY <1>1, <1>3 DEF SourcesVisited
<1>4. CASE Return
  BY <1>4 DEF Return
<1>5. ASSUME NEW src \in todo, VisitSource(src)
      PROVE  AnalyzeDescends
  <2>1. /\ pc = "sources"
        /\ \/ \E msg : Accept(src, msg)
           \/ \E msg : Reject(msg)
    BY <1>5 DEF VisitSource
  <2>2. CASE \E msg : Accept(src, msg)
    BY <2>1, <2>2 DEF Accept
  <2>3. CASE \E msg : Reject(msg)
    BY <1>1, <2>1, <2>3 DEF Reject
  <2> QED BY <2>1, <2>2, <2>3
<1> QED BY <1>2, <1>3, <1>4, <1>5 DEF Next

\* analyze does not go on for ever: no chain is entered twice, and no source of
\* a chain visited twice, whichever of them end the loops early.
THEOREM AnalyzeEnds == Spec => [][AnalyzeDescends]_vars
<1>1. TypeOK /\ [Next]_vars => [AnalyzeDescends]_vars
  BY AnalyzeStepDescends
<1> QED BY <1>1, TypeCorrect, PTL DEF Spec
=============================================================================
