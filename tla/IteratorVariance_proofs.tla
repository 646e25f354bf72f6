----------------------- MODULE IteratorVariance_proofs -----------------------
(***************************************************************************)
(* The cache of the variance analyzer is right, for any program, any       *)
(* sequence of queries and any order of the search.                        *)
(***************************************************************************)
EXTENDS IteratorVariance, TLAPS

\* While a search is under way, what it has seen belongs to the query, the
\* operands of what it walked over are seen or waiting, and its status sums
\* up what it has seen.
Searching ==
  /\ query \in visited \cup workList
  /\ visited \cup workList \subseteq Reach(query)
  /\ \A w \in visited : Walked(w) => program.operands[w] \subseteq visited \cup workList
  /\ visited \cap program.others = {}
  /\ status = Summary(visited)

IInv ==
  /\ TypeOK
  /\ pc = "search" => Searching
  /\ pc = "insert" => status = VarianceOf(query)
  /\ CacheCorrect

-----------------------------------------------------------------------------
\* What is computed from a value.

LEMMA ReachSelf ==
  ASSUME NEW v \in Value
  PROVE  v \in Reach(v)
BY DEF Reach, Closed

LEMMA ReachOperands ==
  ASSUME WellFormed(program), NEW v \in Value, NEW w \in Reach(v), Walked(w)
  PROVE  program.operands[w] \subseteq Reach(v)
<1>1. w \in Value /\ program.operands[w] \subseteq Value
  BY DEF Reach, WellFormed, Program
<1> QED BY <1>1 DEF Reach, Closed

LEMMA ReachLeast ==
  ASSUME NEW v \in Value, NEW S \in SUBSET Value, Closed(v, S)
  PROVE  Reach(v) \subseteq S
BY DEF Reach

\* A value of a kind the code does not know is computed from nothing, and
\* nothing else is computed from it.
LEMMA ReachOther ==
  ASSUME WellFormed(program), NEW v \in Value, NEW w \in Reach(v),
         w \in program.others
  PROVE  w = v
<1> DEFINE S == {x \in Value : x = v \/ x \notin program.others}
<1>1. \A x \in Value : program.operands[x] \subseteq Value
                       /\ program.operands[x] \cap program.others = {}
  BY DEF WellFormed, Program
<1>2. Closed(v, S)
  BY <1>1 DEF Closed
<1>3. Reach(v) \subseteq S
  BY <1>2, ReachLeast
<1> QED BY <1>3

LEMMA ContributionType ==
  ASSUME NEW v
  PROVE  Contribution(v) \in Variance
BY DEF Contribution, Variance

LEMMA SummaryType ==
  ASSUME NEW S
  PROVE  Summary(S) \in Variance
BY DEF Summary, Variance

\* Seeing one more value: one that is walked over adds nothing, any other is
\* merged in.
LEMMA SummaryWalked ==
  ASSUME NEW S, NEW v, Walked(v)
  PROVE  Summary(S \cup {v}) = Summary(S)
<1>1. {x \in S \cup {v} : ~Walked(x)} = {x \in S : ~Walked(x)}
  OBVIOUS
<1> QED BY <1>1 DEF Summary

LEMMA SummaryMerged ==
  ASSUME NEW S, NEW v, ~Walked(v), Summary(S) # "Variant"
  PROVE  Summary(S \cup {v}) = MergeIn(Summary(S), Contribution(v))
<1> DEFINE met(T) == {Contribution(w) : w \in {x \in T : ~Walked(x)}}
<1>1. met(S \cup {v}) = met(S) \cup {Contribution(v)}
  OBVIOUS
<1>2. \A T : Summary(T) = IF "Variant" \in met(T) THEN "Variant"
                          ELSE IF "Invariant" \in met(T) THEN "Invariant"
                          ELSE "Unknown"
  BY DEF Summary
<1>3. Contribution(v) \in {"Unknown", "Invariant", "Variant"}
  BY ContributionType DEF Variance
<1> HIDE DEF met
<1> QED BY <1>1, <1>2, <1>3 DEF MergeIn

LEMMA SummaryVariant ==
  ASSUME NEW S, NEW T, S \subseteq T, Summary(S) = "Variant"
  PROVE  Summary(T) = "Variant"
<1>1. \E w \in S : ~Walked(w) /\ Contribution(w) = "Variant"
  BY DEF Summary
<1> QED BY <1>1 DEF Summary

\* What a value is computed from is a matter of the program alone.
LEMMA ProgramOnly ==
  ASSUME UNCHANGED program
  PROVE  /\ \A v : Walked(v)' <=> Walked(v)
         /\ \A v : Reach(v)' = Reach(v)
         /\ \A S : Summary(S)' = Summary(S)
         /\ \A v : VarianceOf(v)' = VarianceOf(v)
<1>1. \A v : Walked(v)' <=> Walked(v)
  BY DEF Walked
<1>2. \A v : Reach(v)' = Reach(v)
  BY <1>1 DEF Reach, Closed
<1>3. \A S : Summary(S)' = Summary(S)
  BY <1>1 DEF Summary, Contribution
<1> QED BY <1>1, <1>2, <1>3 DEF VarianceOf

-----------------------------------------------------------------------------

LEMMA InitInvariant == Init => IInv
BY VarianceAssumption DEF Init, IInv, TypeOK, CacheCorrect, Variance

LEMMA QueryStep ==
  ASSUME IInv, NEW v \in Value, Query(v)
  PROVE  IInv'
<1>1. /\ query' = v /\ workList' = {v} /\ visited' = {} /\ status' = "Unknown"
      /\ pc' = "search"
      /\ UNCHANGED <<program, cache>>
  BY DEF Query
<1>2. TypeOK'
  BY <1>1 DEF IInv, TypeOK, Variance, WellFormed
<1>3. Searching'
  <2>1. visited' \cup workList' \subseteq Reach(v)
    BY <1>1, ReachSelf
  <2>2. Summary({}) = "Unknown"
    BY DEF Summary
  <2>3. visited' \cup workList' \subseteq Reach(query)' /\ status' = Summary(visited)'
    BY <1>1, <2>1, <2>2, ProgramOnly
  <2> QED BY <1>1, <2>3 DEF Searching
<1>4. CacheCorrect'
  BY <1>1, ProgramOnly DEF IInv, CacheCorrect
<1> QED BY <1>1, <1>2, <1>3, <1>4 DEF IInv

LEMMA VisitStep ==
  ASSUME IInv, NEW v \in workList, Visit(v)
  PROVE  IInv'
<1>1. /\ TypeOK /\ Searching /\ CacheCorrect /\ pc = "search"
      /\ visited' = visited \cup {v}
      /\ UNCHANGED <<program, query, cache>>
  BY DEF Visit, IInv
<1>2. v \in Value /\ query \in Value /\ v \in Reach(query) /\ WellFormed(program)
  BY <1>1 DEF TypeOK, Searching
<1>3. CacheCorrect'
  BY <1>1, ProgramOnly DEF CacheCorrect
<1>4. CASE v \in visited
  <2>1. workList' = workList \ {v} /\ visited' = visited /\ UNCHANGED <<pc, status>>
    BY <1>1, <1>4 DEF Visit
  <2>2. TypeOK'
    BY <1>1, <2>1 DEF TypeOK, WellFormed
  <2>3. Searching'
    BY <1>1, <1>4, <2>1, ProgramOnly DEF Searching
  <2> QED BY <1>1, <1>3, <2>1, <2>2, <2>3 DEF IInv
<1>5. CASE v \notin visited /\ status = "Variant"
  <2>1. workList' = {} /\ pc' = "insert" /\ UNCHANGED status
    BY <1>5 DEF Visit
  <2>2. TypeOK'
    BY <1>1, <1>2, <2>1 DEF TypeOK, WellFormed
  <2>3. VarianceOf(query) = "Variant"
    BY <1>1, <1>5, SummaryVariant DEF Searching, VarianceOf
  <2>4. status' = VarianceOf(query)'
    BY <1>1, <1>5, <2>1, <2>3, ProgramOnly
  <2> QED BY <1>3, <2>1, <2>2, <2>4 DEF IInv
<1>6. CASE v \notin visited /\ status # "Variant" /\ v \in program.others
  <2>1. status' = MergeIn(status, "Unknown") /\ workList' = {} /\ pc' = "insert"
    BY <1>6 DEF Visit
  <2>2. v = query
    BY <1>2, <1>6, ReachOther
  <2>3. ~Walked(v) /\ Contribution(v) = "Unknown"
    BY <1>2, <1>6 DEF Walked, Contribution, WellFormed
  <2>4. Reach(query) = {query}
    <3>1. Closed(query, {query})
      BY <2>2, <2>3 DEF Closed
    <3> QED BY <1>2, <3>1, ReachLeast, ReachSelf
  <2>5. visited = {}
    BY <1>1, <1>6, <2>2, <2>4 DEF Searching
  <2>6. status = "Unknown"
    BY <1>1, <2>5 DEF Searching, Summary
  <2>7. VarianceOf(query) = "Unknown"
    BY <2>2, <2>3, <2>4 DEF VarianceOf, Summary
  <2>8. status' = "Unknown"
    BY <2>1, <2>6 DEF MergeIn
  <2>9. TypeOK'
    BY <1>1, <1>2, <2>1, <2>8 DEF TypeOK, Variance, WellFormed
  <2>10. status' = VarianceOf(query)'
    BY <1>1, <2>7, <2>8, ProgramOnly
  <2> QED BY <1>3, <2>1, <2>9, <2>10 DEF IInv
<1>7. CASE v \notin visited /\ status # "Variant" /\ v \notin program.others
  <2>1. pc' = "search" /\ (visited \cup {v}) \cap program.others = {}
    BY <1>1, <1>7 DEF Visit, Searching
  <2>2. CASE Walked(v)
    <3>1. workList' = (workList \ {v}) \cup program.operands[v] /\ UNCHANGED status
      BY <1>7, <2>2 DEF Visit
    <3>2. program.operands[v] \subseteq Reach(query) /\ program.operands[v] \subseteq Value
      BY <1>2, <2>2, ReachOperands DEF WellFormed, Program
    <3>3. TypeOK'
      BY <1>1, <1>2, <2>1, <3>1, <3>2 DEF TypeOK, WellFormed
    <3>4. status = Summary(visited \cup {v})
      BY <1>1, <2>2, SummaryWalked DEF Searching
    <3>5. \A w \in visited \cup {v} :
            Walked(w) => program.operands[w] \subseteq visited' \cup workList'
      BY <1>1, <3>1 DEF Searching
    <3>6. visited' \cup workList' \subseteq Reach(query)
      BY <1>1, <1>2, <3>1, <3>2 DEF Searching
    <3>7. Searching'
      BY <1>1, <2>1, <3>1, <3>4, <3>5, <3>6, ProgramOnly DEF Searching
    <3> QED BY <1>3, <2>1, <3>3, <3>7 DEF IInv
  <2>3. CASE ~Walked(v)
    <3>1. workList' = workList \ {v} /\ status' = MergeIn(status, Contribution(v))
      BY <1>7, <2>3 DEF Visit
    <3>2. status' = Summary(visited \cup {v})
      BY <1>1, <1>7, <2>3, <3>1, SummaryMerged DEF Searching
    <3>3. TypeOK'
      BY <1>1, <1>2, <2>1, <3>1, <3>2, SummaryType DEF TypeOK, WellFormed
    <3>4. \A w \in visited \cup {v} :
            Walked(w) => program.operands[w] \subseteq visited' \cup workList'
      BY <1>1, <2>3, <3>1 DEF Searching
    <3>5. visited' \cup workList' \subseteq Reach(query)
      BY <1>1, <1>2, <3>1 DEF Searching
    <3>6. Searching'
      BY <1>1, <2>1, <3>1, <3>2, <3>4, <3>5, ProgramOnly DEF Searching
    <3> QED BY <1>3, <2>1, <3>3, <3>6 DEF IInv
  <2> QED BY <2>2, <2>3
<1> QED BY <1>4, <1>5, <1>6, <1>7

LEMMA WorkListEmptyStep ==
  ASSUME IInv, WorkListEmpty
  PROVE  IInv'
<1>1. /\ TypeOK /\ Searching /\ CacheCorrect
      /\ workList = {} /\ pc' = "insert"
      /\ UNCHANGED <<program, query, workList, visited, status, cache>>
  BY DEF WorkListEmpty, IInv
<1>2. Closed(query, visited) /\ query \in Value /\ visited \subseteq Value
  BY <1>1 DEF Searching, Closed, TypeOK
<1>3. Reach(query) = visited
  BY <1>1, <1>2, ReachLeast DEF Searching
<1>4. status = VarianceOf(query)
  BY <1>1, <1>3 DEF Searching, VarianceOf
<1>5. status' = VarianceOf(query)' /\ CacheCorrect'
  BY <1>1, <1>4, ProgramOnly DEF CacheCorrect
<1>6. TypeOK'
  BY <1>1 DEF TypeOK, WellFormed
<1> QED BY <1>1, <1>5, <1>6 DEF IInv

LEMMA InsertStep ==
  ASSUME IInv, Insert
  PROVE  IInv'
<1>1. /\ TypeOK /\ CacheCorrect /\ status = VarianceOf(query)
      /\ cache' = [cache EXCEPT ![query] = status]
      /\ visited' = {} /\ status' = "Unknown" /\ pc' = "idle"
      /\ UNCHANGED <<program, query, workList>>
  BY DEF Insert, IInv
<1>2. TypeOK'
  BY <1>1 DEF TypeOK, Variance, WellFormed, Insert
<1>3. CacheCorrect'
  BY <1>1, ProgramOnly DEF CacheCorrect, TypeOK
<1> QED BY <1>1, <1>2, <1>3 DEF IInv

LEMMA Invariance == Spec => []IInv
<1>1. IInv /\ [Next]_vars => IInv'
  <2> SUFFICES ASSUME IInv, [Next]_vars PROVE IInv'
    OBVIOUS
  <2>1. CASE \E v \in Value : Query(v)
    BY <2>1, QueryStep
  <2>2. CASE \E v \in workList : Visit(v)
    BY <2>2, VisitStep
  <2>3. CASE WorkListEmpty
    BY <2>3, WorkListEmptyStep
  <2>4. CASE Insert
    BY <2>4, InsertStep
  <2>5. CASE UNCHANGED vars
    <3>1. TypeOK'
      BY <2>5 DEF vars, IInv, TypeOK, WellFormed
    <3>2. UNCHANGED program
      BY <2>5 DEF vars
    <3> QED BY <2>5, <3>1, <3>2, ProgramOnly DEF vars, IInv, Searching, CacheCorrect
  <2> QED BY <2>1, <2>2, <2>3, <2>4, <2>5 DEF Next, Step
<1> QED BY <1>1, InitInvariant, PTL DEF Spec

\* The variables keep their types.
THEOREM TypeCorrect == Spec => []TypeOK
<1>1. IInv => TypeOK
  BY DEF IInv
<1> QED BY <1>1, Invariance, PTL

\* Every cached variance is that of everything the value is computed from,
\* for any program and any sequence of queries.
THEOREM CacheIsCorrect == Spec => []CacheCorrect
<1>1. IInv => CacheCorrect
  BY DEF IInv
<1> QED BY <1>1, Invariance, PTL

-----------------------------------------------------------------------------

\* A step of a search visits a value it has not visited, or only takes one from
\* the worklist, unless it ends the search; the query stays the same.
SearchDescends ==
  /\ pc = "search" =>
       /\ query' = query
       /\ \/ pc' = "insert"
          \/ /\ pc' = "search"
             /\ \/ visited \subseteq visited' /\ visited' # visited
                \/ /\ visited' = visited
                   /\ workList' \subseteq workList /\ workList' # workList
  /\ pc = "insert" => query' = query /\ pc' = "idle"

\* No search goes on for ever, whatever the cycles of the operands: what is
\* visited are values of the function (TypeCorrect), of which there are finitely
\* many, and none is forgotten.
THEOREM SearchesEnd == Spec => [][SearchDescends]_vars
<1>1. [Next]_vars => [SearchDescends]_vars
  <2> SUFFICES ASSUME Next PROVE SearchDescends
    OBVIOUS
  <2>1. CASE \E v \in Value : Query(v)
    BY <2>1 DEF Query, SearchDescends
  <2>2. CASE WorkListEmpty \/ Insert
    BY <2>2 DEF WorkListEmpty, Insert, SearchDescends
  <2>3. ASSUME NEW v \in workList, Visit(v)
        PROVE  SearchDescends
    <3>1. CASE v \in visited
      BY <2>3, <3>1 DEF Visit, SearchDescends
    <3>2. CASE v \notin visited
      <4>1. /\ pc = "search" /\ query' = query /\ pc' \in {"search", "insert"}
            /\ visited' = visited \cup {v}
        BY <2>3, <3>2 DEF Visit
      <4> QED BY <3>2, <4>1 DEF SearchDescends
    <3> QED BY <3>1, <3>2
  <2> QED BY <2>1, <2>2, <2>3 DEF Next, Step
<1> QED BY <1>1, PTL DEF Spec
=============================================================================
