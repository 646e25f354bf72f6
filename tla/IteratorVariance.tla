--------------------------- MODULE IteratorVariance ---------------------------
(***************************************************************************)
(* IteratorVarianceAnalyzer: does a value change with the loop's iterator? *)
(* A query walks backwards over the operands of the payload instructions   *)
(* of the loop, which form cycles through phi nodes, merges what it meets  *)
(* and caches the answer.  The worklist is a stack in the code and a set   *)
(* here, so that no order of it matters to what is checked; its duplicates *)
(* make no difference because of the visited set.                          *)
(***************************************************************************)
EXTENDS Integers

CONSTANTS
  Value,      \* the values of the function
  Programs    \* the programs considered

(***************************************************************************)
(* A program, as one loop sees it.  The values that are neither constants  *)
(* (or arguments) nor others are instructions; others are values of a kind *)
(* the code does not know, which no instruction it walks over has as an    *)
(* operand.  The operands of an instruction are those the walk follows:    *)
(* the pointer of a load or store, both choices of a select, the incoming  *)
(* values of a phi, all operands of a binary operation, cast or address    *)
(* computation, and none of any other instruction.                         *)
(***************************************************************************)
Program ==
  [constants : SUBSET Value, others : SUBSET Value, inLoop : SUBSET Value,
   iterators : SUBSET Value, operands : [Value -> SUBSET Value]]

WellFormed(p) ==
  /\ p \in Program
  /\ p.constants \cap p.others = {}
  /\ \A v \in Value : p.operands[v] \cap p.others = {}

ASSUME VarianceAssumption == \A p \in Programs : WellFormed(p)

Variance == {"Unknown", "Invariant", "Variant"}

VARIABLES
  program,
  pc,         \* "idle", "search" or "insert"
  query,      \* the value the last call was about
  workList, visited, status,
  cache       \* VarianceCache, with "none" for a value it does not hold

vars == <<program, pc, query, workList, visited, status, cache>>

-----------------------------------------------------------------------------

\* Fault: a variant value met later loses to what is known.
MergeFirst(old, new) == IF old = "Unknown" THEN new ELSE old

\* IteratorVariance::mergeIn.
MergeIn(old, new) == IF old = "Unknown" \/ new = "Variant" THEN new ELSE old

\* The instructions whose operands the walk goes on to.
Walked(v) ==
  /\ v \notin program.constants \cup program.others
  /\ v \in program.inLoop
  /\ v \notin program.iterators

\* What a value that is not walked over contributes.
Contribution(v) ==
  IF v \in program.constants THEN "Invariant"
  ELSE IF v \in program.others THEN "Unknown"
  ELSE IF v \notin program.inLoop THEN "Invariant"
  ELSE "Variant"

Init ==
  /\ program \in Programs
  /\ pc = "idle"
  /\ query \in Value
  /\ workList = {} /\ visited = {} /\ status = "Unknown"
  /\ cache = [v \in Value |-> "none"]

\* getOrInsertVariance of a value that is not in the cache.
Query(v) ==
  /\ pc = "idle" /\ cache[v] = "none"
  /\ query' = v
  /\ workList' = {v} /\ visited' = {} /\ status' = "Unknown"
  /\ pc' = "search"
  /\ UNCHANGED <<program, cache>>

\* Fault: no visited set.
VisitAgain(v) ==
  /\ pc = "search"
  /\ visited' = visited \cup {v}
  /\ IF Walked(v)
       THEN workList' = (workList \ {v}) \cup program.operands[v]
            /\ UNCHANGED <<pc, status>>
       ELSE /\ workList' = workList \ {v}
            /\ status' = MergeIn(status, Contribution(v))
            /\ UNCHANGED pc
  /\ UNCHANGED <<program, query, cache>>

\* One turn of the loop of getVariance for a value v of the worklist.
Visit(v) ==
  /\ pc = "search"
  /\ visited' = visited \cup {v}
  /\ \/ /\ v \in visited
        /\ workList' = workList \ {v}
        /\ UNCHANGED <<pc, status>>
     \/ /\ v \notin visited /\ status = "Variant"
        /\ workList' = {} /\ pc' = "insert"
        /\ UNCHANGED status
     \/ /\ v \notin visited /\ status # "Variant"
        /\ v \in program.others
        /\ status' = MergeIn(status, "Unknown")
        /\ workList' = {} /\ pc' = "insert"
     \/ /\ v \notin visited /\ status # "Variant"
        /\ v \notin program.others
        /\ IF Walked(v)
             THEN /\ workList' = (workList \ {v}) \cup program.operands[v]
                  /\ UNCHANGED status
             ELSE /\ workList' = workList \ {v}
                  /\ status' = MergeIn(status, Contribution(v))
        /\ UNCHANGED pc
  /\ UNCHANGED <<program, query, cache>>

\* The search ends when nothing is left to visit.
WorkListEmpty ==
  /\ pc = "search" /\ workList = {}
  /\ pc' = "insert"
  /\ UNCHANGED <<program, query, workList, visited, status, cache>>

\* getOrInsertVariance puts the answer into the cache.
Insert ==
  /\ pc = "insert"
  /\ cache' = [cache EXCEPT ![query] = status]
  /\ visited' = {} /\ status' = "Unknown"
  /\ pc' = "idle"
  /\ UNCHANGED <<program, query, workList>>

\* One step of a call that is under way.
Step == WorkListEmpty \/ Insert \/ \E v \in workList : Visit(v)

Next == Step \/ \E v \in Value : Query(v)

Spec == Init /\ [][Next]_vars

\* Nothing blocks a call once it was made; that one is made is not assumed.
FairSpec == Spec /\ WF_vars(Step)

-----------------------------------------------------------------------------

\* The types of the variables.
TypeOK ==
  /\ WellFormed(program)
  /\ pc \in {"idle", "search", "insert"}
  /\ query \in Value
  /\ workList \subseteq Value /\ visited \subseteq Value
  /\ pc # "search" => workList = {}
  /\ status \in Variance
  /\ cache \in [Value -> Variance \cup {"none"}]

\* The sets of values that hold v and the operands of the walked values in
\* them; the least of them is what v is computed from.
Closed(v, S) ==
  v \in S /\ \A w \in S : Walked(w) => program.operands[w] \subseteq S

Reach(v) == {w \in Value : \A S \in SUBSET Value : Closed(v, S) => w \in S}

\* What the values of S that are not walked over amount to: Variant if some
\* is an iterator value of the loop, Invariant if none is and some is known
\* not to change in the loop.
Summary(S) ==
  LET met == {Contribution(w) : w \in {x \in S : ~Walked(x)}}
  IN  IF "Variant" \in met THEN "Variant"
      ELSE IF "Invariant" \in met THEN "Invariant" ELSE "Unknown"

\* The variance of v, by everything it is computed from.
VarianceOf(v) == Summary(Reach(v))

\* Whatever is in the cache is right: the early exits of the search, the
\* order of its stack and the cycles of phi nodes never change an answer, and
\* no answer depends on the queries made before.
CacheCorrect == \A v \in Value : cache[v] # "none" => cache[v] = VarianceOf(v)

\* A query returns, whatever the cycles of the operands.
QueryReturns == pc = "search" ~> pc = "idle"

=============================================================================
