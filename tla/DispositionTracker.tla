------------------------- MODULE DispositionTracker -------------------------
(***************************************************************************)
(* Whether what is accessed through a value varies with the iterator of a  *)
(* loop.  The tracker answers any number of queries about any loops of the *)
(* function that IteratorRecognition was made for; it keeps the iterator   *)
(* infos of the loop nest that the last query was about.                   *)
(*                                                                         *)
(* The worklist is a set: an answer may not depend on its order.           *)
(***************************************************************************)
EXTENDS ValueClassification

CONSTANT Argument   \* values that are not instructions

Value == Inst \cup Argument
NoLoop == 0

(***************************************************************************)
(* A function tells in addition who uses the other values, and which       *)
(* instructions compute an address, with the operands that are indices.    *)
(***************************************************************************)
Accesses(f) ==
  /\ f.argUsers \in [Argument -> SUBSET Inst]
  /\ f.geps \subseteq Inst
  /\ f.indices \in [f.geps -> SUBSET Inst]
  /\ \A gep \in f.geps : \A i \in f.indices[gep] : gep \in f.users[i]

ASSUME TrackerAssumption ==
  /\ Argument \cap Inst = {}
  /\ \A f \in Functions : Accesses(f)

VARIABLES
  topL,       \* the top-level loop of the infos, or NoLoop
  infos,      \* the loops whose infos the tracker holds
  tracker,    \* "idle", "query" (after init) or "search"
  query,      \* the value, the loop and whether iterators of subloops count
  workList, visited,
  answer      \* the disposition returned last

trackerVars == <<topL, infos, tracker, query, workList, visited, answer>>

Query == [value : Value, loop : Loop, subLoops : BOOLEAN]

UsersOf(v) == IF v \in Inst THEN Users(v) ELSE function.argUsers[v]

Operands(i) == {j \in Inst : i \in Users(j)}

-----------------------------------------------------------------------------

TopLevelOf(l) == CHOOSE t \in Loop : function.parent[t] = 0 /\ IsAncestor(t, l)

Nest(t) == {m \in Loop : IsAncestor(t, m)}

\* The loops whose iterators a query is about.
LoopsAbout(l, subLoops) == {m \in Loop : m = l \/ (subLoops /\ IsAncestor(l, m))}

IsIterator(i, l, subLoops) ==
  \E m \in infos \cap LoopsAbout(l, subLoops) : i \in iterators[m]

\* Fault: infos are loaded once.
NeedsInitOnce(l) == topL = NoLoop

\* init has the infos already if the query before was about the same nest.
NeedsInit(l) == topL # TopLevelOf(l)

\* The tracker refers to the recognised iterators and is asked about them when
\* they are complete.
TrackerInit ==
  /\ Init
  /\ topL = NoLoop /\ infos = {}
  /\ tracker = "idle"
  /\ query \in {q \in Query : q.loop = 1 /\ ~q.subLoops}
  /\ workList = {} /\ visited = {}
  /\ answer = "Unknown"

\* getDisposition is called and init brings the infos of the nest.
Ask(q) ==
  /\ pc = "done" /\ tracker = "idle"
  /\ query' = q
  /\ IF NeedsInit(q.loop)
     THEN topL' = TopLevelOf(q.loop) /\ infos' = Nest(TopLevelOf(q.loop))
     ELSE UNCHANGED <<topL, infos>>
  /\ tracker' = "query"
  /\ workList' = {} /\ visited' = {} /\ answer' = "Unknown"
  /\ UNCHANGED vars

QueryIsIterator ==
  query.value \in Inst /\ IsIterator(query.value, query.loop, query.subLoops)

\* An iterator value does not vary with the iterator.
AnswerIterator ==
  /\ tracker = "query" /\ QueryIsIterator
  /\ answer' = "Invariant" /\ tracker' = "idle"
  /\ UNCHANGED <<vars, topL, infos, query, workList, visited>>

\* The address computations of the payload that use the value.
Geps ==
  function.geps \cap UsersOf(query.value) \cap FindPayloadValues(query.loop)

AnswerUnused ==
  /\ tracker = "query" /\ ~QueryIsIterator /\ Geps = {}
  /\ answer' = "Invariant" /\ tracker' = "idle"
  /\ UNCHANGED <<vars, topL, infos, query, workList, visited>>

\* The search begins with the indices of the address computations.
BeginSearch ==
  /\ tracker = "query" /\ ~QueryIsIterator /\ Geps # {}
  /\ workList' = UNION {function.indices[gep] : gep \in Geps}
  /\ tracker' = "search"
  /\ UNCHANGED <<vars, topL, infos, query, visited, answer>>

\* Fault: no set of visited instructions.
VisitAgain ==
  \E i \in workList :
    /\ tracker = "search"
    /\ visited' = visited \cup {i}
    /\ IF IsIterator(i, query.loop, query.subLoops)
       THEN answer' = "Variant" /\ tracker' = "idle" /\ UNCHANGED workList
       ELSE /\ workList' = (workList \ {i}) \cup Operands(i)
            /\ UNCHANGED <<tracker, answer>>
    /\ UNCHANGED <<vars, topL, infos, query>>

\* One turn of the loop: an iterator ends the search, the operands of other
\* instructions are searched as well.
Visit ==
  \E i \in workList :
    /\ tracker = "search"
    /\ visited' = visited \cup {i}
    /\ IF i \in visited
       THEN workList' = workList \ {i} /\ UNCHANGED <<tracker, answer>>
       ELSE IF IsIterator(i, query.loop, query.subLoops)
       THEN answer' = "Variant" /\ tracker' = "idle" /\ UNCHANGED workList
       ELSE /\ workList' = (workList \ {i}) \cup Operands(i)
            /\ UNCHANGED <<tracker, answer>>
    /\ UNCHANGED <<vars, topL, infos, query>>

SearchEnded ==
  /\ tracker = "search" /\ workList = {}
  /\ answer' = "Invariant" /\ tracker' = "idle"
  /\ UNCHANGED <<vars, topL, infos, query, workList, visited>>

Step == AnswerIterator \/ AnswerUnused \/ BeginSearch \/ Visit \/ SearchEnded

TrackerNext ==
  \/ Next /\ UNCHANGED trackerVars
  \/ \E q \in Query : Ask(q)
  \/ Step

TrackerSpec ==
  TrackerInit /\ [][TrackerNext]_<<vars, trackerVars>> /\ WF_<<vars, trackerVars>>(Step)

-----------------------------------------------------------------------------

\* The types of the variables, those of IteratorRecognition included.
TrackerTypeOK ==
  /\ TypeOK
  /\ topL \in Loop \cup {NoLoop}
  /\ infos \subseteq Loop
  /\ tracker \in {"idle", "query", "search"}
  /\ tracker # "idle" \/ answer # "Unknown" => pc = "done"
  /\ query \in Query
  /\ workList \subseteq Inst /\ visited \subseteq Inst
  /\ answer \in {"Unknown", "Invariant", "Variant"}

-----------------------------------------------------------------------------
(* The reference: what one query is answered, whatever was asked before.    *)

Iterators(q) == UNION {iterators[m] : m \in LoopsAbout(q.loop, q.subLoops)}

\* i is computed from one of the given instructions.
ComputedFrom(start, i) ==
  \A S \in SUBSET Inst :
    start \subseteq S /\ (\A k \in S : Operands(k) \subseteq S) => i \in S

Indices(q) ==
  UNION {function.indices[gep] :
           gep \in function.geps \cap UsersOf(q.value) \cap FindPayloadValues(q.loop)}

Varies(q) ==
  /\ q.value \notin Iterators(q)
  /\ \E i \in Iterators(q) : ComputedFrom(Indices(q), i)

\* The answer to a query is Variant just when an index of an access in the
\* payload is computed from an iterator: queries about other nests that came
\* before, and the order of the search, make no difference.
AnswerCorrect ==
  tracker = "idle" /\ answer # "Unknown" =>
    answer = IF Varies(query) THEN "Variant" ELSE "Invariant"

\* Every query is answered, on cycles of phi nodes too.
QueryReturns == (tracker # "idle") ~> (tracker = "idle")
=============================================================================
