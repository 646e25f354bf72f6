------------------------ MODULE MutationDetector_proofs ------------------------
(***************************************************************************)
(* For any loop and any order of the search: process finds the whole slice *)
(* of its target and nothing else, or fails on something in it.            *)
(***************************************************************************)
EXTENDS MutationDetector, TLAPS

\* The instructions in a set.
Instructions(p, S) == {i \in S : p.kind[i] # "value"}

\* What was met so far is in the slice, and what was found are the sources and
\* the operations among what was visited.
Found ==
  /\ WellFormed(program)
  /\ pc \in {"search", "done"}
  /\ target \in Instructions(program, Inst)
  /\ workList \cup visited \subseteq Slice(program, target)
  /\ Instructions(program, visited) = visited
  /\ sources = {i \in visited \cap program.nodes : IsSource(program, i)}
  /\ operations = {i \in visited \cap program.nodes : IsOperation(program, i)}
                    \ (IF pc = "done" THEN {target} ELSE {})

\* All that process goes on to from i is in S.
Behind(p, i, S) == ~IsSource(p, i) => Instructions(p, Followed(p, i)) \subseteq S

\* Nothing that has to be visited is lost: what is followed from a visited
\* instruction is visited or still on the worklist, unless process gave up; the
\* message then names the instruction.
Pending ==
  /\ pc = "done" /\ wasProcessed => workList = {}
  /\ wasProcessed =>
       /\ message = <<>>
       /\ target \in workList \cup visited
       /\ \A i \in visited \cap program.nodes :
            ~GivesUp(program, dc, i) /\ Behind(program, i, workList \cup visited)
  /\ ~wasProcessed =>
       \E i \in visited \cap program.nodes :
         GivesUp(program, dc, i) /\ message = <<i>>

SearchInvariant == Found /\ Pending /\ wasProcessed \in BOOLEAN

-----------------------------------------------------------------------------
\* The slice.

LEMMA FollowedInst ==
  ASSUME NEW p, WellFormed(p), NEW i \in Inst
  PROVE  Followed(p, i) \subseteq Inst
BY DEF WellFormed, Followed

LEMMA InstClosed ==
  ASSUME NEW p, WellFormed(p), NEW t \in Inst
  PROVE  t \in Slice(p, t) /\ Slice(p, t) \subseteq Inst
BY DEF Slice, Closed

\* The slice is closed under what process follows.
LEMMA SliceFollowed ==
  ASSUME NEW p, WellFormed(p), NEW t, NEW i \in Slice(p, t) \cap p.nodes,
         p.kind[i] # "value", ~IsSource(p, i)
  PROVE  Followed(p, i) \subseteq Slice(p, t)
<1>1. i \in Inst /\ Followed(p, i) \subseteq Inst
  BY FollowedInst DEF Slice
<1>2. ASSUME NEW S \in SUBSET Inst, Closed(p, t, S)
      PROVE  Followed(p, i) \subseteq S
  <2>1. i \in S
    BY <1>2 DEF Slice
  <2> QED BY <1>2, <2>1 DEF Closed
<1> QED BY <1>1, <1>2 DEF Slice

\* A visited set that nothing leads out of is the slice but for the values.
LEMMA WholeSlice ==
  ASSUME NEW p, WellFormed(p), NEW S \in SUBSET Inst, NEW t \in S,
         \A i \in S \cap p.nodes : Behind(p, i, S)
  PROVE  Handled(p, t) \subseteq S
<1> DEFINE T == S \cup {i \in Inst : p.kind[i] = "value"}
<1>1. T \in SUBSET Inst /\ t \in T
  OBVIOUS
<1>2. ASSUME NEW i \in T \cap p.nodes, p.kind[i] # "value", ~IsSource(p, i)
      PROVE  Followed(p, i) \subseteq T
  BY <1>2, FollowedInst DEF Instructions, Behind
<1>3. Closed(p, t, T)
  BY <1>1, <1>2 DEF Closed
<1> QED BY <1>1, <1>3 DEF Handled, Slice

-----------------------------------------------------------------------------

\* process is called.
LEMMA CallSearch ==
  ASSUME WellFormed(program), target \in Instructions(program, Inst),
         pc = "search", workList = {target}, visited = {},
         sources = {}, operations = {}, wasProcessed = TRUE, message = <<>>
  PROVE  SearchInvariant
BY InstClosed DEF SearchInvariant, Found, Pending, Instructions

LEMMA InitSearch == Init => SearchInvariant
<1> SUFFICES ASSUME Init PROVE SearchInvariant
  OBVIOUS
<1>1. WellFormed(program)
  BY DetectorAssumption DEF Init
<1>2. target \in Instructions(program, Inst)
  BY <1>1 DEF Init, Targets, WellFormed, Instructions
<1> QED BY <1>1, <1>2, CallSearch DEF Init

\* The instruction that is taken from the worklist joins what was visited.
LEMMA VisitedInstructions ==
  ASSUME Found, NEW i \in workList, program.kind[i] # "value"
  PROVE  /\ i \in Inst
         /\ visited \cup {i} \subseteq Slice(program, target)
         /\ Instructions(program, visited \cup {i}) = visited \cup {i}
BY InstClosed DEF Found, Instructions

LEMMA PassOverSearch ==
  ASSUME SearchInvariant, NEW i \in workList, PassOver(i)
  PROVE  SearchInvariant'
<1>1. /\ UNCHANGED <<program, dc, pc, target, sources, operations, wasProcessed, message>>
      /\ pc = "search" /\ workList' = workList \ {i}
      /\ visited' \cap program.nodes = visited \cap program.nodes
      /\ visited \subseteq visited'
      /\ visited' \subseteq visited \cup {j \in {i} : program.kind[j] # "value"}
      /\ Instructions(program, workList \cup visited) \subseteq workList' \cup visited'
  BY DEF PassOver, Instructions
<1>2. Found'
  <2>1. /\ Instructions(program, visited') = visited'
        /\ workList' \cup visited' \subseteq Slice(program, target)
    BY <1>1 DEF SearchInvariant, Found, Instructions
  <2> QED BY <1>1, <2>1 DEF SearchInvariant, Found
<1>3. Pending'
  <2>1. wasProcessed /\ message = <<>>
    BY DEF PassOver, SearchInvariant, Pending
  <2>2. target \in workList' \cup visited'
    BY <1>1, <2>1 DEF SearchInvariant, Found, Pending, Instructions
  <2>3. ASSUME NEW j \in visited' \cap program.nodes
        PROVE  /\ ~GivesUp(program, dc, j)
               /\ Behind(program, j, workList' \cup visited')
    BY <1>1, <2>1, <2>3 DEF SearchInvariant, Pending, Behind, Instructions
  <2> QED BY <1>1, <2>1, <2>2, <2>3 DEF Pending
<1> QED BY <1>1, <1>2, <1>3 DEF SearchInvariant

LEMMA ProcessSearch ==
  ASSUME SearchInvariant, NEW i \in workList, Process(i)
  PROVE  SearchInvariant'
<1>1. /\ UNCHANGED <<program, dc, pc, target>> /\ pc = "search"
      /\ visited' = visited \cup {i}
      /\ program.kind[i] # "value" /\ i \in program.nodes
  BY DEF Process
<1>2. WellFormed(program) /\ wasProcessed /\ message = <<>>
  BY DEF Process, SearchInvariant, Found, Pending
<1>3. /\ i \in Inst /\ visited' \subseteq Slice(program, target)
      /\ Instructions(program, visited') = visited'
      /\ visited' \cap program.nodes = (visited \cap program.nodes) \cup {i}
  BY <1>1, VisitedInstructions DEF SearchInvariant
<1>4. GivesUp(program, dc, i) => ~IsSource(program, i) /\ ~IsOperation(program, i)
  BY DEF GivesUp, IsSource, IsOperation
<1>5. /\ sources' = sources \cup {s \in {i} : IsSource(program, s)}
      /\ operations' = operations \cup {o \in {i} : IsOperation(program, o)}
  BY <1>4 DEF Process, Take
<1>6. workList' \subseteq Slice(program, target)
  <2>1. workList \subseteq Slice(program, target) /\ i \in Slice(program, target)
    BY DEF SearchInvariant, Found
  <2>2. ~IsSource(program, i) => Followed(program, i) \subseteq Slice(program, target)
    BY <1>1, <1>2, <2>1, SliceFollowed
  <2> QED BY <2>1, <2>2 DEF Process, Take
<1>7. Found'
  <2>1. sources' = {k \in visited' \cap program.nodes : IsSource(program, k)}
    BY <1>3, <1>5 DEF SearchInvariant, Found
  <2>2. operations' = {k \in visited' \cap program.nodes : IsOperation(program, k)} \ {}
    BY <1>1, <1>3, <1>5 DEF SearchInvariant, Found
  <2> QED BY <1>1, <1>2, <1>3, <1>6, <2>1, <2>2 DEF SearchInvariant, Found
<1>8. Pending' /\ wasProcessed' \in BOOLEAN
  <2>1. CASE GivesUp(program, dc, i)
    <3>1. ~wasProcessed' /\ wasProcessed' \in BOOLEAN /\ message' = <<i>>
      BY <2>1 DEF Process, Take
    <3> QED BY <1>1, <1>3, <2>1, <3>1 DEF Pending
  <2>2. CASE ~GivesUp(program, dc, i)
    <3>1. /\ wasProcessed' = wasProcessed /\ message' = message
          /\ workList' = (workList \ {i})
                         \cup (IF IsSource(program, i) THEN {} ELSE Followed(program, i))
      BY <2>2 DEF Process, Take
    <3>2. workList \cup visited \subseteq workList' \cup visited'
      BY <1>1, <3>1
    <3>3. target \in workList' \cup visited'
      BY <1>2, <3>2 DEF SearchInvariant, Pending
    <3>4. ASSUME NEW j \in visited' \cap program.nodes
          PROVE  /\ ~GivesUp(program, dc, j)
                 /\ Behind(program, j, workList' \cup visited')
      <4>1. CASE j = i
        BY <2>2, <3>1, <4>1 DEF Instructions, Behind
      <4>2. CASE j # i
        BY <1>2, <1>3, <3>2, <4>2 DEF SearchInvariant, Pending, Behind
      <4> QED BY <4>1, <4>2
    <3> QED BY <1>1, <1>2, <3>1, <3>3, <3>4 DEF Pending
  <2> QED BY <2>1, <2>2
<1> QED BY <1>7, <1>8 DEF SearchInvariant

LEMMA FinishSearch ==
  ASSUME SearchInvariant, Finish
  PROVE  SearchInvariant'
<1>1. /\ UNCHANGED <<program, dc, target, workList, visited, sources, wasProcessed,
                     message>>
      /\ pc = "search" /\ pc' = "done" /\ (workList = {} \/ ~wasProcessed)
      /\ operations' = operations \ {target}
  BY DEF Finish
<1>2. Found'
  <2>1. operations' = {k \in visited \cap program.nodes : IsOperation(program, k)} \ {target}
    BY <1>1 DEF SearchInvariant, Found
  <2> QED BY <1>1, <2>1 DEF SearchInvariant, Found
<1>3. Pending'
  BY <1>1 DEF SearchInvariant, Pending
<1> QED BY <1>1, <1>2, <1>3 DEF SearchInvariant

LEMMA Search == Spec => []SearchInvariant
<1>1. SearchInvariant /\ UNCHANGED vars => SearchInvariant'
  <2> SUFFICES ASSUME SearchInvariant, UNCHANGED vars
               PROVE  SearchInvariant'
    OBVIOUS
  <2>1. UNCHANGED <<program, dc, pc, target, workList, visited, sources, operations,
                    wasProcessed, message>>
    BY DEF vars
  <2>2. Found'
    BY <2>1 DEF SearchInvariant, Found
  <2>3. Pending'
    BY <2>1 DEF SearchInvariant, Pending
  <2> QED BY <2>1, <2>2, <2>3 DEF SearchInvariant
<1>2. SearchInvariant /\ [Next]_vars => SearchInvariant'
  BY PassOverSearch, ProcessSearch, FinishSearch, <1>1 DEF Next
<1> QED BY InitSearch, <1>2, PTL DEF Spec

-----------------------------------------------------------------------------

\* What was visited and has a node is in the slice and can be handled, and if
\* process did not give up there is no more of it.
LEMMA HandledVisited ==
  ASSUME SearchInvariant
  PROVE  /\ visited \cap program.nodes \subseteq Handled(program, target)
         /\ pc = "done" /\ wasProcessed =>
              Handled(program, target) = visited \cap program.nodes
<1>1. visited \cap program.nodes \subseteq Handled(program, target)
  BY DEF SearchInvariant, Found, Handled, Instructions
<1>2. ASSUME pc = "done", wasProcessed
      PROVE  Handled(program, target) \subseteq visited \cap program.nodes
  <2>1. workList = {} /\ target \in visited
    BY <1>2 DEF SearchInvariant, Pending
  <2>2. visited \in SUBSET Inst /\ WellFormed(program)
    BY InstClosed DEF SearchInvariant, Found, Instructions
  <2>3. \A i \in visited \cap program.nodes : Behind(program, i, visited)
    BY <1>2, <2>1 DEF SearchInvariant, Pending
  <2>4. Handled(program, target) \subseteq visited
    BY <2>1, <2>2, <2>3, WholeSlice
  <2> QED BY <2>4 DEF Handled
<1> QED BY <1>1, <1>2

\* What process has found when it returns.
LEMMA SearchResult ==
  ASSUME SearchInvariant
  PROVE  SliceComplete /\ FailsOnUnhandled
<1>1. SliceComplete
  BY HandledVisited DEF SearchInvariant, Found, SliceComplete
<1>2. FailsOnUnhandled
  <2> SUFFICES ASSUME pc = "done"
               PROVE  /\ wasProcessed <=>
                           ~\E i \in Handled(program, target) : GivesUp(program, dc, i)
                      /\ sources \cup operations \subseteq Handled(program, target)
    BY DEF FailsOnUnhandled
  <2>1. sources \cup operations \subseteq visited \cap program.nodes
    BY DEF SearchInvariant, Found
  <2>2. ASSUME wasProcessed, NEW i \in Handled(program, target)
        PROVE  ~GivesUp(program, dc, i)
    BY <2>2, HandledVisited DEF SearchInvariant, Pending
  <2>3. ~wasProcessed => \E i \in Handled(program, target) : GivesUp(program, dc, i)
    BY HandledVisited DEF SearchInvariant, Pending
  <2>4. wasProcessed \in BOOLEAN
    BY DEF SearchInvariant
  <2> QED BY <2>1, <2>2, <2>3, <2>4, HandledVisited
<1> QED BY <1>1, <1>2

\* A message names an instruction of the slice that cannot be handled.
LEMMA MessageNames ==
  ASSUME SearchInvariant
  PROVE  /\ wasProcessed => message = <<>>
         /\ ~wasProcessed => \E i \in Handled(program, target) :
                               GivesUp(program, dc, i) /\ message = <<i>>
BY HandledVisited DEF SearchInvariant, Pending

\* What process knows of the loop does not change.
Loop == dc \subseteq Inst \X Inst /\ target \in program.nodes

\* The types of the variables; what is found was visited and has a node, and is
\* not a source and an operation at once.
THEOREM TypeCorrect == Spec => []TypeOK
<1>1. Init => Loop
  BY DetectorAssumption DEF Init, Loop, Targets, CacheOf, Dependences, WellFormed
<1>2. Loop /\ [Next]_vars => Loop'
  BY DEF Loop, Next, vars, PassOver, Process, Take, Finish
<1>3. SearchInvariant /\ Loop => TypeOK
  <2> SUFFICES ASSUME SearchInvariant, Loop PROVE TypeOK
    OBVIOUS
  <2>1. Slice(program, target) \subseteq Inst
    BY DEF Slice
  <2>2. message \in {<<>>} \cup {<<i>> : i \in Inst}
    BY <2>1, MessageNames DEF SearchInvariant, Handled
  <2>3. sources \cap operations = {}
    BY DEF SearchInvariant, Found, IsSource, IsOperation
  <2> QED BY <2>1, <2>2, <2>3 DEF SearchInvariant, Found, Loop, TypeOK
<1> QED BY Search, <1>1, <1>2, <1>3, PTL DEF Spec

\* When process succeeds, its sources and operations are those of the slice,
\* whatever the order of its worklist.
THEOREM Complete == Spec => []SliceComplete
BY Search, SearchResult, PTL

\* process fails just when the slice has something it cannot handle: it has
\* not gone past it when it succeeds, and gives up on nothing outside.
THEOREM FailsRightly == Spec => []FailsOnUnhandled
BY Search, SearchResult, PTL

-----------------------------------------------------------------------------

\* A step of process takes up an instruction it has not visited, or only takes
\* something from the worklist, or returns; the target stays the same.
SearchDescends ==
  /\ pc = "search" /\ target' = target
  /\ \/ pc' = "done"
     \/ /\ pc' = "search"
        /\ \/ visited \subseteq visited' /\ visited' # visited
           \/ /\ visited' = visited
              /\ workList' \subseteq workList /\ workList' # workList

LEMMA StepDescends == Next => SearchDescends
<1> SUFFICES ASSUME Next PROVE SearchDescends
  OBVIOUS
<1>1. CASE Finish
  BY <1>1 DEF Finish, SearchDescends
<1>2. ASSUME NEW i \in workList, PassOver(i)
      PROVE  SearchDescends
  BY <1>2 DEF PassOver, SearchDescends
<1>3. ASSUME NEW i \in workList, Process(i)
      PROVE  SearchDescends
  BY <1>3 DEF Process, SearchDescends
<1> QED BY <1>1, <1>2, <1>3 DEF Next

\* process does not go on for ever, whatever the cycles of the operands: what it
\* visits are instructions of the function (TypeCorrect), of which there are
\* finitely many, and it forgets none.
THEOREM SearchEnds == Spec => [][SearchDescends]_vars
BY StepDescends, PTL DEF Spec
=============================================================================
