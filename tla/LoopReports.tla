----------------------------- MODULE LoopReports -----------------------------
(***************************************************************************)
(* What PayloadDependenceGraphAnalysis promises its clients: it reports on *)
(* the selected loops one after the other, inner loops before the loops    *)
(* around them, each as it looks with some of its memory dependences       *)
(* dropped and some hazards added, and the dependence graph is not         *)
(* changed.  That the graph is edited in place and repaired afterwards     *)
(* cannot be seen here; PayloadPass implements this specification.         *)
(***************************************************************************)
EXTENDS GraphUpdater, Integers, Sequences

CONSTANTS
  Selected,   \* the loops to report on, numbered in preorder
  Payload     \* Payload[l]: the payload instructions of loop l

VARIABLES
  graph,      \* the dependence graph as a client sees it between two loops
  reports,    \* the reports made so far
  status,     \* "running", "returned" or "failed"
  listed      \* whether the function is to be analysed at all

vars == <<graph, reports, status, listed>>

Reported == {reports[k].loop : k \in 1..Len(reports)}

\* The shadow graphs loop l may be analysed with: an edge is missing only if
\* all it said was about memory, and new only if the pair has a hazard.
Shadows(l) ==
  LET nodes == Payload[l] \X Payload[l]
  IN  {shadow \in SUBSET nodes :
         \A e \in nodes :
           IF e \in shadow
             THEN graph[e] # NoEdge \/ Hazard[e] # {}
             ELSE graph[e] # NoEdge => graph[e] # {} /\ graph[e] \subseteq Memory}

Init ==
  /\ graph \in Graph
  /\ reports = <<>>
  /\ status = "running"
  /\ listed \in BOOLEAN

Report(l) ==
  /\ status = "running" /\ listed
  /\ l \notin Reported
  /\ \A m \in Selected : m > l => m \in Reported
  /\ \E shadow \in Shadows(l) :
       reports' = Append(reports, [loop |-> l, shadow |-> shadow])
  /\ UNCHANGED <<graph, status, listed>>

Return ==
  /\ status = "running"
  /\ listed => Reported = Selected
  /\ status' = "returned"
  /\ UNCHANGED <<graph, reports, listed>>

Fail ==
  /\ status = "running"
  /\ status' = "failed"
  /\ UNCHANGED <<graph, reports, listed>>

Next == Return \/ Fail \/ \E l \in Selected : Report(l)

Spec == Init /\ [][Next]_vars
=============================================================================
