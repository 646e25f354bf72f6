----------------------- MODULE MCShadowDependenceGraph -----------------------
(***************************************************************************)
(* Dependence graphs of three instructions, each pair of which may depend  *)
(* on each other through memory, otherwise or not at all; one may depend   *)
(* on itself.  The payload is all of them or two, the third one then being *)
(* the iterator or not.  A dependence that is not through memory is a use. *)
(***************************************************************************)
EXTENDS ShadowDependenceGraph

CONSTANTS a, b, c

MCUnit == {a, b, c}

MCPairs == {e \in MCUnit \X MCUnit : e[1] # e[2] \/ e[1] = a}

MCGraphs ==
  UNION {{[edges |-> edges, memory |-> memory, selected |-> MCUnit \ other,
           operands |-> [u \in MCUnit |-> {v \in MCUnit : <<v, u>> \in edges \ memory}],
           iterator |-> iterator] :
            memory \in SUBSET edges, iterator \in SUBSET other} :
           edges \in SUBSET MCPairs, other \in {{}, {c}}}
=============================================================================
