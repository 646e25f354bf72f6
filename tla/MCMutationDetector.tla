-------------------------- MODULE MCMutationDetector --------------------------
(***************************************************************************)
(* The store (or another instruction) t of a value p, computed from q and  *)
(* r, which depend on each other and on p through phi nodes.               *)
(***************************************************************************)
EXTENDS MutationDetector, TLC

CONSTANTS t, p, q, r

MCInst == {t, p, q, r}

Flow == (t :> {p}) @@ (p :> {q, r}) @@ (q :> {p, r}) @@ (r :> {q})

UseEdges == {<<p, t>>, <<q, p>>, <<r, p>>, <<r, q>>, <<q, r>>}

\* A store writes, a load reads; a call, or an instruction of a kind process
\* does not know (an atomic access), does both if it has side effects.
Access(kind, effects, i) ==
  CASE kind[i] = "store" -> {"Mod"}
    [] kind[i] = "load" -> {"Ref"}
    [] kind[i] \in {"call", "other"} /\ i \in effects -> {"Mod", "Ref"}
    [] OTHER -> {}

MCMemory(kind, nodes, effects) ==
  {i \in nodes : Access(kind, effects, i) # {}}

MCOrder == (r :> 1) @@ (q :> 2) @@ (p :> 3) @@ (t :> 4)

\* A load and a store conflict if they are in the same memory region; a call
\* with side effects may access any.
MCModRef(kind, effects, region) ==
  [x \in MCInst \X MCInst |->
     IF region[x[1]] = region[x[2]] \/ "call" \in {kind[x[1]], kind[x[2]]}
       THEN Access(kind, effects, x[1]) ELSE {}]

Phi == {"merge", "header"}

\* Every cycle of operands goes through a phi.
Kinds ==
  {k \in [MCInst -> Kind] :
     /\ k[t] \in {"store", "merge"}
     /\ k[p] \in {"compute", "merge", "select", "call"}
     /\ k[q] \in {"compute", "load", "call"} \cup Phi
     /\ k[r] \in {"load", "compute", "merge", "call", "value", "other"}
     /\ k[p] \in Phi \/ k[q] \in Phi
     /\ k[q] \in Phi \/ k[r] \in Phi \cup {"value"}}

MCPrograms ==
  UNION {
    {[kind |-> kind, operands |-> [i \in MCInst |-> IF kind[i] = "value" THEN {} ELSE Flow[i]],
      nodes |-> nodes,
      edges |-> edges \cap (nodes \X nodes),
      memory |-> MCMemory(kind, nodes, effects), order |-> MCOrder,
      modRef |-> MCModRef(kind, effects, region),
      sideEffects |-> effects] :
        nodes \in {MCInst, MCInst \ {r}},
        edges \in {UseEdges, UseEdges \ {<<q, p>>}, UseEdges \ {<<r, q>>, <<q, r>>}},
        effects \in SUBSET {i \in MCInst : kind[i] \in {"call", "other"}},
        region \in {[i \in MCInst |-> 1],
                    [i \in MCInst |-> IF i = t THEN 1 ELSE 2]}}
    : kind \in Kinds}
=============================================================================
