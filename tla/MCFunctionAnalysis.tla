-------------------------- MODULE MCFunctionAnalysis --------------------------
(***************************************************************************)
(* Two memory instructions m and n, m before n, of which the stores write  *)
(* p or what the other one loaded; p is computed from what is loaded and,  *)
(* in a cycle, from q.  Loop 2 is in loop 1 and has all of them but q for  *)
(* its payload; loop 3 is too deep for the options.  n may also be an      *)
(* instruction the detector does not know, as an atomicrmw; whether        *)
(* that or a call m accesses memory at all is left open.                   *)
(***************************************************************************)
EXTENDS FunctionAnalysis, TLC

CONSTANTS m, p, q, n, mem, reg

MCInst   == {m, p, q, n}
MCFlag   == {mem, reg}
MCMemory == {mem}
MCHazard == [e \in MCInst \X MCInst |-> IF e[1] = e[2] THEN {} ELSE {mem}]

MCOrder      == (m :> 1) @@ (p :> 2) @@ (q :> 3) @@ (n :> 4)
MCDepth      == <<1, 2, 3>>
MCPayload    == <<{m, p, q, n}, {m, p, n}, {n}>>
MCRPO        == [l \in 1..3 |-> MCOrder]
MCRecognized == 1..3

Kinds ==
  {k \in {(m :> km) @@ (p :> kp) @@ (q :> kq) @@ (n :> kn) :
            km \in {"load", "store", "call"}, kp \in {"compute", "merge"},
            kq \in {"merge", "header"}, kn \in {"load", "store", "call", "other"}} :
     k[n] = "other" => k[p] = "compute" /\ k[q] = "merge"}

Loaded(kind) == {i \in {m, n} : kind[i] # "store"}

\* What a store writes, directly or not, and a call is given.
Stored(kind, i, direct) ==
  IF kind[i] = "load" THEN {}
  ELSE IF direct /\ Loaded(kind) \ {i} # {} THEN Loaded(kind) \ {i} ELSE {p}

Access(kind, i) ==
  CASE kind[i] = "store" -> {"Mod"}
    [] kind[i] = "load" -> {"Ref"}
    [] kind[i] \in {"call", "other"} -> {"Mod", "Ref"}
    [] OTHER -> {}

Accessing(kind) == {i \in MCInst : Access(kind, i) # {}}

MayAccess(kind) == {i \in {m} : kind[i] = "call"} \cup {i \in {n} : kind[i] = "other"}

MCCodes ==
  UNION {{[kind |-> kind,
    operands |-> (m :> Stored(kind, m, direct)) @@ (n :> Stored(kind, n, direct))
                 @@ (p :> {q} \cup Loaded(kind)) @@ (q :> {p}),
    modRef |-> [x \in MCInst \X MCInst |->
                  IF apart /\ x[1] # x[2] THEN {} ELSE Access(kind, x[1])],
    memory |-> Accessing(kind) \ pure,
    liveOut |-> live] :
     direct \in BOOLEAN, apart \in BOOLEAN,
     live \in {<<{}, {}, {}>>, <<{p, q}, {p}, {}>>}, pure \in SUBSET MayAccess(kind)} :
   kind \in {k \in Kinds : {k[m], k[n]} # {"load"}}}

\* The graphs of those functions: all uses, and memory edges between m and n.
Uses == {<<m, p>>, <<n, p>>, <<q, p>>, <<p, q>>, <<p, m>>, <<p, n>>}

MCGraphs ==
  {[e \in MCInst \X MCInst |->
      IF e \in Uses THEN {reg}
      ELSE IF e = <<m, n>> THEN forth ELSE IF e = <<n, m>> THEN MCFlag ELSE NoEdge] :
     forth \in {NoEdge, {mem}, {mem, reg}}}

MCVariances ==
  {[i \in MCInst |-> IF i = n THEN v ELSE w] :
     v \in {"Invariant", "Variant"}, w \in {"Invariant", "Unknown"}}

MCSettings ==
  {[exportUpdates |-> FALSE, exportResults |-> FALSE, listed |-> listed] :
     listed \in BOOLEAN}
=============================================================================
