---------------------------- MODULE MCPayloadPass ----------------------------
(***************************************************************************)
(* An instance of PayloadPass for TLC.  The instructions are a, b, c in    *)
(* reverse post order; the flags are a memory bit and a register bit.      *)
(***************************************************************************)
EXTENDS PayloadPass

CONSTANTS a, b, c, mem, reg

MCInst   == {a, b, c}
MCFlag   == {mem, reg}
MCMemory == {mem}

\* A pair of reads has no hazard: a and b are such a pair.
MCHazard == [e \in MCInst \X MCInst |-> IF e = <<a, b>> THEN {} ELSE {mem}]

MCOrder == [i \in MCInst |-> IF i = a THEN 1 ELSE IF i = b THEN 2 ELSE 3]

\* A nest of an outer loop 1, which holds loop 2 with a loop 3 too deep for
\* the options inside it, loop 4 with no payload, loop 5 without information;
\* and a second top-level loop 6.
MCDepth      == <<1, 2, 3, 2, 2, 1>>
MCPayload    == <<{a, b, c}, {b, c}, {c}, {}, {a}, {a, b}>>
MCRPO        == [l \in 1..6 |-> MCOrder]
MCRecognized == {1, 2, 3, 4, 6}

\* Every edge there may be from b to c, in both inner and outer loop; one from
\* a to b, which would be in loops 1 and 6; and the back edge from c to a.
MCGraphs ==
  {[e \in MCInst \X MCInst |->
      CASE e = <<b, c>> -> inner
        [] e = <<a, b>> -> outer
        [] e = <<c, a>> -> {mem, reg}
        [] OTHER -> NoEdge]
     : inner \in SUBSET MCFlag \cup {NoEdge}, outer \in {NoEdge, {mem}, {mem, reg}}}

\* b and c vary or not, or it is not known whether they do.
MCVariances ==
  {[i \in MCInst |-> IF i = a THEN "Invariant" ELSE v] :
     v \in {"Invariant", "Variant", "Unknown"}}
MCSettings   == Options
=============================================================================
