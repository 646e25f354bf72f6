-------------------------- MODULE MCIteratorVariance --------------------------
(***************************************************************************)
(* All programs of three values: constants, values of unknown kind, and    *)
(* instructions in and out of the loop, iterator or not, with any operands *)
(* (among them every cycle three phi nodes can form).                      *)
(***************************************************************************)
EXTENDS IteratorVariance, TLC

CONSTANTS u, v, w

MCValue == {u, v, w}

\* The values fall into kinds; only walked ones have operands that matter.
Kind == {"constant", "other", "outside", "outsideIterator", "iterator", "walked"}

Of(kind, kinds) == {x \in MCValue : kind[x] \in kinds}

OperandSets(kind, x) ==
  IF kind[x] = "walked" THEN SUBSET (MCValue \ Of(kind, {"other"})) ELSE {{}}

MCPrograms ==
  UNION {
    {[constants |-> Of(kind, {"constant"}),
      others    |-> Of(kind, {"other"}),
      inLoop    |-> Of(kind, {"iterator", "walked"}),
      iterators |-> Of(kind, {"iterator", "outsideIterator"}),
      operands  |-> (u :> ou @@ v :> ov @@ w :> ow)] :
        ou \in OperandSets(kind, u), ov \in OperandSets(kind, v),
        ow \in OperandSets(kind, w)}
    : kind \in [MCValue -> Kind]}
=============================================================================
