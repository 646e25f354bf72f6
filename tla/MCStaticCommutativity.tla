------------------------ MODULE MCStaticCommutativity ------------------------
(***************************************************************************)
(* Up to three chains over two values, with no operation, a commutative    *)
(* one, or that and one that is not.  Three chains are what it takes for a *)
(* chain to be rejected, a second to follow it and a third to come after.  *)
(***************************************************************************)
EXTENDS StaticCommutativity

CONSTANTS x, y, add, call

MCValue       == {x, y}
MCOperation   == {add, call}
MCCommutative == {add}

Chains ==
  [target : {x}, sources : SUBSET MCValue, operations : {{}, {add}, {add, call}}]

MCInputs ==
  [lms : UNION {[1..n -> Chains] : n \in 0..3}, iva : [MCValue -> Variance]]
=============================================================================
