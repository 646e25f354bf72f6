------------------------ MODULE MCDispositionTracker ------------------------
(***************************************************************************)
(* Loop 1 with loop 2 in it and loop 3 behind it, each with a phi node of  *)
(* its own.  Another phi node, x, is in loop 2, and an address computation *)
(* g in loop 2 or 3 is used to access base.  Which values are computed     *)
(* from which decides the iterators; x may be computed from g, through a   *)
(* pointer that is loaded.                                                 *)
(***************************************************************************)
EXTENDS DispositionTracker, TLC

CONSTANTS i1, i2, i3, x, g, root, base

MCInst == {i1, i2, i3, x, g}

MCFunctionOf(loopOfG, uses, indices) ==
  [edges |-> uses, parent |-> <<0, 1, 0>>,
   loopFor |-> (i1 :> 1) @@ (i2 :> 2) @@ (i3 :> 3) @@ (x :> 2) @@ (g :> loopOfG),
   users |-> [n \in MCInst |-> {m \in MCInst : <<n, m>> \in uses}],
   phis |-> {i1, i2, i3, x}, dominates |-> {e \in uses : e[2] = g},
   argUsers |-> (base :> {g}), geps |-> {g}, indices |-> (g :> indices)]

MCFunctions ==
  {MCFunctionOf(2, uses, indices) :
     uses \in {u \cup {<<i2, g>>, <<x, g>>} :
                 u \in SUBSET {<<i1, i2>>, <<i1, x>>, <<i2, x>>, <<x, i2>>, <<g, x>>}},
     indices \in {{i2}, {x}}}
    \cup
  {MCFunctionOf(3, uses, indices) :
     uses \in {u \cup {<<i3, g>>, <<x, g>>} :
                 u \in SUBSET {<<i1, i2>>, <<i1, x>>, <<i2, x>>, <<g, i3>>}},
     indices \in {{i3}, {x}, {}}}
=============================================================================
