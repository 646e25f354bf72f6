------------------------ MODULE MCIteratorRecognition ------------------------
(***************************************************************************)
(* Functions of four instructions, in a loop with a loop in it, with and   *)
(* without an instruction behind them, or in two sibling loops.            *)
(* Self-dependences make no difference and are left out.                   *)
(***************************************************************************)
EXTENDS ValueClassification, PayloadBlocks, RecognitionExport, TLC

CONSTANTS i, j, k, l, root, h1, m1, h2, m2

MCInst == {i, j, k, l}
MCBlock == {h1, m1, h2, m2}

Own == (i :> h1) @@ (j :> m1) @@ (k :> h2) @@ (l :> m2)

(***************************************************************************)
(* The nests and their blocks.  The last block of an inner loop may be the *)
(* latch of the outer one as well, and a loop may be a single block.       *)
(***************************************************************************)
Nested ==
  [loopFor |-> (i :> 1) @@ (j :> 1) @@ (k :> 2) @@ (l :> 2), parent |-> <<0, 1>>,
   block |-> Own, header |-> <<h1, h2>>, latches |-> <<{m1}, {m2}>>]

NestedAtEnd ==
  [Nested EXCEPT !.block = (i :> h1) @@ (j :> h1) @@ (k :> h2) @@ (l :> m2),
                 !.latches = <<{m2}, {m2}>>]

NestedBlock ==
  [Nested EXCEPT !.block = (i :> h1) @@ (j :> m1) @@ (k :> h2) @@ (l :> h2),
                 !.latches = <<{m1}, {h2}>>]

NestedThenCode ==
  [loopFor |-> (i :> 1) @@ (j :> 2) @@ (k :> 2) @@ (l :> 0), parent |-> <<0, 1>>,
   block |-> (i :> h1) @@ (j :> h2) @@ (k :> m2) @@ (l :> m1),
   header |-> <<h1, h2>>, latches |-> <<{m2}, {m2}>>]

Siblings ==
  [Nested EXCEPT !.parent = <<0, 0>>]

LoopThenLoopThenCode ==
  [loopFor |-> (i :> 1) @@ (j :> 1) @@ (k :> 2) @@ (l :> 0), parent |-> <<0, 0>>,
   block |-> Own, header |-> <<h1, h2>>, latches |-> <<{m1}, {h2}>>]

FunctionOf(nest, edges, uses) ==
  [edges |-> edges,
   users |-> [n \in MCInst |-> {m \in MCInst : <<n, m>> \in uses}],
   phis |-> {i}, dominates |-> {<<i, j>>, <<i, k>>, <<i, l>>, <<j, k>>, <<j, l>>, <<k, l>>},
   loopFor |-> nest.loopFor, parent |-> nest.parent,
   block |-> nest.block, header |-> nest.header, latches |-> nest.latches]

\* All dependence graphs, whatever the dependences are.
AnyDependences ==
  {FunctionOf(nest, edges, {}) :
     edges \in SUBSET {e \in MCInst \X MCInst : e[1] # e[2]},
     nest \in {Nested, NestedAtEnd, NestedBlock, NestedThenCode, Siblings}}

(***************************************************************************)
(* The instructions in the order they are written in.  The first is a phi  *)
(* node in the header of loop 1 that may use what comes later in its loop. *)
(* Some dependences on earlier instructions of a loop go through memory.   *)
(***************************************************************************)
Forward == {<<i, j>>, <<i, k>>, <<i, l>>, <<j, k>>, <<j, l>>, <<k, l>>}

WithUses(nest, toPhi, memory) ==
  {FunctionOf(nest, uses \cup stored, uses) :
     uses \in SUBSET (Forward \cup toPhi), stored \in SUBSET memory}

MCFunctions ==
  AnyDependences
    \cup WithUses(Nested, {<<j, i>>, <<k, i>>, <<l, i>>}, {<<k, j>>, <<l, k>>})
    \cup WithUses(NestedThenCode, {<<j, i>>, <<k, i>>}, {<<k, j>>})
    \cup WithUses(LoopThenLoopThenCode, {<<j, i>>}, {})
=============================================================================
