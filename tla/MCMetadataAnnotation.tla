------------------------ MODULE MCMetadataAnnotation ------------------------
(***************************************************************************)
(* A loop with a loop in it and a loop behind it.  Iterators may hold      *)
(* instructions of other loops.                                            *)
(***************************************************************************)
EXTENDS MetadataAnnotation, TLC

CONSTANTS i, j, k, outer, inner, sibling

MCOrder == <<outer, inner, sibling>>
MCDepth == (outer :> 1) @@ (inner :> 2) @@ (sibling :> 1)

MCFunctions ==
  {[instructions |-> (outer :> {i, j}) @@ (inner :> {j}) @@ (sibling :> {k}),
    iterator |-> (outer :> o) @@ (inner :> n) @@ (sibling :> s)] :
     o \in {{i}, {j}, {i, j}}, n \in {{j}, {i, j}}, s \in {{k}, {j, k}}}
=============================================================================
