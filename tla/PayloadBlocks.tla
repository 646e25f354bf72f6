--------------------------- MODULE PayloadBlocks ---------------------------
(***************************************************************************)
(* The queries for the blocks and the subloops that are all payload, of a  *)
(* loop whose iterator IteratorRecognition has found.                      *)
(*                                                                         *)
(* A function tells in addition which block each instruction is in, and    *)
(* the header and the latches of each loop.  All instructions of a block   *)
(* are in the same loops, and the header of a loop is in no loop below it; *)
(* a latch may be, when an inner loop branches back to an outer header.    *)
(***************************************************************************)
EXTENDS IteratorRecognition

CONSTANT Block

InBlocks(f) ==
  /\ f.block \in [Inst -> Block]
  /\ f.header \in [Loop -> Block]
  /\ f.latches \in [Loop -> SUBSET Block]
  /\ \A i, j \in Inst : f.block[i] = f.block[j] => f.loopFor[i] = f.loopFor[j]
  /\ \A l \in Loop : \E i \in Inst : f.block[i] = f.header[l] /\ f.loopFor[i] = l

ASSUME BlocksAssumption == \A f \in Functions : InBlocks(f)

-----------------------------------------------------------------------------

InstructionsIn(b) == {i \in Inst : function.block[i] = b}

BlocksOf(q) == {function.block[i] : i \in InstructionsOf(q)}

IteratorBlocks(l) == {function.block[i] : i \in iterators[l]}

\* Fault: the header and the latches of the loop whose iterator it is.
PayloadOnlyBlocksOfInfo(l, q) ==
  {b \in BlocksOf(q) :
     b # function.header[l] /\ b \notin function.latches[l] /\ b \notin IteratorBlocks(l)}

(***************************************************************************)
(* The blocks of loop q without an instruction of the iterator of l; never *)
(* the header or a latch of q.  Of this query and of each of the others    *)
(* there is a second version, written apart, that tells whether it has     *)
(* anything to return.                                                     *)
(***************************************************************************)
GetPayloadOnlyBlocks(l, q) ==
  {b \in BlocksOf(q) :
     b # function.header[q] /\ b \notin function.latches[q] /\ b \notin IteratorBlocks(l)}

\* Fault: the test for the payload-only blocks the other way round.
MixedBlocksAmongOthers(l, q) ==
  {b \in BlocksOf(q) \ GetPayloadOnlyBlocks(l, q) :
     InstructionsIn(b) \ iterators[l] # {}}

\* The blocks among the payload-only ones with an instruction that is not of
\* the iterator.
GetMixedBlocks(l, q) ==
  {b \in GetPayloadOnlyBlocks(l, q) : InstructionsIn(b) \ iterators[l] # {}}

\* The loops directly in l that have no other blocks.
GetPayloadOnlySubloops(l, q) ==
  {s \in Loop : function.parent[s] = l /\ BlocksOf(s) \subseteq GetPayloadOnlyBlocks(l, q)}

\* The loops that the assertion of the queries admits.
Queried(l) == {q \in Loop : IsAncestor(l, q)}

-----------------------------------------------------------------------------

\* What the queries about the loops that the assertion admits return, in terms
\* of instructions.  A subloop is reported just when the iterator has no
\* instruction in it and no latch of the outer loop is in it; a subloop that is
\* asked about in place of the loop of the iterator never has one.  The mixed
\* blocks, whose name promises iterator and payload in one block, are the
\* blocks without an iterator: one in which both occur is never among them.
PayloadByInstructions ==
  \A l \in DOMAIN iterators : \A q \in Queried(l) :
    /\ GetPayloadOnlySubloops(l, q) =
         {s \in Loop : /\ q = l /\ function.parent[s] = l
                       /\ InstructionsOf(s) \cap iterators[l] = {}
                       /\ BlocksOf(s) \cap function.latches[l] = {}}
    /\ GetMixedBlocks(l, q) =
         {b \in BlocksOf(q) : /\ b # function.header[q] /\ b \notin function.latches[q]
                              /\ InstructionsIn(b) \cap iterators[l] = {}}

=============================================================================
