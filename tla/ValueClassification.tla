------------------------- MODULE ValueClassification -------------------------
(***************************************************************************)
(* The payload of a loop and the values it exchanges with the rest of the  *)
(* function, computed from the iterators that IteratorRecognition finds.   *)
(* The functions have no state; what they return is stated here for each   *)
(* loop whose iterator is known.                                           *)
(*                                                                         *)
(* A function tells in addition who uses the result of each instruction,   *)
(* which instructions are phi nodes and which dominate which.  Uses are    *)
(* dependence edges, and a definition dominates its users that are not     *)
(* phi nodes, as the verifier of LLVM demands.                             *)
(***************************************************************************)
EXTENDS IteratorRecognition

Classifiable(f) ==
  /\ f.users \in [Inst -> SUBSET Inst]
  /\ f.phis \subseteq Inst
  /\ f.dominates \subseteq Inst \X Inst
  /\ \A i \in Inst, u \in Inst :
       u \in f.users[i] =>
         /\ <<i, u>> \in f.edges
         /\ u \in f.phis \/ <<i, u>> \in f.dominates

ASSUME ClassificationAssumption == \A f \in Functions : Classifiable(f)

-----------------------------------------------------------------------------

Users(i) == function.users[i]

Dominates(e, user) == <<e, user>> \in function.dominates

\* Fault: uses behind the loop count.
FindUsedIteratorValues(l) ==
  {e \in iterators[l] : Users(e) \ iterators[l] # {}}

\* The values of the iterator that the rest of the loop uses.
FindIteratorValues(l) ==
  {e \in iterators[l] :
     \E user \in Users(e) : user \notin iterators[l] /\ user \in InstructionsOf(l)}

FindPayloadValues(l) == InstructionsOf(l) \ iterators[l]

\* The values that cross the border of the payload: its own that have users
\* outside, and those of others that its instructions have for operands.
FindVirtRegPayloadLiveValues(payload) ==
  {e \in payload : ~(Users(e) \subseteq payload)}
    \cup {opi \in Inst \ payload : Users(opi) \cap payload # {}}

\* Fault: the users that are phi nodes are left to dominance.
UsedAfterByDominance(e, payload) ==
  \E user \in Users(e) \ payload : Dominates(e, user)

\* A user outside the payload that the value reaches.
UsedAfter(e, payload) ==
  \E user \in Users(e) \ payload : Dominates(e, user) \/ user \in function.phis

\* SplitVirtRegPayloadLiveValues, one operator for each set it fills.
VirtRegLiveOut(payload) ==
  FindVirtRegPayloadLiveValues(payload) \cap payload

VirtRegLiveThru(payload) ==
  {e \in FindVirtRegPayloadLiveValues(payload) \ payload : UsedAfter(e, payload)}

VirtRegLiveIn(payload) ==
  {e \in FindVirtRegPayloadLiveValues(payload) \ payload : ~UsedAfter(e, payload)}

-----------------------------------------------------------------------------

\* A value of the payload is live out for the code behind the loop, never for
\* the iterator: what the iterator uses has become iterator with it.
LiveOutLeavesLoop ==
  \A l \in DOMAIN iterators :
    LET payload == FindPayloadValues(l)
    IN  \A e \in VirtRegLiveOut(payload) :
          Users(e) \cap InstructionsOf(l) \subseteq payload

\* A value that is only live in is used by the payload and by nobody else,
\* which the split decides by dominance and by the kind of the users.
LiveInIsConsumed ==
  \A l \in DOMAIN iterators :
    LET payload == FindPayloadValues(l)
    IN  \A e \in VirtRegLiveIn(payload) : Users(e) \subseteq payload

\* The iterator values found from their users are those found as operands of
\* the payload, though a component may bring instructions of other loops in.
IteratorValuesAreLive ==
  \A l \in DOMAIN iterators :
    LET payload == FindPayloadValues(l)
    IN  FindIteratorValues(l) =
          iterators[l] \cap (VirtRegLiveIn(payload) \cup VirtRegLiveThru(payload))
=============================================================================
