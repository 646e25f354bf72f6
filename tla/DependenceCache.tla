--------------------------- MODULE DependenceCache ---------------------------
(***************************************************************************)
(* Analysis/DependenceCache.hpp: the pairs of memory instructions of a     *)
(* loop's payload that may conflict, told from what alias analysis answers *)
(* for each ordered pair.  The analysis passes ask the cache for its pairs *)
(* and for the instructions that occur in them.                            *)
(***************************************************************************)
EXTENDS Integers

\* ModRefInfo: the ways an instruction may access a location.
ModRefInfo == SUBSET {"Mod", "Ref"}

\* Fault: the pair is recorded if its earlier instruction may write.
DependencesOfEarlier(instructions, order, modRef) ==
  {d \in instructions \X instructions :
     /\ order[d[1]] < order[d[2]]
     /\ "Mod" \in modRef[d]
     /\ modRef[<<d[2], d[1]>>] # {}}

\* calculate, for a range of distinct instructions in the given order:
\* modRef[<<i, j>>] is AA.getModRefInfo(i, MemoryLocation::getOrNone(j)), what i
\* may do to the location of j, or to any location when j has none of its own
\* (a call, an invoke, a fence).
Dependences(instructions, order, modRef) ==
  {d \in instructions \X instructions :
     /\ order[d[1]] < order[d[2]]
     /\ "Mod" \in modRef[<<d[2], d[1]>>]
     /\ modRef[d] # {}}

\* DistinctInstructions of a cache that holds the pairs deps.
DistinctInstructions(deps) == {d[1] : d \in deps} \cup {d[2] : d \in deps}

Contains(deps, i) == i \in DistinctInstructions(deps)
=============================================================================
