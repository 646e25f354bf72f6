----------------------------- MODULE LoopAnalysis -----------------------------
(***************************************************************************)
(* Steps 3 and 4 of PayloadDependenceGraphAnalysis::run for one loop: the  *)
(* chains to be judged are gathered from the live-out values and from the  *)
(* dependence cache, MutationDetector processes them one after the other,  *)
(* and StaticCommutativityAnalyzer judges them all, those included that    *)
(* could not be processed.                                                 *)
(*                                                                         *)
(* The two parts are MutationDetector, once for each chain, and            *)
(* StaticCommutativity on the chains that are then in lms.  The loop comes *)
(* from the module that composes this one, FunctionAnalysis.               *)
(***************************************************************************)
EXTENDS Integers, SequencesExt

CONSTANTS
  Inst,
  Commutative    \* the instructions isCommutative accepts

VARIABLES
  program, dc,   \* the loop as MutationDetector sees it, its DependenceCache
  liveOut,       \* the payload values that are live out
  iva,           \* the variance of each instruction
  lms,           \* the chains, in the order they are processed and judged in
  current,       \* the chain that is processed or was processed last
  mdPc, target, workList, visited, sources, operations, wasProcessed, message,
  mdRemark,      \* the instructions its messages name, in their order
  scPc,          \* "idle" between loops, "waiting" for the detector, and then
                 \* what the analyzer is at
  at, todo, hasCommutativeOps, stopProcessing, usedMessages

loop == <<program, dc, liveOut, iva>>
detector == <<mdPc, target, workList, visited, sources, operations, wasProcessed,
              message>>
analyzer == <<scPc, at, todo, hasCommutativeOps, stopProcessing, usedMessages>>

MD == INSTANCE MutationDetector WITH Programs <- {}, pc <- mdPc

SC == INSTANCE StaticCommutativity WITH
        Value <- Inst, Operation <- Inst, Inputs <- {}, pc <- scPc

-----------------------------------------------------------------------------

\* A target before there is one.
NoTarget == CHOOSE i \in Inst : TRUE

\* No loop is analysed.
Init ==
  /\ lms = <<>> /\ current = 0
  /\ mdPc = "done" /\ target = NoTarget
  /\ workList = {} /\ visited = {} /\ sources = {} /\ operations = {}
  /\ wasProcessed = TRUE /\ message = <<>>
  /\ mdRemark = <<>>
  /\ scPc = "idle" /\ at = 1 /\ todo = {}
  /\ hasCommutativeOps = FALSE /\ stopProcessing = FALSE /\ usedMessages = {}

\* The chains of the loop are gathered: those of the live-out values, a set of
\* pointers, and then of the later instruction of each dependence once, whether
\* it is live out or not.  The order of the cache is left open.
Begin ==
  /\ scPc = "idle"
  /\ \E first \in SetToSeqs(liveOut), second \in SetToSeqs({d[2] : d \in dc}) :
       LET targets == first \o second
       IN  lms' = [k \in DOMAIN targets |->
                     [target |-> targets[k], sources |-> {}, operations |-> {}]]
  /\ scPc' = "waiting"
  /\ UNCHANGED <<loop, current, detector, mdRemark, at, todo, hasCommutativeOps,
                 stopProcessing, usedMessages>>

\* process is entered: its locals are as at first, the member workList is what
\* the search before has left.
Enter ==
  /\ mdPc = "done" /\ current < Len(lms)
  /\ current' = current + 1
  /\ mdPc' = "search" /\ target' = lms[current + 1].target
  /\ visited' = {} /\ wasProcessed' = TRUE /\ message' = <<>>
  /\ UNCHANGED <<loop, lms, mdRemark, analyzer>>

\* Fault: what was found for the chain before is still there.
CallProcessAgain ==
  /\ Enter
  /\ workList' = {target'}
  /\ UNCHANGED <<sources, operations>>

\* Fault: the worklist is not cleared.
CallProcessUncleared ==
  /\ Enter
  /\ workList' = workList \cup {target'}
  /\ sources' = {} /\ operations' = {}

\* process is called for the next chain, clears the worklist and starts with
\* the target; nothing was found for the chain yet.
CallProcess ==
  /\ Enter
  /\ workList' = {target'}
  /\ sources' = {} /\ operations' = {}

\* The search of the detector.
Detect ==
  /\ \E i \in workList : MD!PassOver(i) \/ MD!Process(i)
  /\ UNCHANGED <<liveOut, iva, lms, current, mdRemark, analyzer>>

\* process returns; the chain keeps what was found, whatever process says.
Keep ==
  /\ MD!Finish
  /\ lms' = [lms EXCEPT ![current] =
                [target |-> target, sources |-> sources, operations |-> operations']]
  /\ UNCHANGED <<liveOut, iva, current, analyzer>>

\* Fault: only the last message is kept.
ProcessReturnsForgetting ==
  /\ Keep
  /\ mdRemark' = message

\* If process failed, the remark gets its message.
ProcessReturns ==
  /\ Keep
  /\ mdRemark' = IF wasProcessed THEN mdRemark ELSE mdRemark \o message

\* All chains are processed and analyze is called.
CallAnalyze ==
  /\ mdPc = "done" /\ current = Len(lms) /\ scPc = "waiting"
  /\ scPc' = "chains"
  /\ UNCHANGED <<loop, lms, current, detector, mdRemark, at, todo,
                 hasCommutativeOps, stopProcessing, usedMessages>>

Analyze ==
  /\ SC!Next
  /\ UNCHANGED <<program, dc, liveOut, current, detector, mdRemark>>

Next == Begin \/ CallProcess \/ Detect \/ ProcessReturns \/ CallAnalyze \/ Analyze

\* The detector, the analyzer and the chains are locals of the loop body.
End ==
  /\ scPc = "done"
  /\ lms' = <<>> /\ current' = 0
  /\ target' = NoTarget
  /\ workList' = {} /\ visited' = {} /\ sources' = {} /\ operations' = {}
  /\ wasProcessed' = TRUE /\ message' = <<>>
  /\ mdRemark' = <<>>
  /\ scPc' = "idle" /\ at' = 1 /\ todo' = {}
  /\ hasCommutativeOps' = FALSE /\ stopProcessing' = FALSE /\ usedMessages' = {}
  /\ UNCHANGED mdPc

-----------------------------------------------------------------------------
(* The reference, told from a loop p alone: the chain of a target, what     *)
(* keeps it from being followed to its end, and what the loop is judged by. *)

Chain(p, t) ==
  [target |-> t,
   sources |-> {i \in MD!Handled(p, t) : MD!IsSource(p, i)},
   operations |-> {i \in MD!Handled(p, t) : MD!IsOperation(p, i)} \ {t}]

Unhandled(p, t) == {i \in MD!Handled(p, t) : MD!GivesUp(p, MD!CacheOf(p), i)}

Incomplete(p, t) == Unhandled(p, t) # {}

(***************************************************************************)
(* The values a loop is judged by: those that live on behind it, and those *)
(* that write a location an earlier instruction of the iteration accesses. *)
(* What writes a location that is accessed later only is not among them.   *)
(***************************************************************************)
Judged(p, out) ==
  out \cup
  {j \in p.memory : \E i \in p.memory :
     /\ p.order[i] < p.order[j]
     /\ "Mod" \in p.modRef[<<j, i>>] /\ p.modRef[<<i, j>>] # {}}

\* Whether the loop is commutative, with the variances v: there is something
\* to judge it by, and the whole chain of all of that commutes.
LoopCommutes(p, out, v) ==
  /\ Judged(p, out) # {}
  /\ \A t \in Judged(p, out) : SC!ChainCommutes(v, Chain(p, t))
=============================================================================
