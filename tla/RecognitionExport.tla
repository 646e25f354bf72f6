------------------------- MODULE RecognitionExport -------------------------
(***************************************************************************)
(* The two reports of JSONExporterPass on what IteratorRecognition finds   *)
(* in a function: its condensations, and the loops each of them has        *)
(* instructions in.  Instructions and loops stand for their descriptions.  *)
(* A loop is described by its latch, so it must not have several.          *)
(***************************************************************************)
EXTENDS IteratorRecognition

\* The nodes without a unit are left out of a condensation.
ExportCondensation(cn) == cn \cap Inst

\* The report of the condensation graph, without its edges.
ExportGraph == {ExportCondensation(cn) : cn \in condensations}

\* The report of the map, one entry for each condensation in it.
ExportMap ==
  {[condensation |-> ExportCondensation(cn), loops |-> map[cn]] : cn \in DOMAIN map}

-----------------------------------------------------------------------------

Entries(l) == {e \in ExportMap : l \in e.loops}

\* What a reader may conclude from the reports: both have the same
\* condensations; each instruction is in one entry, which names all loops the
\* instruction is in; and the iterator of a loop is made of whole entries that
\* name the loop, so that none of them is partly iterator and partly payload.
ReportsTellIterators ==
  pc = "done" =>
    /\ ExportGraph = {e.condensation : e \in ExportMap}
    /\ \A i \in Inst :
         /\ Cardinality({e \in ExportMap : i \in e.condensation}) = 1
         /\ \A e \in ExportMap : i \in e.condensation => LoopsOf(i) \subseteq e.loops
    /\ \A l \in Loop :
         iterators[l] = UNION {e.condensation : e \in {d \in Entries(l) :
                                 d.condensation \subseteq iterators[l]}}

=============================================================================
