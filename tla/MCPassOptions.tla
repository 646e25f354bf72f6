---------------------------- MODULE MCPassOptions ----------------------------
(***************************************************************************)
(* Two options that are given once, a list and a selection, in any mix on  *)
(* the command line, and those that matter in the variables of the passes; *)
(* two pipelines of either manager, each on two functions.                 *)
(***************************************************************************)
EXTENDS PassOptions

Given == {"ReportsDir", "DispositionQuery", "FunctionWhiteList", "ReportComponentOption"}

\* export stands before, behind and between the passes that reset.
Legacy ==
  {[manager |-> "legacy", pipeline |-> pipeline,
    given |-> [p \in SelfParsing \cup {"command line"} |->
                 CASE p = "command line" -> line [] p = "payload" -> first
                   [] p = "annotate" -> second [] p = "recognize" -> {}],
    restored |-> restored] :
     pipeline \in {<<"classify", "payload", "export", "annotate">>,
                   <<"export", "annotate", "payload", "classify">>},
     line \in SUBSET Given,
     first \in SUBSET {"ReportsDir", "DispositionQuery", "ReportComponentOption"},
     second \in SUBSET {"DispositionQuery", "FunctionWhiteList"},
     restored \in {{}, Scalars, Scalars \cup Lists}}

\* payload also exports its results.
New ==
  {[manager |-> "new", pipeline |-> pipeline,
    given |-> [p \in SelfParsing \cup {"command line"} |->
                 CASE p = "command line" -> line [] p = "payload" -> first
                   [] p = "annotate" -> {"ReportsDir"}
                   [] p = "recognize" -> second],
    restored |-> restored] :
     pipeline \in {<<"payload">>, <<"annotate", "payload", "annotate">>},
     line \in SUBSET Given,
     first \in SUBSET {"ReportsDir", "FunctionWhiteList", "ExportResults"},
     second \in SUBSET {"ReportsDir", "ReportComponentOption"},
     restored \in {{}, Scalars}}

MCSetups == Legacy \cup New
=============================================================================
