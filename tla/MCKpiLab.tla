------------------------------- MODULE MCKpiLab -------------------------------
(* A lab with any of the interesting definitions, and one of the same      *)
(* second that is infeasible and so leaves six entries.                    *)
EXTENDS KpiLab

CONSTANTS l1, l2

Definitions ==
  [l \in {l1, l2} |->
     IF l = l1
     THEN [objective : {"arm_delta"}, tickets : {2}, llm : BOOLEAN]
          \union [objective : {"raw_coverage"}, tickets : {2}, llm : {FALSE}]
     ELSE [objective : {"arm_delta"}, tickets : {0}, llm : {FALSE}]]

EvenOrBetter == {0, 1}
=============================================================================
