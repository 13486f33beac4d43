--------------------------- MODULE MCGpuSupervisor ---------------------------
(* Three supervisors on one GPU: one hands it over, one decides, one is told *)
(* to coexist with the LLM.                                                *)
EXTENDS GpuSupervisor, TLC

CONSTANTS a, b, c

OneOfEach == a :> "handoff" @@ b :> "auto" @@ c :> "coexist"
=============================================================================
