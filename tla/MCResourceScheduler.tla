------------------------- MODULE MCResourceScheduler -------------------------
(* Three devices with 1, 0 and 1 slots, one CPU lane; three shared tasks for  *)
(* two slots, two exclusive tasks and a CPU task.                          *)
EXTENDS ResourceScheduler, TLC

CONSTANTS c1, g1, g2, g3, x1, x2

MCClass == [t \in Tasks |-> CASE t = c1 -> "CPU"
                              [] t \in {g1, g2, g3} -> "GPU"
                              [] t \in {x1, x2} -> "EXCLUSIVE_GPU"]
MCDeviceSlots == 0 :> 1 @@ 1 :> 0 @@ 2 :> 1
=============================================================================
