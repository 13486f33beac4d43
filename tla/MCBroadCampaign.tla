--------------------------- MODULE MCBroadCampaign ---------------------------
(* An exclusive task, a shared one and one for the CPU, on two workers.    *)
EXTENDS BroadCampaign

OneOfEach == <<"EXCLUSIVE_GPU", "GPU", "CPU">>
=============================================================================
