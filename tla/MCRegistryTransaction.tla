------------------------ MODULE MCRegistryTransaction ------------------------
(* Two operators, two authorizations for different models, two nonces.     *)
EXTENDS RegistryTransaction

CONSTANTS a1, a2, modelA, modelB

TwoModels == [a \in {a1, a2} |-> IF a = a1 THEN modelA ELSE modelB]
=============================================================================
