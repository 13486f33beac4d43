--------------------------- MODULE MCRunLifecycle ---------------------------
(***************************************************************************)
(* Instances of RunLifecycle for TLC: which service each worker calls, the *)
(* commands of each instance and the symmetries.                           *)
(***************************************************************************)
EXTENDS RunLifecycle, TLC

CONSTANTS w1, w2, s1, s2

OneService == w1 :> s1 @@ w2 :> s1
TwoServices == w1 :> s1 @@ w2 :> s2

ProgressCommands == {"START", "MARK_SUCCEEDED"}
RaceCommands == {"START", "MARK_SUCCEEDED", "CANCEL"}

\* Workers of one service are interchangeable, workers of two services only
\* together with their services; runs and hashes always are.
WorkerSymmetry == Permutations(Workers)
Swap == {w1 :> w2 @@ w2 :> w1 @@ s1 :> s2 @@ s2 :> s1}
DataSymmetry == Swap \cup Permutations(Runs) \cup Permutations(Hashes)
=============================================================================
