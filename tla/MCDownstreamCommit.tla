------------------------- MODULE MCDownstreamCommit -------------------------
(* A step of each kind: one that reads the artifacts and refuses what does *)
(* not match, one whose evidence is taken as found, one that repairs, and  *)
(* one that appends.                                                       *)
EXTENDS DownstreamCommit

OneOfEachKind == 
  <<"release_bundle", "mlflow", "platform_registry", "event_publication">>
=============================================================================
