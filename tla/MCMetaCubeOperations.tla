----------------------- MODULE MCMetaCubeOperations -----------------------
(* Small instances of MetaCubeOperations.                                  *)
EXTENDS MetaCubeOperations
=============================================================================
