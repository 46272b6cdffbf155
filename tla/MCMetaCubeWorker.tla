-------------------------- MODULE MCMetaCubeWorker --------------------------
(* Small instances of MetaCubeWorker.                                      *)
EXTENDS MetaCubeWorker
=============================================================================
