----------------------------- MODULE MCIngestion ----------------------------
(* Ingestion with named events; the run checks liveness, so no symmetry.   *)
EXTENDS Ingestion

CONSTANTS e1, e2
=============================================================================
