-------------------------- MODULE MCActivityWorker --------------------------
(* Instances of ActivityWorker: two repositories, so that a restore can    *)
(* stop between them, and leases enough for a checkpoint and its restore.  *)
EXTENDS ActivityWorker
=============================================================================
