---------------------------- MODULE MCTaskDetail ----------------------------
(* TaskDetail on small instances.  MCTaskDetail.cfg checks liveness, so there  *)
(* is no symmetry; two tokens are enough for two readers, because a token that *)
(* nobody holds any more serves as a new one.                                  *)
EXTENDS TaskDetail
=============================================================================
