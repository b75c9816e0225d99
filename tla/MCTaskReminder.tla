--------------------------- MODULE MCTaskReminder ---------------------------
(* TaskReminder on small instances; see the cfg files.  Tasks, scanners and   *)
(* tokens are symmetric.                                                      *)
EXTENDS TaskReminder, TLC

Symmetry ==
  Permutations(Tasks) \cup Permutations(Scanners) \cup Permutations(Tokens)
=============================================================================
