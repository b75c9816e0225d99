------------------------------- MODULE MCTeam -------------------------------
(* TeamMembers and Presence on a small instance.                             *)
EXTENDS Presence, TLC

\* Goroutines are interchangeable, and so are the users except the owner.
Symmetry == Permutations(Procs) \cup Permutations(Users \ {Owner})
=============================================================================
