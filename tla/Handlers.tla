------------------------------ MODULE Handlers ------------------------------
(***************************************************************************)
(* The goroutines that serve HTTP requests, of any instance.  Each serves  *)
(* one request at a time, and between two round trips to MySQL or Redis    *)
(* the others run: a step is one round trip.                               *)
(***************************************************************************)
EXTENDS FiniteSets

CONSTANTS
  Procs,   \* the goroutines
  Users    \* the users whose requests they serve

ASSUME HandlersAssumption == IsFiniteSet(Procs) /\ IsFiniteSet(Users)

VARIABLE at   \* at[p]: p's next round trip, "idle" between two requests

HandlersInit == at = [p \in Procs |-> "idle"]

\* p's request is at round trip from and goes on to to.
Trip(p, from, to) == at[p] = from /\ at' = [at EXCEPT ![p] = to]

\* p's request has been answered, or given up.
Ends(p) == at' = [at EXCEPT ![p] = "idle"]
=============================================================================
