----------------------------- MODULE MCHandlers -----------------------------
(* The components that work in request handlers, except the team's, on a     *)
(* small instance.  They share no state but the goroutines, so that one      *)
(* behaviour is about one of them; which one, its initial state says.        *)
EXTENDS TaskComments, TaskLikes, RateLimit, Session, UserProfile, TLC

VARIABLE about

\* The variables of TaskComments but at.
ofTask == <<task, req, held, effects, calls, rejected, lost, history, mentions, comments>>

MCInit ==
  /\ HandlersInit /\ CommentsInit /\ LikesInit /\ RateInit /\ SessionInit /\ ProfileInit
  /\ about \in {"task", "likes", "rate", "session", "profile"}

MCNext ==
  \/ about = "task" /\ CommentsNext
     /\ UNCHANGED <<about, likeVars, rateVars, now, sessionVars, profileVars>>
  \/ about = "likes" /\ LikesNext
     /\ UNCHANGED <<about, ofTask, rateVars, now, sessionVars, profileVars>>
  \/ about = "rate" /\ RateNext
     /\ UNCHANGED <<about, ofTask, likeVars, now, sessionVars, profileVars>>
  \/ about = "session" /\ SessionNext
     /\ UNCHANGED <<about, ofTask, likeVars, rateVars, profileVars>>
  \/ about = "profile" /\ ProfileNext
     /\ UNCHANGED <<about, ofTask, likeVars, rateVars, now, sessionVars>>

allVars == <<about, at, ofTask, likeVars, rateVars, now, sessionVars, profileVars>>

\* The bounds are used up; no goroutine is stuck in a request.
Finished == (\A p \in Procs : at[p] = "idle") /\ UNCHANGED allVars

MCSpec == MCInit /\ [][MCNext \/ Finished]_allVars

\* A goroutine is at a round trip of the component that the behaviour is about.
HandlersTypeOK ==
  /\ about = "task" => CommentsTypeOK
  /\ about = "likes" => LikesTypeOK /\ \A p \in Procs : at[p] \in {"idle"} \cup LikeStages
  /\ about = "rate" => RateTypeOK /\ \A p \in Procs : at[p] \in {"idle", "allowed"} \cup RateStages
  /\ about = "session" => SessionTypeOK /\ \A p \in Procs : at[p] \in {"idle"} \cup SessionStages
  /\ about = "profile" => ProfileTypeOK /\ \A p \in Procs : at[p] \in {"idle"} \cup ProfileStages

Symmetry == Permutations(Procs) \cup Permutations(Users) \cup Permutations(Titles)
=============================================================================
