----------------------------- MODULE TaskLikes -----------------------------
(***************************************************************************)
(* LikeTask, UnlikeTask and GetLikeStatus of internal/logic/task/like.go   *)
(* on one task: the set task:likes:{id}, which has no TTL.  Liking is one  *)
(* script; the other two ask in two round trips.                           *)
(***************************************************************************)
EXTENDS Handlers, Naturals, FiniteSets

VARIABLES
  likes,        \* task:likes:{id}
  liker,        \* liker[p]: the user of p's request
  mine,         \* mine[p]: whether p's user likes the task, by p's first command
  count,        \* count[p]: the SCARD of p's request
  crossed       \* history: crossed[p]: another request of p's user changed the
                \* set since p's first command

answers  == <<mine, count, crossed>>
likeVars == <<likes, liker, answers>>

LikeStages == {"like", "unlike", "status", "card", "answer"}

LikesTypeOK ==
  /\ likes \subseteq Users
  /\ \A p \in Procs :
       /\ liker[p] \in Users /\ count[p] \in 0..Cardinality(Users)
       /\ at[p] \notin {"card", "answer"} => ~mine[p] /\ count[p] = 0

LikesInit ==
  /\ likes = {} /\ liker \in [Procs -> Users]
  /\ mine = [p \in Procs |-> FALSE] /\ count = [p \in Procs |-> 0]
  /\ crossed = [p \in Procs |-> FALSE]

\* The SELECT of the task, by a member of the team.
LikeRequest(p, u) ==
  /\ \E op \in {"like", "unlike", "status"} : Trip(p, "idle", op)
  /\ liker' = [liker EXCEPT ![p] = u]
  /\ UNCHANGED <<likes, answers>>

\* p's first command makes the set s and finds that its user likes the task or
\* not.
FirstCommand(p, s, likesIt) ==
  /\ likes' = s
  /\ mine' = [mine EXCEPT ![p] = likesIt]
  /\ crossed' = [q \in Procs |->
       IF q = p THEN FALSE
       ELSE crossed[q] \/ (at[q] = "card" /\ liker[q] = liker[p] /\ s # likes)]
  /\ UNCHANGED liker

\* The script counts before it adds.
LikeCountsFirst(p) ==
  /\ Trip(p, "like", "answer")
  /\ FirstCommand(p, likes \cup {liker[p]}, TRUE)
  /\ count' = [count EXCEPT ![p] = Cardinality(likes)]

\* likeTaskLuaScript: SADD and SCARD in one step.
Like(p) ==
  /\ Trip(p, "like", "answer")
  /\ FirstCommand(p, likes \cup {liker[p]}, TRUE)
  /\ count' = [count EXCEPT ![p] = Cardinality(likes')]

\* SREM.
Unlike(p) ==
  /\ Trip(p, "unlike", "card")
  /\ FirstCommand(p, likes \ {liker[p]}, FALSE)
  /\ UNCHANGED count

\* SISMEMBER.
Status(p) ==
  /\ Trip(p, "status", "card")
  /\ FirstCommand(p, likes, liker[p] \in likes)
  /\ UNCHANGED count

\* SCARD, after UnlikeTask's or GetLikeStatus's first command.
Card(p) ==
  /\ Trip(p, "card", "answer")
  /\ count' = [count EXCEPT ![p] = Cardinality(likes)]
  /\ UNCHANGED <<likes, liker, mine, crossed>>

LikeForgets(p) ==
  /\ Ends(p)
  /\ mine' = [mine EXCEPT ![p] = FALSE]
  /\ count' = [count EXCEPT ![p] = 0]
  /\ crossed' = [crossed EXCEPT ![p] = FALSE]
  /\ UNCHANGED <<likes, liker>>

\* The request is answered with mine and count.
LikeAnswered(p) == at[p] = "answer" /\ LikeForgets(p)

\* An error at the next round trip, a lost reply, or the death of the instance.
LikeFails(p) == at[p] \in LikeStages /\ LikeForgets(p)

LikesNext ==
  \E p \in Procs :
    \/ \E u \in Users : LikeRequest(p, u)
    \/ Like(p) \/ Unlike(p) \/ Status(p) \/ Card(p) \/ LikeAnswered(p) \/ LikeFails(p)

LikesSpec == HandlersInit /\ LikesInit /\ [][LikesNext]_<<at, likeVars>>

-----------------------------------------------------------------------------
\* The two halves of an answer: a count of 0 with a like of one's own, or a
\* count of everybody without it, means that the same user's other request came
\* between SREM or SISMEMBER and SCARD; after LikeTask it never happens.
LikeAnswers ==
  \A p \in Procs :
    at[p] = "answer" =>
      \/ crossed[p]
      \/ IF mine[p] THEN count[p] > 0 ELSE count[p] < Cardinality(Users)
=============================================================================
