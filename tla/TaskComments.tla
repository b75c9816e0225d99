---------------------------- MODULE TaskComments ----------------------------
(***************************************************************************)
(* CreateComment of internal/logic/task/comment.go on the task of          *)
(* TaskRequests: the comment and its notifications are stored in one       *)
(* transaction, and announced after AddActivity.                           *)
(***************************************************************************)
EXTENDS TaskRequests, SequencesExt

CONSTANT MaxMentions   \* bound: length of mentionUserIds, which may repeat a user

ASSUME CommentsAssumption == MaxMentions \in Nat

VARIABLES
  mentions,     \* mentions[p]: mentionUserIds of p's comment
  comments      \* the comments that are committed: [call, actor, assignee, mentions]

commentVars == <<requestVars, mentions, comments>>

CommentsTypeOK ==
  /\ RequestsTypeOK
  /\ \A p \in Procs :
       /\ at[p] \in Stages \cup {"comment"}
       /\ Len(mentions[p]) <= MaxMentions
       /\ at[p] # "comment" => mentions[p] = <<>>

CommentsInit ==
  /\ RequestsInit
  /\ mentions = [p \in Procs |-> <<>>] /\ comments = {}

\* The SELECT of the task; author and mentioned users are in the team.
CreateComment(p, u) ==
  /\ \E m \in SeqOf(Users, MaxMentions) : mentions' = [mentions EXCEPT ![p] = m]
  /\ Reads(p, u, <<>>, "comment")
  /\ UNCHANGED comments

\* The users that m names at the positions in S, in this order, and then the one
\* in last, if any.  There is one such sequence.
ToldInOrder(m, S, last) ==
  {[k \in DOMAIN f |-> m[f[k]]] \o SetToSeq(last) :
     f \in {g \in Bijection(1..Cardinality(S), S) : \A i, j \in DOMAIN g : i < j => g[i] < g[j]}}

\* The assignee is told as well, whether mentioned or not.
TellsAlways(r, m) ==
  ToldInOrder(m, {i \in DOMAIN m : m[i] # r.actor}, {r.row.assignee} \ {Nobody, r.actor})

\* Who gets a notification: whoever is mentioned, once for each time, and the
\* assignee in the row that was read, unless mentioned; never the author.
Tells(r, m) ==
  ToldInOrder(m, {i \in DOMAIN m : m[i] # r.actor},
              {r.row.assignee} \ ({Nobody, r.actor} \cup ToSet(m)))

\* The transaction.
Comment(p) ==
  LET r == req[p] IN
  /\ Trip(p, "comment", "activity")
  /\ \E told \in Tells(r, mentions[p]) :
       /\ notes' = notes \o [i \in DOMAIN told |-> Note(r, told[i])]
       /\ held' = [held EXCEPT ![p] = [i \in DOMAIN told |-> Len(notes) + i]]
  /\ comments' = comments \cup {[call |-> r.call, actor |-> r.actor,
                                 assignee |-> r.row.assignee, mentions |-> mentions[p]]}
  /\ mentions' = [mentions EXCEPT ![p] = <<>>]
  /\ UNCHANGED <<task, req, activities, heat, unread, queued, calls, rejected, lost, history>>

\* The transaction is rolled back, or what RequestFails does; a comment that was not
\* committed leaves nothing.
CommentFails(p) ==
  /\ at[p] = "comment"
  /\ RequestFails(p)
  /\ mentions' = [mentions EXCEPT ![p] = <<>>]
  /\ UNCHANGED comments

CommentsNext ==
  \/ \E p \in Procs :
       \/ \E u \in Users : CreateComment(p, u)
       \/ Comment(p) \/ CommentFails(p)
       \/ at[p] \in Stages /\ RequestStep(p) /\ UNCHANGED <<mentions, comments>>

CommentsSpec == CommentsInit /\ [][CommentsNext]_commentVars

-----------------------------------------------------------------------------
(* Properties                                                               *)

\* Requests that are at one of these round trips.
AtOneOf(stages) == Cardinality({p \in Procs : at[p] \in stages})

\* Each change of the task, and each comment, gets its activity once, and each
\* change its heat; what is missing is under way, or was lost with a request that
\* ended early, and no retry of that request makes up for it.
EffectsOnce ==
  LET made == changes + Cardinality(comments) + (IF task = NoTask THEN 0 ELSE 1)
      noActivity == activities + AtOneOf({"cache", "activity"})
      noHeat == heat + AtOneOf({"cache", "heat"})
                + Cardinality({p \in Procs : at[p] = "activity" /\ IsUpdate(req[p])})
  IN  /\ noActivity <= made /\ made <= noActivity + lost
      /\ noHeat <= changes /\ changes <= noHeat + lost

\* Whoever is made the assignee by somebody else is told, once for each time:
\* in the table, the queue, or by a request under way.  What is missing was lost
\* with a request; an UPDATE that overtook another one decides by an old row.
AssigneeTold ==
  \A u \in Users :
    LET stored == Cardinality({n \in DOMAIN notes : notes[n].to = u /\ notes[n].assigned})
        onTheWay == Cardinality({p \in Procs :
          /\ at[p] \in {"cache", "activity", "heat", "notify", "enqueue"}
          /\ "assignee" \in DOMAIN req[p].new /\ u \in Receivers(req[p])})
    IN  /\ became[u] <= stored + queued[u] + onTheWay + lost + blind
        /\ stored + onTheWay <= became[u] + blind + rejected

\* The notifications in the table that are not in the set of unread ones belong
\* to requests under way, or to those that failed, at most one for each fault.
AnnouncedUnlessFailed ==
  LET inHand == UNION {ToSet(held[p]) : p \in Procs}
      missing == DOMAIN notes \ (unread \cup inHand)
  IN  Cardinality({notes[n].call : n \in missing}) <= lost + rejected

\* docs/PROJECT_ROADMAP.md:817-818, for a comment as a whole: it tells everyone
\* mentioned and the assignee of the row it read, the author never, and the
\* assignee once however that came about; only a list that repeats a user tells
\* that user again.  The transaction leaves no comment without its notifications.
CommentNotesOnce ==
  \A c \in comments : \A u \in Users :
    LET got == Cardinality({n \in DOMAIN notes : notes[n].call = c.call /\ notes[n].to = u})
        named == Cardinality({i \in DOMAIN c.mentions : c.mentions[i] = u})
    IN  IF u = c.actor THEN got = 0
        ELSE IF named > 0 THEN got = named
        ELSE got = (IF u = c.assignee THEN 1 ELSE 0)
=============================================================================
