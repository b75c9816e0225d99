---------------------------- MODULE MCCachedSets ----------------------------
(* What the code keeps in sets, sorted sets and lists of Redis beside the     *)
(* rows, on a small instance: the members of a team, its presence, the heat   *)
(* of its tasks, and the unread notifications of one user.  They share no     *)
(* key, so that one behaviour is about one of them; which one, its initial    *)
(* state says.                                                                *)
EXTENDS Presence, HeatRanking, UnreadSet, TLC

VARIABLE about

\* TeamMembers and Presence are composed step by step, so that what presence does
\* is checked from a team that everybody has joined, whose goroutines are idle.
Joined ==
  /\ team = TRUE /\ rows = [u \in Users |-> 1]
  /\ set = Users /\ setTTL = TRUE
  /\ pushed = Cardinality(Users) /\ forgotten = 0
  /\ acts = [i \in 1..ActivityMax |-> pushed - i + 1] /\ actsTTL = TRUE
  /\ HandlersInit /\ who = [p \in Procs |-> Owner]
  /\ ids = None /\ settled = None
  /\ expiries = 0 /\ faults = 0

MCInit ==
  /\ HeatInit /\ UnreadInit
  /\ \/ about \in {"members", "heat", "unread"} /\ PresenceInit
     \/ /\ about = "online" /\ Joined
        /\ alive = {} /\ online = {} /\ onlineTTL = FALSE
        /\ unasked = None /\ found = None /\ steady = None /\ seen = None
        /\ overtaken = {} /\ renewed = {} /\ strangers = {}
  \* The teams are named after the requests: of the heat, each updates a task of its
  \* own team, or all of them tasks of one.
  /\ \/ \A q \in Requests : teamOf[q] = q
     \/ about = "heat" /\ \A q, r \in Requests : teamOf[q] = teamOf[r]

MCNext ==
  \/ about = "members" /\ TeamNext
     /\ UNCHANGED <<about, presence, query, listing, heatVars, unreadVars>>
  \/ about = "online" /\ OnlineNext /\ UNCHANGED <<about, heatVars, unreadVars>>
  \/ about = "heat" /\ HeatNext /\ UNCHANGED <<about, presenceVars, unreadVars>>
  \/ about = "unread" /\ UnreadNext /\ UNCHANGED <<about, presenceVars, heatVars>>

allVars == <<about, presenceVars, heatVars, unreadVars>>

\* The heat may stop when every request has ended and every instance waits for an
\* hour beyond the bound.
Finished ==
  /\ about = "heat"
  /\ \A q \in Requests : step[q] = "done" \/ q \in halted
  /\ \A c \in Clients : stage[c] = "tick" /\ ticked[c] = MaxHours
  /\ UNCHANGED allVars

MCSpec == MCInit /\ [][MCNext \/ Finished]_allVars

\* The model values of one set stand for other things of another component.
Symmetry == Permutations(Procs) \cup Permutations(Tokens) \cup Permutations(Requests)
=============================================================================
