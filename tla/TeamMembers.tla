---------------------------- MODULE TeamMembers ----------------------------
(***************************************************************************)
(* One team of internal/logic/team: its rows in MySQL, the cached set      *)
(* team:members:{id} and the list team:activities:{id}; CreateTeam,        *)
(* AddMember and GetMembers (team.go) and AddActivity (activity.go).       *)
(*                                                                         *)
(* Requests that a check refuses change nothing and are left out.          *)
(***************************************************************************)
EXTENDS Handlers, Naturals, Sequences, SequencesExt, FiniteSets

CONSTANTS
  Owner,        \* the user who creates the team
  ActivityMax,  \* activityMaxCount (100 in the code)
  MaxIncidents  \* bound: keys that reach their TTL, crashes, lost replies and
                \* error answers

ASSUME TeamAssumption ==
  /\ Owner \in Users
  /\ ActivityMax \in Nat \ {0} /\ MaxIncidents \in Nat

VARIABLES
  team,         \* the team's row exists
  rows,         \* rows[u]: how many team_member rows u has
  set, setTTL,  \* team:members:{id}, and whether it has a TTL
  acts, actsTTL,  \* team:activities:{id}, the activities by their number
  who,          \* who[p]: the user that p's request is about
  ids,          \* ids[p]: the user ids that p's request works with
  pushed, forgotten,  \* history: activities so far, and those a TTL removed
  settled,      \* history: settled[p]: the members whom p's request should show
  expiries, faults    \* history: keys that expired, and faults

teamRows == <<team, rows>>
members  == <<set, setTTL>>
activity == <<acts, actsTTL, pushed, forgotten>>
request  == <<at, who, ids, settled>>
teamVars == <<teamRows, members, activity, request, expiries, faults>>

AddStages == {"member", "sadd", "expire", "lpush", "ltrim", "lexpire"}
GetStages == {"smembers", "select", "refill", "expireRefill", "users"}

TeamTypeOK ==
  /\ team \in BOOLEAN /\ rows \in [Users -> Nat]
  /\ set \subseteq Users /\ setTTL \in BOOLEAN
  /\ acts \in Seq(Nat) /\ actsTTL \in BOOLEAN
  /\ DOMAIN at = Procs
  /\ who \in [Procs -> Users] /\ ids \in [Procs -> SUBSET Users]
  /\ settled \in [Procs -> SUBSET Users]
  /\ \A p \in Procs :
       /\ at[p] \in AddStages => team
       /\ at[p] \in {"refill", "expireRefill", "users"} => ids[p] # {}
  /\ pushed \in Nat /\ forgotten \in Nat /\ expiries \in Nat /\ faults \in Nat

TeamInit ==
  /\ team = FALSE /\ rows = [u \in Users |-> 0]
  /\ set = {} /\ setTTL = FALSE
  /\ acts = <<>> /\ actsTTL = FALSE /\ pushed = 0 /\ forgotten = 0
  /\ HandlersInit /\ who = [p \in Procs |-> Owner]
  /\ ids = [p \in Procs |-> {}] /\ settled = [p \in Procs |-> {}]
  /\ expiries = 0 /\ faults = 0

Incident == expiries + faults < MaxIncidents

\* One more crash, lost reply or error answer.
Fault == Incident /\ faults' = faults + 1

Members == {u \in Users : rows[u] > 0}

\* A request about u begins.
Begins(p, u, stage) ==
  /\ Trip(p, "idle", stage)
  /\ who' = [who EXCEPT ![p] = u]

\* p has answered, or given up.
Idle(p) ==
  /\ Ends(p)
  /\ who' = [who EXCEPT ![p] = Owner]
  /\ ids' = [ids EXCEPT ![p] = {}]
  /\ settled' = [settled EXCEPT ![p] = {}]

-----------------------------------------------------------------------------
(* CreateTeam and AddMember.                                                *)

\* INSERT of the team.
CreateTeam(p) ==
  /\ ~team
  /\ team' = TRUE
  /\ Begins(p, Owner, "member")
  /\ UNCHANGED <<rows, members, activity, ids, settled, expiries, faults>>

\* AddMember without its COUNT of the target's rows.
AddMemberUnchecked(p, u) ==
  /\ team
  /\ Begins(p, u, "member")
  /\ UNCHANGED <<teamRows, members, activity, ids, settled, expiries, faults>>

\* The owner adds u, whom the COUNT does not find in the team.
AddMember(p, u) ==
  /\ team
  /\ rows[u] = 0
  /\ Begins(p, u, "member")
  /\ UNCHANGED <<teamRows, members, activity, ids, settled, expiries, faults>>

InsertMember(p) ==
  /\ Trip(p, "member", "sadd")
  /\ rows' = [rows EXCEPT ![who[p]] = @ + 1]
  /\ UNCHANGED <<team, members, activity, who, ids, settled, expiries, faults>>

\* SADD of the new member, to whatever the key holds now.
SAdd(p) ==
  /\ Trip(p, "sadd", "expire")
  /\ set' = set \cup {who[p]}
  /\ UNCHANGED <<teamRows, setTTL, activity, who, ids, settled, expiries, faults>>

\* EXPIRE; of a key that is gone it does nothing.
ExpireSet(p, from, to) ==
  /\ Trip(p, from, to)
  /\ setTTL' = (set # {})
  /\ UNCHANGED <<teamRows, set, activity, who, ids, settled, expiries, faults>>

ExpireMembers(p) == ExpireSet(p, "expire", "lpush")

-----------------------------------------------------------------------------
(* AddActivity.                                                             *)

LPush(p) ==
  /\ Trip(p, "lpush", "ltrim")
  /\ pushed' = pushed + 1
  /\ acts' = <<pushed'>> \o acts
  /\ UNCHANGED <<teamRows, members, actsTTL, forgotten, who, ids, settled, expiries, faults>>

\* LTRIM 1 -1: the wrong end of the list goes.
LTrimNewest(p) ==
  /\ Trip(p, "ltrim", "lexpire")
  /\ acts' = IF Len(acts) > ActivityMax THEN Tail(acts) ELSE acts
  /\ UNCHANGED <<teamRows, members, actsTTL, pushed, forgotten, who, ids, settled, expiries, faults>>

\* LTRIM 0 activityMaxCount-1.
LTrim(p) ==
  /\ Trip(p, "ltrim", "lexpire")
  /\ acts' = IF Len(acts) > ActivityMax THEN SubSeq(acts, 1, ActivityMax) ELSE acts
  /\ UNCHANGED <<teamRows, members, actsTTL, pushed, forgotten, who, ids, settled, expiries, faults>>

\* EXPIRE of the list, and the request is answered.
ExpireActs(p) ==
  /\ at[p] = "lexpire"
  /\ Idle(p)
  /\ actsTTL' = (acts # <<>>)
  /\ UNCHANGED <<teamRows, members, acts, pushed, forgotten, expiries, faults>>

-----------------------------------------------------------------------------
(* GetMembers.                                                              *)

\* The members whom nobody is adding any more, by any route.
Settled == Members \ {who[q] : q \in {r \in Procs : at[r] \in {"member", "sadd"}}}

\* u is a member and may see the others.
GetMembers(p, u) ==
  /\ rows[u] > 0
  /\ Begins(p, u, "smembers")
  /\ settled' = [settled EXCEPT ![p] = Settled]
  /\ UNCHANGED <<teamRows, members, activity, ids, expiries, faults>>

\* A set that is not empty is taken for the whole team.
SMembers(p) ==
  /\ Trip(p, "smembers", IF set = {} THEN "select" ELSE "users")
  /\ ids' = [ids EXCEPT ![p] = set]
  /\ UNCHANGED <<teamRows, members, activity, who, settled, expiries, faults>>

\* The members in MySQL; never none, for the caller is one.
Select(p) ==
  /\ Trip(p, "select", "refill")
  /\ ids' = [ids EXCEPT ![p] = Members]
  /\ UNCHANGED <<teamRows, members, activity, who, settled, expiries, faults>>

\* The rebuilt set takes the place of what the key holds.
RefillReplaces(p) ==
  /\ Trip(p, "refill", "expireRefill")
  /\ set' = ids[p]
  /\ UNCHANGED <<teamRows, setTTL, activity, who, ids, settled, expiries, faults>>

\* SADD of them all.
Refill(p) ==
  /\ Trip(p, "refill", "expireRefill")
  /\ set' = set \cup ids[p]
  /\ UNCHANGED <<teamRows, setTTL, activity, who, ids, settled, expiries, faults>>

ExpireRefill(p) == ExpireSet(p, "expireRefill", "users")

\* The users and their roles are read, and ids is the answer.
Answer(p) ==
  /\ at[p] = "users"
  /\ Idle(p)
  /\ UNCHANGED <<teamRows, members, activity, expiries, faults>>

-----------------------------------------------------------------------------
\* An error at p's next round trip, a lost reply to the last one, or the death
\* of the instance: the request ends, and what it did stays.
Fails(p) ==
  /\ at[p] \in AddStages \cup GetStages
  /\ Fault
  /\ Idle(p)
  /\ UNCHANGED <<teamRows, members, activity, expiries>>

KeyExpires == Incident /\ expiries' = expiries + 1

\* The TTL of 30 minutes.
SetExpires ==
  /\ setTTL
  /\ KeyExpires
  /\ set' = {} /\ setTTL' = FALSE
  /\ UNCHANGED <<teamRows, activity, request, faults>>

\* The TTL of 7 days.
ActsExpire ==
  /\ actsTTL
  /\ KeyExpires
  /\ acts' = <<>> /\ actsTTL' = FALSE /\ forgotten' = pushed
  /\ UNCHANGED <<teamRows, members, pushed, request, faults>>

TeamStep(p) ==
  \/ CreateTeam(p)
  \/ \E u \in Users : AddMember(p, u) \/ GetMembers(p, u)
  \/ InsertMember(p) \/ SAdd(p) \/ ExpireMembers(p)
  \/ LPush(p) \/ LTrim(p) \/ ExpireActs(p)
  \/ SMembers(p) \/ Select(p) \/ Refill(p) \/ ExpireRefill(p) \/ Answer(p)
  \/ Fails(p)

TeamNext == (\E p \in Procs : TeamStep(p)) \/ SetExpires \/ ActsExpire

TeamSpec == TeamInit /\ [][TeamNext]_teamVars

-----------------------------------------------------------------------------
(* Properties                                                               *)

\* AddMember counts and inserts in two round trips and no key of the table is
\* known: racing requests store a member twice, but never more often than there
\* are requests at the same time, for the first row stops all later ones.
RowsBounded == \A u \in Users : rows[u] <= Cardinality(Procs)

\* Without a failure, and until the set reaches its TTL, GetMembers shows every
\* member whose AddMember was over when the request began, however creation,
\* additions and rebuilding interleave (SADD adds to what others have written).
AnswersComplete ==
  faults = 0 /\ expiries = 0 =>
    \A p \in Procs : at[p] = "users" => settled[p] \subseteq ids[p]

\* The same with TTLs, as docs/PROJECT_ROADMAP.md:137 has it: CreateTeam and
\* AddMember keep the set in step with the members, so that a query can use it.
AnswersCompleteAfterTTL ==
  faults = 0 => \A p \in Procs : at[p] = "users" => settled[p] \subseteq ids[p]

\* The list holds the newest activities, newest first, without a gap: at least
\* activityMaxCount of them if there were so many, and more only while a request
\* has not trimmed yet, or failed to.
ActivitiesNewest ==
  /\ \A i \in DOMAIN acts : acts[i] = pushed - i + 1
  /\ Len(acts) >= pushed - forgotten \/ Len(acts) >= ActivityMax
  /\ Len(acts) <= ActivityMax + faults + Cardinality({p \in Procs : at[p] = "ltrim"})
=============================================================================
