----------------------------- MODULE Team_proofs -----------------------------
(***************************************************************************)
(* Proofs about the team's members, activities and presence, for any users *)
(* and goroutines, any length of the list and any number of incidents.     *)
(***************************************************************************)
EXTENDS Presence, FiniteSetTheorems, TLAPS

-----------------------------------------------------------------------------
(* What the steps of either component do to the variables of the other.     *)

LEMMA PresenceSteps ==
  ASSUME [PresenceNext]_presenceVars
  PROVE  \/ OnlineNext
         \/ TeamNext /\ UNCHANGED <<presence, query, listing>>
         \/ UNCHANGED presenceVars
BY DEF PresenceNext

\* The round trips of presence leave the team alone; they move one goroutine,
\* which is idle in between, and forget what it worked with at the end.
LEMMA PresenceApart ==
  ASSUME OnlineNext
  PROVE  /\ UNCHANGED <<teamRows, members, activity>>
         /\ \/ UNCHANGED <<at, who, ids, settled>>
            \/ \E p \in Procs, u \in Users :
                 Begins(p, u, "setex") /\ rows[u] > 0 /\ UNCHANGED <<ids, settled>>
            \/ \E p \in Procs, s \in PresenceStages :
                 /\ at[p] \in {"idle"} \cup PresenceStages
                 /\ at' = [at EXCEPT ![p] = s] /\ UNCHANGED <<who, settled>>
                 /\ ids' = ids \/ ids' = [ids EXCEPT ![p] = online]
            \/ \E p \in Procs : at[p] \in PresenceStages /\ Idle(p)
         /\ faults' = faults \/ faults' = faults + 1
         /\ expiries' = expiries \/ expiries' = expiries + 1
<1> USE DEF notPresence, request, PresenceStages, teamRows, members, activity
<1>1. ASSUME NEW p \in Procs, NEW u \in Users, Heartbeat(p, u)
      PROVE  /\ UNCHANGED <<teamRows, members, activity, faults, expiries>>
             /\ Begins(p, u, "setex") /\ rows[u] > 0 /\ UNCHANGED <<ids, settled>>
  BY <1>1 DEF Heartbeat
<1>2. ASSUME NEW p \in Procs,
             \/ \E u \in Users : GetOnlineMembers(p, u)
             \/ SetEx(p) \/ SAddOnline(p) \/ Candidates(p) \/ SRem(p)
      PROVE  /\ UNCHANGED <<teamRows, members, activity, faults, expiries>>
             /\ \E s \in PresenceStages :
                  /\ at[p] \in {"idle"} \cup PresenceStages
                  /\ at' = [at EXCEPT ![p] = s] /\ UNCHANGED <<who, settled>>
                  /\ ids' = ids \/ ids' = [ids EXCEPT ![p] = online]
  BY <1>2 DEF GetOnlineMembers, SetEx, SAddOnline, Candidates, SRem, Trip
<1>3. ASSUME NEW p \in Procs, NEW u \in Users, Exists(p, u)
      PROVE  /\ UNCHANGED <<teamRows, members, activity, faults, expiries>>
             /\ \E s \in PresenceStages :
                  /\ at[p] \in PresenceStages
                  /\ at' = [at EXCEPT ![p] = s] /\ UNCHANGED <<who, settled, ids>>
  BY <1>3 DEF Exists
<1>4. ASSUME NEW p \in Procs, ExpireOnline(p) \/ AnswerOnline(p) \/ PresenceFails(p)
      PROVE  /\ UNCHANGED <<teamRows, members, activity, expiries>>
             /\ at[p] \in PresenceStages /\ Idle(p)
             /\ faults' = faults \/ faults' = faults + 1
  BY <1>4 DEF ExpireOnline, AnswerOnline, PresenceFails, Fault
<1>5. ASSUME NEW u \in Users, UserExpires(u) \/ HeartbeatElsewhere(u)
      PROVE  UNCHANGED <<teamRows, members, activity, faults, expiries, at, who, ids, settled>>
  BY <1>5 DEF UserExpires, HeartbeatElsewhere
<1>6. ASSUME OnlineExpires
      PROVE  /\ UNCHANGED <<teamRows, members, activity, faults, at, who, ids, settled>>
             /\ expiries' = expiries + 1
  BY <1>6 DEF OnlineExpires, KeyExpires
<1> QED
  BY <1>1, <1>2, <1>3, <1>4, <1>5, <1>6 DEF OnlineNext, PresenceStep

-----------------------------------------------------------------------------
(* Types.                                                                   *)

AllStages == {"idle"} \cup AddStages \cup GetStages \cup PresenceStages

\* The team's types, for the goroutines of both components.
TeamTypes ==
  /\ rows \in [Users -> Nat] /\ set \subseteq Users /\ acts \in Seq(Nat)
  /\ at \in [Procs -> AllStages]
  /\ who \in [Procs -> Users] /\ ids \in [Procs -> SUBSET Users]
  /\ settled \in [Procs -> SUBSET Users]
  /\ pushed \in Nat /\ forgotten \in Nat /\ expiries \in Nat /\ faults \in Nat

Flags ==
  /\ team \in BOOLEAN /\ setTTL \in BOOLEAN /\ actsTTL \in BOOLEAN /\ onlineTTL \in BOOLEAN

\* The caller of GetMembers is a member, and there are no members before the team.
StagesOK ==
  /\ ~ team => \A u \in Users : rows[u] = 0
  /\ \A p \in Procs :
       /\ at[p] \in AddStages => team
       /\ at[p] \in {"smembers", "select"} => rows[who[p]] > 0
       /\ at[p] \in {"refill", "expireRefill", "users"} => ids[p] # {}

LEMMA TeamStepTypes ==
  ASSUME TeamTypes, NEW p \in Procs, TeamStep(p)
  PROVE  TeamTypes'
<1> USE DEF TeamTypes, AllStages, AddStages, GetStages, teamRows, members, activity
<1>1. CASE CreateTeam(p) \/ InsertMember(p)
  <2>1. CASE CreateTeam(p)
    BY <2>1, TeamAssumption DEF CreateTeam, Begins, Trip
  <2>2. CASE InsertMember(p)
    BY <2>2 DEF InsertMember, Trip
  <2> QED
    BY <1>1, <2>1, <2>2
<1>2. ASSUME NEW u \in Users, AddMember(p, u) \/ GetMembers(p, u)
      PROVE  TeamTypes'
  BY <1>2 DEF AddMember, GetMembers, Begins, Trip, Settled, Members
<1>3. CASE SAdd(p) \/ SMembers(p) \/ Select(p) \/ Refill(p)
  <2>1. CASE SAdd(p)
    BY <2>1 DEF SAdd, Trip
  <2>2. CASE SMembers(p)
    BY <2>2 DEF SMembers, Trip
  <2>3. CASE Select(p)
    BY <2>3 DEF Select, Trip, Members
  <2>4. CASE Refill(p)
    BY <2>4 DEF Refill, Trip
  <2> QED
    BY <1>3, <2>1, <2>2, <2>3, <2>4
<1>7. CASE ExpireMembers(p) \/ ExpireRefill(p)
  BY <1>7 DEF ExpireMembers, ExpireRefill, ExpireSet, Trip
<1>4. CASE LPush(p)
  <2>1. <<pushed'>> \o acts \in Seq(Nat)
    BY <1>4 DEF LPush
  <2> QED
    BY <1>4, <2>1 DEF LPush, Trip
<1>5. CASE LTrim(p)
  <2>1. Len(acts) > ActivityMax => SubSeq(acts, 1, ActivityMax) \in Seq(Nat)
    BY TeamAssumption
  <2> QED
    BY <1>5, <2>1 DEF LTrim, Trip
<1>6. CASE ExpireActs(p) \/ Answer(p) \/ Fails(p)
  <2>1. /\ at' = [at EXCEPT ![p] = "idle"] /\ who' = [who EXCEPT ![p] = Owner]
        /\ ids' = [ids EXCEPT ![p] = {}] /\ settled' = [settled EXCEPT ![p] = {}]
    BY <1>6 DEF ExpireActs, Answer, Fails, Idle, Ends
  <2>2. /\ UNCHANGED <<rows, set, acts, pushed, forgotten, expiries>>
        /\ faults' = faults \/ faults' = faults + 1
    BY <1>6 DEF ExpireActs, Answer, Fails, Fault
  <2> QED
    BY <2>1, <2>2, TeamAssumption
<1> QED
  BY <1>1, <1>2, <1>3, <1>4, <1>5, <1>6, <1>7 DEF TeamStep

LEMMA TeamTypesKept ==
  ASSUME TeamTypes, online \subseteq Users, [PresenceNext]_presenceVars
  PROVE  TeamTypes'
<1> USE DEF teamRows, members, activity
<1>1. CASE OnlineNext
  <2>1. /\ UNCHANGED <<team, rows, set, setTTL, acts, actsTTL, pushed, forgotten>>
        /\ faults' \in Nat /\ expiries' \in Nat
    BY <1>1, PresenceApart DEF TeamTypes
  <2>2. /\ at' \in [Procs -> AllStages] /\ who' \in [Procs -> Users]
        /\ ids' \in [Procs -> SUBSET Users] /\ settled' \in [Procs -> SUBSET Users]
    <3>1. CASE UNCHANGED <<at, who, ids, settled>>
      BY <3>1 DEF TeamTypes
    <3>2. ASSUME NEW p \in Procs, NEW u \in Users,
                 Begins(p, u, "setex"), UNCHANGED <<ids, settled>>
          PROVE  /\ at' \in [Procs -> AllStages] /\ who' \in [Procs -> Users]
                 /\ ids' \in [Procs -> SUBSET Users] /\ settled' \in [Procs -> SUBSET Users]
      BY <3>2 DEF Begins, Trip, TeamTypes, AllStages, PresenceStages
    <3>3. ASSUME NEW p \in Procs, NEW s \in PresenceStages, UNCHANGED <<who, settled>>,
                 at' = [at EXCEPT ![p] = s], ids' = ids \/ ids' = [ids EXCEPT ![p] = online]
          PROVE  /\ at' \in [Procs -> AllStages] /\ who' \in [Procs -> Users]
                 /\ ids' \in [Procs -> SUBSET Users] /\ settled' \in [Procs -> SUBSET Users]
      BY <3>3 DEF TeamTypes, AllStages
    <3>4. ASSUME NEW p \in Procs, Idle(p)
          PROVE  /\ at' \in [Procs -> AllStages] /\ who' \in [Procs -> Users]
                 /\ ids' \in [Procs -> SUBSET Users] /\ settled' \in [Procs -> SUBSET Users]
      BY <3>4, TeamAssumption DEF Idle, Ends, TeamTypes, AllStages
    <3> QED
      BY <1>1, <3>1, <3>2, <3>3, <3>4, PresenceApart
  <2> QED
    BY <2>1, <2>2 DEF TeamTypes
<1>2. CASE \E p \in Procs : TeamStep(p)
  BY <1>2, TeamStepTypes
<1>3. CASE SetExpires
  <2>1. /\ UNCHANGED <<rows, acts, at, who, ids, settled, pushed, forgotten, faults>>
        /\ set' = {} /\ expiries' = expiries + 1
    BY <1>3 DEF SetExpires, KeyExpires, request
  <2> QED
    BY <2>1 DEF TeamTypes
<1>4. CASE ActsExpire
  <2>1. /\ UNCHANGED <<rows, set, at, who, ids, settled, pushed, faults>>
        /\ acts' = <<>> /\ forgotten' = pushed /\ expiries' = expiries + 1
    BY <1>4 DEF ActsExpire, KeyExpires, request
  <2> QED
    BY <2>1 DEF TeamTypes
<1>5. CASE UNCHANGED presenceVars
  BY <1>5 DEF TeamTypes, request, presenceVars, teamVars
<1> QED
  BY <1>1, <1>2, <1>3, <1>4, <1>5, PresenceSteps DEF TeamNext

LEMMA FlagsKept ==
  ASSUME Flags, [PresenceNext]_presenceVars
  PROVE  Flags'
<1> USE DEF Flags, teamRows, members, activity
<1>1. ASSUME NEW p \in Procs, TeamStep(p), UNCHANGED onlineTTL
      PROVE  Flags'
  <2>1. CASE CreateTeam(p) \/ \E u \in Users : AddMember(p, u) \/ GetMembers(p, u)
    BY <1>1, <2>1 DEF CreateTeam, AddMember, GetMembers
  <2>2. CASE InsertMember(p) \/ SAdd(p) \/ LPush(p) \/ LTrim(p) \/ SMembers(p) \/ Select(p)
               \/ Refill(p) \/ Answer(p) \/ Fails(p)
    BY <1>1, <2>2 DEF InsertMember, SAdd, LPush, LTrim, SMembers, Select, Refill, Answer, Fails
  <2>3. CASE ExpireMembers(p) \/ ExpireRefill(p) \/ ExpireActs(p)
    <3>1. /\ team' = team /\ (setTTL' = setTTL \/ setTTL' = (set # {}))
          /\ actsTTL' = actsTTL \/ actsTTL' = (acts # <<>>)
      BY <2>3 DEF ExpireMembers, ExpireRefill, ExpireSet, ExpireActs
    <3> QED
      BY <1>1, <3>1
  <2> QED
    BY <1>1, <2>1, <2>2, <2>3 DEF TeamStep
<1>2. ASSUME SetExpires \/ ActsExpire, UNCHANGED onlineTTL
      PROVE  Flags'
  BY <1>2 DEF SetExpires, ActsExpire
<1>3. CASE OnlineNext
  <2>1. UNCHANGED <<team, setTTL, actsTTL>>
    BY <1>3, PresenceApart
  <2>2. onlineTTL' \in BOOLEAN
    <3>1. ASSUME NEW p \in Procs, PresenceStep(p)
          PROVE  \/ onlineTTL' = onlineTTL \/ onlineTTL' = (online # {})
                 \/ onlineTTL' = (onlineTTL /\ online' # {})
      BY <3>1 DEF PresenceStep, Heartbeat, GetOnlineMembers, Exists, SetEx, SAddOnline,
                  ExpireOnline, Candidates, SRem, AnswerOnline, PresenceFails, presence
    <3>2. CASE (\E u \in Users : HeartbeatElsewhere(u) \/ UserExpires(u)) \/ OnlineExpires
      BY <3>2 DEF HeartbeatElsewhere, UserExpires, OnlineExpires
    <3> QED
      BY <1>3, <3>1, <3>2 DEF OnlineNext
  <2> QED
    BY <2>1, <2>2
<1>4. CASE UNCHANGED presenceVars
  BY <1>4 DEF presenceVars, teamVars, presence
<1> QED
  BY <1>1, <1>2, <1>3, <1>4, PresenceSteps DEF TeamNext, presence

\* How the stages and what a goroutine works with go together.
LEMMA StagesKept ==
  ASSUME TeamTypes, StagesOK, TeamTypes', [PresenceNext]_presenceVars
  PROVE  StagesOK'
<1> USE DEF StagesOK, TeamTypes, teamRows, AddStages
<1>0. ASSUME NEW p \in Procs, UNCHANGED <<team, rows>>,
             \A q \in Procs \ {p} : at'[q] = at[q] /\ who'[q] = who[q] /\ ids'[q] = ids[q],
             at'[p] \in AddStages => team,
             at'[p] \in {"smembers", "select"} => rows[who'[p]] > 0,
             at'[p] \in {"refill", "expireRefill", "users"} => ids'[p] # {}
      PROVE  StagesOK'
  BY <1>0
<1>1. ASSUME NEW p \in Procs, TeamStep(p)
      PROVE  StagesOK'
  <2>1. CASE CreateTeam(p)
    BY <2>1 DEF CreateTeam, Begins, Trip
  <2>2. ASSUME NEW u \in Users, AddMember(p, u) \/ GetMembers(p, u)
        PROVE  StagesOK'
    <3>1. CASE AddMember(p, u)
      BY <1>0, <3>1 DEF AddMember, Begins, Trip
    <3>2. CASE GetMembers(p, u)
      BY <1>0, <3>2 DEF GetMembers, Begins, Trip
    <3> QED
      BY <2>2, <3>1, <3>2
  <2>3. CASE InsertMember(p)
    BY <2>3 DEF InsertMember, Trip
  <2>4. CASE SAdd(p) \/ ExpireMembers(p) \/ LPush(p) \/ LTrim(p)
    <3>1. /\ at[p] \in AddStages /\ at'[p] \in AddStages
          /\ \A q \in Procs \ {p} : at'[q] = at[q]
          /\ UNCHANGED <<team, rows, who, ids>>
      BY <2>4 DEF SAdd, ExpireMembers, LPush, LTrim, ExpireSet, Trip
    <3> QED
      BY <1>0, <3>1
  <2>5. CASE SMembers(p)
    BY <2>5 DEF SMembers, Trip
  <2>6. CASE Select(p)
    <3>1. who[p] \in Members
      BY <2>6 DEF Select, Trip, Members
    <3> QED
      BY <2>6, <3>1 DEF Select, Trip
  <2>7. CASE Refill(p) \/ ExpireRefill(p)
    <3>1. /\ at[p] \in {"refill", "expireRefill"} /\ at'[p] \in {"expireRefill", "users"}
          /\ \A q \in Procs \ {p} : at'[q] = at[q]
          /\ UNCHANGED <<team, rows, who, ids>>
      BY <2>7 DEF Refill, ExpireRefill, ExpireSet, Trip
    <3> QED
      BY <1>0, <3>1
  <2>8. CASE ExpireActs(p) \/ Answer(p) \/ Fails(p)
    <3>1. /\ at'[p] = "idle" /\ UNCHANGED <<team, rows>>
          /\ \A q \in Procs \ {p} : at'[q] = at[q] /\ who'[q] = who[q] /\ ids'[q] = ids[q]
      BY <2>8 DEF ExpireActs, Answer, Fails, Idle, Ends
    <3> QED
      BY <1>0, <3>1
  <2> QED
    BY <1>1, <2>1, <2>2, <2>3, <2>4, <2>5, <2>6, <2>7, <2>8 DEF TeamStep
<1>2. CASE SetExpires \/ ActsExpire \/ UNCHANGED presenceVars
  BY <1>2 DEF SetExpires, ActsExpire, request, presenceVars, teamVars
<1>3. CASE OnlineNext
  <2>1. UNCHANGED <<team, rows>>
    BY <1>3, PresenceApart
  <2>2. CASE UNCHANGED <<at, who, ids, settled>>
    BY <2>1, <2>2
  <2>3. ASSUME NEW p \in Procs, NEW u \in Users,
               Begins(p, u, "setex"), UNCHANGED <<ids, settled>>
        PROVE  StagesOK'
    BY <2>1, <2>3 DEF Begins, Trip
  <2>4. ASSUME NEW p \in Procs, NEW s \in PresenceStages,
               at' = [at EXCEPT ![p] = s], UNCHANGED who,
               ids' = ids \/ ids' = [ids EXCEPT ![p] = online]
        PROVE  StagesOK'
    BY <2>1, <2>4 DEF PresenceStages
  <2>5. ASSUME NEW p \in Procs, Idle(p)
        PROVE  StagesOK'
    BY <2>1, <2>5 DEF Idle, Ends
  <2> QED
    BY <1>3, <2>2, <2>3, <2>4, <2>5, PresenceApart
<1> QED
  BY <1>1, <1>2, <1>3, PresenceSteps DEF TeamNext

PresenceTypes ==
  /\ alive \subseteq Users /\ online \subseteq Users /\ overtaken \subseteq Users
  /\ strangers \subseteq renewed /\ renewed \subseteq alive
  /\ unasked \in [Procs -> SUBSET Users] /\ found \in [Procs -> SUBSET Users]
  /\ steady \in [Procs -> SUBSET Users] /\ seen \in [Procs -> SUBSET Users]

LEMMA PresenceTypesKept ==
  ASSUME TeamTypes, PresenceTypes, [PresenceNext]_presenceVars
  PROVE  PresenceTypes'
<1> USE DEF PresenceTypes, TeamTypes, presence, query, listing
<1>1. ASSUME NEW p \in Procs, NEW u \in Users, Heartbeat(p, u) \/ GetOnlineMembers(p, u)
      PROVE  PresenceTypes'
  BY <1>1 DEF Heartbeat, GetOnlineMembers
<1>2. ASSUME NEW p \in Procs, NEW u \in Users, Exists(p, u)
      PROVE  PresenceTypes'
  BY <1>2 DEF Exists
<1>3. ASSUME NEW p \in Procs, SetEx(p)
      PROVE  PresenceTypes'
  BY <1>3 DEF SetEx, Sees
<1>4. ASSUME NEW p \in Procs, SAddOnline(p) \/ ExpireOnline(p)
      PROVE  PresenceTypes'
  BY <1>4 DEF SAddOnline, ExpireOnline
<1>5. ASSUME NEW p \in Procs, Candidates(p)
      PROVE  PresenceTypes'
  BY <1>5 DEF Candidates
<1>6. ASSUME NEW p \in Procs, SRem(p)
      PROVE  PresenceTypes'
  BY <1>6 DEF SRem
<1>7. ASSUME NEW p \in Procs, AnswerOnline(p) \/ PresenceFails(p)
      PROVE  PresenceTypes'
  BY <1>7 DEF AnswerOnline, PresenceFails, Forget
<1>8. ASSUME NEW u \in Users, UserExpires(u) \/ HeartbeatElsewhere(u)
      PROVE  PresenceTypes'
  <2>1. CASE UserExpires(u)
    BY <2>1 DEF UserExpires
  <2>2. CASE HeartbeatElsewhere(u)
    BY <2>2 DEF HeartbeatElsewhere, Sees
  <2> QED
    BY <1>8, <2>1, <2>2
<1>9. CASE OnlineExpires
  BY <1>9 DEF OnlineExpires, None
<1>10. CASE UNCHANGED <<presence, query, listing>>
  BY <1>10
<1> QED
  BY <1>1, <1>2, <1>3, <1>4, <1>5, <1>6, <1>7, <1>8, <1>9, <1>10, PresenceSteps
  DEF OnlineNext, PresenceStep, presenceVars

-----------------------------------------------------------------------------
(* GetOnlineMembers.                                                        *)

\* What the query of p knows: of whoever has been online all the time it has a
\* candidate or an answer, and whoever it may still find alive has been seen.
QueryOK(p) ==
  /\ unasked[p] \cup found[p] \subseteq ids[p] /\ unasked[p] \cap found[p] = {}
  /\ at[p] \notin {"exists", "srem", "online"} => seen[p] = {}
  /\ unasked[p] # {} => at[p] = "exists"
  /\ steady[p] \subseteq alive \cap (found[p] \cup unasked[p])
  /\ found[p] \cup steady[p] \subseteq seen[p]
  /\ at[p] \in {"exists", "srem"} => alive \subseteq seen[p]

\* A query that a step does not concern.
LEMMA QueryUntouched ==
  ASSUME NEW p \in Procs, QueryOK(p), at'[p] = at[p], ids'[p] = ids[p],
         UNCHANGED <<query, alive>>
  PROVE  QueryOK(p)'
BY DEF QueryOK, query

LEMMA QueriesKept ==
  ASSUME TeamTypes, PresenceTypes, \A p \in Procs : QueryOK(p), [PresenceNext]_presenceVars
  PROVE  \A p \in Procs : QueryOK(p)'
<1> USE DEF PresenceTypes, TeamTypes
\* A goroutine that has nothing to do with queries.
<1>0. ASSUME NEW p \in Procs, at[p] \notin {"exists", "srem", "online"},
             at'[p] \notin {"exists", "srem", "online"},
             \A q \in Procs \ {p} : at'[q] = at[q] /\ ids'[q] = ids[q],
             UNCHANGED <<query, alive>>
      PROVE  \A q \in Procs : QueryOK(q)'
  <2>1. unasked[p] = {} /\ found[p] = {} /\ steady[p] = {} /\ seen[p] = {}
    BY <1>0 DEF QueryOK
  <2>2. QueryOK(p)'
    BY <1>0, <2>1 DEF QueryOK, query
  <2> QED
    BY <1>0, <2>2, QueryUntouched
<1>1. ASSUME NEW p \in Procs, TeamStep(p), UNCHANGED <<query, alive>>
      PROVE  \A q \in Procs : QueryOK(q)'
  <2>1. /\ at[p] \in {"idle"} \cup AddStages \cup GetStages
        /\ at'[p] \in {"idle"} \cup AddStages \cup GetStages
        /\ \A q \in Procs \ {p} : at'[q] = at[q] /\ ids'[q] = ids[q]
    BY <1>1 DEF TeamStep, CreateTeam, AddMember, GetMembers, InsertMember, SAdd, ExpireMembers, LPush,
                LTrim, ExpireActs, SMembers, Select, Refill, ExpireRefill, Answer, Fails,
                ExpireSet, Begins, Idle, Ends, Trip, AddStages, GetStages
  <2> QED
    BY <1>0, <1>1, <2>1 DEF AddStages, GetStages
<1>2. ASSUME NEW p \in Procs, NEW u \in Users, Heartbeat(p, u) \/ GetOnlineMembers(p, u)
      PROVE  \A q \in Procs : QueryOK(q)'
  BY <1>0, <1>2 DEF Heartbeat, GetOnlineMembers, Begins, Trip, presence
<1>3. ASSUME NEW p \in Procs, SAddOnline(p) \/ ExpireOnline(p)
      PROVE  \A q \in Procs : QueryOK(q)'
  BY <1>0, <1>3 DEF SAddOnline, ExpireOnline, Idle, Ends, Trip
<1>4. ASSUME NEW p \in Procs, SetEx(p)
      PROVE  \A q \in Procs : QueryOK(q)'
  <2> SUFFICES ASSUME NEW q \in Procs
               PROVE  QueryOK(q)'
    OBVIOUS
  <2>1. /\ alive' = alive \cup {who[p]} /\ ids' = ids /\ UNCHANGED <<found, unasked, steady>>
        /\ at'[q] = IF q = p THEN "saddOnline" ELSE at[q]
        /\ seen'[q] = IF q \in Looking THEN seen[q] \cup {who[p]} ELSE seen[q]
        /\ at[p] = "setex"
    BY <1>4 DEF SetEx, Sees, Trip
  <2>2. QueryOK(q)
    OBVIOUS
  <2> QED
    BY <2>1, <2>2 DEF QueryOK, Looking
<1>5. ASSUME NEW p \in Procs, Candidates(p)
      PROVE  \A q \in Procs : QueryOK(q)'
  <2> SUFFICES ASSUME NEW q \in Procs
               PROVE  QueryOK(q)'
    OBVIOUS
  <2>1. CASE q # p
    <3>1. /\ at'[q] = at[q] /\ ids'[q] = ids[q] /\ unasked'[q] = unasked[q]
          /\ steady'[q] = steady[q] /\ seen'[q] = seen[q] /\ UNCHANGED <<found, alive>>
      BY <1>5, <2>1 DEF Candidates, Trip, presence
    <3> QED
      BY <3>1 DEF QueryOK
  <2>2. CASE q = p
    <3>1. /\ at[p] = "candidates" /\ at'[p] = (IF online = {} THEN "online" ELSE "exists")
          /\ ids'[p] = online /\ unasked'[p] = online /\ steady'[p] = online \cap alive
          /\ seen'[p] = alive /\ found'[p] = found[p] /\ alive' = alive
      BY <1>5 DEF Candidates, Trip, presence
    <3>2. found[p] = {}
      BY <3>1 DEF QueryOK
    <3> QED
      BY <2>2, <3>1, <3>2 DEF QueryOK
  <2> QED
    BY <2>1, <2>2
<1>6. ASSUME NEW p \in Procs, NEW u \in Users, Exists(p, u)
      PROVE  \A q \in Procs : QueryOK(q)'
  <2> SUFFICES ASSUME NEW q \in Procs
               PROVE  QueryOK(q)'
    OBVIOUS
  <2>1. CASE q # p
    <3>1. /\ at'[q] = at[q] /\ found'[q] = found[q] /\ unasked'[q] = unasked[q]
          /\ UNCHANGED <<ids, alive, steady, seen>>
      BY <1>6, <2>1 DEF Exists, presence
    <3> QED
      BY <3>1 DEF QueryOK
  <2>2. CASE q = p
    <3>1. /\ at[p] = "exists" /\ u \in unasked[p] /\ UNCHANGED <<ids, alive, steady, seen>>
          /\ found'[p] = (IF u \in alive THEN found[p] \cup {u} ELSE found[p])
          /\ unasked'[p] = unasked[p] \ {u}
          /\ at'[p] \in {"exists", "srem", "online"}
          /\ unasked'[p] # {} => at'[p] = "exists"
      BY <1>6 DEF Exists, presence
    <3> QED
      BY <2>2, <3>1 DEF QueryOK
  <2> QED
    BY <2>1, <2>2
<1>7. ASSUME NEW p \in Procs, SRem(p)
      PROVE  \A q \in Procs : QueryOK(q)'
  BY <1>7 DEF SRem, Trip, QueryOK, query
<1>8. ASSUME NEW p \in Procs, AnswerOnline(p) \/ PresenceFails(p)
      PROVE  \A q \in Procs : QueryOK(q)'
  <2> SUFFICES ASSUME NEW q \in Procs
               PROVE  QueryOK(q)'
    OBVIOUS
  <2>1. /\ alive' = alive
        /\ q # p => /\ at'[q] = at[q] /\ ids'[q] = ids[q] /\ found'[q] = found[q]
                    /\ unasked'[q] = unasked[q] /\ steady'[q] = steady[q] /\ seen'[q] = seen[q]
        /\ at'[p] = "idle" /\ found'[p] = {} /\ unasked'[p] = {} /\ steady'[p] = {} /\ seen'[p] = {}
    BY <1>8 DEF AnswerOnline, PresenceFails, Forget, Idle, Ends, presence
  <2> QED
    BY <2>1 DEF QueryOK
<1>9. ASSUME NEW u \in Users, UserExpires(u)
      PROVE  \A q \in Procs : QueryOK(q)'
  BY <1>9 DEF UserExpires, QueryOK, request
<1>10. CASE OnlineExpires
  BY <1>10 DEF OnlineExpires, QueryOK, None, request
<1>11. ASSUME NEW u \in Users, HeartbeatElsewhere(u)
       PROVE  \A q \in Procs : QueryOK(q)'
  <2> SUFFICES ASSUME NEW q \in Procs
               PROVE  QueryOK(q)'
    OBVIOUS
  <2>1. /\ alive' = alive \cup {u} /\ UNCHANGED <<at, ids, found, unasked, steady>>
        /\ seen'[q] = IF q \in Looking THEN seen[q] \cup {u} ELSE seen[q]
    BY <1>11 DEF HeartbeatElsewhere, Sees, request
  <2>2. QueryOK(q)
    OBVIOUS
  <2> QED
    BY <2>1, <2>2 DEF QueryOK, Looking
<1>12. ASSUME UNCHANGED <<at, ids, query, alive>>
       PROVE  \A q \in Procs : QueryOK(q)'
  BY <1>12, QueryUntouched
<1> QED
  BY <1>1, <1>2, <1>3, <1>4, <1>5, <1>6, <1>7, <1>8, <1>9, <1>10, <1>11, <1>12, PresenceSteps
  DEF OnlineNext, PresenceStep, TeamNext, SetExpires, ActsExpire, request, teamVars,
      presenceVars, presence

\* What all proofs below rest on.
TeamIInv ==
  /\ TeamTypes /\ Flags /\ StagesOK /\ PresenceTypes
  /\ \A p \in Procs : QueryOK(p)

LEMMA TeamInvariant == PresenceSpec => []TeamIInv
<1>1. PresenceInit => TeamIInv
  <2> SUFFICES ASSUME PresenceInit
               PROVE  TeamIInv
    OBVIOUS
  <2> USE DEF PresenceInit, TeamInit, HandlersInit, None
  <2>1. TeamTypes /\ PresenceTypes
    <3>1. 0 \in Nat /\ <<>> \in Seq(Nat)
      OBVIOUS
    <3> QED
      BY <3>1, TeamAssumption DEF TeamTypes, PresenceTypes, AllStages
  <2>2. Flags
    BY DEF Flags
  <2>3. StagesOK
    BY DEF StagesOK, AddStages
  <2>4. \A p \in Procs : QueryOK(p)
    BY DEF QueryOK
  <2> QED
    BY <2>1, <2>2, <2>3, <2>4 DEF TeamIInv
<1>2. TeamIInv /\ [PresenceNext]_presenceVars => TeamIInv'
  <2> SUFFICES ASSUME TeamIInv, [PresenceNext]_presenceVars
               PROVE  TeamIInv'
    OBVIOUS
  <2> USE DEF TeamIInv
  <2>1. TeamTypes'
    BY TeamTypesKept DEF PresenceTypes
  <2>2. Flags'
    BY FlagsKept
  <2>3. StagesOK'
    BY <2>1, StagesKept
  <2>4. PresenceTypes'
    BY PresenceTypesKept
  <2>5. \A p \in Procs : QueryOK(p)'
    BY QueriesKept
  <2> QED
    BY <2>1, <2>2, <2>3, <2>4, <2>5
<1> QED
  BY <1>1, <1>2, PTL DEF PresenceSpec

\* Types and stages of the team and of presence: a request that rebuilds the set
\* has members, and a query has candidates left only while it asks.
THEOREM PresenceTypesCorrect == PresenceSpec => []PresenceTypeOK
<1>1. TeamIInv => PresenceTypeOK
  <2> SUFFICES ASSUME TeamIInv
               PROVE  PresenceTypeOK
    OBVIOUS
  <2> USE DEF TeamIInv
  <2>1. TeamTypeOK
    BY DEF TeamTypes, Flags, StagesOK, TeamTypeOK
  <2>2. ASSUME NEW p \in Procs
        PROVE  /\ at[p] \in {"idle"} \cup AddStages \cup GetStages \cup PresenceStages
               /\ seen[p] \subseteq Users /\ steady[p] \subseteq seen[p]
               /\ unasked[p] \cup found[p] \subseteq ids[p] /\ unasked[p] \cap found[p] = {}
               /\ at[p] \notin {"exists", "srem", "online"} => seen[p] = {}
               /\ unasked[p] # {} => at[p] = "exists"
    <3>1. QueryOK(p)
      OBVIOUS
    <3> QED
      BY <3>1 DEF QueryOK, TeamTypes, AllStages, PresenceTypes
  <2> QED
    BY <2>1, <2>2 DEF PresenceTypeOK, PresenceTypes, Flags
<1> QED
  BY <1>1, TeamInvariant, PTL

\* GetOnlineMembers answers with everybody who was listed and online throughout,
\* and with nobody who was not online at some moment of the request.
THEOREM AnswersWhoIsOnline == PresenceSpec => []OnlineAnswer
<1>1. TeamIInv => OnlineAnswer
  BY DEF TeamIInv, QueryOK, OnlineAnswer
<1> QED
  BY <1>1, TeamInvariant, PTL

\* An alive user who is not in the set is about to be added, or was overtaken, or
\* came online in another team.
THEOREM OnlineListedCorrect == PresenceSpec => []OnlineListed
<1>1. PresenceInit => OnlineListed
  BY DEF PresenceInit, OnlineListed
<1>2. TeamIInv /\ OnlineListed /\ [PresenceNext]_presenceVars => OnlineListed'
  <2> SUFFICES ASSUME TeamTypes, PresenceTypes, OnlineListed, [PresenceNext]_presenceVars
               PROVE  OnlineListed'
    BY DEF TeamIInv
  <2> USE DEF TeamTypes, PresenceTypes
  \* A goroutine that is not at its SADD.
  <2>1. ASSUME NEW p \in Procs, at[p] # "saddOnline",
               \A q \in Procs \ {p} : at'[q] = at[q] /\ who'[q] = who[q],
               alive' \subseteq alive, online \subseteq online',
               UNCHANGED <<overtaken, strangers, faults>>
        PROVE  OnlineListed'
    BY <2>1 DEF OnlineListed
  <2>2. ASSUME faults' > 0
        PROVE  OnlineListed'
    BY <2>2 DEF OnlineListed
  <2>3. ASSUME NEW p \in Procs, TeamStep(p), UNCHANGED <<presence, listing>>
        PROVE  OnlineListed'
    <3>1. /\ at[p] # "saddOnline" /\ \A q \in Procs \ {p} : at'[q] = at[q] /\ who'[q] = who[q]
          /\ faults' = faults \/ faults' = faults + 1
      BY <2>3 DEF TeamStep, CreateTeam, AddMember, GetMembers, InsertMember, SAdd, ExpireMembers, LPush,
                  LTrim, ExpireActs, SMembers, Select, Refill, ExpireRefill, Answer, Fails, Fault,
                  ExpireSet, Begins, Idle, Ends, Trip, AddStages, GetStages
    <3> QED
      BY <2>1, <2>2, <2>3, <3>1 DEF presence, listing
  <2>4. ASSUME NEW p \in Procs, NEW u \in Users,
               Heartbeat(p, u) \/ GetOnlineMembers(p, u) \/ Exists(p, u)
        PROVE  OnlineListed'
    BY <2>1, <2>4 DEF Heartbeat, GetOnlineMembers, Exists, Begins, Trip, presence, listing,
                      notPresence
  <2>5. ASSUME NEW p \in Procs, ExpireOnline(p) \/ Candidates(p) \/ AnswerOnline(p)
        PROVE  OnlineListed'
    BY <2>1, <2>5 DEF ExpireOnline, Candidates, AnswerOnline, Idle, Ends, Trip, presence, listing,
                      notPresence
  <2>6. ASSUME NEW p \in Procs, SetEx(p)
        PROVE  OnlineListed'
    <3>1. /\ at[p] = "setex" /\ at'[p] = "saddOnline" /\ who' = who
          /\ \A q \in Procs \ {p} : at'[q] = at[q]
          /\ alive' = alive \cup {who[p]} /\ strangers' = strangers \ {who[p]}
          /\ UNCHANGED <<online, overtaken, faults>>
      BY <2>6 DEF SetEx, Trip, notPresence
    <3> QED
      BY <3>1 DEF OnlineListed
  <2>7. ASSUME NEW p \in Procs, SAddOnline(p)
        PROVE  OnlineListed'
    <3>1. /\ \A q \in Procs \ {p} : at'[q] = at[q]
          /\ online' = online \cup {who[p]} /\ overtaken' = overtaken \ {who[p]}
          /\ strangers' = strangers \ {who[p]} /\ UNCHANGED <<who, alive, faults>>
      BY <2>7 DEF SAddOnline, Trip, notPresence
    <3> QED
      BY <3>1 DEF OnlineListed
  <2>8. ASSUME NEW p \in Procs, SRem(p)
        PROVE  OnlineListed'
    <3>1. /\ at[p] = "srem" /\ \A q \in Procs \ {p} : at'[q] = at[q]
          /\ online' = online \ (ids[p] \ found[p])
          /\ overtaken' = overtaken \cup (alive \cap (ids[p] \ found[p]))
          /\ UNCHANGED <<who, alive, faults, strangers>>
      BY <2>8 DEF SRem, Trip, notPresence
    <3> QED
      BY <3>1 DEF OnlineListed
  <2>9. ASSUME NEW p \in Procs, PresenceFails(p)
        PROVE  OnlineListed'
    BY <2>2, <2>9 DEF PresenceFails, Fault
  <2>10. ASSUME NEW u \in Users, UserExpires(u)
         PROVE  OnlineListed'
    BY <2>10 DEF UserExpires, OnlineListed, request, notPresence
  <2>11. CASE OnlineExpires
    BY <2>11 DEF OnlineExpires, OnlineListed, request
  <2>12. ASSUME SetExpires \/ ActsExpire, UNCHANGED <<presence, listing>>
         PROVE  OnlineListed'
    BY <2>12 DEF SetExpires, ActsExpire, OnlineListed, presence, listing, request
  <2>13. CASE UNCHANGED presenceVars
    BY <2>13 DEF OnlineListed, presence, listing, request, presenceVars, teamVars
  <2>14. ASSUME NEW u \in Users, HeartbeatElsewhere(u)
         PROVE  OnlineListed'
    <3>1. /\ alive' = alive \cup {u} /\ strangers' = strangers \cup ({u} \ (alive \cup online))
          /\ UNCHANGED <<at, who, online, overtaken, faults>>
      BY <2>14 DEF HeartbeatElsewhere, request, notPresence
    <3> QED
      BY <3>1 DEF OnlineListed
  <2> QED
    BY <2>3, <2>4, <2>5, <2>6, <2>7, <2>8, <2>9, <2>10, <2>11, <2>12, <2>13, <2>14,
       PresenceSteps
    DEF OnlineNext, PresenceStep, TeamNext
<1> QED
  BY <1>1, <1>2, TeamInvariant, PTL DEF PresenceSpec

-----------------------------------------------------------------------------
(* The members.                                                             *)

\* Sets of goroutines: one leaves, or some.
LEMMA ProcsCounted ==
  ASSUME NEW S \in SUBSET Procs
  PROVE  /\ Cardinality(S) \in Nat /\ Cardinality(Procs) \in Nat
         /\ Cardinality(S) <= Cardinality(Procs)
         /\ \A T \in SUBSET S : Cardinality(T) \in Nat /\ Cardinality(T) <= Cardinality(S)
         /\ \A p \in S : Cardinality(S \ {p}) = Cardinality(S) - 1
         /\ \A p \in Procs \ S : Cardinality(S \cup {p}) = Cardinality(S) + 1
<1>1. IsFiniteSet(Procs) /\ IsFiniteSet(S) /\ Cardinality(S) <= Cardinality(Procs)
  BY HandlersAssumption, FS_Subset
<1>2. Cardinality(S) \in Nat /\ Cardinality(Procs) \in Nat
  BY <1>1, FS_CardinalityType
<1>3. ASSUME NEW T \in SUBSET S
      PROVE  Cardinality(T) \in Nat /\ Cardinality(T) <= Cardinality(S)
  BY <1>1, FS_Subset, FS_CardinalityType
<1>4. ASSUME NEW p \in S
      PROVE  Cardinality(S \ {p}) = Cardinality(S) - 1
  BY <1>1, FS_RemoveElement
<1>5. ASSUME NEW p \in Procs \ S
      PROVE  Cardinality(S \cup {p}) = Cardinality(S) + 1
  BY <1>1, FS_AddElement
<1> QED
  BY <1>1, <1>2, <1>3, <1>4, <1>5

\* The requests that are about to insert a row of u: each has its place.
Inserting(u) == {p \in Procs : at[p] = "member" /\ who[p] = u}

RowsIInv == \A u \in Users : rows[u] + Cardinality(Inserting(u)) <= Cardinality(Procs)

\* What a step may do to the rows and to those who insert them.
LEMMA RowsChange ==
  ASSUME TeamIInv, [PresenceNext]_presenceVars
  PROVE  \A u \in Users :
           \/ rows'[u] = rows[u] /\ Inserting(u)' \subseteq Inserting(u)
           \/ rows'[u] = 0
           \/ /\ rows'[u] = rows[u] + 1
              /\ \E p \in Inserting(u) : Inserting(u)' = Inserting(u) \ {p}
<1> SUFFICES ASSUME NEW u \in Users
             PROVE  \/ rows'[u] = rows[u] /\ Inserting(u)' \subseteq Inserting(u)
                    \/ rows'[u] = 0
                    \/ /\ rows'[u] = rows[u] + 1
                       /\ \E p \in Inserting(u) : Inserting(u)' = Inserting(u) \ {p}
  OBVIOUS
<1> USE DEF TeamIInv, TeamTypes
<1>0. ASSUME NEW p \in Procs, rows' = rows, at'[p] # "member",
             \A q \in Procs \ {p} : at'[q] = at[q] /\ who'[q] = who[q]
      PROVE  rows'[u] = rows[u] /\ Inserting(u)' \subseteq Inserting(u)
  BY <1>0 DEF Inserting
<1>1. ASSUME NEW p \in Procs, CreateTeam(p)
      PROVE  rows'[u] = 0
  BY <1>1 DEF CreateTeam, StagesOK
<1>2. ASSUME NEW p \in Procs, NEW v \in Users, AddMember(p, v), u = v
      PROVE  rows'[u] = 0
  BY <1>2 DEF AddMember, teamRows
<1>3. ASSUME NEW p \in Procs, NEW v \in Users, AddMember(p, v), u # v
      PROVE  rows'[u] = rows[u] /\ Inserting(u)' \subseteq Inserting(u)
  BY <1>3 DEF AddMember, Begins, Trip, teamRows, Inserting
<1>4. ASSUME NEW p \in Procs, InsertMember(p)
      PROVE  \/ rows'[u] = rows[u] /\ Inserting(u)' \subseteq Inserting(u)
             \/ /\ rows'[u] = rows[u] + 1
                /\ \E q \in Inserting(u) : Inserting(u)' = Inserting(u) \ {q}
  <2>1. /\ at[p] = "member" /\ at' = [at EXCEPT ![p] = "sadd"] /\ who' = who
        /\ rows' = [rows EXCEPT ![who[p]] = @ + 1]
    BY <1>4 DEF InsertMember, Trip
  <2>2. CASE who[p] = u
    <3>1. p \in Inserting(u) /\ Inserting(u)' = Inserting(u) \ {p}
      BY <2>1, <2>2 DEF Inserting
    <3> QED
      BY <2>1, <2>2, <3>1
  <2>3. CASE who[p] # u
    BY <2>1, <2>3 DEF Inserting
  <2> QED
    BY <2>2, <2>3
<1>5. ASSUME NEW p \in Procs, TeamStep(p), ~ CreateTeam(p), ~ InsertMember(p),
             \A v \in Users : ~ AddMember(p, v)
      PROVE  rows'[u] = rows[u] /\ Inserting(u)' \subseteq Inserting(u)
  <2>1. /\ rows' = rows /\ at'[p] # "member"
        /\ \A q \in Procs \ {p} : at'[q] = at[q] /\ who'[q] = who[q]
    BY <1>5 DEF TeamStep, GetMembers, SAdd, ExpireMembers, LPush, LTrim, ExpireActs, SMembers, Select,
                Refill, ExpireRefill, Answer, Fails, ExpireSet, Begins, Idle, Ends, Trip, teamRows
  <2> QED
    BY <1>0, <2>1
<1>6. CASE OnlineNext
  <2>1. rows' = rows
    BY <1>6, PresenceApart DEF teamRows
  <2>2. \/ UNCHANGED <<at, who>>
        \/ \E p \in Procs : /\ at'[p] # "member"
                            /\ \A q \in Procs \ {p} : at'[q] = at[q] /\ who'[q] = who[q]
    BY <1>6, PresenceApart DEF Begins, Idle, Ends, Trip, PresenceStages
  <2> QED
    BY <1>0, <2>1, <2>2 DEF Inserting
<1>7. CASE SetExpires \/ ActsExpire \/ UNCHANGED presenceVars
  BY <1>7 DEF SetExpires, ActsExpire, teamRows, request, presenceVars, teamVars, Inserting
<1> QED
  BY <1>1, <1>2, <1>3, <1>4, <1>5, <1>6, <1>7, PresenceSteps DEF TeamNext

\* Racing AddMember requests store a user at most once per goroutine.
THEOREM RowsBoundedCorrect == PresenceSpec => []RowsBounded
<1>1. PresenceInit => RowsIInv
  <2> SUFFICES ASSUME PresenceInit, NEW u \in Users
               PROVE  rows[u] + Cardinality(Inserting(u)) <= Cardinality(Procs)
    BY DEF RowsIInv
  <2>1. Inserting(u) \in SUBSET Procs /\ rows[u] = 0
    BY DEF Inserting, PresenceInit, TeamInit
  <2> QED
    BY <2>1, ProcsCounted
<1>2. TeamIInv /\ RowsIInv /\ [PresenceNext]_presenceVars => RowsIInv'
  <2> SUFFICES ASSUME TeamIInv, RowsIInv, [PresenceNext]_presenceVars, NEW u \in Users
               PROVE  rows'[u] + Cardinality(Inserting(u)') <= Cardinality(Procs)
    BY DEF RowsIInv
  <2>1. /\ rows[u] \in Nat /\ rows[u] + Cardinality(Inserting(u)) <= Cardinality(Procs)
        /\ Inserting(u) \in SUBSET Procs /\ Inserting(u)' \in SUBSET Procs
    BY DEF TeamIInv, TeamTypes, RowsIInv, Inserting
  <2>2. CASE rows'[u] = rows[u] /\ Inserting(u)' \subseteq Inserting(u)
    BY <2>1, <2>2, ProcsCounted
  <2>3. CASE rows'[u] = 0
    BY <2>1, <2>3, ProcsCounted
  <2>4. ASSUME rows'[u] = rows[u] + 1,
               NEW p \in Inserting(u), Inserting(u)' = Inserting(u) \ {p}
        PROVE  rows'[u] + Cardinality(Inserting(u)') <= Cardinality(Procs)
    BY <2>1, <2>4, ProcsCounted
  <2> QED
    BY <2>2, <2>3, <2>4, RowsChange
<1>3. TeamIInv /\ RowsIInv => RowsBounded
  <2> SUFFICES ASSUME TeamIInv, RowsIInv, NEW u \in Users
               PROVE  rows[u] <= Cardinality(Procs)
    BY DEF RowsBounded
  <2>1. /\ rows[u] \in Nat /\ rows[u] + Cardinality(Inserting(u)) <= Cardinality(Procs)
        /\ Inserting(u) \in SUBSET Procs
    BY DEF TeamIInv, TeamTypes, RowsIInv, Inserting
  <2> QED
    BY <2>1, ProcsCounted
<1> QED
  BY <1>1, <1>2, <1>3, TeamInvariant, PTL DEF PresenceSpec

\* Without an incident the set has all settled members; a request whose SMEMBERS
\* found none need not show any, and the others have read what they must show.
Answered(p) ==
  /\ at[p] = "smembers" => settled[p] \subseteq set
  /\ at[p] \in {"select", "refill", "expireRefill"} => settled[p] = {}
  /\ at[p] = "users" => settled[p] \subseteq ids[p]

SetIInv ==
  faults = 0 /\ expiries = 0 => Settled \subseteq set /\ \A p \in Procs : Answered(p)

\* Steps that take no member from the set and settle none.
LEMMA SetUntouched ==
  ASSUME SetIInv, NEW p \in Procs, UNCHANGED <<rows, faults, expiries>>, set \subseteq set',
         at[p] \in {"member", "sadd"} =>
            (at'[p] \in {"member", "sadd"} /\ who'[p] = who[p]) \/ who[p] \in set',
         \A q \in Procs \ {p} :
            at'[q] = at[q] /\ who'[q] = who[q] /\ ids'[q] = ids[q] /\ settled'[q] = settled[q],
         faults = 0 /\ expiries = 0 => Answered(p)'
  PROVE  SetIInv'
<1> SUFFICES ASSUME faults = 0, expiries = 0
             PROVE  Settled' \subseteq set' /\ \A q \in Procs : Answered(q)'
  BY DEF SetIInv
<1>1. Settled \subseteq set /\ \A q \in Procs : Answered(q)
  BY DEF SetIInv
<1>2. Settled' \subseteq set'
  BY <1>1 DEF Settled, Members
<1>3. \A q \in Procs \ {p} : Answered(q)'
  BY <1>1 DEF Answered
<1> QED
  BY <1>2, <1>3

LEMMA SetKept ==
  ASSUME TeamIInv, SetIInv, [PresenceNext]_presenceVars
  PROVE  SetIInv'
<1> USE DEF TeamIInv, TeamTypes
<1>1. faults' > 0 \/ expiries' > 0 => SetIInv'
  BY DEF SetIInv
\* A goroutine that is not in GetMembers afterwards, nor adding before.
<1>2. ASSUME NEW p \in Procs, UNCHANGED <<rows, set, faults, expiries>>,
             at[p] \notin {"member", "sadd"}, at'[p] \notin GetStages,
             \A q \in Procs \ {p} :
               at'[q] = at[q] /\ who'[q] = who[q] /\ ids'[q] = ids[q] /\ settled'[q] = settled[q]
      PROVE  SetIInv'
  BY <1>2, SetUntouched DEF Answered, GetStages
<1>3. ASSUME NEW p \in Procs, TeamStep(p)
      PROVE  SetIInv'
  <2>1. ASSUME NEW u \in Users, CreateTeam(p) \/ AddMember(p, u)
        PROVE  SetIInv'
    BY <1>2, <2>1 DEF CreateTeam, AddMember, Begins, Trip, teamRows, members, GetStages
  <2>2. CASE InsertMember(p)
    <3>1. /\ at[p] = "member" /\ at'[p] = "sadd" /\ UNCHANGED <<who, ids, settled, set>>
          /\ \A q \in Procs \ {p} : at'[q] = at[q]
          /\ rows' = [rows EXCEPT ![who[p]] = @ + 1] /\ UNCHANGED <<faults, expiries>>
      BY <2>2 DEF InsertMember, Trip, members
    <3>2. Settled' \subseteq Settled
      BY <3>1 DEF Settled, Members
    <3>3. \A q \in Procs : Answered(q) => Answered(q)'
      BY <3>1 DEF Answered
    <3> QED
      BY <3>1, <3>2, <3>3 DEF SetIInv
  <2>3. CASE SAdd(p)
    BY <2>3, SetUntouched DEF SAdd, Trip, teamRows, Answered
  <2>4. CASE ExpireMembers(p) \/ LPush(p) \/ LTrim(p) \/ ExpireActs(p)
    <3>1. /\ at[p] \notin {"member", "sadd"} /\ at'[p] \notin GetStages
          /\ UNCHANGED <<rows, set, faults, expiries>>
          /\ \A q \in Procs \ {p} :
               at'[q] = at[q] /\ who'[q] = who[q] /\ ids'[q] = ids[q] /\ settled'[q] = settled[q]
      BY <2>4 DEF ExpireMembers, LPush, LTrim, ExpireActs, ExpireSet, Idle, Ends, Trip, teamRows, members,
                  GetStages
    <3> QED
      BY <1>2, <3>1
  <2>5. ASSUME NEW u \in Users, GetMembers(p, u)
        PROVE  SetIInv'
    <3>1. /\ at[p] = "idle" /\ at'[p] = "smembers" /\ settled'[p] = Settled
          /\ UNCHANGED <<rows, set, ids, faults, expiries>>
          /\ \A q \in Procs \ {p} : at'[q] = at[q] /\ who'[q] = who[q] /\ settled'[q] = settled[q]
      BY <2>5 DEF GetMembers, Begins, Trip, teamRows, members
    <3>2. faults = 0 /\ expiries = 0 => Answered(p)'
      BY <3>1 DEF SetIInv, Answered
    <3> QED
      BY <3>1, <3>2, SetUntouched
  <2>6. CASE SMembers(p)
    <3>1. /\ at[p] = "smembers" /\ at'[p] = (IF set = {} THEN "select" ELSE "users")
          /\ ids'[p] = set /\ UNCHANGED <<rows, set, who, settled, faults, expiries>>
          /\ \A q \in Procs \ {p} : at'[q] = at[q] /\ ids'[q] = ids[q]
      BY <2>6 DEF SMembers, Trip, teamRows, members
    <3>2. faults = 0 /\ expiries = 0 => settled[p] \subseteq set
      BY <3>1 DEF SetIInv, Answered
    <3>3. faults = 0 /\ expiries = 0 => Answered(p)'
      BY <3>1, <3>2 DEF Answered
    <3> QED
      BY <3>1, <3>3, SetUntouched
  <2>7. CASE Select(p) \/ Refill(p) \/ ExpireRefill(p)
    <3>1. /\ at[p] \in {"select", "refill", "expireRefill"}
          /\ at'[p] \in {"refill", "expireRefill", "users"}
          /\ set \subseteq set' /\ UNCHANGED <<rows, who, settled, faults, expiries>>
          /\ \A q \in Procs \ {p} : at'[q] = at[q] /\ ids'[q] = ids[q]
      BY <2>7 DEF Select, Refill, ExpireRefill, ExpireSet, Trip, teamRows, members
    <3>2. faults = 0 /\ expiries = 0 => settled'[p] = {}
      BY <3>1 DEF SetIInv, Answered
    <3>3. faults = 0 /\ expiries = 0 => Answered(p)'
      BY <3>1, <3>2 DEF Answered
    <3> QED
      BY <3>1, <3>3, SetUntouched
  <2>8. CASE Answer(p)
    BY <1>2, <2>8 DEF Answer, Idle, Ends, teamRows, members, GetStages
  <2>9. CASE Fails(p)
    BY <1>1, <2>9 DEF Fails, Fault
  <2> QED
    BY <1>3, <2>1, <2>2, <2>3, <2>4, <2>5, <2>6, <2>7, <2>8, <2>9 DEF TeamStep
<1>4. CASE OnlineNext
  <2>1. /\ UNCHANGED <<rows, set>>
        /\ faults' = faults \/ faults' > 0
        /\ expiries' = expiries \/ expiries' > 0
    BY <1>4, PresenceApart DEF teamRows, members
  <2>2. CASE UNCHANGED <<at, who, ids, settled, faults, expiries>>
    BY <2>1, <2>2 DEF SetIInv, Answered, Settled, Members
  <2>3. ASSUME NEW p \in Procs, UNCHANGED <<faults, expiries>>,
               at[p] \notin {"member", "sadd"}, at'[p] \notin GetStages,
               \A q \in Procs \ {p} :
                 at'[q] = at[q] /\ who'[q] = who[q] /\ ids'[q] = ids[q] /\ settled'[q] = settled[q]
        PROVE  SetIInv'
    BY <1>2, <2>1, <2>3
  <2>4. \/ UNCHANGED <<at, who, ids, settled>>
        \/ \E p \in Procs :
             /\ at[p] \notin {"member", "sadd"} /\ at'[p] \notin GetStages
             /\ \A q \in Procs \ {p} :
                  at'[q] = at[q] /\ who'[q] = who[q] /\ ids'[q] = ids[q] /\ settled'[q] = settled[q]
    BY <1>4, PresenceApart DEF Begins, Idle, Ends, Trip, PresenceStages, GetStages
  <2> QED
    BY <1>1, <2>1, <2>2, <2>3, <2>4
<1>5. CASE SetExpires \/ ActsExpire
  BY <1>1, <1>5 DEF SetExpires, ActsExpire, KeyExpires
<1>6. CASE UNCHANGED presenceVars
  BY <1>6 DEF presenceVars, teamVars, teamRows, members, request, SetIInv, Answered, Settled, Members
<1> QED
  BY <1>3, <1>4, <1>5, <1>6, PresenceSteps DEF TeamNext

\* As long as nothing fails and no key expires, GetMembers shows every member
\* whose AddMember was over when the request began.
THEOREM AnswersCompleteCorrect == PresenceSpec => []AnswersComplete
<1>1. PresenceInit => SetIInv
  BY DEF PresenceInit, TeamInit, HandlersInit, SetIInv, Answered, Settled, Members
<1>2. TeamIInv /\ SetIInv /\ [PresenceNext]_presenceVars => SetIInv'
  BY SetKept
<1>3. SetIInv => AnswersComplete
  BY DEF SetIInv, Answered, AnswersComplete
<1> QED
  BY <1>1, <1>2, <1>3, TeamInvariant, PTL DEF PresenceSpec

-----------------------------------------------------------------------------
(* The activities.                                                          *)

\* The requests that have not trimmed the list yet.
Trimming == {p \in Procs : at[p] = "ltrim"}

LEMMA ActivitiesKept ==
  ASSUME TeamIInv, ActivitiesNewest, [PresenceNext]_presenceVars
  PROVE  ActivitiesNewest'
<1> USE DEF TeamIInv, TeamTypes, ActivitiesNewest
<1>0. /\ Trimming \in SUBSET Procs /\ Cardinality(Trimming) \in Nat
      /\ Len(acts) <= ActivityMax + faults + Cardinality(Trimming)
      /\ ActivityMax \in Nat \ {0} /\ Len(acts) \in Nat
  BY ProcsCounted, TeamAssumption DEF Trimming
<1>1. ASSUME UNCHANGED <<acts, pushed, forgotten>>, faults' \in Nat,
             \/ Trimming' = Trimming /\ faults' >= faults
             \/ faults' = faults + 1 /\ \E p \in Procs : Trimming' = Trimming \ {p}
      PROVE  ActivitiesNewest'
  <2>1. CASE Trimming' = Trimming /\ faults' >= faults
    <3>1. Len(acts) <= ActivityMax + faults' + Cardinality(Trimming')
      <4>1. Cardinality(Trimming') = Cardinality(Trimming)
        BY <2>1
      <4> QED
        BY <1>0, <1>1, <2>1, <4>1
    <3> QED
      BY <1>1, <3>1 DEF Trimming
  <2>2. ASSUME faults' = faults + 1, NEW p \in Procs, Trimming' = Trimming \ {p}
        PROVE  ActivitiesNewest'
    <3>1. /\ Cardinality(Trimming') \in Nat /\ Cardinality(Trimming') >= Cardinality(Trimming) - 1
      <4>1. CASE p \in Trimming
        <5>1. Cardinality(Trimming \ {p}) = Cardinality(Trimming) - 1
          BY <1>0, <4>1, ProcsCounted
        <5>2. Trimming \ {p} \in SUBSET Procs
          BY <1>0
        <5>3. Cardinality(Trimming \ {p}) \in Nat
          BY <5>2, ProcsCounted
        <5> QED
          BY <1>0, <2>2, <5>1, <5>3
      <4>2. CASE p \notin Trimming
        <5>1. Trimming' = Trimming
          BY <2>2, <4>2
        <5> QED
          BY <1>0, <5>1
      <4> QED
        BY <4>1, <4>2
    <3>2. Len(acts) <= ActivityMax + faults' + Cardinality(Trimming')
      BY <1>0, <2>2, <3>1
    <3> QED
      BY <1>1, <3>2 DEF Trimming
  <2> QED
    BY <1>1, <2>1, <2>2
<1>2. ASSUME NEW p \in Procs, LPush(p)
      PROVE  ActivitiesNewest'
  <2>1. /\ at[p] = "lpush" /\ at' = [at EXCEPT ![p] = "ltrim"] /\ pushed' = pushed + 1
        /\ acts' = <<pushed + 1>> \o acts /\ UNCHANGED <<forgotten, faults>>
    BY <1>2 DEF LPush, Trip
  <2>2. Trimming' = Trimming \cup {p} /\ p \notin Trimming
    BY <2>1 DEF Trimming
  <2>3. Cardinality(Trimming') = Cardinality(Trimming) + 1
    BY <1>0, <2>2, ProcsCounted
  <2>4. /\ Len(acts') = Len(acts) + 1 /\ DOMAIN acts' = 1..(Len(acts) + 1)
        /\ \A i \in 1..(Len(acts) + 1) : acts'[i] = IF i = 1 THEN pushed + 1 ELSE acts[i - 1]
    BY <2>1
  <2>5. ASSUME NEW i \in DOMAIN acts'
        PROVE  acts'[i] = pushed' - i + 1
    <3>1. CASE i = 1
      BY <2>1, <2>4, <3>1
    <3>2. CASE i # 1
      <4>1. i - 1 \in DOMAIN acts /\ i \in Int
        BY <2>4, <3>2
      <4>2. acts[i - 1] = pushed - (i - 1) + 1
        BY <4>1
      <4> QED
        BY <2>1, <2>4, <3>2, <4>1, <4>2
    <3> QED
      BY <3>1, <3>2
  <2>6. Len(acts') >= pushed' - forgotten' \/ Len(acts') >= ActivityMax
    BY <1>0, <2>1, <2>4
  <2>7. Len(acts') <= ActivityMax + faults' + Cardinality(Trimming')
    BY <1>0, <2>1, <2>3, <2>4
  <2> QED
    BY <2>5, <2>6, <2>7, TeamAssumption DEF Trimming
<1>3. ASSUME NEW p \in Procs, LTrim(p)
      PROVE  ActivitiesNewest'
  <2>1. /\ at[p] = "ltrim" /\ at' = [at EXCEPT ![p] = "lexpire"]
        /\ acts' = (IF Len(acts) > ActivityMax THEN SubSeq(acts, 1, ActivityMax) ELSE acts)
        /\ UNCHANGED <<pushed, forgotten, faults>>
    BY <1>3 DEF LTrim, Trip
  <2>2. Trimming' \in SUBSET Procs /\ Cardinality(Trimming') \in Nat
    BY ProcsCounted DEF Trimming
  <2>3. CASE Len(acts) > ActivityMax
    <3>1. /\ Len(acts') = ActivityMax /\ DOMAIN acts' = 1..ActivityMax
          /\ \A i \in 1..ActivityMax : acts'[i] = acts[i]
      BY <1>0, <2>1, <2>3
    <3>2. \A i \in DOMAIN acts' : i \in DOMAIN acts /\ acts'[i] = pushed' - i + 1
      BY <1>0, <2>1, <2>3, <3>1
    <3>3. Len(acts') <= ActivityMax + faults' + Cardinality(Trimming')
      BY <1>0, <2>1, <2>2, <3>1
    <3> QED
      BY <1>0, <3>1, <3>2, <3>3, TeamAssumption DEF Trimming
  <2>4. CASE Len(acts) <= ActivityMax
    <3>1. acts' = acts
      BY <1>0, <2>1, <2>4
    <3>2. Len(acts') <= ActivityMax + faults' + Cardinality(Trimming')
      BY <1>0, <2>1, <2>2, <2>4, <3>1
    <3> QED
      BY <2>1, <3>1, <3>2 DEF Trimming
  <2> QED
    BY <1>0, <2>3, <2>4
<1>4. ASSUME NEW p \in Procs, TeamStep(p), ~ LPush(p), ~ LTrim(p)
      PROVE  ActivitiesNewest'
  <2>1. CASE Fails(p)
    <3>1. /\ UNCHANGED <<acts, pushed, forgotten>> /\ faults' = faults + 1
          /\ at' = [at EXCEPT ![p] = "idle"]
      BY <2>1 DEF Fails, Fault, Idle, Ends, activity
    <3>2. Trimming' = Trimming \ {p}
      BY <3>1 DEF Trimming
    <3> QED
      BY <1>1, <3>1, <3>2
  <2>2. CASE ~ Fails(p)
    <3>1. /\ UNCHANGED <<acts, pushed, forgotten, faults>>
          /\ at[p] # "ltrim" /\ at'[p] # "ltrim" /\ \A q \in Procs \ {p} : at'[q] = at[q]
      BY <1>4, <2>2 DEF TeamStep, CreateTeam, AddMember, GetMembers, InsertMember, SAdd, ExpireMembers,
                        ExpireActs, SMembers, Select, Refill, ExpireRefill, Answer, ExpireSet,
                        Begins, Idle, Ends, Trip, activity
    <3>2. Trimming' = Trimming
      BY <3>1 DEF Trimming
    <3> QED
      BY <1>1, <3>1, <3>2
  <2> QED
    BY <2>1, <2>2
<1>5. CASE OnlineNext
  <2>1. /\ UNCHANGED <<acts, pushed, forgotten>>
        /\ faults' = faults \/ faults' = faults + 1
    BY <1>5, PresenceApart DEF activity
  <2>2. \/ UNCHANGED at
        \/ \E p \in Procs : at[p] # "ltrim" /\ at'[p] # "ltrim" /\ \A q \in Procs \ {p} : at'[q] = at[q]
    BY <1>5, PresenceApart DEF Begins, Idle, Ends, Trip, PresenceStages
  <2>3. Trimming' = Trimming
    BY <2>2 DEF Trimming
  <2> QED
    BY <1>1, <2>1, <2>3
<1>6. CASE ActsExpire
  <2>1. acts' = <<>> /\ forgotten' = pushed /\ UNCHANGED <<pushed, faults, at>>
    BY <1>6 DEF ActsExpire, request
  <2>2. 0 <= ActivityMax + faults + Cardinality(Trimming) /\ pushed - pushed = 0
    BY <1>0
  <2> QED
    BY <2>1, <2>2 DEF Trimming
<1>7. CASE SetExpires \/ UNCHANGED presenceVars
  <2>1. UNCHANGED <<acts, pushed, forgotten, faults, at>>
    BY <1>7 DEF SetExpires, activity, request, presenceVars, teamVars
  <2> QED
    BY <1>1, <2>1 DEF Trimming
<1> QED
  BY <1>2, <1>3, <1>4, <1>5, <1>6, <1>7, PresenceSteps DEF TeamNext

\* The list has the newest activities, without a gap, and at least ActivityMax of
\* them unless there were fewer; and more only while a request has yet to trim.
THEOREM ActivitiesNewestCorrect == PresenceSpec => []ActivitiesNewest
<1>1. PresenceInit => ActivitiesNewest
  <2> SUFFICES ASSUME PresenceInit
               PROVE  ActivitiesNewest
    OBVIOUS
  <2>1. /\ acts = <<>> /\ pushed = 0 /\ forgotten = 0 /\ faults = 0
        /\ Trimming \in SUBSET Procs
    BY DEF PresenceInit, TeamInit, Trimming
  <2>2. Cardinality(Trimming) \in Nat /\ ActivityMax \in Nat
    BY <2>1, ProcsCounted, TeamAssumption
  <2> QED
    BY <2>1, <2>2 DEF ActivitiesNewest, Trimming
<1>2. TeamIInv /\ ActivitiesNewest /\ [PresenceNext]_presenceVars => ActivitiesNewest'
  BY ActivitiesKept
<1> QED
  BY <1>1, <1>2, TeamInvariant, PTL DEF PresenceSpec
=============================================================================
