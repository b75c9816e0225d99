----------------------------- MODULE Presence -----------------------------
(***************************************************************************)
(* The presence of internal/logic/presence for the team of TeamMembers:    *)
(* the keys presence:user:{id}, each with a TTL of 60 s, the set           *)
(* presence:team:{id} of those seen lately, Heartbeat and GetOnlineMembers. *)
(* The goroutines are those of TeamMembers, and so is the membership that  *)
(* both operations check.                                                  *)
(*                                                                         *)
(* A team has a set of its own, but a user has one key for all its teams:  *)
(* of a heartbeat to another team this team's state sees the SETEX, which  *)
(* is HeartbeatElsewhere.                                                  *)
(***************************************************************************)
EXTENDS TeamMembers

VARIABLES
  alive,        \* the users whose presence:user key exists
  online, onlineTTL,   \* presence:team:{id}, and whether it has a TTL
  unasked,      \* unasked[p]: the candidates p has not asked about yet
  found,        \* found[p]: the users whose EXISTS answered 1 to p
  steady,       \* history: steady[p]: users listed and alive ever since p's SMEMBERS
  seen,         \* history: seen[p]: users alive at some time since then
  overtaken,    \* history: users whose heartbeat came between another request's
                \* EXISTS and SREM, or whose set expired while they were alive
  renewed,      \* history: users whose key a heartbeat to another team has set, and
                \* none here since
  strangers     \* history: those of them who came online by it, while the set here
                \* did not list them

presence     == <<alive, online, onlineTTL>>
query        == <<unasked, found, steady, seen>>
listing      == <<overtaken, renewed, strangers>>
presenceVars == <<teamVars, presence, query, listing>>

PresenceStages == {"setex", "saddOnline", "expireOnline", "candidates", "exists",
                   "srem", "online"}

\* A request has candidates left only while it asks.
PresenceTypeOK ==
  /\ TeamTypeOK
  /\ alive \subseteq Users /\ online \subseteq Users /\ onlineTTL \in BOOLEAN
  /\ \A p \in Procs :
       /\ at[p] \in {"idle"} \cup AddStages \cup GetStages \cup PresenceStages
       /\ seen[p] \subseteq Users /\ steady[p] \subseteq seen[p]
       /\ unasked[p] \cup found[p] \subseteq ids[p] /\ unasked[p] \cap found[p] = {}
       /\ at[p] \notin {"exists", "srem", "online"} => seen[p] = {}
       /\ unasked[p] # {} => at[p] = "exists"
  /\ overtaken \subseteq Users /\ strangers \subseteq renewed /\ renewed \subseteq alive

None == [p \in Procs |-> {}]

PresenceInit ==
  /\ TeamInit
  /\ alive = {} /\ online = {} /\ onlineTTL = FALSE
  /\ unasked = None /\ found = None /\ steady = None /\ seen = None
  /\ overtaken = {} /\ renewed = {} /\ strangers = {}

notPresence == <<teamRows, members, activity, expiries, faults>>

-----------------------------------------------------------------------------
(* Heartbeat.                                                               *)

\* The COUNT finds u in the team.
Heartbeat(p, u) ==
  /\ rows[u] > 0
  /\ Begins(p, u, "setex")
  /\ UNCHANGED <<notPresence, ids, settled, presence, query, listing>>

\* The requests that look at who is online.
Looking == {p \in Procs : at[p] \in {"exists", "srem"}}

Sees(u) == seen' = [q \in Procs |-> IF q \in Looking THEN seen[q] \cup {u} ELSE seen[q]]

SetEx(p) ==
  /\ Trip(p, "setex", "saddOnline")
  /\ alive' = alive \cup {who[p]}
  /\ Sees(who[p])
  /\ renewed' = renewed \ {who[p]} /\ strangers' = strangers \ {who[p]}
  /\ UNCHANGED <<notPresence, who, ids, settled, online, onlineTTL, unasked, found, steady,
                 overtaken>>

\* The SETEX of a heartbeat to another team of u, whose other steps are about that
\* team's set.
HeartbeatElsewhere(u) ==
  /\ alive' = alive \cup {u}
  /\ Sees(u)
  /\ renewed' = renewed \cup {u}
  /\ strangers' = strangers \cup ({u} \ (alive \cup online))
  /\ UNCHANGED <<notPresence, request, online, onlineTTL, unasked, found, steady, overtaken>>

SAddOnline(p) ==
  /\ Trip(p, "saddOnline", "expireOnline")
  /\ online' = online \cup {who[p]}
  /\ overtaken' = overtaken \ {who[p]}
  /\ strangers' = strangers \ {who[p]}
  /\ UNCHANGED <<notPresence, who, ids, settled, alive, onlineTTL, query, renewed>>

ExpireOnline(p) ==
  /\ at[p] = "expireOnline"
  /\ Idle(p)
  /\ onlineTTL' = (online # {})
  /\ UNCHANGED <<notPresence, alive, online, query, listing>>

-----------------------------------------------------------------------------
(* GetOnlineMembers.                                                        *)

\* The COUNT finds u, who does not matter any more, in the team.
GetOnlineMembers(p, u) ==
  /\ rows[u] > 0
  /\ Trip(p, "idle", "candidates")
  /\ UNCHANGED <<notPresence, who, ids, settled, presence, query, listing>>

\* SMEMBERS: those to ask about; if there are none, that is the answer.
Candidates(p) ==
  /\ Trip(p, "candidates", IF online = {} THEN "online" ELSE "exists")
  /\ ids' = [ids EXCEPT ![p] = online]
  /\ unasked' = [unasked EXCEPT ![p] = online]
  /\ steady' = [steady EXCEPT ![p] = online \cap alive]
  /\ seen' = [seen EXCEPT ![p] = alive]
  /\ UNCHANGED <<notPresence, who, settled, presence, found, listing>>

\* The set is believed.
ExistsInSet(p, u) ==
  /\ at[p] = "exists" /\ u \in unasked[p]
  /\ found' = [found EXCEPT ![p] = IF u \in online THEN @ \cup {u} ELSE @]
  /\ unasked' = [unasked EXCEPT ![p] = @ \ {u}]
  /\ at' = [at EXCEPT ![p] = IF unasked'[p] # {} THEN "exists" ELSE "online"]
  /\ UNCHANGED <<notPresence, who, ids, settled, presence, steady, seen, listing>>

\* One EXISTS of the pipeline, between which other clients' commands may run.
Exists(p, u) ==
  /\ at[p] = "exists" /\ u \in unasked[p]
  /\ found' = [found EXCEPT ![p] = IF u \in alive THEN @ \cup {u} ELSE @]
  /\ unasked' = [unasked EXCEPT ![p] = @ \ {u}]
  /\ at' = [at EXCEPT ![p] = IF unasked'[p] # {} THEN "exists"
                             ELSE IF ids[p] = found'[p] THEN "online" ELSE "srem"]
  /\ UNCHANGED <<notPresence, who, ids, settled, presence, steady, seen, listing>>

\* SREM of all candidates.
SRemAll(p) ==
  /\ Trip(p, "srem", "online")
  /\ online' = online \ ids[p]
  /\ overtaken' = overtaken \cup (alive \cap (ids[p] \ found[p]))
  /\ onlineTTL' = (onlineTTL /\ online' # {})
  /\ UNCHANGED <<notPresence, who, ids, settled, alive, query, renewed, strangers>>

\* SREM of the candidates that did not exist when they were asked for.
SRem(p) ==
  /\ Trip(p, "srem", "online")
  /\ online' = online \ (ids[p] \ found[p])
  /\ overtaken' = overtaken \cup (alive \cap (ids[p] \ found[p]))
  /\ onlineTTL' = (onlineTTL /\ online' # {})
  /\ UNCHANGED <<notPresence, who, ids, settled, alive, query, renewed, strangers>>

\* p forgets what it found.
Forget(p) ==
  /\ found' = [found EXCEPT ![p] = {}]
  /\ unasked' = [unasked EXCEPT ![p] = {}]
  /\ steady' = [steady EXCEPT ![p] = {}]
  /\ seen' = [seen EXCEPT ![p] = {}]

\* The candidates outlive the request.
AnswerOnlineKept(p) ==
  /\ at[p] = "online"
  /\ Idle(p)
  /\ UNCHANGED <<notPresence, presence, query, listing>>

\* The users in found are the answer.
AnswerOnline(p) ==
  /\ at[p] = "online"
  /\ Idle(p)
  /\ Forget(p)
  /\ UNCHANGED <<notPresence, presence, listing>>

-----------------------------------------------------------------------------
\* As Fails of TeamMembers.
PresenceFails(p) ==
  /\ at[p] \in PresenceStages
  /\ Fault
  /\ Idle(p)
  /\ Forget(p)
  /\ UNCHANGED <<teamRows, members, activity, expiries, presence, listing>>

\* No heartbeat to any team for 60 s.
UserExpires(u) ==
  /\ u \in alive
  /\ alive' = alive \ {u}
  /\ steady' = [p \in Procs |-> steady[p] \ {u}]
  /\ overtaken' = overtaken \ {u}
  /\ renewed' = renewed \ {u} /\ strangers' = strangers \ {u}
  /\ UNCHANGED <<notPresence, request, online, onlineTTL, found, unasked, seen>>

\* No EXPIRE for an hour.  The SETEX here of a user who is still alive, and whom no
\* other team renewed, is less than a minute old, so that its heartbeat has not
\* come to its EXPIRE.
OnlineExpires ==
  /\ onlineTTL
  /\ \A u \in alive \ renewed :
       faults > 0 \/ \E p \in Procs : at[p] \in {"saddOnline", "expireOnline"} /\ who[p] = u
  /\ KeyExpires
  /\ online' = {} /\ onlineTTL' = FALSE
  /\ steady' = None
  /\ overtaken' = overtaken \cup (online \cap alive)
  /\ UNCHANGED <<teamRows, members, activity, request, faults, alive, found, unasked, seen,
                 renewed, strangers>>

PresenceStep(p) ==
  \/ \E u \in Users : Heartbeat(p, u) \/ GetOnlineMembers(p, u) \/ Exists(p, u)
  \/ SetEx(p) \/ SAddOnline(p) \/ ExpireOnline(p)
  \/ Candidates(p) \/ SRem(p) \/ AnswerOnline(p)
  \/ PresenceFails(p)

OnlineNext ==
  \/ \E p \in Procs : PresenceStep(p)
  \/ \E u \in Users : HeartbeatElsewhere(u) \/ UserExpires(u)
  \/ OnlineExpires

\* A goroutine that is idle serves either component.
PresenceNext ==
  \/ OnlineNext
  \/ TeamNext /\ UNCHANGED <<presence, query, listing>>

PresenceSpec == PresenceInit /\ [][PresenceNext]_presenceVars

-----------------------------------------------------------------------------
(* Properties                                                               *)

\* GetOnlineMembers answers with everybody who was listed and online all the
\* time, and only with users who were online at some moment of the request,
\* whatever the other requests remove or add between its round trips.
OnlineAnswer ==
  \A p \in Procs :
    at[p] = "online" => steady[p] \subseteq found[p] /\ found[p] \subseteq seen[p]

\* The hazard of the late SREM: an online user is missing from the set only until
\* its heartbeat's SADD, or when another request's SREM, decided before that
\* heartbeat, or the set's TTL overtook it, or because it came online in another
\* team and has not been listed here since.  It lasts until the next heartbeat to
\* this team or the end of the user's key.
OnlineListed ==
  \A u \in alive \ online :
    \/ u \in overtaken \cup strangers \/ faults > 0
    \/ \E p \in Procs : at[p] = "saddOnline" /\ who[p] = u
=============================================================================
