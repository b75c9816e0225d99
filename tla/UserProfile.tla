---------------------------- MODULE UserProfile ----------------------------
(***************************************************************************)
(* internal/logic/user/profile.go for one user: the row in MySQL and the   *)
(* cached copy user:profile:{id}, which is read, filled and deleted        *)
(* without any lock.  A nickname is known by the number of its UPDATE.     *)
(***************************************************************************)
EXTENDS Handlers, Naturals

CONSTANT MaxEdits   \* bound: UPDATEs of the nickname

ASSUME ProfileAssumption == MaxEdits \in Nat

NotCached == 0

VARIABLES
  nickname,     \* the nickname in the row
  cached,       \* the nickname in the cache, or NotCached
  value,        \* value[p]: the nickname that p's request read or wrote
  published,    \* history: the newest nickname whose UpdateProfile was answered
  floor,        \* history: floor[p]: published when p's GetProfile began
  filledLate,   \* history: the copy in the cache is older than published was when
                \* it was written
  old           \* history: old[p]: filledLate when p read the cache

profileRequest == <<value, floor, old>>
profileVars    == <<nickname, cached, profileRequest, published, filledLate>>

ProfileStages == {"selectProfile", "fillProfile", "profile", "updateNickname", "deleteProfile"}

ProfileTypeOK ==
  /\ nickname \in 1..(MaxEdits + 1) /\ published \in 1..nickname
  /\ cached \in {NotCached} \cup (1..nickname)
  /\ filledLate => cached # NotCached
  /\ \A p \in Procs :
       /\ value[p] \in 0..nickname /\ floor[p] \in 0..published
       /\ at[p] \notin ProfileStages => value[p] = 0 /\ floor[p] = 0 /\ ~old[p]

ProfileInit ==
  /\ nickname = 1 /\ cached = NotCached /\ published = 1 /\ filledLate = FALSE
  /\ value = [p \in Procs |-> 0] /\ floor = [p \in Procs |-> 0]
  /\ old = [p \in Procs |-> FALSE]

\* GET: a copy in the cache is the answer.
GetProfile(p) ==
  /\ Trip(p, "idle", IF cached = NotCached THEN "selectProfile" ELSE "profile")
  /\ value' = [value EXCEPT ![p] = cached]
  /\ floor' = [floor EXCEPT ![p] = published]
  /\ old' = [old EXCEPT ![p] = filledLate]
  /\ UNCHANGED <<nickname, cached, published, filledLate>>

\* The row in MySQL.
SelectProfile(p) ==
  /\ Trip(p, "selectProfile", "fillProfile")
  /\ value' = [value EXCEPT ![p] = nickname]
  /\ UNCHANGED <<nickname, cached, published, filledLate, floor, old>>

\* SETEX, over whatever the key holds now.
FillProfile(p) ==
  /\ Trip(p, "fillProfile", "profile")
  /\ cached' = value[p]
  /\ filledLate' = (value[p] < published)
  /\ UNCHANGED <<nickname, profileRequest, published>>

ProfileForgets(p) ==
  /\ Ends(p)
  /\ value' = [value EXCEPT ![p] = 0]
  /\ floor' = [floor EXCEPT ![p] = 0]
  /\ old' = [old EXCEPT ![p] = FALSE]

\* The profile is the answer.
ProfileAnswered(p) ==
  /\ at[p] = "profile"
  /\ ProfileForgets(p)
  /\ UNCHANGED <<nickname, cached, published, filledLate>>

\* The COUNT finds the user.
UpdateProfile(p) ==
  /\ Trip(p, "idle", "updateNickname")
  /\ UNCHANGED profileVars

\* UPDATE.
UpdateNickname(p) ==
  /\ nickname <= MaxEdits
  /\ Trip(p, "updateNickname", "deleteProfile")
  /\ nickname' = nickname + 1
  /\ value' = [value EXCEPT ![p] = nickname']
  /\ UNCHANGED <<cached, published, filledLate, floor, old>>

\* The cached copy is forgotten.
KeepProfileCache(p) ==
  /\ at[p] = "deleteProfile"
  /\ ProfileForgets(p)
  /\ published' = IF value[p] > published THEN value[p] ELSE published
  /\ UNCHANGED <<nickname, cached, filledLate>>

\* DEL, and UpdateProfile is answered.
DeleteProfileCache(p) ==
  /\ at[p] = "deleteProfile"
  /\ ProfileForgets(p)
  /\ cached' = NotCached /\ filledLate' = FALSE
  /\ published' = IF value[p] > published THEN value[p] ELSE published
  /\ UNCHANGED nickname

\* An error at the next round trip, a lost reply, or the death of the instance.
ProfileFails(p) ==
  /\ at[p] \in ProfileStages
  /\ ProfileForgets(p)
  /\ UNCHANGED <<nickname, cached, published, filledLate>>

\* The TTL of 30 minutes.
ProfileExpires ==
  /\ cached # NotCached
  /\ cached' = NotCached /\ filledLate' = FALSE
  /\ UNCHANGED <<at, nickname, profileRequest, published>>

ProfileNext ==
  \/ \E p \in Procs :
       \/ GetProfile(p) \/ SelectProfile(p) \/ FillProfile(p) \/ ProfileAnswered(p)
       \/ UpdateProfile(p) \/ UpdateNickname(p) \/ DeleteProfileCache(p)
       \/ ProfileFails(p)
  \/ ProfileExpires

ProfileSpec ==
  HandlersInit /\ ProfileInit /\ [][ProfileNext]_<<at, profileVars>>

-----------------------------------------------------------------------------
\* GetProfile answers with no older nickname than the newest whose UpdateProfile
\* was answered before it began, whoever fails: an UpdateProfile that fails at
\* its DEL was not answered.  The exception is a copy that a slow GetProfile,
\* whose SELECT was before that UPDATE, put into the cache after its DEL.
ProfileSettled ==
  \A p \in Procs : at[p] = "profile" => old[p] \/ value[p] >= floor[p]
=============================================================================
